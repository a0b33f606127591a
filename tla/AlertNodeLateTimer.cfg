\* README.md:9: results are waited for, and alert.py:294: only events without one in
\* time are flushed.
SPECIFICATION Spec
CONSTANTS
    Nodes <- MCOneNode
    Labels <- MCLabels
    Classes <- MCClasses
    Lower <- MCLower
    Results <- MCResults
    Cooldown = 2
    Enabled = TRUE
    DryRun = FALSE
    Channels <- MCNoChannel
    MaxTime = 1
    MaxRestarts = 0
    MaxCalls = 0
    Wait = 1
    Depth = 1
    CocoResults <- MCNothing
    FireResults <- MCFireOnly
    MaxFlags = 1
    MaxFrames = 1
    MaxCameraRestarts = 0
PROPERTIES
    TimelyAnswerUsed
