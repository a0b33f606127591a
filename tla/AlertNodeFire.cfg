\* README.md:9: a fire detection fires immediately.
SPECIFICATION Spec
CONSTANTS
    Nodes <- MCOneNode
    Labels <- MCLabels
    Classes <- MCClasses
    Lower <- MCLower
    Results <- MCResults
    Cooldown = 2
    Enabled = TRUE
    DryRun = FALSE
    Channels <- MCNoChannel
    MaxTime = 1
    MaxRestarts = 0
    MaxCalls = 0
    Wait = 1
    Depth = 2
    CocoResults <- MCCocoResults
    FireResults <- MCFireResults
    MaxFlags = 1
    MaxFrames = 1
    MaxCameraRestarts = 0
INVARIANTS
    FireReachesAlert
