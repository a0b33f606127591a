\* README.md:41: image ids are unique.
SPECIFICATION Spec
CONSTANTS
    Nodes <- MCOneNode
    Labels <- MCLabels
    Classes <- MCClasses
    Lower <- MCLower
    Results <- MCResults
    Cooldown = 2
    Enabled = TRUE
    DryRun = FALSE
    Channels <- MCNoChannel
    MaxTime = 1
    MaxRestarts = 0
    MaxCalls = 0
    Wait = 1
    Depth = 2
    CocoResults <- MCPerson
    FireResults <- MCFireResults
    MaxFlags = 2
    MaxFrames = 2
    MaxCameraRestarts = 1
INVARIANTS
    PictureMatchesResult
