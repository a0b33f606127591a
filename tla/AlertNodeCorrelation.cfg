\* A restart of the node, and one of a motion process that uses its image ids again;
\* queues of one message overflow.
SPECIFICATION Spec
CONSTANTS
    Nodes <- MCOneNode
    Labels <- MCLabels
    Classes <- MCClasses
    Lower <- MCLower
    Results <- MCResults
    Cooldown = 2
    Enabled = TRUE
    DryRun = FALSE
    Channels <- MCNoChannel
    MaxTime = 1
    MaxRestarts = 1
    MaxCalls = 0
    Wait = 1
    Depth = 1
    CocoResults <- MCNothing
    FireResults <- MCFireOnly
    MaxFlags = 2
    MaxFrames = 2
    MaxCameraRestarts = 1
INVARIANTS
    TypeOK
    PictureMatchesInOneLife
    AtMostOnce
PROPERTIES
    LifecyclePromise
