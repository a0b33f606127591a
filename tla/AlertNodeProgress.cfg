\* A Telegram request that blocks the executor, and one restart.
SPECIFICATION Spec
CONSTANTS
    Nodes <- MCOneNode
    Labels <- MCLabels
    Classes <- MCClasses
    Lower <- MCLower
    Results <- MCResults
    Cooldown = 2
    Enabled = TRUE
    DryRun = FALSE
    Channels <- MCTelegram
    MaxTime = 4
    MaxRestarts = 1
    MaxCalls = 0
    Wait = 2
    Depth = 2
    CocoResults <- MCNothing
    FireResults <- MCFireOnly
    MaxFlags = 2
    MaxFrames = 1
    MaxCameraRestarts = 0
INVARIANTS
    WaitingEventIsFound
PROPERTIES
    NothingStuck
