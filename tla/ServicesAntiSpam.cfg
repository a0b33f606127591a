\* .draft/config.py:76 and 84: anti-spam, and the first detection sent immediately.
SPECIFICATION MCSpec
CONSTANTS
    Hosts <- MCHosts
    HostName <- MCHostName
    ClockError <- MCClockError
    LegalChars <- MCLegalChars
    Digits <- MCDigits
    Underscore = "_"
    Texts <- MCTexts
    FloatOf <- MCFloatOf
    Day = 2
    YamlConfidence = 1
    Certainties <- MCCertainties
    QueueDepth = 1
    MaxImages = 2
    MaxMoves = 1
    LastTime = 2
    Monitors <- MCMonitors
    Interval = 1
    Window = 2
    MaxRows = 3
    MaxBytes = 2
    LastTick = 4
    ClockSteps <- MCClockSteps
    Verdicts <- MCVerdicts
    AlertCooldown = 1
    DetectionWait = 1
    AlertsEnabled = TRUE
    AlertDryRun = FALSE
    AlertChannels <- MCChannels
    MaxAlertTime = 1
    MaxMotions = 1
    MaxPictures = 2
    MaxResults = 1
INVARIANTS
    AntiSpam
