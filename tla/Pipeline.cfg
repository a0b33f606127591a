\* The detection node on hosts whose names collide, three monitors with the
\* dashboard, and the alert service of .draft/ with a webhook.  The motion node: five
\* frames at any times, every exception, streams that end, and one restart.
SPECIFICATION PipelineSpec
CONSTANTS
    Hosts <- MCHosts
    HostName <- MCHostName
    ClockError <- MCClockError
    LegalChars <- MCLegalChars
    Digits <- MCDigits
    Underscore = "_"
    Texts <- MCTexts
    FloatOf <- MCFloatOf
    Day = 2
    YamlConfidence = 1
    Certainties <- MCCertainties
    QueueDepth = 1
    MaxImages = 2
    MaxMoves = 1
    LastTime = 2
    Monitors <- MCMonitors
    Interval = 1
    Window = 2
    MaxRows = 3
    MaxBytes = 2
    LastTick = 4
    ClockSteps <- MCClockSteps
    Verdicts <- MCVerdicts
    AlertCooldown = 1
    DetectionWait = 1
    AlertsEnabled = TRUE
    AlertDryRun = FALSE
    AlertChannels <- MCChannels
    MaxAlertTime = 1
    MaxMotions = 1
    MaxPictures = 2
    MaxResults = 1
    Pixels <- MCPixels
    Frames <- MCFrames
    PixelDiffThreshold = 50
    QuietPixels = 1
    PublishCooldown = 2
    MaxTime = 3
    MaxFrames = 5
    MaxRestarts = 1
INVARIANTS
    TypeOK
    ImageUnderFlag
    ImagesSpaced
    FlagTellsState
    ServicesTypeOK
    OwnNamespace
    AgeUpToDays
    RatesSound
    LatestBelongsToChart
    EventPerCopy
PROPERTIES
    MotionShown
    MessageShown
    RoundsGoOn
