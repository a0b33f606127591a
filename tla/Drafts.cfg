\* Every program of .draft/ with two peers and one datagram buffered; two motion
\* nodes, two subscribers, either server and one crash; the recorder.
SPECIFICATION MCSpec
CONSTANTS
    Peers <- MCPeers
    Self = "self"
    Programs <- MCPrograms
    MotionPeers <- MCMotionPeers
    MonitorPeers <- MCMonitorPeers
    MovingPeers <- MCMonitorPeers
    MaxAddress = 2
    Backlog = 1
    MaxRequests = 2
    Senders <- MCSenders
    Subscribers <- MCSubscribers
    Connected <- MCConnected
    Servers <- MCServers
    MaxFrames <- MCFrames
    MaxCrashes = 1
    MaxClips = 2
INVARIANTS
    DraftsTypeOK
    FirstAddressPinned
    AnswersMatch
    AckedKept
    FileKept
    OwnFlag
    OneClip
PROPERTIES
    PeersFollowed
    StopExits
