------------------------------- MODULE MCDrafts ------------------------------
(* Three parts of .draft/, small: a process among two peers, a motion node  *)
(* and a system monitor, which may move once; the event path with two       *)
(* motion nodes; the recorder.  They share nothing: each behaviour is one   *)
(* of one of them, the others stay in their initial state.                  *)
EXTENDS PeerNode, DraftEvents, Recorder

VARIABLE part

MCPeers == {"cam-motion", "jetson-system_monitor"}
MCMotionPeers == {"cam-motion"}
MCMonitorPeers == {"jetson-system_monitor"}
MCPrograms ==
    {"node", "node_pubsub", "sub_img", "sub_img_jpeg", "detection_zeromq", "requests",
     "api_subscriber", "server", "detection_weapon", "pub_img", "motion_ffmpeg",
     "system_monitor", "recorder"}
MCSenders == {"cam", "door"}
MCSubscribers == {"u", "v"}
MCConnected == [u \in MCSubscribers |-> IF u = "u" THEN MCSenders ELSE {"door"}]
MCServers == {"app", "test_server"}
MCFrames == [s \in MCSenders |-> IF s = "cam" THEN 3 ELSE 1]

MCInit ==
    /\ part \in {"peers", "events", "recorder"}
    /\ Init /\ EventsInit /\ RecorderInit
    /\ part # "peers" => program = "node" /\ discovery = "send"
    /\ part # "events" => server = "app"

MCNext ==
    /\ UNCHANGED part
    /\ \/ part = "peers" /\ Next /\ UNCHANGED <<eventsVars, recorderVars>>
       \/ part = "events" /\ EventsNext /\ UNCHANGED <<vars, recorderVars>>
       \/ part = "recorder" /\ RecorderNext /\ UNCHANGED <<vars, eventsVars>>

MCSpec ==
    /\ MCInit /\ [][MCNext]_<<part, vars, eventsVars, recorderVars>>
    /\ WF_vars(part = "peers" /\ DiscoveryLoop)
    /\ WF_vars(part = "peers" /\ Process /\ UNCHANGED discoveryVars)
    /\ WF_vars(part = "peers" /\ Exit)

\* Type correctness of the programs and of the event path.
DraftsTypeOK == TypeOK /\ EventsTypeOK
=============================================================================
