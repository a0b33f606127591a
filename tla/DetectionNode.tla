---------------------------- MODULE DetectionNode ----------------------------
(***************************************************************************)
(* detection/detection.py between a motion service and an alert service,   *)
(* on hosts that Swarm moves the three services between.  A service puts   *)
(* its topics into the namespace of the host it runs on, which it reads    *)
(* when it starts: a message arrives only where the namespaces agree.      *)
(*                                                                         *)
(* The detector answers the images of its KEEP_LAST queue one by one.  The *)
(* motion service's image carries the host name and a time of day of its   *)
(* own clock.  YOLO finds what is at least as certain as the threshold.    *)
(***************************************************************************)
EXTENDS Shared, FiniteSets

CONSTANTS
    Hosts,          \* the nodes of the swarm
    HostName,       \* host -> name, as /host_hostname shows it
    ClockError,     \* host -> how far its clock is ahead
    YamlConfidence, \* the threshold in config.yaml
    Certainties,    \* how certain an object in an image may be
    QueueDepth,     \* depth of the subscription
    MaxImages,      \* bound: images
    MaxMoves,       \* bound: moves
    LastTime        \* bound: time

ASSUME DetectionAssumption ==
    /\ HostName \in [Hosts -> Seq(STRING) \ {<<>>}]
    /\ ClockError \in [Hosts -> Int]
    /\ {YamlConfidence, MaxImages, MaxMoves, LastTime} \subseteq Nat
    /\ QueueDepth \in Nat \ {0}

VARIABLES
    place,          \* where each service runs
    moves,          \* moves so far
    env,            \* the environment variable YOLO_..._CONFIDENCE
    confidence,     \* DETECTION_CONFIDENCE of the detector process
    theTime,        \* the true time
    imageCount,     \* images published
    imageQueue,     \* the detector's subscription
    ages,           \* the queue ages it logged, with the true ones (log)
    arrived         \* results at the alert service (log)

detectionVars == <<place, moves, env, confidence, theTime, imageCount,
                   imageQueue, ages, arrived>>

Services == {"motion", "detector", "alert"}
ImageMessages == [id : 1..MaxImages, sender : Hosts, ts : 0..(Day - 1), at : 0..LastTime,
                  certainty : Certainties, intact : BOOLEAN]

\* The namespace and the clock of a service.
NamespaceOf(h) == RosNamespace(ResolveDeviceHostname(HostName[h], <<>>, HostName[h]))

\* Mutant of Heard: a topic without a namespace.
HeardEverywhere(from, to) == TRUE

Heard(from, to) == NamespaceOf(place[from]) = NamespaceOf(place[to])
TimeOfDay(h) == (theTime + ClockError[h]) % Day

DetectionInit ==
    /\ place \in [Services -> Hosts]
    /\ moves = 0
    /\ env \in Texts \cup {Unset}
    /\ confidence = Load(env, YamlConfidence)
    /\ theTime = 0
    /\ imageCount = 0
    /\ imageQueue = <<>>
    /\ ages = {}
    /\ arrived = {}

\* Mutant of ArriveImage: the queue has no limit.
ArriveUnbounded(m) == Append(imageQueue, m)

\* KEEP_LAST: the oldest image makes room.
ArriveImage(m) ==
    Append(IF Len(imageQueue) < QueueDepth THEN imageQueue ELSE Tail(imageQueue), m)

\* publish_motion_image of the motion service.
PublishToDetector ==
    /\ imageCount < MaxImages
    /\ imageCount' = imageCount + 1
    /\ \E c \in Certainties, intact \in BOOLEAN :
          LET m == [id |-> imageCount + 1, sender |-> place["motion"],
                    ts |-> TimeOfDay(place["motion"]), at |-> theTime,
                    certainty |-> c, intact |-> intact] IN
          imageQueue' = IF Heard("motion", "detector") THEN ArriveImage(m) ELSE imageQueue
    /\ UNCHANGED <<place, moves, env, confidence, theTime, ages, arrived>>

\* publish_detection_results, with the sender and the id of the image.
ResultOf(m) ==
    [id |-> m.id, sender |-> m.sender, found |-> m.certainty >= confidence,
     certainty |-> m.certainty, at |-> place["alert"]]

\* cv2.imdecode fails: no result is published.
UndecodedImage == imageQueue' = Tail(imageQueue) /\ UNCHANGED <<ages, arrived>>

\* on_image
OnImage ==
    /\ imageQueue # <<>>
    /\ LET m == Head(imageQueue) IN
          IF ~m.intact
          THEN UndecodedImage
          ELSE /\ imageQueue' = Tail(imageQueue)
               /\ ages' = ages \cup {[age |-> QueueAge(m.ts, TimeOfDay(place["detector"])),
                                      delay |-> theTime - m.at, sender |-> m.sender,
                                      receiver |-> place["detector"]]}
               /\ arrived' = IF Heard("detector", "alert") THEN arrived \cup {ResultOf(m)} ELSE arrived
    /\ UNCHANGED <<place, moves, env, confidence, theTime, imageCount>>

\* Swarm restarts a service on this or another host; a detector loses its queue
\* and loads its configuration.
MoveService(s, h) ==
    /\ moves < MaxMoves
    /\ moves' = moves + 1
    /\ place' = [place EXCEPT ![s] = h]
    /\ imageQueue' = IF s = "detector" THEN <<>> ELSE imageQueue
    /\ confidence' = IF s = "detector" THEN Load(env, YamlConfidence) ELSE confidence
    /\ UNCHANGED <<env, theTime, imageCount, ages, arrived>>

DetectionTick ==
    /\ theTime < LastTime
    /\ theTime' = theTime + 1
    /\ UNCHANGED <<place, moves, env, confidence, imageCount, imageQueue, ages, arrived>>

DetectionOver ==
    /\ imageCount = MaxImages /\ imageQueue = <<>> /\ theTime = LastTime
    /\ UNCHANGED detectionVars

DetectionNext ==
    \/ PublishToDetector \/ OnImage \/ DetectionTick \/ DetectionOver
    \/ \E s \in Services, h \in Hosts : MoveService(s, h)

DetectionSpec == DetectionInit /\ [][DetectionNext]_detectionVars

-----------------------------------------------------------------------------
(* Properties.                                                             *)

\* Type correctness.
DetectionTypeOK ==
    /\ place \in [Services -> Hosts]
    /\ moves \in 0..MaxMoves
    /\ env \in Texts \cup {Unset}
    /\ confidence \in Nat
    /\ theTime \in 0..LastTime
    /\ imageCount \in 0..MaxImages
    /\ Len(imageQueue) <= QueueDepth
    /\ \A i \in DOMAIN imageQueue : imageQueue[i] \in ImageMessages

\* A result that reaches an alert service is about an image of a motion service
\* in the same namespace, wherever the services were moved in between: a pipeline
\* that is cut by a move mixes nothing up, unless two hosts' names become the same
\* namespace ("a-b" and "a_b").
OwnNamespace == \A r \in arrived : NamespaceOf(r.sender) = NamespaceOf(r.at)

\* The logged age is the true one up to whole days and to what the two clocks
\* differ by: a receiver whose clock is slightly behind logs almost a day.
AgeUpToDays ==
    \A a \in ages :
        /\ a.age \in 0..(Day - 1)
        /\ (a.age - (a.delay + ClockError[a.receiver] - ClockError[a.sender])) % Day = 0

=============================================================================
