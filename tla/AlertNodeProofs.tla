---------------------------- MODULE AlertNodeProofs --------------------------
(***************************************************************************)
(* Proofs about AlertNode: type correctness, the limiter inside the node,  *)
(* one event per flag, one processing per event, and no result wasted on   *)
(* an event that waits; for any nodes, labels, queue depths, waits and     *)
(* restarts of the node and of the motion processes.                       *)
(***************************************************************************)
EXTENDS AlertNode, AlertManagerProofs

\* A queue that takes a message keeps its type, its content and its order.
LEMMA ArriveType ==
    ASSUME NEW S, NEW q \in Seq(S), NEW m \in S
    PROVE  Arrive(q, m) \in Seq(S)
<1>1. Len(q) >= Depth => q # <<>> /\ Tail(q) \in Seq(S)
  BY NodeAssumption
<1>2. Len(q) \in Nat /\ Depth \in Nat
  BY NodeAssumption
<1> QED  BY <1>1, <1>2 DEF Arrive

LEMMA ArriveContent ==
    ASSUME NEW S, NEW q \in Seq(S), NEW m \in S
    PROVE  \E d \in {0, 1} : \A i \in DOMAIN Arrive(q, m) :
              /\ i \in Nat /\ i <= Len(Arrive(q, m))
              /\ \/ i = Len(Arrive(q, m)) /\ Arrive(q, m)[i] = m
                 \/ /\ i # Len(Arrive(q, m))
                    /\ i + d \in DOMAIN q /\ Arrive(q, m)[i] = q[i + d]
<1>1. CASE Len(q) < Depth
  <2>1. Arrive(q, m) = Append(q, m)
    BY <1>1 DEF Arrive
  <2>2. \A i \in DOMAIN Append(q, m) :
           /\ i \in Nat /\ i <= Len(Append(q, m))
           /\ \/ i = Len(Append(q, m)) /\ Append(q, m)[i] = m
              \/ i # Len(Append(q, m)) /\ i + 0 \in DOMAIN q /\ Append(q, m)[i] = q[i + 0]
    OBVIOUS
  <2> QED  BY <2>1, <2>2
<1>2. CASE ~(Len(q) < Depth)
  <2>1. q # <<>>
    BY <1>2, NodeAssumption
  <2>2. Arrive(q, m) = Append(Tail(q), m)
    BY <1>2 DEF Arrive
  <2>3. Tail(q) \in Seq(S) /\ Len(Tail(q)) = Len(q) - 1 /\ Len(q) \in Nat \ {0}
    BY <2>1
  <2>4. \A k \in 1..Len(Tail(q)) : Tail(q)[k] = q[k + 1]
    BY <2>1
  <2>5. \A i \in DOMAIN Append(Tail(q), m) :
           /\ i \in Nat /\ i <= Len(Append(Tail(q), m))
           /\ \/ i = Len(Append(Tail(q), m)) /\ Append(Tail(q), m)[i] = m
              \/ /\ i # Len(Append(Tail(q), m))
                 /\ i + 1 \in DOMAIN q /\ Append(Tail(q), m)[i] = q[i + 1]
    BY <2>3, <2>4
  <2> QED  BY <2>2, <2>5
<1> QED  BY <1>1, <1>2

LEMMA ContentType == ASSUME NEW S, NEW q \in Seq(S) PROVE \A i \in DOMAIN q : q[i] \in S
BY ElementOfSeq, LenProperties

\* The messages that wait after one was read.
LEMMA TailContent ==
    ASSUME NEW S, NEW q \in Seq(S), q # <<>>
    PROVE  /\ Head(q) \in S /\ Head(q) = q[1] /\ 1 \in DOMAIN q
           /\ Tail(q) \in Seq(S)
           /\ \A i \in DOMAIN Tail(q) : i + 1 \in DOMAIN q /\ Tail(q)[i] = q[i + 1] /\ i + 1 > 1
OBVIOUS

-----------------------------------------------------------------------------
(* Type correctness and the limiter.                                       *)

NodeTypes ==
    /\ currentEvents \in [Nodes -> Nat]
    /\ pendingEvents \subseteq Event
    /\ processed \subseteq Processed
    /\ unmatched \subseteq Unmatched

TopicTypes ==
    /\ flags \in Seq(Flag)
    /\ images \in Seq(Image)
    /\ detections \in [DetectionTopics -> Seq(Detection)]

WorldTypes ==
    /\ {flagsSent, framesSent, imageIds, cameraRestarts} \subseteq [Nodes -> Nat]
    /\ awaited \subseteq DetectionTopics \X Image

Types == ManagerInv /\ NodeTypes /\ TopicTypes /\ WorldTypes

LEMMA InitTypes == Init => Types
<1> SUFFICES ASSUME Init PROVE Types
  OBVIOUS
<1>1. NodeTypes
  BY DEF Init, NodeInit, NodeTypes, NoFlag
<1>2. TopicTypes
  BY DEF Init, TopicInit, TopicTypes
<1>3. WorldTypes
  BY DEF Init, WorldInit, WorldTypes
<1> QED  BY <1>1, <1>2, <1>3, ManagerInitInv DEF Init, Types

LEMMA FlagTypes == Types /\ OnMotionFlag => Types'
<1> SUFFICES ASSUME Types, OnMotionFlag PROVE Types'
  OBVIOUS
<1>1. ManagerInv'
  BY SameManagerInv DEF OnMotionFlag, Types
<1>2. Head(flags) \in Flag /\ Tail(flags) \in Seq(Flag)
  BY DEF OnMotionFlag, Types, TopicTypes
<1>3. NodeTypes'
  BY <1>2 DEF OnMotionFlag, Types, NodeTypes, Flag
<1> QED  BY <1>1, <1>2, <1>3 DEF OnMotionFlag, Types, TopicTypes, WorldTypes, worldVars, cameraVars

LEMMA ImageTypes == Types /\ (IgnoreImage \/ QueueImage) => Types'
<1> SUFFICES ASSUME Types, IgnoreImage \/ QueueImage PROVE Types'
  OBVIOUS
<1>1. ManagerInv'
  BY SameManagerInv DEF IgnoreImage, QueueImage, Types
<1>2. Head(images) \in Image /\ Tail(images) \in Seq(Image)
  BY DEF IgnoreImage, QueueImage, Types, TopicTypes
<1>3. TopicTypes' /\ WorldTypes'
  BY <1>2 DEF IgnoreImage, QueueImage, Types, TopicTypes, WorldTypes, worldVars, cameraVars
<1>4. CASE IgnoreImage
  BY <1>1, <1>3, <1>4 DEF IgnoreImage, Types, NodeTypes, nodeVars
<1>5. CASE QueueImage
  <2>1. now \in Nat /\ Wait \in Nat
    BY NodeAssumption DEF Types, ManagerInv, ManagerTypeOK
  <2>2. NewEvent(Head(images)) \in Event
    BY <1>2, <2>1 DEF NewEvent, Event, Image, Types, NodeTypes
  <2>3. NodeTypes'
    BY <1>2, <1>5, <2>2 DEF QueueImage, UseUp, NoFlag, Types, NodeTypes, Image
  <2> QED  BY <1>1, <1>3, <2>3 DEF Types
<1> QED  BY <1>4, <1>5

LEMMA DetectionTypes ==
    ASSUME Types, NEW t \in DetectionTopics, Correlate(t) \/ IgnoreDetection(t)
    PROVE  Types'
<1>0. detections[t] # <<>> /\ detections[t] \in Seq(Detection)
  BY DEF Correlate, IgnoreDetection, Types, TopicTypes
<1>1. Head(detections[t]) \in Detection /\ Tail(detections[t]) \in Seq(Detection)
  BY <1>0
<1>2. TopicTypes' /\ WorldTypes'
  BY <1>1 DEF Correlate, IgnoreDetection, Types, TopicTypes, WorldTypes, worldVars, cameraVars
<1>3. now \in Nat
  BY DEF Types, ManagerInv, ManagerTypeOK
<1>4. CASE Correlate(t)
  <2> DEFINE m == Head(detections[t])
  <2>1. PICK e \in Matching(m) :
            /\ pendingEvents' = Pop(e)
            /\ processed' = processed \cup
                   {[event |-> e, how |-> t, frame |-> m.frame, at |-> now]}
            /\ ProcessEvent(e.sender, m.labels, TRUE)
    BY <1>4 DEF Correlate
  <2>2. e \in Event /\ e.sender \in Nodes /\ m.labels \in SUBSET Labels /\ m.frame \in Nat
    BY <1>1 DEF Matching, Types, NodeTypes, Event, Detection
  <2>3. UNCHANGED <<now, incarnation>>
    BY <1>4 DEF Correlate
  <2>4. ManagerInv'
    <3>1. TRUE \in BOOLEAN
      OBVIOUS
    <3> HIDE DEF m
    <3> QED  BY <2>1, <2>2, <2>3, <3>1, ProcessEventInv DEF Types
  <2>5. [event |-> e, how |-> t, frame |-> m.frame, at |-> now] \in Processed
    BY <1>3, <2>2 DEF Processed
  <2>6. NodeTypes'
    BY <1>4, <2>1, <2>5 DEF Correlate, Pop, Types, NodeTypes
  <2> QED  BY <1>2, <2>4, <2>6 DEF Types
<1>5. CASE IgnoreDetection(t)
  <2>1. ManagerInv'
    BY <1>5, SameManagerInv DEF IgnoreDetection, NoAlert, Types
  <2>2. NodeTypes'
    BY <1>1, <1>3, <1>5 DEF IgnoreDetection, Types, NodeTypes, Unmatched
  <2> QED  BY <1>2, <2>1, <2>2 DEF Types
<1> QED  BY <1>4, <1>5

LEMMA FlushTypes == Types /\ FlushPending => Types'
<1> SUFFICES ASSUME Types, FlushPending PROVE Types'
  OBVIOUS
<1>1. ManagerInv'
  BY SameManagerInv DEF FlushPending, Types
<1>2. now \in Nat
  BY DEF Types, ManagerInv, ManagerTypeOK
<1>3. NodeTypes'
  BY <1>2 DEF FlushPending, Overdue, Types, NodeTypes, Processed
<1> QED  BY <1>1, <1>3 DEF FlushPending, Types, TopicTypes, WorldTypes, topicVars, worldVars, cameraVars

LEMMA PostingTypes == Types /\ Posting => Types'
<1> SUFFICES ASSUME Types, Posting PROVE Types'
  OBVIOUS
<1>1. ManagerInv'
  BY PostingInv DEF Posting, Types
<1> QED  BY <1>1 DEF Posting, Types, NodeTypes, TopicTypes, WorldTypes, nodeVars, topicVars, worldVars, cameraVars

LEMMA RestartTypes == Types /\ Restart => Types'
<1> SUFFICES ASSUME Types, Restart PROVE Types'
  OBVIOUS
<1>1. ManagerInv'
  BY RestartInv DEF Restart, Types
<1> QED  BY <1>1 DEF Restart, Types, NodeTypes, TopicTypes, WorldTypes, worldVars, cameraVars, NoFlag

LEMMA TickTypes == Types /\ Tick => Types'
<1> SUFFICES ASSUME Types, Tick PROVE Types'
  OBVIOUS
<1>1. ManagerInv'
  BY ClockInv DEF Tick, Types
<1> QED  BY <1>1 DEF Tick, Types, NodeTypes, TopicTypes, WorldTypes, topicVars, worldVars, cameraVars

LEMMA EnvironmentTypes == Types /\ Environment => Types'
<1> SUFFICES ASSUME Types, Environment PROVE Types'
  OBVIOUS
<1>1. ASSUME NEW s \in Nodes, PublishFlag(s) PROVE Types'
  <2>1. ManagerInv' /\ NodeTypes'
    BY <1>1, SameManagerInv DEF PublishFlag, Types, NodeTypes, nodeVars
  <2>2. PICK f \in {0, 1} :
            flags' = Arrive(flags, [sender |-> s, flag |-> f, ts |-> flagsSent[s] + 1])
    BY <1>1 DEF PublishFlag
  <2>3. [sender |-> s, flag |-> f, ts |-> flagsSent[s] + 1] \in Flag
    BY DEF Flag, Types, WorldTypes
  <2>4. flags' \in Seq(Flag)
    BY <2>2, <2>3, ArriveType DEF Types, TopicTypes
  <2>5. WorldTypes'
    BY <1>1 DEF PublishFlag, Types, WorldTypes
  <2> QED  BY <1>1, <2>1, <2>4, <2>5 DEF PublishFlag, Types, TopicTypes
<1>2. ASSUME NEW s \in Nodes, PublishImage(s) PROVE Types'
  <2> DEFINE m == [sender |-> s, id |-> imageIds[s], frame |-> framesSent[s] + 1]
  <2>1. ManagerInv' /\ NodeTypes'
    BY <1>2, SameManagerInv DEF PublishImage, Types, NodeTypes, nodeVars
  <2>2. m \in Image
    BY DEF Image, Types, WorldTypes
  <2>3. images' \in Seq(Image)
    BY <1>2, <2>2, ArriveType DEF PublishImage, Types, TopicTypes
  <2>4. awaited' = awaited \cup (DetectionTopics \X {m})
    BY <1>2 DEF PublishImage
  <2>5. awaited' \subseteq DetectionTopics \X Image
    BY <2>2, <2>4 DEF Types, WorldTypes
  <2> HIDE DEF m
  <2>6. WorldTypes'
    BY <1>2, <2>5 DEF PublishImage, Types, WorldTypes
  <2> QED  BY <1>2, <2>1, <2>3, <2>6 DEF PublishImage, Types, TopicTypes
<1>3. ASSUME NEW t \in DetectionTopics, PublishDetection(t) PROVE Types'
  <2>1. PICK w \in awaited, D \in ResultsOf(t) :
            /\ detections' = [detections EXCEPT ![t] =
                   Arrive(@, [sender |-> w[2].sender, id |-> w[2].id,
                              frame |-> w[2].frame, labels |-> D, ts |-> now])]
            /\ awaited' = awaited \ {w}
    BY <1>3 DEF PublishDetection
  <2>2. ManagerInv' /\ NodeTypes'
    BY <1>3, SameManagerInv DEF PublishDetection, Types, NodeTypes, nodeVars
  <2>3. w[2] \in Image /\ D \in SUBSET Labels /\ now \in Nat
    BY NodeAssumption DEF ResultsOf, Types, WorldTypes, ManagerInv, ManagerTypeOK
  <2>4. [sender |-> w[2].sender, id |-> w[2].id, frame |-> w[2].frame,
         labels |-> D, ts |-> now] \in Detection
    BY <2>3 DEF Image, Detection
  <2>5. detections' \in [DetectionTopics -> Seq(Detection)]
    BY <2>1, <2>4, ArriveType DEF Types, TopicTypes
  <2> QED  BY <1>3, <2>1, <2>2, <2>5 DEF PublishDetection, Types, TopicTypes, WorldTypes, cameraVars
<1>4. ASSUME NEW s \in Nodes, CameraRestart(s) PROVE Types'
  <2>1. ManagerInv' /\ NodeTypes'
    BY <1>4, SameManagerInv DEF CameraRestart, Types, NodeTypes, nodeVars
  <2> QED  BY <1>4, <2>1 DEF CameraRestart, Types, TopicTypes, WorldTypes, topicVars
<1> QED  BY <1>1, <1>2, <1>3, <1>4 DEF Environment

LEMMA StepTypes == Types /\ [Next]_vars => Types'
<1>1. Types /\ UNCHANGED vars => Types'
  <2> SUFFICES ASSUME Types, UNCHANGED vars PROVE Types'
    OBVIOUS
  <2>1. ManagerInv'
    BY SameManagerInv DEF vars, Types
  <2> QED  BY <2>1 DEF vars, Types, NodeTypes, TopicTypes, WorldTypes, nodeVars, topicVars, worldVars, cameraVars
<1> QED  BY <1>1, FlagTypes, ImageTypes, DetectionTypes, FlushTypes, PostingTypes, RestartTypes,
            TickTypes, EnvironmentTypes DEF Next, Executor, TimeUp

LEMMA TypesHold == Spec => []Types
BY InitTypes, StepTypes, PTL DEF Spec

\* The steps of the flush timer, in three kinds.
LEMMA TimerHolds == Spec => [](timerReady \in BOOLEAN)
<1>1. Init => timerReady \in BOOLEAN
  BY Zenon DEF Init, NodeInit
<1>2. [Next]_vars => timerReady' = timerReady \/ timerReady' = TRUE \/ timerReady' = FALSE
  BY DEF Next, Executor, OnMotionFlag, IgnoreImage, QueueImage, Correlate, IgnoreDetection,
         FlushPending, Posting, Restart, Tick, TimeUp, Environment, PublishFlag, PublishImage,
         PublishDetection, CameraRestart, vars, nodeVars
<1>3. timerReady \in BOOLEAN /\ [Next]_vars => (timerReady \in BOOLEAN)'
  BY <1>2, Zenon
<1> QED  BY <1>1, <1>3, PTL DEF Spec

\* The node, its queues and its environment are well typed.
THEOREM NodeTypeCorrect == Spec => []TypeOK
<1>1. Types /\ timerReady \in BOOLEAN => TypeOK
  BY DEF Types, ManagerInv, NodeTypes, TopicTypes, WorldTypes, TypeOK
<1> QED  BY <1>1, TypesHold, TimerHolds, PTL

\* The limiter keeps its promise inside the node, between its callbacks, requests
\* and restarts.
THEOREM NodeSpacing == Spec => [](AlertSpacing /\ SummaryJustified)
<1>1. Types => AlertSpacing /\ SummaryJustified
  BY DEF Types, ManagerInv
<1> QED  BY <1>1, TypesHold, PTL

-----------------------------------------------------------------------------
(* No result is wasted on an event that waits.                             *)

\* WaitingEventIsFound speaks of events that were processed; the same holds of
\* those that wait, whose deadline tells when they were queued.
ResultsSeen ==
    /\ \A p \in processed : p.at <= now
    /\ \A u \in unmatched : u.at <= now
    /\ \A u \in unmatched, e \in pendingEvents :
          Key(u.result) = Key(e) => u.at <= e.deadline - Wait
    /\ WaitingEventIsFound

LEMMA StepResultsSeen == Types /\ ResultsSeen /\ [Next]_vars => ResultsSeen'
<1> SUFFICES ASSUME Types, ResultsSeen, [Next]_vars PROVE ResultsSeen'
  OBVIOUS
<1>0. now \in Nat /\ Wait \in Nat
  BY NodeAssumption DEF Types, ManagerInv, ManagerTypeOK
<1>1. ASSUME pendingEvents' \subseteq pendingEvents, now' = now \/ now' = now + 1,
             UNCHANGED <<processed, unmatched>>
      PROVE  ResultsSeen'
  <2>1. \A p \in processed : p.at \in Nat
    BY DEF Types, NodeTypes, Processed
  <2>2. \A u \in unmatched : u.at \in Nat
    BY DEF Types, NodeTypes, Unmatched
  <2> QED  BY <1>0, <1>1, <2>1, <2>2 DEF ResultsSeen, WaitingEventIsFound
<1>2. CASE OnMotionFlag \/ IgnoreImage \/ Posting \/ Restart \/ Tick \/ TimeUp \/ Environment
           \/ UNCHANGED vars
  BY <1>1, <1>2 DEF OnMotionFlag, IgnoreImage, Posting, TelegramReturns, WebhookReturns, Restart,
     Tick, AdvanceClock, TimeUp, Environment, PublishFlag, PublishImage, PublishDetection,
     CameraRestart, vars, nodeVars
<1>3. CASE QueueImage
  <2>1. /\ pendingEvents' = {e \in pendingEvents : Key(e) # Key(Head(images))}
                               \cup {NewEvent(Head(images))}
        /\ UNCHANGED <<now, processed, unmatched>>
    BY <1>3 DEF QueueImage
  <2>2. NewEvent(Head(images)).deadline - Wait = now
    BY <1>0 DEF NewEvent
  <2>3. \A u \in unmatched : u.at <= NewEvent(Head(images)).deadline - Wait
    BY <2>2 DEF ResultsSeen
  <2> QED  BY <2>1, <2>3 DEF ResultsSeen, WaitingEventIsFound
<1>4. ASSUME NEW t \in DetectionTopics, Correlate(t) PROVE ResultsSeen'
  <2>1. PICK e \in Matching(Head(detections[t])) :
            /\ pendingEvents' = Pop(e)
            /\ processed' = processed \cup
                   {[event |-> e, how |-> t, frame |-> Head(detections[t]).frame, at |-> now]}
    BY <1>4 DEF Correlate
  <2>2. e \in pendingEvents /\ pendingEvents' \subseteq pendingEvents
    BY <2>1 DEF Matching, Pop
  <2>3. UNCHANGED <<now, unmatched>>
    BY <1>4 DEF Correlate
  <2> QED  BY <1>0, <2>1, <2>2, <2>3 DEF ResultsSeen, WaitingEventIsFound
<1>5. ASSUME NEW t \in DetectionTopics, IgnoreDetection(t) PROVE ResultsSeen'
  <2> DEFINE m == Head(detections[t])
  <2>1. /\ Matching(m) = {}
        /\ unmatched' = unmatched \cup {[topic |-> t, result |-> m, at |-> now]}
        /\ UNCHANGED <<now, pendingEvents, processed>>
    BY <1>5 DEF IgnoreDetection
  <2>2. \A e \in pendingEvents : Key(m) # Key(e)
    BY <2>1 DEF Matching
  <2> HIDE DEF m
  <2> QED  BY <1>0, <2>1, <2>2 DEF ResultsSeen, WaitingEventIsFound
<1>6. CASE FlushPending
  <2>1. /\ processed' = processed \cup
               {[event |-> e, how |-> "expired", frame |-> 0, at |-> now] : e \in Overdue}
        /\ pendingEvents' = pendingEvents \ Overdue
        /\ UNCHANGED <<now, unmatched>>
    BY <1>6 DEF FlushPending
  <2>2. \A p \in processed' :
           p \in processed \/ (p.event \in pendingEvents /\ p.at = now)
    BY <2>1 DEF Overdue
  <2> QED  BY <1>0, <2>1, <2>2 DEF ResultsSeen, WaitingEventIsFound
<1> QED  BY <1>2, <1>3, <1>4, <1>5, <1>6 DEF Next, Executor

\* A result logged as having no pending event was not read while one of its key
\* was pending.
THEOREM NodeWaitingEventIsFound == Spec => []WaitingEventIsFound
<1>1. Init => ResultsSeen
  BY DEF Init, NodeInit, ResultsSeen, WaitingEventIsFound
<1>2. ResultsSeen => WaitingEventIsFound
  BY DEF ResultsSeen
<1> QED  BY <1>1, <1>2, StepResultsSeen, TypesHold, PTL DEF Spec

-----------------------------------------------------------------------------
(* One event per flag, one processing per event.                           *)

\* The flags of a sender are read in the order of their serial numbers: what
\* waits is newer than the remembered flag, and that is newer than the flag of
\* any event.
FlagOrder ==
    /\ \A i \in DOMAIN flags : flags[i].ts <= flagsSent[flags[i].sender]
    /\ \A i, j \in DOMAIN flags :
          i < j /\ flags[i].sender = flags[j].sender => flags[i].ts < flags[j].ts
    /\ \A i \in DOMAIN flags : currentEvents[flags[i].sender] < flags[i].ts
    /\ \A s \in Nodes : currentEvents[s] <= flagsSent[s]
    /\ \A e \in Events : e.flag <= flagsSent[e.sender]
    /\ \A e \in Events, i \in DOMAIN flags :
          flags[i].sender = e.sender => e.flag < flags[i].ts
    /\ \A e \in Events :
          currentEvents[e.sender] # NoFlag => e.flag < currentEvents[e.sender]

EventTypes == \A e \in Events : e \in Event

LEMMA EventsTyped == Types => EventTypes
BY DEF Types, NodeTypes, EventTypes, Events, Processed

LEMMA FlagsTyped ==
    ASSUME Types
    PROVE  /\ flags \in Seq(Flag) /\ images \in Seq(Image)
           /\ \A i \in DOMAIN flags :
                 i \in Nat /\ flags[i] \in Flag /\ flags[i].sender \in Nodes /\ flags[i].ts \in Nat
           /\ currentEvents \in [Nodes -> Nat]
           /\ flagsSent \in [Nodes -> Nat]
           /\ \A e \in Events : e.sender \in Nodes /\ e.flag \in Nat
<1>1. flags \in Seq(Flag) /\ images \in Seq(Image)
  BY DEF Types, TopicTypes
<1>2. \A i \in DOMAIN flags : i \in Nat /\ flags[i] \in Flag
  BY <1>1, ElementOfSeq, LenProperties
<1>3. \A m \in Flag : m.sender \in Nodes /\ m.ts \in Nat
  BY DEF Flag
<1>4. \A e \in Events : e.sender \in Nodes /\ e.flag \in Nat
  BY EventsTyped DEF EventTypes, Event
<1> QED  BY <1>1, <1>2, <1>3, <1>4 DEF Types, NodeTypes, WorldTypes

LEMMA StepFlagOrder == Types /\ FlagOrder /\ [Next]_vars => FlagOrder'
<1> SUFFICES ASSUME Types, FlagOrder, [Next]_vars PROVE FlagOrder'
  OBVIOUS
<1>0. /\ flags \in Seq(Flag) /\ images \in Seq(Image)
      /\ \A i \in DOMAIN flags :
            i \in Nat /\ flags[i] \in Flag /\ flags[i].sender \in Nodes /\ flags[i].ts \in Nat
      /\ currentEvents \in [Nodes -> Nat]
      /\ flagsSent \in [Nodes -> Nat]
      /\ \A e \in Events : e.sender \in Nodes /\ e.flag \in Nat
  BY FlagsTyped
<1>00. flagsSent \in [Nodes -> Nat] /\ currentEvents \in [Nodes -> Nat]
  BY <1>0
<1>1. ASSUME UNCHANGED <<flags, currentEvents>>, Events' \subseteq Events,
             \A s \in Nodes : flagsSent'[s] = flagsSent[s]
      PROVE  FlagOrder'
  <2>1. \A i \in DOMAIN flags : flags[i].sender \in Nodes
    BY <1>0 DEF Flag
  <2>2. \A e \in Events : e.sender \in Nodes
    BY <1>0 DEF EventTypes, Event
  <2> QED  BY <1>1, <2>1, <2>2 DEF FlagOrder
<1>2. CASE OnMotionFlag
  <2> DEFINE m == Head(flags)
  <2>1. /\ flags # <<>> /\ flags' = Tail(flags)
        /\ currentEvents' = IF m.flag = 1
                            THEN [currentEvents EXCEPT ![m.sender] = m.ts]
                            ELSE currentEvents
        /\ UNCHANGED <<flagsSent, pendingEvents, processed>>
    BY <1>2 DEF OnMotionFlag, worldVars, cameraVars
  <2>2. /\ m \in Flag /\ m = flags[1] /\ 1 \in DOMAIN flags
        /\ \A i \in DOMAIN flags' : i + 1 \in DOMAIN flags /\ flags'[i] = flags[i + 1] /\ i + 1 > 1
    BY <1>0, <2>1, TailContent
  <2>3. Events' = Events
    BY <2>1 DEF Events
  <2>4. DOMAIN flags' \subseteq Int /\ DOMAIN flags \subseteq Int
    BY <1>0, <2>1
  <2> HIDE DEF m
  <2>5. /\ \A i \in DOMAIN flags' : flags'[i].ts <= flagsSent'[flags'[i].sender]
        /\ \A i, j \in DOMAIN flags' :
              i < j /\ flags'[i].sender = flags'[j].sender => flags'[i].ts < flags'[j].ts
    BY <2>1, <2>2, <2>4 DEF FlagOrder
  <2>6. \A i \in DOMAIN flags' : currentEvents'[flags'[i].sender] < flags'[i].ts
    BY <1>0, <2>1, <2>2, <2>4 DEF FlagOrder, Flag
  <2>7. \A s \in Nodes : currentEvents'[s] <= flagsSent'[s]
    BY <1>0, <2>1, <2>2 DEF FlagOrder, Flag
  <2>8. \A e \in Events' :
           /\ e.flag <= flagsSent'[e.sender]
           /\ currentEvents'[e.sender] # NoFlag => e.flag < currentEvents'[e.sender]
    BY <1>0, <2>1, <2>2, <2>3 DEF FlagOrder, Flag
  <2>9. \A e \in Events', i \in DOMAIN flags' :
           flags'[i].sender = e.sender => e.flag < flags'[i].ts
    BY <2>2, <2>3 DEF FlagOrder
  <2> QED  BY <2>5, <2>6, <2>7, <2>8, <2>9 DEF FlagOrder
<1>3. CASE QueueImage
  <2> DEFINE m == Head(images)
             n == NewEvent(m)
  <2>0. m.sender \in Nodes
    <3>1. images # <<>> /\ images \in Seq(Image)
      BY <1>0, <1>3 DEF QueueImage
    <3>2. m \in Image
      BY <3>1
    <3> QED  BY <3>2 DEF Image
  <2>1. /\ currentEvents[m.sender] # NoFlag
        /\ currentEvents' = [currentEvents EXCEPT ![m.sender] = NoFlag]
        /\ pendingEvents' \subseteq pendingEvents \cup {n}
        /\ UNCHANGED <<flags, flagsSent, processed>>
    BY <1>3 DEF QueueImage, UseUp, worldVars, cameraVars
  <2>2. n.sender = m.sender /\ n.flag = currentEvents[m.sender]
    BY DEF NewEvent
  <2>3. \A e \in Events' : e \in Events \/ e = n
    BY <2>1 DEF Events
  <2> HIDE DEF m, n
  <2>4. \A s \in Nodes :
           /\ currentEvents'[s] \in Nat /\ currentEvents[s] \in Nat /\ flagsSent[s] \in Nat
           /\ currentEvents'[s] <= currentEvents[s]
           /\ currentEvents'[s] # NoFlag =>
                 s # m.sender /\ currentEvents'[s] = currentEvents[s]
    BY <1>00, <2>0, <2>1 DEF NoFlag
  <2>5. \A i \in DOMAIN flags : flags[i].sender \in Nodes /\ flags[i].ts \in Nat
    BY <1>0 DEF Flag
  <2>6. \A e \in Events : e.sender \in Nodes /\ e.flag \in Nat
    BY <1>0 DEF EventTypes, Event
  <2>7. \A i \in DOMAIN flags : currentEvents'[flags[i].sender] < flags[i].ts
    BY <2>4, <2>5 DEF FlagOrder
  <2>8. \A s \in Nodes : currentEvents'[s] <= flagsSent[s]
    BY <2>4 DEF FlagOrder
  <2>9. \A e \in Events' :
           /\ e.flag <= flagsSent[e.sender]
           /\ \A i \in DOMAIN flags : flags[i].sender = e.sender => e.flag < flags[i].ts
           /\ currentEvents'[e.sender] # NoFlag => e.flag < currentEvents'[e.sender]
    BY <2>0, <2>1, <2>2, <2>3, <2>4, <2>5, <2>6 DEF FlagOrder
  <2> QED  BY <2>1, <2>7, <2>8, <2>9 DEF FlagOrder
<1>4. CASE \E t \in DetectionTopics : Correlate(t) \/ IgnoreDetection(t)
  <2>1. Events' \subseteq Events
    <3>1. ASSUME NEW t \in DetectionTopics, Correlate(t) PROVE Events' \subseteq Events
      <4>1. PICK e \in Matching(Head(detections[t])) :
                /\ pendingEvents' = Pop(e)
                /\ processed' = processed \cup
                       {[event |-> e, how |-> t, frame |-> Head(detections[t]).frame, at |-> now]}
        BY <3>1 DEF Correlate
      <4>2. e \in pendingEvents
        BY DEF Matching
      <4>3. \A p \in processed' : p \in processed \/ p.event = e
        BY <4>1
      <4> QED  BY <4>1, <4>2, <4>3 DEF Pop, Events
    <3>2. ASSUME NEW t \in DetectionTopics, IgnoreDetection(t) PROVE Events' \subseteq Events
      BY <3>2 DEF IgnoreDetection, Events
    <3> QED  BY <1>4, <3>1, <3>2
  <2> QED  BY <1>1, <1>4, <2>1 DEF Correlate, IgnoreDetection, worldVars, cameraVars
<1>5. CASE FlushPending
  <2>1. Events' \subseteq Events
    BY <1>5 DEF FlushPending, Overdue, Events
  <2> QED  BY <1>1, <1>5, <2>1 DEF FlushPending, topicVars, worldVars, cameraVars
<1>6. CASE Restart
  <2>1. Events' \subseteq Events
    BY <1>6 DEF Restart, Events
  <2>2. \A s \in Nodes : flagsSent[s] \in Nat
    BY <1>0
  <2>3. DOMAIN flags' = {}
    BY <1>6 DEF Restart
  <2>4. flagsSent' = flagsSent /\ currentEvents' = [s \in Nodes |-> NoFlag]
    BY <1>6 DEF Restart, worldVars, cameraVars
  <2>5. \A s \in Nodes : currentEvents'[s] = 0
    BY <2>4 DEF NoFlag
  <2>6. \A e \in Events' : e.sender \in Nodes /\ e.flag <= flagsSent[e.sender]
    BY <1>0, <2>1 DEF FlagOrder
  <2> QED  BY <2>2, <2>3, <2>4, <2>5, <2>6 DEF FlagOrder, NoFlag
<1>7. ASSUME NEW s \in Nodes, PublishFlag(s) PROVE FlagOrder'
  <2>1. PICK f \in {0, 1} :
            flags' = Arrive(flags, [sender |-> s, flag |-> f, ts |-> flagsSent[s] + 1])
    BY <1>7 DEF PublishFlag
  <2> DEFINE n == [sender |-> s, flag |-> f, ts |-> flagsSent[s] + 1]
  <2>2. n \in Flag /\ n.sender = s /\ n.ts = flagsSent[s] + 1
    BY <1>0 DEF Flag
  <2>3. /\ flagsSent'[s] = flagsSent[s] + 1
        /\ \A r \in Nodes : r # s => flagsSent'[r] = flagsSent[r]
        /\ UNCHANGED <<currentEvents, pendingEvents, processed>>
    BY <1>0, <1>7 DEF PublishFlag, nodeVars
  <2>4. Events' = Events
    BY <2>3 DEF Events
  <2>5. flags' \in Seq(Flag)
    BY <1>0, <2>1, <2>2, ArriveType
  <2> HIDE DEF n
  <2>6. flags' = Arrive(flags, n)
    BY <2>1 DEF n
  <2>7. PICK d \in {0, 1} : \A i \in DOMAIN flags' :
            /\ i \in Nat /\ i <= Len(flags')
            /\ \/ i = Len(flags') /\ flags'[i] = n
               \/ /\ i # Len(flags')
                  /\ i + d \in DOMAIN flags /\ flags'[i] = flags[i + d]
    <3>1. flags \in Seq(Flag) /\ n \in Flag
      BY <1>0, <2>2
    <3>2. \E d \in {0, 1} : \A i \in DOMAIN Arrive(flags, n) :
              /\ i \in Nat /\ i <= Len(Arrive(flags, n))
              /\ \/ i = Len(Arrive(flags, n)) /\ Arrive(flags, n)[i] = n
                 \/ /\ i # Len(Arrive(flags, n))
                    /\ i + d \in DOMAIN flags /\ Arrive(flags, n)[i] = flags[i + d]
      BY <3>1, ArriveContent
    <3> QED  BY <2>6, <3>2, Zenon
  <2>8. \A i \in DOMAIN flags' :
           flags'[i] = n \/ \E k \in DOMAIN flags : flags'[i] = flags[k]
    BY <2>7
  <2>9. \A r \in Nodes : flagsSent[r] \in Nat /\ flagsSent[r] <= flagsSent'[r]
                       /\ flagsSent'[r] \in Nat /\ currentEvents[r] \in Nat
    BY <1>00, <2>3
  <2>10. \A k \in DOMAIN flags : flags[k].sender \in Nodes /\ flags[k].ts \in Nat
    BY <1>0 DEF Flag
  <2>11. \A e \in Events : e.sender \in Nodes /\ e.flag \in Nat
    BY <1>0 DEF EventTypes, Event
  <2>12. \A i \in DOMAIN flags' : flags'[i].ts <= flagsSent'[flags'[i].sender]
    BY <2>2, <2>3, <2>8, <2>9, <2>10 DEF FlagOrder
  <2>13. \A i, j \in DOMAIN flags' :
            i < j /\ flags'[i].sender = flags'[j].sender => flags'[i].ts < flags'[j].ts
    <3> SUFFICES ASSUME NEW i \in DOMAIN flags', NEW j \in DOMAIN flags', i < j,
                        flags'[i].sender = flags'[j].sender
                 PROVE  flags'[i].ts < flags'[j].ts
      OBVIOUS
    <3>1. Len(flags') \in Nat
      BY <2>5
    <3>2. i + d \in DOMAIN flags /\ flags'[i] = flags[i + d]
      BY <2>7, <3>1
    <3>3. CASE j = Len(flags')
      BY <2>2, <2>7, <2>9, <2>10, <3>2, <3>3 DEF FlagOrder
    <3>4. CASE j # Len(flags')
      <4>1. j + d \in DOMAIN flags /\ flags'[j] = flags[j + d] /\ i + d < j + d
        BY <2>7, <3>4
      <4> QED  BY <3>2, <4>1 DEF FlagOrder
    <3> QED  BY <3>3, <3>4
  <2>14. \A i \in DOMAIN flags' : currentEvents'[flags'[i].sender] < flags'[i].ts
    BY <2>2, <2>3, <2>8, <2>9, <2>10 DEF FlagOrder
  <2>15. \A r \in Nodes : currentEvents'[r] <= flagsSent'[r]
    BY <2>3, <2>9 DEF FlagOrder
  <2>16. \A e \in Events' : e.flag <= flagsSent'[e.sender]
    BY <2>3, <2>4, <2>9, <2>11 DEF FlagOrder
  <2>17. \A e \in Events', i \in DOMAIN flags' :
            flags'[i].sender = e.sender => e.flag < flags'[i].ts
    BY <2>2, <2>4, <2>8, <2>9, <2>11 DEF FlagOrder
  <2>18. \A e \in Events' :
            currentEvents'[e.sender] # NoFlag => e.flag < currentEvents'[e.sender]
    BY <2>3, <2>4 DEF FlagOrder
  <2> QED  BY <2>12, <2>13, <2>14, <2>15, <2>16, <2>17, <2>18 DEF FlagOrder
<1>8. ASSUME NEW s \in Nodes, PublishImage(s) \/ CameraRestart(s) PROVE FlagOrder'
  <2>1. \A r \in Nodes : flagsSent'[r] = flagsSent[r]
    BY <1>0, <1>8 DEF PublishImage, CameraRestart
  <2>2. UNCHANGED <<flags, nodeVars>>
    BY <1>8 DEF PublishImage, CameraRestart, topicVars
  <2> QED  BY <1>1, <2>1, <2>2 DEF Events, nodeVars
<1>9. ASSUME NEW t \in DetectionTopics, PublishDetection(t) PROVE FlagOrder'
  BY <1>1, <1>9 DEF PublishDetection, Events, nodeVars, cameraVars
<1>10. CASE IgnoreImage \/ Posting \/ Tick \/ TimeUp \/ UNCHANGED vars
  BY <1>1, <1>10 DEF IgnoreImage, Posting, Tick, TimeUp, vars, nodeVars, topicVars, worldVars, cameraVars, Events
<1> QED  BY <1>2, <1>3, <1>4, <1>5, <1>6, <1>7, <1>8, <1>9, <1>10 DEF Next, Executor, Environment

LEMMA OrderHolds == Spec => []FlagOrder
<1>1. Init => FlagOrder
  BY DEF Init, NodeInit, TopicInit, WorldInit, FlagOrder, Events, NoFlag
<1> QED  BY <1>1, StepFlagOrder, TypesHold, PTL DEF Spec

\* What an event becomes: it stays, or it moves from the pending events to the
\* log, once.  A new one has a newer flag than all others of its sender.
LEMMA StepOnce == Types /\ FlagOrder /\ AtMostOnce /\ [Next]_vars => AtMostOnce'
<1> SUFFICES ASSUME Types, FlagOrder, AtMostOnce, [Next]_vars PROVE AtMostOnce'
  OBVIOUS
<1>1. ASSUME pendingEvents' \subseteq pendingEvents, processed' = processed PROVE AtMostOnce'
  BY <1>1 DEF AtMostOnce, FlagUsedOnce, ProcessedOnce, Events
<1>2. CASE OnMotionFlag \/ IgnoreImage \/ Posting \/ Restart \/ Tick \/ TimeUp \/ Environment
           \/ UNCHANGED vars
  BY <1>1, <1>2 DEF OnMotionFlag, IgnoreImage, Posting, Restart, Tick, TimeUp, Environment,
     PublishFlag, PublishImage, PublishDetection, CameraRestart, vars, nodeVars
<1>3. CASE QueueImage
  <2> DEFINE n == NewEvent(Head(images))
  <2>1. /\ currentEvents[Head(images).sender] # NoFlag
        /\ pendingEvents' \subseteq pendingEvents \cup {n}
        /\ processed' = processed
    BY <1>3 DEF QueueImage
  <2>2. n.sender = Head(images).sender /\ n.flag = currentEvents[Head(images).sender]
    BY DEF NewEvent
  <2> HIDE DEF n
  <2>3. \A e \in Events : e.flag \in Nat
    BY FlagsTyped
  <2>4. \A e \in Events : e.sender = n.sender => e.flag < n.flag
    BY <2>1, <2>2 DEF FlagOrder
  <2>5. \A e \in Events : ~(e.sender = n.sender /\ e.flag = n.flag)
    BY <2>3, <2>4
  <2>6. Events' \subseteq Events \cup {n}
    BY <2>1 DEF Events
  <2>7. FlagUsedOnce'
    BY <2>5, <2>6 DEF AtMostOnce, FlagUsedOnce
  <2>8. n \notin Events
    BY <2>5
  <2>9. ProcessedOnce'
    BY <2>1, <2>8 DEF AtMostOnce, ProcessedOnce, Events
  <2> QED  BY <2>7, <2>9 DEF AtMostOnce
<1>4. ASSUME NEW t \in DetectionTopics, Correlate(t) PROVE AtMostOnce'
  <2>1. PICK e \in Matching(Head(detections[t])) :
            /\ pendingEvents' = Pop(e)
            /\ processed' = processed \cup
                   {[event |-> e, how |-> t, frame |-> Head(detections[t]).frame, at |-> now]}
    BY <1>4 DEF Correlate
  <2> DEFINE q == [event |-> e, how |-> t, frame |-> Head(detections[t]).frame, at |-> now]
  <2>2. e \in pendingEvents /\ pendingEvents' = pendingEvents \ {e}
    BY <2>1 DEF Matching, Pop
  <2>3. processed' = processed \cup {q} /\ q.event = e
    BY <2>1
  <2> HIDE DEF q
  <2>4. \A p \in processed : p.event # e
    BY <2>2 DEF AtMostOnce, ProcessedOnce
  <2>5. ProcessedOnce'
    BY <2>2, <2>3, <2>4 DEF AtMostOnce, ProcessedOnce
  <2>6. Events' \subseteq Events
    BY <2>2, <2>3 DEF Events
  <2> QED  BY <2>5, <2>6 DEF AtMostOnce, FlagUsedOnce
<1>5. ASSUME NEW t \in DetectionTopics, IgnoreDetection(t) PROVE AtMostOnce'
  BY <1>1, <1>5 DEF IgnoreDetection
<1>6. CASE FlushPending
  <2> DEFINE line(e) == [event |-> e, how |-> "expired", frame |-> 0, at |-> now]
  <2>1. /\ processed' = processed \cup {line(e) : e \in Overdue}
        /\ pendingEvents' = pendingEvents \ Overdue
    BY <1>6 DEF FlushPending
  <2>2. \A e : line(e).event = e
    OBVIOUS
  <2>3. \A p \in processed' :
           p \in processed \/ (p.event \in Overdue /\ p = line(p.event))
    BY <2>1, <2>2
  <2> HIDE DEF line
  <2>4. Overdue \subseteq pendingEvents /\ \A p \in processed : p.event \notin Overdue
    BY DEF Overdue, AtMostOnce, ProcessedOnce
  <2>5. ProcessedOnce'
    BY <2>1, <2>3, <2>4 DEF AtMostOnce, ProcessedOnce
  <2>6. Events' \subseteq Events
    BY <2>1, <2>3, <2>4 DEF Events
  <2> QED  BY <2>5, <2>6 DEF AtMostOnce, FlagUsedOnce
<1> QED  BY <1>2, <1>3, <1>4, <1>5, <1>6 DEF Next, Executor

\* A motion flag makes at most one event, whatever images repeat or come late, and
\* an event is processed at most once, by a detector or by the timer.
THEOREM NodeAtMostOnce == Spec => []AtMostOnce
<1>1. Init => AtMostOnce
  BY DEF Init, NodeInit, AtMostOnce, FlagUsedOnce, ProcessedOnce, Events
<1> QED  BY <1>1, StepOnce, TypesHold, OrderHolds, PTL DEF Spec

-----------------------------------------------------------------------------
(* The manager inside the node: each step of the node is one of its steps.  *)

LEMMA NodeTakesManagerSteps == Types /\ [Next]_vars => ManagerStep
<1> SUFFICES ASSUME Types, [Next]_vars PROVE ManagerStep
  OBVIOUS
<1>1. CASE OnMotionFlag \/ IgnoreImage \/ QueueImage \/ FlushPending \/ Environment \/ TimeUp
           \/ UNCHANGED vars
  BY <1>1 DEF OnMotionFlag, IgnoreImage, QueueImage, FlushPending, Environment, PublishFlag,
     PublishImage, PublishDetection, CameraRestart, TimeUp, vars, ManagerStep, amVars
<1>2. ASSUME NEW t \in DetectionTopics, Correlate(t) PROVE ManagerStep
  <2> DEFINE m == Head(detections[t])
  <2>1. m \in Detection
    BY <1>2 DEF Correlate, Types, TopicTypes
  <2>2. PICK e \in Matching(m) : ProcessEvent(e.sender, m.labels, TRUE)
    BY <1>2 DEF Correlate
  <2>3. e.sender \in Nodes /\ m.labels \in SUBSET Labels
    BY <2>1 DEF Matching, Types, NodeTypes, Event, Detection
  <2> HIDE DEF m
  <2>4. \E n \in Nodes, D \in SUBSET Labels, image \in BOOLEAN : ProcessEvent(n, D, image)
    BY <2>2, <2>3
  <2>5. posting = "none" /\ UNCHANGED <<now, incarnation>>
    BY <1>2 DEF Correlate, Idle
  <2> QED  BY <2>4, <2>5 DEF CallStep, ManagerStep
<1>3. ASSUME NEW t \in DetectionTopics, IgnoreDetection(t) PROVE ManagerStep
  BY <1>3 DEF IgnoreDetection, NoAlert, ManagerStep, amVars
<1>4. CASE Posting \/ Restart \/ Tick
  BY <1>4 DEF Posting, Restart, Tick, ManagerStep
<1> QED  BY <1>1, <1>2, <1>3, <1>4 DEF Next, Executor

LEMMA NodeDispatchInv == Spec => []DispatchInv
<1>1. Init => DispatchInv
  BY DispatchInit DEF Init
<1>2. Types /\ DispatchInv /\ [Next]_vars => DispatchInv'
  BY DispatchStep, NodeTakesManagerSteps DEF Types
<1> QED  BY <1>1, <1>2, TypesHold, PTL DEF Spec

\* Inside the node too, a free executor has posted each alert of its process once
\* to each channel: no callback runs between the requests of one alert.
THEOREM NodeDispatch == Spec => []DispatchComplete
BY NodeDispatchInv, DispatchIsComplete, PTL

\* The node as a whole implements AlertThrottle, whatever it reads and in whatever
\* order.
THEOREM NodeImplementsThrottle == Spec => ThrottlePromise
<1>1. Types => ManagerInv
  BY DEF Types
<1>2. Init => HasLatest /\ Throttle!ThrottleInit
  BY LatestInit, ThrottleStart DEF Init
<1>3. Types /\ HasLatest /\ [Next]_vars => HasLatest'
  BY <1>1, StepHasLatest, NodeTakesManagerSteps
<1>4. Types /\ Types' /\ HasLatest /\ [Next]_vars
         => [Throttle!ThrottleNext]_(Throttle!throttleVars)
  <2>1. Types' => ManagerInv'
    BY DEF Types
  <2> QED  BY <1>1, <2>1, ThrottleStep, NodeTakesManagerSteps
<1> QED  BY <1>2, <1>3, <1>4, TypesHold, PTL DEF Spec, ThrottlePromise, Throttle!ThrottleSpec

-----------------------------------------------------------------------------
(* The picture of an event.                                                *)

\* While a motion process has not restarted, it numbers its images as it makes
\* them: from the publisher through the queues and detectors to the log, an id
\* tells the picture.
Numbered(x) == cameraRestarts[x.sender] = 0 => x.id = x.frame

OneLife ==
    /\ \A s \in Nodes : cameraRestarts[s] = 0 => imageIds[s] = framesSent[s] + 1
    /\ \A i \in DOMAIN images : Numbered(images[i])
    /\ \A w \in awaited : Numbered(w[2])
    /\ \A t \in DetectionTopics : \A i \in DOMAIN detections[t] : Numbered(detections[t][i])
    /\ \A e \in pendingEvents : Numbered(e)
    /\ \A p \in processed : Numbered(p.event)
    /\ PictureMatchesInOneLife

LEMMA StepOneLife == Types /\ OneLife /\ [Next]_vars => OneLife'
<1> SUFFICES ASSUME Types, OneLife, [Next]_vars PROVE OneLife'
  OBVIOUS
<1>0. images \in Seq(Image) /\ detections \in [DetectionTopics -> Seq(Detection)]
  BY DEF Types, TopicTypes
<1>1. ASSUME UNCHANGED <<cameraRestarts, imageIds, framesSent, images, detections, awaited,
                         processed>>,
             pendingEvents' \subseteq pendingEvents
      PROVE  OneLife'
  BY <1>1 DEF OneLife, Numbered, PictureMatchesInOneLife
<1>2. CASE OnMotionFlag \/ Posting \/ Tick \/ TimeUp \/ UNCHANGED vars
  BY <1>1, <1>2 DEF OnMotionFlag, Posting, Tick, TimeUp, vars, nodeVars, topicVars, worldVars,
     cameraVars
<1>3. CASE IgnoreImage \/ QueueImage
  <2> DEFINE m == Head(images)
  <2>1. /\ images # <<>> /\ images' = Tail(images)
        /\ pendingEvents' \subseteq pendingEvents \cup {NewEvent(m)}
        /\ UNCHANGED <<cameraRestarts, imageIds, framesSent, detections, awaited, processed>>
    BY <1>3 DEF IgnoreImage, QueueImage, nodeVars, worldVars, cameraVars
  <2>2. /\ \A i \in DOMAIN images' : i + 1 \in DOMAIN images /\ images'[i] = images[i + 1]
        /\ 1 \in DOMAIN images /\ m = images[1]
    BY <1>0, <2>1, TailContent
  <2>3. Numbered(NewEvent(m))
    BY <2>2 DEF OneLife, Numbered, NewEvent
  <2> HIDE DEF m
  <2> QED  BY <2>1, <2>2, <2>3 DEF OneLife, Numbered, PictureMatchesInOneLife
<1>4. ASSUME NEW t \in DetectionTopics, Correlate(t) \/ IgnoreDetection(t) PROVE OneLife'
  <2> DEFINE m == Head(detections[t])
  <2>1. /\ detections[t] # <<>>
        /\ detections' = [detections EXCEPT ![t] = Tail(detections[t])]
        /\ UNCHANGED <<cameraRestarts, imageIds, framesSent, images, awaited>>
    BY <1>4 DEF Correlate, IgnoreDetection, worldVars, cameraVars
  <2>2. /\ 1 \in DOMAIN detections[t] /\ m = detections[t][1]
        /\ \A i \in DOMAIN Tail(detections[t]) :
              i + 1 \in DOMAIN detections[t] /\ Tail(detections[t])[i] = detections[t][i + 1]
    BY <1>0, <2>1, TailContent
  <2>3. \A u \in DetectionTopics : \A i \in DOMAIN detections'[u] : Numbered(detections'[u][i])
    BY <1>0, <2>1, <2>2 DEF OneLife
  <2>4. Numbered(m)
    BY <2>2 DEF OneLife
  <2> HIDE DEF m
  <2>5. \A p \in processed' :
           p \in processed \/
           (p.event \in pendingEvents /\ Key(p.event) = Key(m) /\ p.frame = m.frame)
    <3>1. CASE Correlate(t)
      <4>1. PICK e \in Matching(m) : processed' = processed \cup
                {[event |-> e, how |-> t, frame |-> m.frame, at |-> now]}
        BY <3>1 DEF Correlate, m
      <4>2. e \in pendingEvents /\ Key(e) = Key(m)
        BY DEF Matching
      <4> QED  BY <4>1, <4>2
    <3>2. CASE IgnoreDetection(t)
      BY <3>2 DEF IgnoreDetection
    <3> QED  BY <1>4, <3>1, <3>2
  <2>6. pendingEvents' \subseteq pendingEvents
    BY <1>4 DEF Correlate, IgnoreDetection, Pop
  <2>7. \A p \in processed' :
           /\ Numbered(p.event)
           /\ p.how \in DetectionTopics /\ cameraRestarts[p.event.sender] = 0
                 => p.frame = p.event.frame
    BY <2>4, <2>5 DEF OneLife, Numbered, PictureMatchesInOneLife, Key
  <2> QED  BY <2>1, <2>3, <2>6, <2>7 DEF OneLife, Numbered, PictureMatchesInOneLife
<1>5. CASE FlushPending
  <2>1. /\ UNCHANGED <<cameraRestarts, imageIds, framesSent, images, detections, awaited>>
        /\ pendingEvents' \subseteq pendingEvents
        /\ \A p \in processed' : p \in processed \/ (p.event \in pendingEvents /\ p.how = "expired")
    BY <1>5 DEF FlushPending, Overdue, topicVars, worldVars, cameraVars
  <2> QED  BY <2>1 DEF OneLife, Numbered, PictureMatchesInOneLife, DetectionTopics
<1>6. CASE Restart
  BY <1>6 DEF Restart, OneLife, Numbered, PictureMatchesInOneLife, worldVars, cameraVars
<1>7. ASSUME NEW s \in Nodes, PublishFlag(s) PROVE OneLife'
  BY <1>1, <1>7 DEF PublishFlag, nodeVars
<1>8. ASSUME NEW s \in Nodes, PublishImage(s) PROVE OneLife'
  <2> DEFINE m == [sender |-> s, id |-> imageIds[s], frame |-> framesSent[s] + 1]
  <2>1. /\ images' = Arrive(images, m)
        /\ awaited' = awaited \cup (DetectionTopics \X {m})
        /\ framesSent' = [framesSent EXCEPT ![s] = @ + 1]
        /\ imageIds' = [imageIds EXCEPT ![s] = @ + 1]
        /\ UNCHANGED <<cameraRestarts, detections, pendingEvents, processed>>
    BY <1>8 DEF PublishImage, nodeVars
  <2>2. m \in Image
    BY DEF Image, Types, WorldTypes
  <2>3. Numbered(m)
    BY DEF OneLife, Numbered
  <2> HIDE DEF m
  <2>4. \A i \in DOMAIN images' : images'[i] = m \/ \E k \in DOMAIN images : images'[i] = images[k]
    BY <1>0, <2>1, <2>2, ArriveContent
  <2>5. \A r \in Nodes : cameraRestarts[r] = 0 => imageIds'[r] = framesSent'[r] + 1
    BY <2>1 DEF OneLife, Types, WorldTypes
  <2>6. \A w \in awaited' : Numbered(w[2])
    BY <2>1, <2>3 DEF OneLife
  <2> QED  BY <2>1, <2>3, <2>4, <2>5, <2>6 DEF OneLife, Numbered, PictureMatchesInOneLife
<1>9. ASSUME NEW t \in DetectionTopics, PublishDetection(t) PROVE OneLife'
  <2>1. PICK w \in awaited, D \in ResultsOf(t) :
            /\ detections' = [detections EXCEPT ![t] =
                   Arrive(@, [sender |-> w[2].sender, id |-> w[2].id,
                              frame |-> w[2].frame, labels |-> D, ts |-> now])]
            /\ awaited' = awaited \ {w}
    BY <1>9 DEF PublishDetection
  <2> DEFINE m == [sender |-> w[2].sender, id |-> w[2].id, frame |-> w[2].frame,
                   labels |-> D, ts |-> now]
  <2>2. m \in Detection
    BY NodeAssumption DEF ResultsOf, Image, Detection, Types, WorldTypes, ManagerInv, ManagerTypeOK
  <2>3. Numbered(m)
    BY <2>1 DEF OneLife, Numbered
  <2>4. UNCHANGED <<cameraRestarts, imageIds, framesSent, images, pendingEvents, processed>>
    BY <1>9 DEF PublishDetection, nodeVars, cameraVars
  <2>5. detections' = [detections EXCEPT ![t] = Arrive(detections[t], m)]
    BY <2>1
  <2> HIDE DEF m
  <2>6. \A i \in DOMAIN Arrive(detections[t], m) :
           \/ Arrive(detections[t], m)[i] = m
           \/ \E k \in DOMAIN detections[t] : Arrive(detections[t], m)[i] = detections[t][k]
    BY <1>0, <2>2, ArriveContent
  <2>7. \A u \in DetectionTopics : \A i \in DOMAIN detections'[u] : Numbered(detections'[u][i])
    BY <1>0, <2>3, <2>5, <2>6 DEF OneLife
  <2> QED  BY <2>1, <2>4, <2>7 DEF OneLife, Numbered, PictureMatchesInOneLife
<1>10. ASSUME NEW s \in Nodes, CameraRestart(s) PROVE OneLife'
  <2>1. /\ cameraRestarts' = [cameraRestarts EXCEPT ![s] = @ + 1]
        /\ imageIds' = [imageIds EXCEPT ![s] = 1]
        /\ UNCHANGED <<framesSent, images, detections, awaited, pendingEvents, processed>>
    BY <1>10 DEF CameraRestart, nodeVars, topicVars
  <2>2. cameraRestarts \in [Nodes -> Nat] /\ imageIds \in [Nodes -> Nat]
    BY DEF Types, WorldTypes
  <2>3. \A r \in Nodes : cameraRestarts'[r] = 0 =>
           cameraRestarts[r] = 0 /\ imageIds'[r] = imageIds[r]
    BY <2>1, <2>2
  <2>4. /\ \A i \in DOMAIN images : images[i].sender \in Nodes
        /\ \A w \in awaited : w[2].sender \in Nodes
        /\ \A t \in DetectionTopics : \A i \in DOMAIN detections[t] :
              detections[t][i].sender \in Nodes
        /\ \A e \in Events : e.sender \in Nodes
    <3>1. \A i \in DOMAIN images : images[i].sender \in Nodes
      <4>1. \A i \in DOMAIN images : images[i] \in Image
        BY <1>0, ContentType
      <4> QED  BY <4>1 DEF Image
    <3>2. \A w \in awaited : w[2].sender \in Nodes
      BY DEF Types, WorldTypes, Image
    <3>3. ASSUME NEW t \in DetectionTopics, NEW i \in DOMAIN detections[t]
          PROVE  detections[t][i].sender \in Nodes
      <4>1. detections[t][i] \in Detection
        BY <1>0, ContentType
      <4> QED  BY <4>1 DEF Detection
    <3> QED  BY <3>1, <3>2, <3>3, FlagsTyped
  <2> QED  BY <2>1, <2>3, <2>4 DEF OneLife, Numbered, PictureMatchesInOneLife, Events
<1> QED  BY <1>2, <1>3, <1>4, <1>5, <1>6, <1>7, <1>8, <1>9, <1>10 DEF Next, Executor, Environment

\* The picture sent with an alert is the one its detection was made in, for each
\* motion process that did not restart, however messages are lost or overtaken.
THEOREM NodePictureMatches == Spec => []PictureMatchesInOneLife
<1>1. Init => OneLife
  BY DEF Init, NodeInit, TopicInit, WorldInit, OneLife, PictureMatchesInOneLife
<1>2. OneLife => PictureMatchesInOneLife
  BY DEF OneLife
<1> QED  BY <1>1, <1>2, StepOneLife, TypesHold, PTL DEF Spec

-----------------------------------------------------------------------------
(* AlertNode implements EventLifecycle.                                    *)

\* The log of the processed events, as the abstract specification sees it.
Answered == {p.event : p \in {q \in processed : q.how \in DetectionTopics}}
Expired == {p.event : p \in {q \in processed : q.how = "expired"}}

LEMMA LogIsEvents == Answered \cup Expired \cup pendingEvents \subseteq Events
BY DEF Answered, Expired, Events

\* The slot of the abstract specification is the key of the node.
LEMMA SlotIsKey == \A e : Lifecycle!Slot(e) = Key(e)
BY DEF Lifecycle!Slot, Key

\* QueueImage admits an event never seen before: no other event has its flag.
LEMMA QueueAdmits == Types /\ FlagOrder /\ QueueImage => Lifecycle!Admit
<1> SUFFICES ASSUME Types, FlagOrder, QueueImage PROVE Lifecycle!Admit
  OBVIOUS
<1> DEFINE m == Head(images)
           n == NewEvent(m)
<1>1. /\ currentEvents[m.sender] # NoFlag
      /\ pendingEvents' = {e \in pendingEvents : Key(e) # Key(m)} \cup {n}
      /\ UNCHANGED <<now, processed, verdicts>>
  BY DEF QueueImage, managerVars
<1>2. n.sender = m.sender /\ n.flag = currentEvents[m.sender] /\ Key(n) = Key(m)
  BY DEF NewEvent, Key
<1> HIDE DEF m, n
<1>3. \A e \in Events : e.flag \in Nat /\ (e.sender = n.sender => e.flag < n.flag)
  BY <1>1, <1>2, FlagsTyped DEF FlagOrder
<1>4. n \notin Events
  BY <1>3
<1>5. n \notin pendingEvents \cup Answered \cup Expired
  BY <1>4, LogIsEvents
<1>6. pendingEvents' = {f \in pendingEvents : Lifecycle!Slot(f) # Lifecycle!Slot(n)} \cup {n}
  BY <1>1, <1>2, SlotIsKey
<1>7. n \in pendingEvents'
  BY <1>1
<1> QED  BY <1>1, <1>5, <1>6, <1>7 DEF Lifecycle!Admit, Answered, Expired

\* Correlate answers one waiting event, with one decision at most.
LEMMA CorrelateAnswers ==
    ASSUME Types, NEW t \in DetectionTopics, Correlate(t)
    PROVE  Lifecycle!Answer
<1> DEFINE m == Head(detections[t])
<1>1. PICK e \in Matching(m) :
          /\ pendingEvents' = Pop(e)
          /\ processed' = processed \cup
                 {[event |-> e, how |-> t, frame |-> m.frame, at |-> now]}
          /\ ProcessEvent(e.sender, m.labels, TRUE)
  BY DEF Correlate
<1> DEFINE q == [event |-> e, how |-> t, frame |-> m.frame, at |-> now]
<1>2. q.event = e /\ q.how = t /\ processed' = processed \cup {q}
  BY <1>1
<1>3. ProcessEvent(e.sender, m.labels, TRUE) /\ e \in pendingEvents /\ now' = now
  BY <1>1 DEF Matching, Correlate
<1> HIDE DEF q, m
<1>4. t # "expired"
  BY DEF DetectionTopics
<1>5. Answered' = Answered \cup {e}
  BY <1>2 DEF Answered
<1>6. Expired' = Expired
  BY <1>2, <1>4 DEF Expired
<1>7. Len(verdicts') \in {Len(verdicts), Len(verdicts) + 1}
  <2>1. \/ verdicts' = verdicts
        \/ \E v : verdicts' = Append(verdicts, v)
    BY <1>3 DEF ProcessEvent, Decide, managerVars
  <2>2. verdicts \in Seq(Verdict)
    BY DEF Types, ManagerInv, ManagerTypeOK
  <2> QED  BY <2>1, <2>2
<1>8. pendingEvents' = pendingEvents \ {e}
  BY <1>1 DEF Pop
<1> QED  BY <1>3, <1>5, <1>6, <1>7, <1>8 DEF Lifecycle!Answer, Answered, Expired

\* FlushPending expires what is overdue, and only that.
LEMMA FlushExpires == Types /\ FlushPending => Lifecycle!Expire
<1> SUFFICES ASSUME Types, FlushPending PROVE Lifecycle!Expire
  OBVIOUS
<1> DEFINE line(e) == [event |-> e, how |-> "expired", frame |-> 0, at |-> now]
<1>1. /\ processed' = processed \cup {line(e) : e \in Overdue}
      /\ pendingEvents' = pendingEvents \ Overdue
      /\ UNCHANGED <<now, verdicts>>
  BY DEF FlushPending, managerVars
<1>2. \A e : line(e).event = e /\ line(e).how = "expired"
  OBVIOUS
<1> HIDE DEF line
<1>3. Answered' = Answered
  BY <1>1, <1>2 DEF Answered, DetectionTopics
<1>4. Expired' = Expired \cup Overdue
  <2>1. \A p : p \in processed' <=> p \in processed \/ \E e \in Overdue : p = line(e)
    BY <1>1
  <2>2. \A e : e \in Expired' <=> \E p \in processed' : p.how = "expired" /\ e = p.event
    BY DEF Expired
  <2>3. \A e : e \in Expired <=> \E p \in processed : p.how = "expired" /\ e = p.event
    BY DEF Expired
  <2>4. \A e : e \in Expired' <=> e \in Expired \/ e \in Overdue
    BY <1>2, <2>1, <2>2, <2>3
  <2> QED  BY <2>4
<1>5. Overdue = {e \in pendingEvents : e.deadline <= now}
  BY DEF Overdue
<1>6. pendingEvents' = {e \in pendingEvents : e.deadline > now}
  <2>1. \A e \in pendingEvents : e.deadline \in Nat
    BY DEF Types, NodeTypes, Event
  <2>2. now \in Nat
    BY DEF Types, ManagerInv, ManagerTypeOK
  <2> QED  BY <1>1, <1>5, <2>1, <2>2
<1> QED  BY <1>1, <1>3, <1>4, <1>5, <1>6 DEF Lifecycle!Expire, Answered, Expired

LEMMA LifecycleStep ==
    Types /\ FlagOrder /\ [Next]_vars => [Lifecycle!LifecycleNext]_(Lifecycle!lifecycleVars)
<1> SUFFICES ASSUME Types, FlagOrder, [Next]_vars
             PROVE  \/ Lifecycle!LifecycleNext
                    \/ UNCHANGED <<now, pendingEvents, Answered, Expired, Len(verdicts)>>
  BY DEF Lifecycle!lifecycleVars, Answered, Expired
<1>1. ASSUME UNCHANGED <<now, pendingEvents, processed, verdicts>>
      PROVE  UNCHANGED <<now, pendingEvents, Answered, Expired, Len(verdicts)>>
  BY <1>1 DEF Answered, Expired
<1>2. CASE OnMotionFlag \/ IgnoreImage \/ Posting \/ TimeUp \/ Environment \/ UNCHANGED vars
           \/ \E t \in DetectionTopics : IgnoreDetection(t)
  BY <1>1, <1>2 DEF OnMotionFlag, IgnoreImage, Posting, TelegramReturns, WebhookReturns, TimeUp,
     Environment, PublishFlag, PublishImage, PublishDetection, CameraRestart, IgnoreDetection,
     NoAlert, vars, nodeVars, managerVars
<1>3. CASE Restart
  BY <1>3 DEF Restart, ManagerRestart, Lifecycle!LifecycleNext, Lifecycle!Crash
<1>4. CASE Tick
  BY <1>4 DEF Tick, AdvanceClock, managerVars, Lifecycle!LifecycleNext, Lifecycle!Advance
<1> QED  BY <1>2, <1>3, <1>4, QueueAdmits, CorrelateAnswers, FlushExpires
         DEF Next, Executor, Lifecycle!LifecycleNext

\* AlertNode implements EventLifecycle: an event is admitted once, waits, and leaves
\* once: answered with at most one decision, expired past its deadline, or lost.
THEOREM NodeImplementsLifecycle == Spec => LifecyclePromise
<1>1. Init => Lifecycle!LifecycleInit
  BY DEF Init, ManagerInit, NodeInit, Lifecycle!LifecycleInit
<1> QED  BY <1>1, LifecycleStep, TypesHold, OrderHolds, PTL
         DEF Spec, LifecyclePromise, Lifecycle!LifecycleSpec

=============================================================================
