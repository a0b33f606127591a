------------------------------ MODULE AlertNode -----------------------------
(***************************************************************************)
(* alert/alert.py, class AlertNode: the ROS 2 node that correlates motion  *)
(* flags, motion images and detection results and hands each correlated    *)
(* event to its AlertManager.                                              *)
(*                                                                         *)
(* One process, one single-threaded executor: a callback runs to its end   *)
(* before the next one starts, so each callback is one action, enabled     *)
(* while the executor is not blocked in a request of the manager.  Which   *)
(* ready callback runs next is open: the subscriptions are independent, so *)
(* messages of one topic arrive in order and those of two topics do not.   *)
(*                                                                         *)
(* The messages come from an open environment that may do all that         *)
(* motion/motion.py and detection/detection.py may: flags without an image *)
(* (encoding failed), images without a flag (continuous motion), repeated  *)
(* flags, results in any order of the images, a motion process that        *)
(* restarts and numbers its images from 1 again.                           *)
(*                                                                         *)
(* A serial number stands for a flag's "ts" and another one for the        *)
(* picture itself (frame); the code reads neither.                         *)
(***************************************************************************)
EXTENDS AlertManager

CONSTANTS
    Wait,       \* detection_wait_seconds, in ticks (a tick is the timer's 0.5 s)
    Depth,      \* depth of the KEEP_LAST history of each subscription
    CocoResults, FireResults,   \* the label sets each detector may publish
    MaxFlags,   \* bound: flags a motion node publishes
    MaxFrames,  \* bound: images a motion node publishes
    MaxCameraRestarts \* bound: restarts of a motion process

ASSUME NodeAssumption ==
    /\ Wait \in Nat
    /\ Depth \in Nat \ {0}
    /\ CocoResults \subseteq SUBSET Labels
    /\ FireResults \subseteq SUBSET Labels
    /\ MaxFlags \in Nat
    /\ MaxFrames \in Nat
    /\ MaxCameraRestarts \in Nat

VARIABLES
    flags, images, detections,  \* the subscriptions' queues
    timerReady,     \* the 0.5 s timer is due
    currentEvents,  \* self.current_events: sender -> serial of its flag, or NoFlag
    pendingEvents,  \* self.pending_events, the set of its entries
    processed,      \* events given to process_aggregated_event (the log)
    unmatched,      \* results that found no pending event (the log)
    flagsSent,      \* environment: flags each motion node has published,
    framesSent,     \*   images,
    imageIds,       \*   its image_id,
    cameraRestarts, \*   and how often it was restarted
    awaited         \* environment: <<detector, image>> without a result yet

nodeVars == <<timerReady, currentEvents, pendingEvents, processed, unmatched>>
topicVars == <<flags, images, detections>>
cameraVars == <<flagsSent, framesSent, imageIds, cameraRestarts>>
worldVars == <<cameraVars, awaited>>
vars == <<now, incarnation, managerVars, nodeVars, topicVars, worldVars>>

DetectionTopics == {"coco", "fire"}
NoFlag == 0

ResultsOf(t) == IF t = "coco" THEN CocoResults ELSE FireResults

\* Messages: motion_flag, motion_image and detection_results.
Flag == [sender : Nodes, flag : {0, 1}, ts : Nat]
Image == [sender : Nodes, id : Nat, frame : Nat]
Detection == [sender : Nodes, id : Nat, frame : Nat,
              labels : SUBSET Labels, ts : Nat]

\* An entry of pending_events; its key is <<sender, id>>.
Event == [sender : Nodes, id : Nat, frame : Nat, flag : Nat, deadline : Nat]
Key(x) == <<x.sender, x.id>>

\* The log line of process_aggregated_event.
Processed == [event : Event, how : DetectionTopics \cup {"expired"},
              frame : Nat, at : Nat]
Unmatched == [topic : DetectionTopics, result : Detection, at : Nat]

\* A reader's queue of a RELIABLE, KEEP_LAST(Depth) subscription: the oldest
\* unread message makes room.
Arrive(queue, msg) ==
    Append(IF Len(queue) < Depth THEN queue ELSE Tail(queue), msg)

NodeInit ==
    /\ timerReady = FALSE
    /\ currentEvents = [s \in Nodes |-> NoFlag]
    /\ pendingEvents = {}
    /\ processed = {}
    /\ unmatched = {}

TopicInit ==
    /\ flags = <<>>
    /\ images = <<>>
    /\ detections = [t \in DetectionTopics |-> <<>>]

WorldInit ==
    /\ flagsSent = [s \in Nodes |-> 0]
    /\ framesSent = [s \in Nodes |-> 0]
    /\ imageIds = [s \in Nodes |-> 1]
    /\ cameraRestarts = [s \in Nodes |-> 0]
    /\ awaited = {}

Init == ManagerInit /\ NodeInit /\ TopicInit /\ WorldInit

-----------------------------------------------------------------------------
(* The callbacks.                                                          *)

Idle == posting = "none"

\* on_motion_flag: a flag 1 is remembered, replacing an earlier one of its
\* sender; a flag 0 is ignored.
OnMotionFlag ==
    /\ Idle /\ flags # <<>>
    /\ LET m == Head(flags) IN
          currentEvents' = IF m.flag = 1
                           THEN [currentEvents EXCEPT ![m.sender] = m.ts]
                           ELSE currentEvents
    /\ flags' = Tail(flags)
    /\ UNCHANGED <<now, incarnation, managerVars, timerReady, pendingEvents,
                   processed, unmatched, images, detections, worldVars>>

\* on_motion_image without a remembered flag: the image is ignored.
IgnoreImage ==
    /\ Idle /\ images # <<>>
    /\ currentEvents[Head(images).sender] = NoFlag
    /\ images' = Tail(images)
    /\ UNCHANGED <<now, incarnation, managerVars, nodeVars, flags, detections,
                   worldVars>>

\* Mutant of NewEvent: the deadline lies in the past.
NewEventOverdue(m) ==
    [sender |-> m.sender, id |-> m.id, frame |-> m.frame,
     flag |-> currentEvents[m.sender], deadline |-> now - Wait]

\* The entry on_motion_image makes of an image and the flag before it.
NewEvent(m) ==
    [sender |-> m.sender, id |-> m.id, frame |-> m.frame,
     flag |-> currentEvents[m.sender], deadline |-> now + Wait]

\* del self.current_events[sender]
UseUp(s) == [currentEvents EXCEPT ![s] = NoFlag]

\* on_motion_image: the image and the flag become a pending event, which takes
\* the place of one with the same key; the flag is used up.
QueueImage ==
    /\ Idle /\ images # <<>>
    /\ LET m == Head(images) IN
          /\ currentEvents[m.sender] # NoFlag
          /\ pendingEvents' = {e \in pendingEvents : Key(e) # Key(m)} \cup {NewEvent(m)}
          /\ currentEvents' = UseUp(m.sender)
    /\ images' = Tail(images)
    /\ UNCHANGED <<now, incarnation, managerVars, timerReady, processed,
                   unmatched, flags, detections, worldVars>>

\* Mutants of Matching: without str() no key is ever found, and a lookup by the
\* sender alone.
MatchingNothing(m) == {}

MatchingSender(m) == {e \in pendingEvents : e.sender = m.sender}

Matching(m) == {e \in pendingEvents : Key(e) = Key(m)}

\* Mutant of Pop: the event is read and stays (get instead of pop).
Get(e) == pendingEvents

\* self.pending_events.pop(event_key)
Pop(e) == pendingEvents \ {e}

\* on_detection: the first result for an event takes the event with it, and
\* the manager decides on its labels, with the picture of the event.
Correlate(t) ==
    /\ Idle /\ detections[t] # <<>>
    /\ LET m == Head(detections[t]) IN
          \E e \in Matching(m) :
             /\ pendingEvents' = Pop(e)
             /\ processed' = processed \cup
                    {[event |-> e, how |-> t, frame |-> m.frame, at |-> now]}
             /\ ProcessEvent(e.sender, m.labels, TRUE)
    /\ detections' = [detections EXCEPT ![t] = Tail(@)]
    /\ UNCHANGED <<now, incarnation, timerReady, currentEvents, unmatched,
                   flags, images, worldVars>>

NoAlert(m) == UNCHANGED managerVars

\* on_detection without a pending event of its key: logged and forgotten.
IgnoreDetection(t) ==
    /\ Idle /\ detections[t] # <<>>
    /\ LET m == Head(detections[t]) IN
          /\ Matching(m) = {}
          /\ unmatched' = unmatched \cup {[topic |-> t, result |-> m, at |-> now]}
          /\ NoAlert(m)
    /\ detections' = [detections EXCEPT ![t] = Tail(@)]
    /\ UNCHANGED <<now, incarnation, timerReady, currentEvents,
                   pendingEvents, processed, flags, images, worldVars>>

\* Mutants of Overdue: events due within the next period too, and only those that
\* are due this very instant.
OverdueSoon == {e \in pendingEvents : e.deadline <= now + 1}

OverdueNow == {e \in pendingEvents : e.deadline = now}

\* flush_pending: each event past its deadline is processed and deleted.  It has
\* no detection results, so process_event finds no class and returns at once.
Overdue == {e \in pendingEvents : e.deadline <= now}

FlushPending ==
    /\ Idle /\ timerReady
    /\ timerReady' = FALSE
    /\ processed' = processed \cup
           {[event |-> e, how |-> "expired", frame |-> 0, at |-> now] : e \in Overdue}
    /\ pendingEvents' = pendingEvents \ Overdue
    /\ UNCHANGED <<now, incarnation, managerVars, currentEvents, unmatched,
                   topicVars, worldVars>>

\* The blocking requests of AlertManager._dispatch, on the executor's thread.
Posting ==
    /\ TelegramReturns \/ WebhookReturns
    /\ UNCHANGED <<nodeVars, topicVars, worldVars>>

\* The container is restarted (restart_policy any).  Its subscriptions are
\* volatile: what was not read is lost with the process.
Restart ==
    /\ ManagerRestart
    /\ timerReady' = FALSE
    /\ currentEvents' = [s \in Nodes |-> NoFlag]
    /\ pendingEvents' = {}
    /\ flags' = <<>>
    /\ images' = <<>>
    /\ detections' = [t \in DetectionTopics |-> <<>>]
    /\ UNCHANGED <<now, processed, unmatched, worldVars>>

Executor ==
    \/ OnMotionFlag \/ IgnoreImage \/ QueueImage \/ FlushPending \/ Posting
    \/ \E t \in DetectionTopics : Correlate(t) \/ IgnoreDetection(t)

-----------------------------------------------------------------------------
(* Time and the environment.                                               *)

Unread == flags # <<>> \/ images # <<>> \/ \E t \in DetectionTopics : detections[t] # <<>>

\* One period of the flush timer, whatever waits to be read: a result may arrive
\* at its end, and the executor may be blocked for all of it.
Tick ==
    /\ AdvanceClock
    /\ timerReady' = TRUE
    /\ UNCHANGED <<incarnation, managerVars, currentEvents, pendingEvents,
                   processed, unmatched, topicVars, worldVars>>

\* publish_motion_flag of a motion node.
PublishFlag(s) ==
    /\ flagsSent[s] < MaxFlags
    /\ \E f \in {0, 1} :
          flags' = Arrive(flags, [sender |-> s, flag |-> f, ts |-> flagsSent[s] + 1])
    /\ flagsSent' = [flagsSent EXCEPT ![s] = @ + 1]
    /\ UNCHANGED <<now, incarnation, managerVars, nodeVars, images, detections,
                   framesSent, imageIds, cameraRestarts, awaited>>

\* publish_motion_image of a motion node; both detectors receive it as well.
PublishImage(s) ==
    LET m == [sender |-> s, id |-> imageIds[s], frame |-> framesSent[s] + 1] IN
    /\ framesSent[s] < MaxFrames
    /\ images' = Arrive(images, m)
    /\ awaited' = awaited \cup (DetectionTopics \X {m})
    /\ framesSent' = [framesSent EXCEPT ![s] = @ + 1]
    /\ imageIds' = [imageIds EXCEPT ![s] = @ + 1]
    /\ UNCHANGED <<now, incarnation, managerVars, nodeVars, flags, detections,
                   flagsSent, cameraRestarts>>

\* publish_detection_results of a detector, for an image it has received.
PublishDetection(t) ==
    \E w \in awaited, D \in ResultsOf(t) :
        /\ w[1] = t
        /\ detections' = [detections EXCEPT ![t] =
               Arrive(@, [sender |-> w[2].sender, id |-> w[2].id,
                          frame |-> w[2].frame, labels |-> D, ts |-> now])]
        /\ awaited' = awaited \ {w}
        /\ UNCHANGED <<now, incarnation, managerVars, nodeVars, flags, images, cameraVars>>

\* A motion process starts again: its image ids start at 1 again.
CameraRestart(s) ==
    /\ cameraRestarts[s] < MaxCameraRestarts
    /\ imageIds' = [imageIds EXCEPT ![s] = 1]
    /\ cameraRestarts' = [cameraRestarts EXCEPT ![s] = @ + 1]
    /\ UNCHANGED <<now, incarnation, managerVars, nodeVars, topicVars,
                   flagsSent, framesSent, awaited>>

Environment ==
    \/ \E s \in Nodes : PublishFlag(s) \/ PublishImage(s) \/ CameraRestart(s)
    \/ \E t \in DetectionTopics : PublishDetection(t)

\* The modelled time is up, the executor has nothing to do.
TimeUp ==
    /\ now = MaxTime /\ Idle /\ ~Unread /\ ~timerReady
    /\ UNCHANGED vars

Next == Executor \/ Restart \/ Tick \/ Environment \/ TimeUp

\* The executor takes the ready callbacks in turn: none waits for ever.  A
\* request comes back.  Nothing is assumed of the environment or of time.
Fairness ==
    /\ WF_vars(OnMotionFlag)
    /\ WF_vars(IgnoreImage \/ QueueImage)
    /\ \A t \in DetectionTopics : WF_vars(Correlate(t) \/ IgnoreDetection(t))
    /\ WF_vars(FlushPending)
    /\ WF_vars(Posting)

Spec == Init /\ [][Next]_vars /\ Fairness

-----------------------------------------------------------------------------
(* Properties.                                                             *)

\* Type correctness of the node, of its queues and of the environment.
TypeOK ==
    /\ ManagerTypeOK
    /\ timerReady \in BOOLEAN
    /\ currentEvents \in [Nodes -> Nat]
    /\ pendingEvents \subseteq Event
    /\ processed \subseteq Processed
    /\ unmatched \subseteq Unmatched
    /\ flags \in Seq(Flag)
    /\ images \in Seq(Image)
    /\ detections \in [DetectionTopics -> Seq(Detection)]
    /\ {flagsSent, framesSent, imageIds, cameraRestarts} \subseteq [Nodes -> Nat]
    /\ awaited \subseteq DetectionTopics \X Image

Events == pendingEvents \cup {p.event : p \in processed}

\* One event per flag: the images of a continuous motion, repeated images and
\* reordered ones never make a second event out of one motion flag.
FlagUsedOnce ==
    \A e, f \in Events : e.sender = f.sender /\ e.flag = f.flag => e = f

\* An event is processed at most once: not by both detectors, not by a detector
\* and by the timer, and never while it is still pending.
ProcessedOnce ==
    /\ \A p, q \in processed : p.event = q.event => p = q
    /\ \A p \in processed : p.event \notin pendingEvents

\* Whatever is repeated, reordered, lost or raced: one event per flag, and one
\* processing per event.
AtMostOnce == FlagUsedOnce /\ ProcessedOnce

\* No result is wasted on an event that waits: a result logged as having no
\* pending event was not read while an event of its key was pending.
WaitingEventIsFound ==
    \A u \in unmatched, p \in processed :
        Key(u.result) = Key(p.event) =>
            u.at <= p.event.deadline - Wait \/ p.at <= u.at

\* The promise of EventLifecycle, kept by the pending events and the log.
Lifecycle == INSTANCE EventLifecycle WITH
    clock <- now,
    waiting <- pendingEvents,
    answered <- {p.event : p \in {q \in processed : q.how \in DetectionTopics}},
    expired <- {p.event : p \in {q \in processed : q.how = "expired"}},
    decisions <- Len(verdicts)

\* AlertNode implements EventLifecycle: QueueImage maps to Admit, Correlate to
\* Answer, FlushPending to Expire and a restart to Crash.
LifecyclePromise == Lifecycle!LifecycleSpec

\* The picture of an alert is the one the detection was made in.  The key of an
\* event ensures it as long as the image ids of a sender do not start again.
PictureMatchesResult ==
    \A p \in processed : p.how \in DetectionTopics => p.frame = p.event.frame

\* The same of the motion processes that never restarted, whatever others did
\* and however the queues overflow.
PictureMatchesInOneLife ==
    \A p \in processed :
        p.how \in DetectionTopics /\ cameraRestarts[p.event.sender] = 0 =>
            p.frame = p.event.frame

\* README.md:9 promises that the alert service "waits up to 2 s for detection
\* results", and alert.py:294 that only events are flushed that "never received a
\* correlated detection in time": no event expires whose result was published
\* before its deadline and is in the queue of the node.  The executor runs a
\* ready timer before a ready subscription, and a request may block both.
AnswerInTime(e) ==
    \E t \in DetectionTopics : \E i \in DOMAIN detections[t] :
        /\ Key(detections[t][i]) = Key(e)
        /\ detections[t][i].ts < e.deadline

TimelyAnswerUsed ==
    [][\A e \in pendingEvents :
          [event |-> e, how |-> "expired", frame |-> 0, at |-> now] \in processed' =>
              ~AnswerInTime(e)]_vars

\* Although requests block the executor, nothing stays: every message that reached
\* the node is read, and an overdue event is correlated late or flushed (or they
\* are lost with the process).
NothingStuck ==
    /\ Unread ~> ~Unread
    /\ \A s \in Nodes, f \in 1..MaxFlags :
          (\E e \in Overdue : e.sender = s /\ e.flag = f)
              ~> ~\E e \in pendingEvents : e.sender = s /\ e.flag = f

\* README.md:9 promises that the alert service "fires immediately for fire /
\* weapon class detections": a fire result for the picture of an event is never
\* thrown away because the other detector answered first.
FireReachesAlert ==
    \A u \in unmatched, p \in processed :
        /\ p.how \in DetectionTopics
        /\ u.result.sender = p.event.sender
        /\ u.result.frame = p.event.frame
        => Triggered(u.result.labels) \cap ImmediateClasses = {}
=============================================================================
