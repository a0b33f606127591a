----------------------------- MODULE DraftProofs -----------------------------
(***************************************************************************)
(* Proofs about the event path of .draft/ (DraftEvents), record.py        *)
(* (Recorder) and the instance that puts them beside PeerNode, for any     *)
(* motion nodes, subscribers, connections, frames, crashes and flags.      *)
(***************************************************************************)
EXTENDS MCDrafts, PeerNodeProofs, SequenceTheorems

-----------------------------------------------------------------------------
(* record.py.                                                              *)

\* One clip at a time, and is_recording tells whether there is one.
THEOREM RecorderOneClip == RecorderSpec => []OneClip
<1> DEFINE Booleans == isRecording \in BOOLEAN /\ dirFailed \in BOOLEAN
           Inv == /\ clips \in {0, 1}
                  /\ clips = 1 => isRecording
                  /\ isRecording /\ clips = 0 => dirFailed
<1>1. RecorderInit => Booleans
  BY Zenon DEF RecorderInit
<1>2. RecorderInit => Inv
  BY DEF RecorderInit
<1>3. Booleans /\ [RecorderNext]_recorderVars => Booleans'
  BY Zenon DEF RecorderNext, HandleFlag, RecordClip, MakedirsFails, Begin, Finish, recorderVars
<1>4. Inv /\ [RecorderNext]_recorderVars => Inv'
  <2> SUFFICES ASSUME Inv, [RecorderNext]_recorderVars PROVE Inv'
    OBVIOUS
  <2>1. ASSUME NEW flag \in {0, 1}, HandleFlag(flag) PROVE Inv'
    BY <2>1 DEF HandleFlag, Begin
  <2>2. CASE RecordClip
    BY <2>2 DEF RecordClip, Finish
  <2>3. CASE MakedirsFails
    BY <2>3 DEF MakedirsFails
  <2>4. CASE UNCHANGED recorderVars
    BY <2>4 DEF recorderVars
  <2> QED  BY <2>1, <2>2, <2>3, <2>4 DEF RecorderNext
<1>5. Booleans /\ Inv => OneClip
  <2> SUFFICES ASSUME Booleans, Inv PROVE OneClip
    OBVIOUS
  <2>1. clips <= 1
    OBVIOUS
  <2>2. CASE isRecording /\ clips = 1
    BY <2>1, <2>2, Zenon DEF OneClip
  <2>3. CASE isRecording /\ clips = 0
    BY <2>1, <2>3, Zenon DEF OneClip
  <2>4. CASE ~isRecording /\ clips # 1
    BY <2>1, <2>4, Zenon DEF OneClip
  <2> QED  BY <2>2, <2>3, <2>4
<1> QED  BY <1>1, <1>2, <1>3, <1>4, <1>5, PTL DEF RecorderSpec

-----------------------------------------------------------------------------
(* The servers: what is kept in memory and in the file.                    *)

Messages == [kind : {"flag0", "flag1", "image"}, sender : Senders, motion : Nat]

Stages == {"none", "append", "open", "write", "reply"}

\* The types that the proofs need, without the contents of the pairs.
ServerTypes ==
    /\ motions \in [Senders -> Nat]
    /\ moving \in [Senders -> BOOLEAN]
    /\ queue \in [Subscribers -> [Senders -> Seq(Messages)]]
    /\ currentEvent \in [Subscribers -> Seq(Messages)]
    /\ post \in [Subscribers -> Seq(Messages)]
    /\ handler \in [Subscribers -> Stages]
    /\ overlapped \subseteq Subscribers
    /\ events \in Seq(Seq(Messages))
    /\ file \in Seq(Seq(Messages))

Holds(list, pair) == \E i \in DOMAIN list : list[i] = pair

LEMMA HoldsAppend ==
    ASSUME NEW S, NEW list \in Seq(S), NEW e \in S
    PROVE  /\ Append(list, e) \in Seq(S)
           /\ Holds(Append(list, e), e)
           /\ \A x : Holds(list, x) => Holds(Append(list, e), x)
BY DEF Holds

LEMMA InitTypes == EventsInit => ServerTypes
BY DEF EventsInit, ServerTypes, None, Stages

LEMMA FrameTypes ==
    ASSUME ServerTypes, NEW s \in Senders, Frame(s)
    PROVE  ServerTypes'
<1>1. PICK motion \in BOOLEAN, encoded \in BOOLEAN :
          /\ Publish(s, FrameMessages(s, motion, encoded))
          /\ moving' = [moving EXCEPT ![s] = motion]
          /\ motions' = [motions EXCEPT ![s] = IF motion /\ ~moving[s] THEN @ + 1 ELSE @]
  BY DEF Frame
<1>2. \A k \in {"flag0", "flag1", "image"}, n \in Nat : Message(k, s, n) \in Messages
  BY DEF Message, Messages
<1>3. motions[s] \in Nat /\ motions[s] + 1 \in Nat
  BY DEF ServerTypes
<1>4. FrameMessages(s, motion, encoded) \in Seq(Messages)
  <2>1. /\ <<Message("flag1", s, motions[s] + 1)>> \in Seq(Messages)
        /\ <<Message("image", s, motions[s] + 1)>> \in Seq(Messages)
        /\ <<Message("flag0", s, motions[s])>> \in Seq(Messages)
    BY <1>2, <1>3
  <2> QED  BY <2>1 DEF FrameMessages
<1>5. queue' \in [Subscribers -> [Senders -> Seq(Messages)]]
  BY <1>1, <1>4 DEF Publish, ServerTypes
<1>6. motions' \in [Senders -> Nat] /\ moving' \in [Senders -> BOOLEAN]
  BY <1>1, <1>3 DEF ServerTypes
<1> QED  BY <1>5, <1>6 DEF Frame, ServerTypes, serverVars

LEMMA ReadTypes ==
    ASSUME ServerTypes, NEW u \in Subscribers, NEW s \in Senders, queue[u][s] # <<>>, Read(u, s)
    PROVE  /\ Head(queue[u][s]) \in Messages
           /\ queue' \in [Subscribers -> [Senders -> Seq(Messages)]]
<1>1. Head(queue[u][s]) \in Messages /\ Tail(queue[u][s]) \in Seq(Messages)
  BY DEF ServerTypes
<1> QED  BY <1>1 DEF ServerTypes, Read

LEMMA SubscriberTypes ==
    ASSUME ServerTypes, NEW u \in Subscribers, Subscriber(u)
    PROVE  ServerTypes'
<1> PICK s \in Senders : ReadFlag(u, s) \/ ReadImage(u, s)
  BY DEF Subscriber
<1>1. /\ Head(queue[u][s]) \in Messages
      /\ queue' \in [Subscribers -> [Senders -> Seq(Messages)]]
  BY ReadTypes DEF ReadFlag, ReadImage, Unread
<1>2. CASE ReadFlag(u, s)
  <2>1. <<Head(queue[u][s])>> \in Seq(Messages)
    BY <1>1
  <2>2. currentEvent' \in [Subscribers -> Seq(Messages)]
    BY <1>2, <2>1 DEF ReadFlag, Remember, ServerTypes
  <2> QED  BY <1>1, <1>2, <2>2 DEF ReadFlag, ServerTypes, motionVars, serverVars
<1>3. CASE ReadImage(u, s)
  <2>1. currentEvent[u] \o <<Head(queue[u][s])>> \in Seq(Messages)
    BY <1>1 DEF ServerTypes
  <2>2. None \in Seq(Messages)
    BY DEF None
  <2> QED  BY <1>1, <1>3, <2>1, <2>2 DEF ReadImage, ServerTypes, motionVars, Stages
<1> QED  BY <1>2, <1>3

LEMMA HandlerTypes ==
    ASSUME ServerTypes, NEW u \in Subscribers, Handler(u)
    PROVE  ServerTypes'
<1>1. CASE AppendEvent(u)
  <2>1. Append(events, post[u]) \in Seq(Seq(Messages))
    BY HoldsAppend DEF ServerTypes
  <2> QED  BY <1>1, <2>1 DEF AppendEvent, AfterAppend, ServerTypes, motionVars, subVars, Stages
<1>2. Torn \in Seq(Seq(Messages)) /\ None \in Seq(Messages)
  BY DEF Torn, None
<1>3. CASE OpenFile(u)
  BY <1>2, <1>3 DEF OpenFile, ServerTypes, motionVars, subVars, Stages
<1>4. CASE WriteFile(u)
  BY <1>2, <1>4 DEF WriteFile, ServerTypes, motionVars, subVars, Stages
<1>5. CASE Reply(u)
  BY <1>2, <1>5 DEF Reply, ServerTypes, motionVars, Stages
<1> QED  BY <1>1, <1>3, <1>4, <1>5 DEF Handler

LEMMA StepTypes == ServerTypes /\ [EventsNext]_eventsVars => ServerTypes'
<1> SUFFICES ASSUME ServerTypes, [EventsNext]_eventsVars PROVE ServerTypes'
  OBVIOUS
<1>1. ASSUME NEW s \in Senders, IncompleteFrame(s) PROVE ServerTypes'
  BY <1>1 DEF IncompleteFrame, ServerTypes, subVars, serverVars
<1>2. CASE Crash
  BY <1>2 DEF Crash, ServerTypes, motionVars, Stages, None
<1>3. CASE Start
  BY <1>3 DEF Start, ServerTypes, motionVars, subVars
<1>4. CASE UNCHANGED eventsVars
  BY <1>4 DEF eventsVars, ServerTypes, motionVars, subVars, serverVars
<1> QED  BY <1>1, <1>2, <1>3, <1>4, FrameTypes, SubscriberTypes, HandlerTypes
            DEF EventsNext, EventsOver

-----------------------------------------------------------------------------
(* Acknowledged events.                                                    *)

\* Every event that was appended is in the list until a crash; what a crash
\* leaves is the file, which is whole (crashes that tear it are excluded by
\* torn) and holds every event whose handler has written it.
Kept ==
    /\ up => /\ \A a \in acked : Holds(events, a)
             /\ \A u \in Subscribers :
                    handler[u] \in {"open", "write", "reply"} => Holds(events, post[u])
    /\ file # Torn =>
          /\ \A a \in acked : Holds(file, a)
          /\ \A u \in Subscribers : handler[u] = "reply" => Holds(file, post[u])
    /\ ~up => file # Torn

\* No handler runs in a server that is down, nor for a subscriber that does not
\* wait.
DownIdle ==
    \A u \in Subscribers : ~up \/ post[u] = None => handler[u] = "none"

LEMMA StepDownIdle == ServerTypes /\ DownIdle /\ [EventsNext]_eventsVars => DownIdle'
<1> SUFFICES ASSUME ServerTypes, DownIdle, [EventsNext]_eventsVars PROVE DownIdle'
  OBVIOUS
<1>1. ASSUME NEW s \in Senders, Frame(s) \/ IncompleteFrame(s) PROVE DownIdle'
  BY <1>1 DEF Frame, IncompleteFrame, DownIdle, serverVars, subVars
<1>2. ASSUME NEW u \in Subscribers, Subscriber(u) PROVE DownIdle'
  <2> PICK s \in Senders : ReadFlag(u, s) \/ ReadImage(u, s)
    BY <1>2 DEF Subscriber
  <2>1. CASE ReadFlag(u, s)
    BY <2>1 DEF ReadFlag, DownIdle, serverVars
  <2>2. CASE ReadImage(u, s)
    <3>1. \A x \in Seq(Messages), m \in Messages : x \o <<m>> # None
      <4> TAKE x \in Seq(Messages), m \in Messages
      <4>1. Len(x \o <<m>>) = Len(x) + 1 /\ Len(x) \in Nat
        OBVIOUS
      <4>2. Len(None) = 0
        BY DEF None
      <4> QED  BY <4>1, <4>2
    <3>2. currentEvent[u] \in Seq(Messages) /\ Head(queue[u][s]) \in Messages
      BY <2>2, ReadTypes DEF ReadImage, Unread, ServerTypes
    <3>3. currentEvent[u] \o <<Head(queue[u][s])>> # None
      BY <3>1, <3>2
    <3> QED  BY <2>2, <3>3 DEF ReadImage, DownIdle, ServerTypes
  <2> QED  BY <2>1, <2>2
<1>3. ASSUME NEW u \in Subscribers, Handler(u) PROVE DownIdle'
  BY <1>3 DEF Handler, AppendEvent, OpenFile, WriteFile, Reply, DownIdle, ServerTypes, subVars
<1>4. CASE Crash \/ Start
  BY <1>4 DEF Crash, Start, DownIdle, subVars
<1>5. CASE UNCHANGED eventsVars
  BY <1>5 DEF eventsVars, serverVars, subVars, DownIdle
<1> QED  BY <1>1, <1>2, <1>3, <1>4, <1>5 DEF EventsNext, EventsOver

LEMMA StepKept ==
    ServerTypes /\ DownIdle /\ (~torn => Kept) /\ [EventsNext]_eventsVars => (~torn' => Kept')
<1> SUFFICES ASSUME ServerTypes, DownIdle, ~torn => Kept, [EventsNext]_eventsVars, ~torn'
             PROVE  Kept'
  OBVIOUS
<1>1. ASSUME NEW s \in Senders, Frame(s) \/ IncompleteFrame(s) PROVE Kept'
  BY <1>1 DEF Frame, IncompleteFrame, Kept, serverVars, subVars
<1>2. ASSUME NEW u \in Subscribers, NEW s \in Senders, ReadFlag(u, s) PROVE Kept'
  BY <1>2 DEF ReadFlag, Kept, serverVars
<1>3. ASSUME NEW u \in Subscribers, NEW s \in Senders, ReadImage(u, s) PROVE Kept'
  <2>1. Kept /\ UNCHANGED <<up, events, file, acked>>
    BY <1>3 DEF ReadImage
  <2>2. \A v \in Subscribers :
           handler'[v] \in {"open", "write", "reply"} =>
               handler'[v] = handler[v] /\ post'[v] = post[v]
    BY <1>3 DEF ReadImage, ServerTypes
  <2> QED  BY <2>1, <2>2 DEF Kept
<1>4. ASSUME NEW u \in Subscribers, AppendEvent(u) PROVE Kept'
  <2>1. /\ Kept
        /\ UNCHANGED <<up, file, acked, post>>
        /\ events' = Append(events, post[u])
        /\ handler' = [handler EXCEPT ![u] = "open"]
    BY <1>4 DEF AppendEvent, AfterAppend, subVars
  <2>2. /\ Holds(events', post[u])
        /\ \A x : Holds(events, x) => Holds(events', x)
    BY <2>1, HoldsAppend DEF ServerTypes
  <2>3. \A v \in Subscribers : v # u => handler'[v] = handler[v]
    BY <2>1 DEF ServerTypes
  <2>4. handler'[u] = "open"
    BY <2>1 DEF ServerTypes
  <2> QED  BY <2>1, <2>2, <2>3, <2>4 DEF Kept
<1>5. ASSUME NEW u \in Subscribers, OpenFile(u) PROVE Kept'
  <2>1. /\ Kept /\ up
        /\ UNCHANGED <<up, events, acked, post>>
        /\ file' = Torn
        /\ handler' = [handler EXCEPT ![u] = "write"]
        /\ handler[u] = "open"
    BY <1>5 DEF OpenFile, subVars, DownIdle
  <2>2. \A v \in Subscribers : handler'[v] # handler[v] => v = u
    BY <2>1 DEF ServerTypes
  <2> QED  BY <2>1, <2>2 DEF Kept
<1>6. ASSUME NEW u \in Subscribers, WriteFile(u) PROVE Kept'
  <2>1. /\ Kept /\ up
        /\ UNCHANGED <<up, events, acked, post>>
        /\ file' \in {events, Torn}
        /\ handler' = [handler EXCEPT ![u] = "reply"]
        /\ handler[u] = "write"
    BY <1>6 DEF WriteFile, subVars, DownIdle
  <2>2. \A v \in Subscribers :
           handler'[v] \in {"open", "write", "reply"} =>
               handler[v] \in {"open", "write", "reply"}
    BY <2>1 DEF ServerTypes
  <2> QED  BY <2>1, <2>2 DEF Kept
<1>7. ASSUME NEW u \in Subscribers, Reply(u) PROVE Kept'
  <2>1. /\ Kept /\ up
        /\ UNCHANGED <<up, events, file>>
        /\ acked' = acked \cup {post[u]}
        /\ handler[u] = "reply"
        /\ handler' = [handler EXCEPT ![u] = "none"]
        /\ post' = [post EXCEPT ![u] = None]
    BY <1>7 DEF Reply, DownIdle
  <2>2. \A v \in Subscribers :
           handler'[v] \in {"open", "write", "reply"} =>
               handler'[v] = handler[v] /\ post'[v] = post[v]
    BY <2>1 DEF ServerTypes
  <2> QED  BY <2>1, <2>2 DEF Kept
<1>8. CASE Crash
  <2>1. file # Torn /\ ~torn /\ file' = file /\ acked' = acked /\ up' = FALSE
    BY <1>8 DEF Crash
  <2>2. \A u \in Subscribers : handler'[u] = "none"
    BY <1>8 DEF Crash
  <2> QED  BY <2>1, <2>2 DEF Kept
<1>9. CASE Start
  <2>1. /\ Kept /\ file # Torn
        /\ events' = file
        /\ UNCHANGED <<file, acked, handler, post>>
    BY <1>9 DEF Start, Kept, subVars
  <2>2. \A u \in Subscribers : handler[u] = "none"
    BY <1>9 DEF Start, DownIdle
  <2> QED  BY <2>1, <2>2 DEF Kept
<1>10. CASE UNCHANGED eventsVars
  BY <1>10 DEF eventsVars, serverVars, subVars, Kept
<1> QED  BY <1>1, <1>2, <1>3, <1>4, <1>5, <1>6, <1>7, <1>8, <1>9, <1>10
            DEF EventsNext, EventsOver, Subscriber, Handler

\* An acknowledged event survives every crash that did not tear the file.
THEOREM ServerKeepsAcked == EventsSpec => []AckedKept
<1>1. EventsInit => ServerTypes /\ DownIdle /\ (~torn => Kept)
  <2>1. EventsInit => DownIdle /\ Kept
    BY DEF EventsInit, DownIdle, Kept
  <2> QED  BY <2>1, InitTypes
<1>2. Kept => AckedKept
  BY DEF Kept, AckedKept, Holds
<1>3. (~torn => Kept) => AckedKept
  BY <1>2 DEF AckedKept
<1> QED  BY <1>1, <1>3, StepTypes, StepDownIdle, StepKept, PTL DEF EventsSpec

-----------------------------------------------------------------------------
(* The lock of app.py, and the torn file of test_server.py.                *)

\* The two parts of FileKept.
FileIsList ==
    server = "app" /\ up /\ ~torn /\ (\A u \in Subscribers : ~Inside(u)) => file = events

TornStaysDown == server = "test_server" /\ torn => ~up

\* With the lock at most one handler is between the list and the file.
Locked ==
    server = "app" =>
        /\ \A u, v \in Subscribers : Inside(u) /\ Inside(v) => u = v
        /\ overlapped = {}
        /\ FileIsList

LEMMA StepLocked ==
    /\ ServerTypes /\ DownIdle /\ (~torn => Kept)
    /\ Locked /\ [EventsNext]_eventsVars
    => Locked'
<1> SUFFICES ASSUME ServerTypes, DownIdle, ~torn => Kept, Locked, [EventsNext]_eventsVars,
                    server' = "app"
             PROVE  /\ \A u, v \in Subscribers : Inside(u)' /\ Inside(v)' => u = v
                    /\ overlapped' = {}
                    /\ FileIsList'
  BY DEF Locked
<1>0. server = "app"
  BY DEF EventsNext, Frame, IncompleteFrame, Subscriber, ReadFlag, ReadImage, Handler,
         AppendEvent, OpenFile, WriteFile, Reply, Crash, Start, EventsOver, eventsVars, serverVars
<1> DEFINE Goal == /\ \A u, v \in Subscribers : Inside(u)' /\ Inside(v)' => u = v
                   /\ overlapped' = {}
                   /\ FileIsList'
<1>1. ASSUME UNCHANGED serverVars PROVE Goal
  BY <1>0, <1>1 DEF serverVars, Locked, FileIsList, Inside
<1>2. ASSUME NEW u \in Subscribers, NEW s \in Senders, ReadImage(u, s) PROVE Goal
  <2>1. UNCHANGED <<server, up, torn, events, file, overlapped>>
    BY <1>2 DEF ReadImage
  <2>2. \A v \in Subscribers : Inside(v)' => Inside(v)
    BY <1>2 DEF ReadImage, ServerTypes, Inside
  <2>3. \A v \in Subscribers : Inside(v) => Inside(v)' \/ v = u
    BY <1>2 DEF ReadImage, ServerTypes, Inside
  <2>4. CASE UNCHANGED handler
    BY <1>0, <2>1, <2>4 DEF Locked, FileIsList, Inside
  <2>5. CASE post[u] = None /\ handler' = [handler EXCEPT ![u] = "append"] /\ ~Inside(u)
    BY <1>0, <2>1, <2>2, <2>3, <2>5 DEF Locked, FileIsList
  <2>6. CASE Inside(u) /\ handler' = [handler EXCEPT ![u] = "append"]
    BY <1>2, <2>6 DEF ReadImage, Unread, DownIdle, Inside
  <2> QED  BY <1>2, <2>4, <2>5, <2>6 DEF ReadImage, Unread
<1>3. ASSUME NEW u \in Subscribers, AppendEvent(u) PROVE Goal
  <2>1. \A v \in Subscribers : ~Inside(v)
    BY <1>0, <1>3 DEF AppendEvent, MayEnter
  <2>2. /\ overlapped' = overlapped
        /\ handler' = [handler EXCEPT ![u] = "open"]
    BY <1>3 DEF AppendEvent, AfterAppend
  <2>3. \A v \in Subscribers : Inside(v)' <=> v = u
    BY <2>1, <2>2 DEF Inside, ServerTypes
  <2> QED  BY <1>0, <2>2, <2>3 DEF Locked, FileIsList
<1>4. ASSUME NEW u \in Subscribers, OpenFile(u) PROVE Goal
  <2>1. handler[u] = "open" /\ handler' = [handler EXCEPT ![u] = "write"]
    BY <1>4 DEF OpenFile
  <2>2. \A v \in Subscribers : Inside(v)' <=> Inside(v)
    BY <2>1 DEF Inside, ServerTypes
  <2>3. Inside(u)
    BY <2>1 DEF Inside
  <2>4. {v \in Subscribers : handler[v] = "write"} = {}
    BY <1>0, <2>1, <2>3 DEF Locked, Inside
  <2>5. overlapped' = {}
    BY <1>0, <1>4, <2>4 DEF OpenFile, Locked
  <2> QED  BY <1>0, <2>2, <2>3, <2>5 DEF Locked, FileIsList
<1>5. ASSUME NEW u \in Subscribers, WriteFile(u) PROVE Goal
  <2>1. handler[u] = "write" /\ handler' = [handler EXCEPT ![u] = "reply"]
    BY <1>5 DEF WriteFile
  <2>2. overlapped = {} /\ overlapped' = {} /\ file' = events /\ events' = events
    BY <1>0, <1>5 DEF WriteFile, Locked
  <2>3. \A v \in Subscribers : Inside(v)' => Inside(v)
    BY <2>1 DEF Inside, ServerTypes
  <2> QED  BY <1>0, <2>2, <2>3 DEF Locked, FileIsList
<1>6. ASSUME NEW u \in Subscribers, Reply(u) PROVE Goal
  <2>1. UNCHANGED <<server, up, torn, events, file, overlapped>>
    BY <1>6 DEF Reply
  <2>2. \A v \in Subscribers : Inside(v)' <=> Inside(v)
    BY <1>6 DEF Reply, Inside, ServerTypes
  <2> QED  BY <1>0, <2>1, <2>2 DEF Locked, FileIsList
<1>7. CASE Crash
  BY <1>7 DEF Crash, FileIsList, Inside
<1>8. CASE Start
  <2>1. UNCHANGED <<file, torn, handler, overlapped>>
    BY <1>8 DEF Start
  <2>2. ~torn => events' = file
    BY <1>8 DEF Start, Kept
  <2> QED  BY <1>0, <2>1, <2>2 DEF Locked, FileIsList, Inside
<1>9. ASSUME NEW s \in Senders, Frame(s) \/ IncompleteFrame(s) PROVE Goal
  BY <1>1, <1>9 DEF Frame, IncompleteFrame
<1>10. ASSUME NEW u \in Subscribers, NEW s \in Senders, ReadFlag(u, s) PROVE Goal
  BY <1>1, <1>10 DEF ReadFlag
<1>11. CASE UNCHANGED eventsVars
  BY <1>1, <1>11 DEF eventsVars
<1>12. Goal
  BY <1>2, <1>3, <1>4, <1>5, <1>6, <1>7, <1>8, <1>9, <1>10, <1>11
     DEF EventsNext, EventsOver, Subscriber, Handler
<1> QED  BY <1>12

\* Between two requests the file of app.py is its list.
LEMMA FileIsListHolds == EventsSpec => []FileIsList
<1>1. EventsInit => ServerTypes /\ DownIdle /\ (~torn => Kept) /\ Locked
  <2>1. EventsInit => DownIdle /\ Kept
    BY DEF EventsInit, DownIdle, Kept
  <2>2. EventsInit => Locked
    BY DEF EventsInit, Locked, FileIsList, Inside
  <2> QED  BY <2>1, <2>2, InitTypes
<1>2. Locked => FileIsList
  BY DEF Locked, FileIsList
<1> QED  BY <1>1, <1>2, StepTypes, StepDownIdle, StepKept, StepLocked, PTL DEF EventsSpec

\* A test_server.py whose file was torn never runs again.
LEMMA TornStaysDownHolds == EventsSpec => []TornStaysDown
<1> DEFINE Inv == server = "test_server" /\ torn => ~up /\ file = Torn
<1>1. EventsInit => Inv
  BY DEF EventsInit
<1>2. Inv /\ DownIdle /\ ServerTypes /\ [EventsNext]_eventsVars => Inv'
  <2> SUFFICES ASSUME Inv, DownIdle, ServerTypes, [EventsNext]_eventsVars PROVE Inv'
    OBVIOUS
  <2>1. ASSUME NEW s \in Senders, Frame(s) \/ IncompleteFrame(s) PROVE Inv'
    BY <2>1 DEF Frame, IncompleteFrame, serverVars
  <2>2. ASSUME NEW u \in Subscribers, Subscriber(u) PROVE Inv'
    BY <2>2 DEF Subscriber, ReadFlag, ReadImage, serverVars
  <2>3. ASSUME NEW u \in Subscribers, Handler(u) PROVE Inv'
    BY <2>3 DEF Handler, AppendEvent, OpenFile, WriteFile, Reply, DownIdle
  <2>4. CASE Crash \/ Start
    BY <2>4 DEF Crash, Start, Loadable
  <2>5. CASE UNCHANGED eventsVars
    BY <2>5 DEF eventsVars, serverVars
  <2> QED  BY <2>1, <2>2, <2>3, <2>4, <2>5 DEF EventsNext, EventsOver
<1>3. EventsInit => ServerTypes /\ DownIdle
  BY InitTypes DEF EventsInit, DownIdle
<1>4. Inv => TornStaysDown
  BY DEF TornStaysDown
<1> QED  BY <1>1, <1>2, <1>3, <1>4, StepTypes, StepDownIdle, PTL DEF EventsSpec

\* Between two requests the file of app.py is its list, and a test_server.py
\* whose file was torn never runs again.
THEOREM ServerFileKept == EventsSpec => []FileKept
<1>1. FileIsList /\ TornStaysDown => FileKept
  BY DEF FileIsList, TornStaysDown, FileKept
<1> QED  BY <1>1, FileIsListHolds, TornStaysDownHolds, PTL

-----------------------------------------------------------------------------
(* The flag of an image.                                                   *)

\* The unread messages of node s, of which n motions were announced: its flags 1
\* in their order, and an image right behind the flag of its motion, unless that
\* was read.
InOrder(q, s, n) ==
    /\ \A i \in DOMAIN q : q[i].sender = s /\ q[i].motion <= n
    /\ \A i, j \in DOMAIN q :
          i < j /\ q[i].kind = "flag1" /\ q[j].kind = "flag1" => q[i].motion < q[j].motion
    /\ \A i \in DOMAIN q : q[i].kind = "image" /\ i # 1 =>
          q[i - 1].kind = "flag1" /\ q[i - 1].motion = q[i].motion

\* The flags that a subscriber posted or remembers.
HeldFlags(u) ==
    {p[1] : p \in posted[u]} \cup (IF currentEvent[u] = None THEN {} ELSE {currentEvent[u][1]})

\* What is still to be read from s is newer than every flag of s that u knows; if
\* the next message is an image, u does not remember an older flag of s.
Newer(u, s) ==
    /\ \A f \in HeldFlags(u) : f.sender = s =>
          /\ f.motion <= motions[s]
          /\ \A i \in DOMAIN queue[u][s] :
                queue[u][s][i].kind = "flag1" => f.motion < queue[u][s][i].motion
    /\ /\ queue[u][s] # <<>> /\ Head(queue[u][s]).kind = "image"
       /\ currentEvent[u] # None /\ currentEvent[u][1].sender = s
       => currentEvent[u][1].motion = Head(queue[u][s]).motion

\* The remembered flag was not posted.
Fresh(u) == currentEvent[u] # None => \A p \in posted[u] : p[1] # currentEvent[u][1]

FlagTypes ==
    /\ \A u \in Subscribers :
          currentEvent[u] # None => \E f \in Messages : currentEvent[u] = <<f>>
    /\ \A u \in Subscribers : posted[u] \subseteq Messages \X Messages
    /\ posted \in [Subscribers -> SUBSET (Messages \X Messages)]

OwnInv ==
    /\ FlagTypes
    /\ \A u \in Subscribers :
          /\ Fresh(u)
          /\ \A s \in Senders : InOrder(queue[u][s], s, motions[s]) /\ Newer(u, s)
    /\ OwnFlag

LEMMA TailInOrder ==
    ASSUME NEW q \in Seq(Messages), NEW s, NEW n, q # <<>>, InOrder(q, s, n)
    PROVE  /\ InOrder(Tail(q), s, n)
           /\ Head(q) = q[1] /\ 1 \in DOMAIN q
           /\ \A i \in DOMAIN Tail(q) :
                 /\ Tail(q)[i] = q[i + 1] /\ i + 1 \in DOMAIN q
                 /\ q[1].kind = "flag1" /\ Tail(q)[i].kind = "flag1" =>
                       q[1].motion < Tail(q)[i].motion
           /\ Tail(q) # <<>> /\ Head(Tail(q)).kind = "image" =>
                 q[1].kind = "flag1" /\ q[1].motion = Head(Tail(q)).motion
<1> DEFINE t == Tail(q)
<1>1. /\ t \in Seq(Messages) /\ Len(t) = Len(q) - 1 /\ Len(q) \in Nat /\ Len(q) # 0
      /\ \A i \in 1..Len(t) : t[i] = q[i + 1]
      /\ DOMAIN q = 1..Len(q) /\ DOMAIN t = 1..Len(t)
      /\ Head(q) = q[1]
  OBVIOUS
<1>2. t # <<>> => Head(t) = t[1] /\ 1 \in DOMAIN t
  <2> HIDE DEF t
  <2> QED  BY <1>1
<1> HIDE DEF t
<1>3. \A i \in DOMAIN t : t[i] = q[i + 1] /\ i + 1 \in DOMAIN q /\ i \in Nat /\ i >= 1
  BY <1>1
<1>4. 1 \in DOMAIN q
  BY <1>1
<1>5. \A i \in DOMAIN t : t[i].sender = s /\ t[i].motion <= n
  BY <1>3 DEF InOrder
<1>6. \A i, j \in DOMAIN t :
         i < j /\ t[i].kind = "flag1" /\ t[j].kind = "flag1" => t[i].motion < t[j].motion
  <2> TAKE i, j \in DOMAIN t
  <2>1. i < j => i + 1 < j + 1
    BY <1>3
  <2> QED  BY <1>3, <2>1 DEF InOrder
<1>7. \A i \in DOMAIN t : t[i].kind = "image" =>
         q[i].kind = "flag1" /\ q[i].motion = t[i].motion
  <2> TAKE i \in DOMAIN t
  <2>1. i + 1 # 1 /\ (i + 1) - 1 = i
    BY <1>3
  <2> QED  BY <1>3, <2>1 DEF InOrder
<1>8. \A i \in DOMAIN t : i # 1 => t[i - 1] = q[i]
  BY <1>1
<1>9. InOrder(t, s, n)
  BY <1>5, <1>6, <1>7, <1>8 DEF InOrder
<1>10. \A i \in DOMAIN t : q[1].kind = "flag1" /\ t[i].kind = "flag1" => q[1].motion < t[i].motion
  <2> TAKE i \in DOMAIN t
  <2>1. 1 < i + 1
    BY <1>3
  <2> QED  BY <1>3, <1>4, <2>1 DEF InOrder
<1> QED  BY <1>1, <1>2, <1>3, <1>4, <1>7, <1>9, <1>10 DEF t

\* What s may send for a frame after n motions; top are the motions after it.
FrameSends(s, n, ms, top) ==
    \/ ms = <<>> /\ top = n
    \/ ms = <<Message("flag0", s, n)>> /\ top = n
    \/ ms = <<Message("flag1", s, n + 1)>> /\ top = n + 1
    \/ /\ ms = <<Message("flag1", s, n + 1)>> \o <<Message("image", s, n + 1)>>
       /\ top = n + 1

\* The messages of a frame come behind those that are unread.
LEMMA FrameInOrder ==
    ASSUME NEW s \in Senders, NEW n \in Nat, NEW q \in Seq(Messages), InOrder(q, s, n),
           NEW ms, NEW top \in {n, n + 1},
           FrameSends(s, n, ms, top)
    PROVE  /\ InOrder(q \o ms, s, top)
           /\ q \o ms \in Seq(Messages)
           /\ \A i \in DOMAIN (q \o ms) :
                 \/ i \in DOMAIN q /\ (q \o ms)[i] = q[i]
                 \/ (q \o ms)[i].kind = "flag0"
                 \/ (q \o ms)[i].motion = n + 1 /\ top = n + 1
           /\ q \o ms # <<>> /\ Head(q \o ms).kind = "image" =>
                 q # <<>> /\ Head(q \o ms) = Head(q)
<1> DEFINE r == q \o ms
<1>1. \A k \in {"flag0", "flag1", "image"}, m \in Nat :
         /\ Message(k, s, m) \in Messages
         /\ Message(k, s, m).kind = k /\ Message(k, s, m).sender = s
         /\ Message(k, s, m).motion = m
  BY DEF Message, Messages
<1>2. /\ ms \in Seq(Messages) /\ Len(ms) \in 0..2
      /\ Len(ms) >= 1 => /\ ms[1].sender = s /\ ms[1].motion = top
                         /\ ms[1].kind \in {"flag0", "flag1"}
                         /\ ms[1].kind = "flag1" => top = n + 1
      /\ Len(ms) = 2 => /\ ms[2].sender = s /\ ms[2].motion = top /\ ms[2].kind = "image"
                        /\ ms[1].kind = "flag1" /\ top = n + 1
  <2>1. CASE ms = <<>> /\ top = n
    BY <2>1
  <2>2. CASE ms = <<Message("flag0", s, n)>> /\ top = n
    BY <1>1, <2>2
  <2>3. CASE ms = <<Message("flag1", s, n + 1)>> /\ top = n + 1
    BY <1>1, <2>3
  <2>4. CASE /\ ms = <<Message("flag1", s, n + 1)>> \o <<Message("image", s, n + 1)>>
             /\ top = n + 1
    <3> DEFINE f == Message("flag1", s, n + 1)
               g == Message("image", s, n + 1)
    <3>1. /\ f \in Messages /\ f.kind = "flag1" /\ f.sender = s /\ f.motion = n + 1
          /\ g \in Messages /\ g.kind = "image" /\ g.sender = s /\ g.motion = n + 1
      BY <1>1
    <3>2. ms = <<f>> \o <<g>>
      BY <2>4
    <3> HIDE DEF f, g
    <3>3. <<f>> \in Seq(Messages) /\ <<g>> \in Seq(Messages)
      BY <3>1
    <3>4. ms \in Seq(Messages) /\ Len(ms) = 2 /\ ms[1] = f /\ ms[2] = g
      BY <3>2, <3>3, ConcatProperties
    <3> QED  BY <2>4, <3>1, <3>4
  <2> QED  BY <2>1, <2>2, <2>3, <2>4 DEF FrameSends
<1>3. /\ r \in Seq(Messages) /\ Len(r) = Len(q) + Len(ms) /\ Len(q) \in Nat
      /\ \A i \in 1..Len(r) : r[i] = IF i <= Len(q) THEN q[i] ELSE ms[i - Len(q)]
      /\ DOMAIN q = 1..Len(q) /\ DOMAIN r = 1..Len(r)
  BY <1>2, ConcatProperties
<1> HIDE DEF r
<1>4. \A i \in DOMAIN q : q[i].motion \in Nat /\ r[i] = q[i] /\ i \in DOMAIN r /\ i \in Nat
  <2>1. \A i \in DOMAIN q : q[i] \in Messages
    BY <1>3
  <2>2. \A i \in DOMAIN q : q[i].motion \in Nat
    BY <2>1 DEF Messages
  <2>3. Len(ms) \in Nat
    BY <1>2
  <2> QED  BY <1>3, <2>2, <2>3
<1>5. \A i \in DOMAIN r \ DOMAIN q :
         /\ i \in Nat /\ i > Len(q)
         /\ r[i] = ms[i - Len(q)] /\ i - Len(q) \in {1, 2} /\ i - Len(q) <= Len(ms)
  BY <1>2, <1>3
<1>6. \A i \in DOMAIN r \ DOMAIN q :
         /\ r[i].sender = s /\ r[i].motion = top
         /\ r[i].kind = "flag1" => i = Len(q) + 1 /\ top = n + 1
         /\ r[i].kind = "image" => i = Len(q) + 2
  BY <1>2, <1>3, <1>5
<1>7. \A i \in DOMAIN r : r[i].sender = s /\ r[i].motion <= top
  BY <1>3, <1>4, <1>6 DEF InOrder
<1>8. \A i, j \in DOMAIN r :
         i < j /\ r[i].kind = "flag1" /\ r[j].kind = "flag1" => r[i].motion < r[j].motion
  <2> SUFFICES ASSUME NEW i \in DOMAIN r, NEW j \in DOMAIN r,
                      i < j, r[i].kind = "flag1", r[j].kind = "flag1"
               PROVE  r[i].motion < r[j].motion
    OBVIOUS
  <2>1. CASE j \in DOMAIN q
    <3>1. i \in DOMAIN q
      BY <1>3, <2>1
    <3> QED  BY <1>4, <2>1, <3>1 DEF InOrder
  <2>2. CASE j \notin DOMAIN q
    <3>1. j = Len(q) + 1 /\ i \in Nat /\ i >= 1 /\ i < j
      BY <1>3, <1>6, <2>2
    <3>2. i \in DOMAIN q
      BY <1>3, <3>1
    <3>3. r[i].motion <= n /\ r[i].motion \in Nat
      BY <1>4, <3>2 DEF InOrder
    <3> QED  BY <1>6, <2>2, <3>3
  <2> QED  BY <2>1, <2>2
<1>9. \A i \in DOMAIN r : r[i].kind = "image" /\ i # 1 =>
         r[i - 1].kind = "flag1" /\ r[i - 1].motion = r[i].motion
  <2> SUFFICES ASSUME NEW i \in DOMAIN r, r[i].kind = "image", i # 1
               PROVE  r[i - 1].kind = "flag1" /\ r[i - 1].motion = r[i].motion
    OBVIOUS
  <2>1. CASE i \in DOMAIN q
    <3>1. i - 1 \in DOMAIN q /\ q[i].kind = "image" /\ r[i - 1] = q[i - 1] /\ r[i] = q[i]
      BY <1>3, <1>4, <2>1
    <3>2. q[i - 1].kind = "flag1" /\ q[i - 1].motion = q[i].motion
      BY <2>1, <3>1 DEF InOrder
    <3> QED  BY <3>1, <3>2
  <2>2. CASE i \notin DOMAIN q
    <3>1. i = Len(q) + 2 /\ Len(ms) = 2
      BY <1>2, <1>3, <1>5, <1>6, <2>2
    <3>2. i - 1 \in DOMAIN r /\ i - 1 > Len(q) /\ (i - 1) - Len(q) = 1
      BY <1>3, <3>1
    <3>3. r[i - 1] = ms[1]
      BY <1>3, <3>2
    <3> QED  BY <1>2, <1>6, <2>2, <3>1, <3>3
  <2> QED  BY <2>1, <2>2
<1>10. InOrder(r, s, top)
  BY <1>7, <1>8, <1>9 DEF InOrder
<1>11. \A i \in DOMAIN r : \/ i \in DOMAIN q /\ r[i] = q[i]
                           \/ r[i].kind = "flag0"
                           \/ r[i].motion = n + 1 /\ top = n + 1
  <2>1. \A i \in DOMAIN r : r[i] \in Messages
    BY <1>3, ElementOfSeq
  <2>2. \A i \in DOMAIN r : r[i].kind \in {"flag0", "flag1", "image"}
    BY <2>1 DEF Messages
  <2>3. \A i \in DOMAIN r \ DOMAIN q : r[i].kind = "image" => top = n + 1
    BY <1>2, <1>3, <1>5, <1>6
  <2> QED  BY <1>4, <1>6, <2>2, <2>3
<1>12. ASSUME r # <<>>, Head(r).kind = "image"
       PROVE  q # <<>> /\ Head(r) = Head(q)
  <2>1. Head(r) = r[1] /\ 1 \in DOMAIN r
    BY <1>3, <1>12
  <2>2. 1 \in DOMAIN q
    <3>1. r[1].kind = "image" /\ 1 \in DOMAIN r
      BY <1>12, <2>1
    <3>2. 1 # Len(q) + 2
      BY <1>3
    <3> QED  BY <1>6, <3>1, <3>2
  <2>3. q # <<>> /\ Head(q) = q[1]
    BY <2>2
  <2> QED  BY <1>4, <2>1, <2>2, <2>3
<1> QED  BY <1>3, <1>10, <1>11, <1>12 DEF r

\* A step that changes no message and no flag keeps the invariant.
LEMMA OwnUnchanged ==
    ASSUME OwnInv, UNCHANGED <<motions, queue, currentEvent, posted>>
    PROVE  OwnInv'
BY DEF OwnInv, FlagTypes, Fresh, InOrder, Newer, HeldFlags, OwnFlag

\* What the subscribers that are connected to a motion node are sent for a frame.
LEMMA FrameSent ==
    ASSUME ServerTypes, NEW s \in Senders, Frame(s)
    PROVE  \E ms : \E top \in {motions[s], motions[s] + 1} :
              /\ FrameSends(s, motions[s], ms, top)
              /\ motions'[s] = top
              /\ \A t \in Senders : t # s => motions'[t] = motions[t]
              /\ \A u \in Subscribers : \A t \in Senders :
                    queue'[u][t] = IF t = s /\ s \in Connected[u] THEN queue[u][t] \o ms
                                                                  ELSE queue[u][t]
<1>1. PICK motion \in BOOLEAN, encoded \in BOOLEAN :
          /\ Publish(s, FrameMessages(s, motion, encoded))
          /\ moving' = [moving EXCEPT ![s] = motion]
          /\ motions' = [motions EXCEPT ![s] = IF motion /\ ~moving[s] THEN @ + 1 ELSE @]
  BY DEF Frame
<1> DEFINE ms == FrameMessages(s, motion, encoded)
           n == motions[s]
           top == IF motion /\ ~moving[s] THEN n + 1 ELSE n
<1>2. n \in Nat /\ top \in {n, n + 1} /\ motions'[s] = top
      /\ \A t \in Senders : t # s => motions'[t] = motions[t]
  BY <1>1 DEF ServerTypes
<1>3. FrameSends(s, n, ms, top)
  <2>1. CASE motion /\ ~moving[s] /\ encoded
    BY <2>1 DEF FrameMessages, FrameSends
  <2>2. CASE motion /\ ~moving[s] /\ ~encoded
    <3>1. <<Message("flag1", s, n + 1)>> \o <<>> = <<Message("flag1", s, n + 1)>>
      OBVIOUS
    <3> QED  BY <2>2, <3>1 DEF FrameMessages, FrameSends
  <2>3. CASE ~(motion /\ ~moving[s])
    BY <2>3 DEF FrameMessages, FrameSends
  <2> QED  BY <2>1, <2>2, <2>3
<1>4. \A u \in Subscribers : \A t \in Senders :
         queue'[u][t] = IF t = s /\ s \in Connected[u] THEN queue[u][t] \o ms ELSE queue[u][t]
  BY <1>1 DEF Publish, ServerTypes
<1> HIDE DEF ms
<1> QED  BY <1>2, <1>3, <1>4

LEMMA OwnFrame ==
    ASSUME ServerTypes, OwnInv, NEW s \in Senders, Frame(s)
    PROVE  OwnInv'
<1> DEFINE n == motions[s]
<1>1. n \in Nat
  BY DEF ServerTypes
<1>2. UNCHANGED <<currentEvent, posted>>
  BY DEF Frame
<1> PICK ms : \E top \in {n, n + 1} :
              /\ FrameSends(s, n, ms, top)
              /\ motions'[s] = top
              /\ \A t \in Senders : t # s => motions'[t] = motions[t]
              /\ \A u \in Subscribers : \A t \in Senders :
                    queue'[u][t] = IF t = s /\ s \in Connected[u] THEN queue[u][t] \o ms
                                                                  ELSE queue[u][t]
  BY FrameSent
<1> PICK top \in {n, n + 1} :
              /\ FrameSends(s, n, ms, top)
              /\ motions'[s] = top
              /\ \A t \in Senders : t # s => motions'[t] = motions[t]
              /\ \A u \in Subscribers : \A t \in Senders :
                    queue'[u][t] = IF t = s /\ s \in Connected[u] THEN queue[u][t] \o ms
                                                                  ELSE queue[u][t]
  OBVIOUS
<1>3. n \in Nat /\ top \in {n, n + 1} /\ motions'[s] = top
      /\ \A t \in Senders : t # s => motions'[t] = motions[t]
  BY <1>1
<1>4. FrameSends(s, n, ms, top)
  OBVIOUS
<1>5. \A u \in Subscribers : \A t \in Senders :
         queue'[u][t] = IF t = s /\ s \in Connected[u] THEN queue[u][t] \o ms ELSE queue[u][t]
  OBVIOUS
<1>6. ASSUME NEW u \in Subscribers, NEW t \in Senders
      PROVE  InOrder(queue'[u][t], t, motions'[t]) /\ Newer(u, t)'
  <2> DEFINE q == queue[u][t]
  <2>1. q \in Seq(Messages) /\ InOrder(q, t, motions[t]) /\ Newer(u, t)
    BY DEF ServerTypes, OwnInv
  <2>2. HeldFlags(u)' = HeldFlags(u)
    BY <1>2 DEF HeldFlags
  <2>3. \A f \in HeldFlags(u) : f.motion \in Nat
    <3>1. posted[u] \subseteq Messages \X Messages
      BY DEF OwnInv, FlagTypes
    <3>2. \A f \in HeldFlags(u) : f \in Messages
      BY <3>1 DEF HeldFlags, OwnInv, FlagTypes
    <3> QED  BY <3>2 DEF Messages
  <2>4. CASE t # s
    BY <1>2, <1>3, <1>5, <2>1, <2>2, <2>4 DEF Newer
  <2>5. CASE t = s /\ s \notin Connected[u]
    <3>1. queue'[u][t] = q
      BY <1>5, <2>5
    <3>2. \A i \in DOMAIN q : q[i].motion \in Nat
      <4>1. \A i \in DOMAIN q : q[i] \in Messages
        BY <2>1, ElementOfSeq
      <4> QED  BY <4>1 DEF Messages
    <3>3. InOrder(q, t, top)
      BY <1>3, <2>1, <2>5, <3>2 DEF InOrder
    <3>4. \A f \in HeldFlags(u) : f.sender = t => f.motion <= top
      BY <1>3, <2>1, <2>3, <2>5 DEF Newer
    <3> QED  BY <1>2, <1>3, <2>1, <2>2, <2>5, <3>1, <3>3, <3>4 DEF Newer
  <2>6. CASE t = s /\ s \in Connected[u]
    <3>1. queue'[u][t] = q \o ms
      BY <1>5, <2>6
    <3>2. /\ InOrder(q \o ms, t, top)
          /\ \A i \in DOMAIN (q \o ms) :
                \/ i \in DOMAIN q /\ (q \o ms)[i] = q[i]
                \/ (q \o ms)[i].kind = "flag0"
                \/ (q \o ms)[i].motion = n + 1 /\ top = n + 1
          /\ q \o ms # <<>> /\ Head(q \o ms).kind = "image" =>
                q # <<>> /\ Head(q \o ms) = Head(q)
      <4> HIDE DEF q, n
      <4>1. InOrder(q, s, n) /\ q \in Seq(Messages)
        BY <2>1, <2>6 DEF n
      <4>2. n \in Nat /\ top \in {n, n + 1}
        BY <1>3
      <4>3. /\ InOrder(q \o ms, s, top)
            /\ \A i \in DOMAIN (q \o ms) :
                  \/ i \in DOMAIN q /\ (q \o ms)[i] = q[i]
                  \/ (q \o ms)[i].kind = "flag0"
                  \/ (q \o ms)[i].motion = n + 1 /\ top = n + 1
            /\ q \o ms # <<>> /\ Head(q \o ms).kind = "image" =>
                  q # <<>> /\ Head(q \o ms) = Head(q)
        BY <1>4, <4>1, <4>2, FrameInOrder
      <4> QED  BY <2>6, <4>3
    <3>3. \A f \in HeldFlags(u) : f.sender = t =>
             /\ f.motion <= n /\ f.motion \in Nat
             /\ \A i \in DOMAIN q : q[i].kind = "flag1" => f.motion < q[i].motion
      BY <2>1, <2>3, <2>6 DEF Newer
    <3> HIDE DEF q, n
    <3>4. \A f \in HeldFlags(u) : f.sender = t =>
             /\ f.motion <= top
             /\ \A i \in DOMAIN (q \o ms) :
                   (q \o ms)[i].kind = "flag1" => f.motion < (q \o ms)[i].motion
      <4> TAKE f \in HeldFlags(u)
      <4> HAVE f.sender = t
      <4>1. f.motion <= top /\ f.motion < n + 1
        BY <1>3, <3>3
      <4> QED  BY <3>2, <3>3, <4>1
    <3>5. ASSUME q \o ms # <<>>, Head(q \o ms).kind = "image",
                 currentEvent[u] # None, currentEvent[u][1].sender = t
          PROVE  currentEvent[u][1].motion = Head(q \o ms).motion
      BY <2>1, <3>2, <3>5 DEF Newer, q
    <3> QED  BY <1>2, <1>3, <2>2, <2>6, <3>1, <3>2, <3>4, <3>5 DEF Newer
  <2> QED  BY <2>4, <2>5, <2>6
<1>7. FlagTypes' /\ OwnFlag' /\ \A u \in Subscribers : Fresh(u)'
  BY <1>2 DEF OwnInv, FlagTypes, OwnFlag, Fresh
<1> QED  BY <1>6, <1>7 DEF OwnInv

\* What is read from s is unread of s no longer, and of no other node.
LEMMA ReadQueues ==
    ASSUME ServerTypes, NEW u \in Subscribers, NEW s \in Senders, queue[u][s] # <<>>, Read(u, s)
    PROVE  \A v \in Subscribers : \A t \in Senders :
              queue'[v][t] = IF v = u /\ t = s THEN Tail(queue[u][s]) ELSE queue[v][t]
BY DEF Read, ServerTypes

LEMMA OwnFlagRead ==
    ASSUME ServerTypes, OwnInv, NEW u \in Subscribers, NEW s \in Senders, ReadFlag(u, s)
    PROVE  OwnInv'
<1> DEFINE q == queue[u][s]
           m == Head(q)
<1>1. /\ UNCHANGED <<motions, posted>> /\ Read(u, s)
      /\ q \in Seq(Messages) /\ q # <<>> /\ m.kind \in {"flag0", "flag1"}
      /\ currentEvent' = IF m.kind = "flag1" THEN [currentEvent EXCEPT ![u] = <<m>>]
                                             ELSE currentEvent
  BY DEF ReadFlag, Unread, ServerTypes, motionVars, IsStart, Remember
<1>2. \A v \in Subscribers : \A t \in Senders :
         queue'[v][t] = IF v = u /\ t = s THEN Tail(q) ELSE queue[v][t]
  BY <1>1, ReadQueues
<1>3. InOrder(q, s, motions[s]) /\ Newer(u, s) /\ Fresh(u)
  BY DEF OwnInv
<1>4. /\ InOrder(Tail(q), s, motions[s])
      /\ m = q[1] /\ 1 \in DOMAIN q
      /\ \A i \in DOMAIN Tail(q) :
            /\ Tail(q)[i] = q[i + 1] /\ i + 1 \in DOMAIN q
            /\ q[1].kind = "flag1" /\ Tail(q)[i].kind = "flag1" =>
                  q[1].motion < Tail(q)[i].motion
      /\ Tail(q) # <<>> /\ Head(Tail(q)).kind = "image" =>
            q[1].kind = "flag1" /\ q[1].motion = Head(Tail(q)).motion
  <2> HIDE DEF q
  <2> QED  BY <1>1, <1>3, TailInOrder DEF m
<1>5. m \in Messages /\ m.sender = s /\ m.motion <= motions[s]
  <2>1. m \in Messages
    BY <1>1, <1>4, ElementOfSeq
  <2>2. m.sender = s /\ m.motion <= motions[s]
    BY <1>3, <1>4 DEF InOrder
  <2> QED  BY <2>1, <2>2
<1>6. m.kind = "flag1" => \A f \in HeldFlags(u) : f.sender = s => f.motion < m.motion
  BY <1>3, <1>4 DEF Newer
<1>7. \A f \in HeldFlags(u) : f.motion \in Nat
  <2>1. \A f \in HeldFlags(u) : f \in Messages
    BY DEF HeldFlags, OwnInv, FlagTypes
  <2> QED  BY <2>1 DEF Messages
<1>8. m.motion \in Nat
  BY <1>5 DEF Messages
<1>9. \A v \in Subscribers : v # u => currentEvent'[v] = currentEvent[v]
  BY <1>1 DEF ServerTypes
<1>10. m.kind = "flag1" => currentEvent'[u] = <<m>> /\ <<m>> # None /\ <<m>>[1] = m
  BY <1>1 DEF ServerTypes, None
<1>11. m.kind # "flag1" => currentEvent' = currentEvent
  BY <1>1
<1> HIDE DEF m, q
<1>12. FlagTypes'
  <2>1. CASE m.kind # "flag1"
    BY <1>1, <1>11, <2>1 DEF OwnInv, FlagTypes
  <2>2. CASE m.kind = "flag1"
    BY <1>1, <1>5, <1>9, <1>10, <2>2 DEF OwnInv, FlagTypes
  <2> QED  BY <2>1, <2>2
<1>13. OwnFlag'
  BY <1>1 DEF OwnInv, OwnFlag
<1>14. \A v \in Subscribers : v # u => HeldFlags(v)' = HeldFlags(v)
  BY <1>1, <1>9 DEF HeldFlags
<1>15. \A f \in HeldFlags(u)' : f \in HeldFlags(u) \/ (m.kind = "flag1" /\ f = m)
  BY <1>1, <1>10, <1>11 DEF HeldFlags
<1>16. \A v \in Subscribers : Fresh(v)'
  <2>1. ASSUME m.kind = "flag1", NEW p \in posted[u]
        PROVE  p[1] # m
    <3>1. p[1] \in HeldFlags(u)
      BY DEF HeldFlags
    <3> QED  BY <1>5, <1>6, <1>7, <1>8, <2>1, <3>1
  <2>2. Fresh(u)'
    BY <1>1, <1>3, <1>10, <1>11, <2>1 DEF Fresh
  <2>3. \A v \in Subscribers : v # u => Fresh(v)'
    BY <1>1, <1>9 DEF Fresh, OwnInv
  <2> QED  BY <2>2, <2>3
<1>17. ASSUME NEW v \in Subscribers, NEW t \in Senders
       PROVE  InOrder(queue'[v][t], t, motions'[t]) /\ Newer(v, t)'
  <2>1. InOrder(queue[v][t], t, motions[t]) /\ Newer(v, t)
    BY DEF OwnInv
  <2>2. CASE v # u
    BY <1>1, <1>2, <1>9, <1>14, <2>1, <2>2 DEF Newer
  <2>3. CASE v = u /\ t # s
    <3>1. queue'[u][t] = queue[u][t]
      BY <1>2, <2>3
    <3>2. \A f \in HeldFlags(u)' : f.sender = t => f \in HeldFlags(u)
      BY <1>5, <1>15, <2>3
    <3>3. ASSUME queue[u][t] # <<>>, Head(queue[u][t]).kind = "image",
                 currentEvent'[u] # None, currentEvent'[u][1].sender = t
          PROVE  currentEvent'[u][1].motion = Head(queue[u][t]).motion
      BY <1>5, <1>10, <1>11, <2>1, <2>3, <3>3 DEF Newer
    <3> QED  BY <1>1, <2>1, <2>3, <3>1, <3>2, <3>3 DEF Newer
  <2>4. CASE v = u /\ t = s
    <3>1. queue'[u][s] = Tail(q) /\ motions' = motions
      BY <1>1, <1>2
    <3>2. \A f \in HeldFlags(u) : f.sender = s =>
             /\ f.motion <= motions[s]
             /\ \A i \in DOMAIN Tail(q) :
                   Tail(q)[i].kind = "flag1" => f.motion < Tail(q)[i].motion
      BY <1>3, <1>4 DEF Newer, q
    <3>3. m.kind = "flag1" =>
             \A i \in DOMAIN Tail(q) : Tail(q)[i].kind = "flag1" => m.motion < Tail(q)[i].motion
      BY <1>4
    <3>4. \A f \in HeldFlags(u)' : f.sender = s =>
             /\ f.motion <= motions[s]
             /\ \A i \in DOMAIN Tail(q) :
                   Tail(q)[i].kind = "flag1" => f.motion < Tail(q)[i].motion
      BY <1>5, <1>15, <3>2, <3>3
    <3>5. Tail(q) # <<>> /\ Head(Tail(q)).kind = "image" =>
             /\ currentEvent'[u][1] = m
             /\ m.motion = Head(Tail(q)).motion
      BY <1>4, <1>10
    <3> QED  BY <1>4, <2>4, <3>1, <3>4, <3>5 DEF Newer
  <2> QED  BY <2>2, <2>3, <2>4
<1> QED  BY <1>12, <1>13, <1>16, <1>17 DEF OwnInv

LEMMA OwnImageRead ==
    ASSUME ServerTypes, OwnInv, NEW u \in Subscribers, NEW s \in Senders, ReadImage(u, s)
    PROVE  OwnInv'
<1> DEFINE q == queue[u][s]
           m == Head(q)
           pair == currentEvent[u] \o <<m>>
<1>1. /\ motions' = motions /\ Read(u, s)
      /\ q \in Seq(Messages) /\ q # <<>> /\ m.kind = "image"
      /\ currentEvent' = [currentEvent EXCEPT ![u] = None]
      /\ IF currentEvent[u] = None THEN posted' = posted
         ELSE posted' = [posted EXCEPT ![u] = @ \cup {pair}]
  BY DEF ReadImage, Unread, ServerTypes, motionVars
<1>2. \A v \in Subscribers : \A t \in Senders :
         queue'[v][t] = IF v = u /\ t = s THEN Tail(q) ELSE queue[v][t]
  BY <1>1, ReadQueues
<1>3. InOrder(q, s, motions[s]) /\ Newer(u, s) /\ Fresh(u)
  BY DEF OwnInv
<1>4. /\ InOrder(Tail(q), s, motions[s])
      /\ m = q[1] /\ 1 \in DOMAIN q
      /\ \A i \in DOMAIN Tail(q) : Tail(q)[i] = q[i + 1] /\ i + 1 \in DOMAIN q
  <2> HIDE DEF q
  <2> QED  BY <1>1, <1>3, TailInOrder DEF m
<1>5. m \in Messages /\ m.sender = s
  <2>1. m \in Messages
    BY <1>1, <1>4, ElementOfSeq
  <2>2. m.sender = s
    BY <1>3, <1>4 DEF InOrder
  <2> QED  BY <2>1, <2>2
<1>6. currentEvent'[u] = None /\ \A v \in Subscribers : v # u => currentEvent'[v] = currentEvent[v]
  BY <1>1 DEF ServerTypes
<1>7. currentEvent[u] # None =>
         /\ pair \in Messages \X Messages
         /\ pair[1] = currentEvent[u][1] /\ pair[2] = m
  <2> SUFFICES ASSUME currentEvent[u] # None
               PROVE  /\ pair \in Messages \X Messages
                      /\ pair[1] = currentEvent[u][1] /\ pair[2] = m
    OBVIOUS
  <2>1. PICK f \in Messages : currentEvent[u] = <<f>>
    BY DEF OwnInv, FlagTypes
  <2> HIDE DEF m
  <2>2. pair = <<f, m>>
    <3>1. <<f>> \in Seq(Messages) /\ <<m>> \in Seq(Messages)
      BY <1>5
    <3>2. pair = <<f>> \o <<m>>
      BY <2>1
    <3> HIDE DEF pair
    <3>3. pair \in Seq(Messages) /\ Len(pair) = 2 /\ pair[1] = f /\ pair[2] = m
      BY <3>1, <3>2, ConcatProperties
    <3> QED  BY <3>3
  <2> HIDE DEF pair
  <2> QED  BY <1>5, <2>1, <2>2
<1>8. \A v \in Subscribers : v # u => posted'[v] = posted[v]
  BY <1>1 DEF OwnInv, FlagTypes
<1>9. posted'[u] = IF currentEvent[u] = None THEN posted[u] ELSE posted[u] \cup {pair}
  BY <1>1 DEF OwnInv, FlagTypes
<1>10. currentEvent[u] # None =>
          (currentEvent[u][1].sender = s => currentEvent[u][1].motion = m.motion)
  BY <1>1, <1>3 DEF Newer
<1> HIDE DEF pair, m, q
<1>11. FlagTypes'
  <2>1. posted' \in [Subscribers -> SUBSET (Messages \X Messages)]
    BY <1>1, <1>7 DEF OwnInv, FlagTypes
  <2>2. \A v \in Subscribers : posted'[v] \subseteq Messages \X Messages
    BY <2>1
  <2> QED  BY <1>6, <2>1, <2>2 DEF OwnInv, FlagTypes
<1>12. \A v \in Subscribers : HeldFlags(v)' \subseteq HeldFlags(v)
  <2>1. HeldFlags(u)' \subseteq HeldFlags(u)
    BY <1>6, <1>7, <1>9 DEF HeldFlags
  <2>2. \A v \in Subscribers : v # u => HeldFlags(v)' = HeldFlags(v)
    BY <1>6, <1>8 DEF HeldFlags
  <2> QED  BY <2>1, <2>2
<1>13. \A v \in Subscribers : Fresh(v)'
  BY <1>6, <1>8 DEF OwnInv, Fresh
<1>14. ASSUME NEW v \in Subscribers, NEW t \in Senders
       PROVE  InOrder(queue'[v][t], t, motions'[t]) /\ Newer(v, t)'
  <2>1. InOrder(queue[v][t], t, motions[t]) /\ Newer(v, t)
    BY DEF OwnInv
  <2>2. CASE v # u
    BY <1>1, <1>2, <1>6, <1>12, <2>1, <2>2 DEF Newer
  <2>3. CASE v = u /\ t # s
    BY <1>1, <1>2, <1>6, <1>12, <2>1, <2>3 DEF Newer
  <2>4. CASE v = u /\ t = s
    <3>1. queue'[u][s] = Tail(q)
      BY <1>2
    <3>2. \A f \in HeldFlags(u)' : f.sender = s =>
             /\ f.motion <= motions[s]
             /\ \A i \in DOMAIN Tail(q) :
                   Tail(q)[i].kind = "flag1" => f.motion < Tail(q)[i].motion
      BY <1>3, <1>4, <1>12 DEF Newer, q
    <3> QED  BY <1>1, <1>4, <1>6, <2>4, <3>1, <3>2 DEF Newer
  <2> QED  BY <2>2, <2>3, <2>4
<1>15. OwnFlag'
  <2> SUFFICES ASSUME NEW v \in Subscribers, NEW x \in posted'[v], NEW y \in posted'[v]
               PROVE  /\ x[1].sender = x[2].sender => x[1].motion = x[2].motion
                      /\ x[1] = y[1] => x = y
    BY DEF OwnFlag
  <2>1. \A z \in posted[v] : z[1].sender = z[2].sender => z[1].motion = z[2].motion
    BY DEF OwnInv, OwnFlag
  <2>2. \A z, w \in posted[v] : z[1] = w[1] => z = w
    BY DEF OwnInv, OwnFlag
  <2>3. CASE v # u \/ currentEvent[u] = None
    BY <1>8, <1>9, <2>1, <2>2, <2>3
  <2>4. CASE v = u /\ currentEvent[u] # None
    <3>1. pair[1].sender = pair[2].sender => pair[1].motion = pair[2].motion
      BY <1>5, <1>7, <1>10, <2>4
    <3>2. \A z \in posted[u] : z[1] # pair[1]
      BY <1>3, <1>7, <2>4 DEF Fresh
    <3> QED  BY <1>9, <2>1, <2>2, <2>4, <3>1, <3>2
  <2> QED  BY <2>3, <2>4
<1> QED  BY <1>11, <1>13, <1>14, <1>15 DEF OwnInv

LEMMA OwnStep == ServerTypes /\ OwnInv /\ [EventsNext]_eventsVars => OwnInv'
<1> SUFFICES ASSUME ServerTypes, OwnInv, [EventsNext]_eventsVars PROVE OwnInv'
  OBVIOUS
<1>1. ASSUME NEW s \in Senders, IncompleteFrame(s) PROVE OwnInv'
  BY <1>1, OwnUnchanged DEF IncompleteFrame, subVars
<1>2. ASSUME NEW u \in Subscribers, Handler(u) PROVE OwnInv'
  BY <1>2, OwnUnchanged DEF Handler, AppendEvent, OpenFile, WriteFile, Reply, motionVars, subVars
<1>3. CASE Crash \/ Start
  BY <1>3, OwnUnchanged DEF Crash, Start, motionVars, subVars
<1>4. CASE UNCHANGED eventsVars
  BY <1>4, OwnUnchanged DEF eventsVars, motionVars, subVars
<1> QED  BY <1>1, <1>2, <1>3, <1>4, OwnFrame, OwnFlagRead, OwnImageRead
            DEF EventsNext, EventsOver, Subscriber

LEMMA OwnStart == EventsInit => OwnInv
<1> SUFFICES ASSUME EventsInit PROVE OwnInv
  OBVIOUS
<1>1. FlagTypes
  <2>1. posted \in [Subscribers -> SUBSET (Messages \X Messages)]
    BY DEF EventsInit
  <2> QED  BY <2>1 DEF EventsInit, FlagTypes
<1>2. OwnFlag /\ \A u \in Subscribers : Fresh(u)
  BY DEF EventsInit, OwnFlag, Fresh
<1>3. \A u \in Subscribers : \A s \in Senders :
         InOrder(queue[u][s], s, motions[s]) /\ Newer(u, s)
  <2> TAKE u \in Subscribers
  <2> TAKE s \in Senders
  <2>1. queue[u][s] = <<>> /\ DOMAIN queue[u][s] = {} /\ HeldFlags(u) = {}
    BY DEF EventsInit, HeldFlags
  <2>2. InOrder(queue[u][s], s, motions[s])
    BY <2>1 DEF InOrder
  <2>3. Newer(u, s)
    BY <2>1 DEF Newer
  <2> QED  BY <2>2, <2>3
<1> QED  BY <1>1, <1>2, <1>3 DEF OwnInv

\* An image is never combined with an older flag of its own node, and no flag is
\* posted twice, although the subscriber remembers one flag for all nodes, reads
\* the nodes' messages in any order among them, and an image may be missing.
THEOREM SubscriberOwnFlag == EventsSpec => []OwnFlag
<1>1. EventsInit => ServerTypes /\ OwnInv
  BY InitTypes, OwnStart
<1>2. OwnInv => OwnFlag
  BY DEF OwnInv
<1> QED  BY <1>1, <1>2, StepTypes, OwnStep, PTL DEF EventsSpec

-----------------------------------------------------------------------------
(* The contents of the event path.                                         *)

Of(k) == UNION {{Message(k, s, n) : n \in 1..MaxFrames[s]} : s \in Senders}
Pairs == Of("flag1") \X Of("image")

\* A motion node announces at most one motion per frame, and nothing that it did
\* not announce is on its way, remembered, posted, listed or written.
ContentInv ==
    /\ frames \in [Senders -> Nat]
    /\ \A s \in Senders : motions[s] <= frames[s] /\ frames[s] <= MaxFrames[s]
    /\ \A u \in Subscribers : \A s \in Senders : \A i \in DOMAIN queue[u][s] :
          queue[u][s][i].kind # "flag0" => queue[u][s][i].motion \in 1..MaxFrames[s]
    /\ \A u \in Subscribers :
          /\ currentEvent[u] # None => currentEvent[u][1] \in Of("flag1")
          /\ post[u] = None \/ post[u] \in Pairs \cap posted[u]
          /\ posted[u] \subseteq Pairs
          /\ handler[u] = "none" <=> post[u] = None
    /\ \A i \in DOMAIN events : events[i] \in Pairs
    /\ file = Torn \/ \A i \in DOMAIN file : file[i] \in Pairs
    /\ acked \subseteq UNION {posted[u] : u \in Subscribers}

LEMMA OfIs ==
    ASSUME NEW m \in Messages, m.motion \in 1..MaxFrames[m.sender]
    PROVE  m \in Of(m.kind)
<1>1. m = Message(m.kind, m.sender, m.motion) /\ m.sender \in Senders
  BY DEF Messages, Message
<1> QED  BY <1>1 DEF Of

LEMMA PairsAreNoNone == None \notin Pairs
<1>1. \A p \in Pairs : p # <<>>
  BY DEF Pairs
<1> QED  BY <1>1 DEF None

LEMMA ContentFrame ==
    ASSUME ServerTypes, OwnInv, ContentInv, NEW s \in Senders, Frame(s)
    PROVE  ContentInv'
<1> DEFINE n == motions[s]
<1> PICK ms : \E top \in {n, n + 1} :
              /\ FrameSends(s, n, ms, top)
              /\ motions'[s] = top
              /\ \A t \in Senders : t # s => motions'[t] = motions[t]
              /\ \A u \in Subscribers : \A t \in Senders :
                    queue'[u][t] = IF t = s /\ s \in Connected[u] THEN queue[u][t] \o ms
                                                                  ELSE queue[u][t]
  BY FrameSent
<1> PICK top \in {n, n + 1} :
              /\ FrameSends(s, n, ms, top)
              /\ motions'[s] = top
              /\ \A t \in Senders : t # s => motions'[t] = motions[t]
              /\ \A u \in Subscribers : \A t \in Senders :
                    queue'[u][t] = IF t = s /\ s \in Connected[u] THEN queue[u][t] \o ms
                                                                  ELSE queue[u][t]
  OBVIOUS
<1>1. /\ frames[s] < MaxFrames[s] /\ frames' = [frames EXCEPT ![s] = @ + 1]
      /\ UNCHANGED <<currentEvent, post, posted, handler, events, file, acked>>
  BY DEF Frame, serverVars
<1>2. /\ n \in Nat /\ frames[s] \in Nat /\ MaxFrames[s] \in Nat /\ n <= frames[s]
      /\ frames'[s] = frames[s] + 1
      /\ \A t \in Senders : t # s => frames'[t] = frames[t]
  BY <1>1, EventsAssumption DEF ServerTypes, ContentInv
<1>3. /\ frames' \in [Senders -> Nat]
      /\ \A t \in Senders : motions'[t] <= frames'[t] /\ frames'[t] <= MaxFrames[t]
  BY <1>1, <1>2 DEF ContentInv
<1>4. ASSUME NEW u \in Subscribers, NEW t \in Senders, NEW i \in DOMAIN queue'[u][t],
             queue'[u][t][i].kind # "flag0"
      PROVE  queue'[u][t][i].motion \in 1..MaxFrames[t]
  <2> DEFINE q == queue[u][t]
  <2>1. \A j \in DOMAIN q : q[j].kind # "flag0" => q[j].motion \in 1..MaxFrames[t]
    BY DEF ContentInv
  <2>2. CASE queue'[u][t] = q
    BY <1>4, <2>1, <2>2
  <2>3. CASE t = s /\ queue'[u][t] = q \o ms
    <3>1. q \in Seq(Messages) /\ InOrder(q, s, n)
      BY <2>3 DEF ServerTypes, OwnInv
    <3>2. \/ i \in DOMAIN q /\ queue'[u][t][i] = q[i]
          \/ queue'[u][t][i].motion = n + 1
      <4> HIDE DEF q, n
      <4> QED  BY <1>2, <1>4, <2>3, <3>1, FrameInOrder
    <3>3. n + 1 \in 1..MaxFrames[s]
      BY <1>1, <1>2
    <3> HIDE DEF q, n
    <3> QED  BY <1>4, <2>1, <2>3, <3>2, <3>3
  <2> QED  BY <2>2, <2>3
<1> QED  BY <1>1, <1>3, <1>4 DEF ContentInv

LEMMA ContentRead ==
    ASSUME ServerTypes, OwnInv, ContentInv, NEW u \in Subscribers, NEW s \in Senders,
           queue[u][s] # <<>>, Read(u, s), Head(queue[u][s]).kind # "flag0"
    PROVE  Head(queue[u][s]) \in Of(Head(queue[u][s]).kind)
<1> DEFINE q == queue[u][s]
<1>1. q \in Seq(Messages) /\ InOrder(q, s, motions[s])
  BY DEF ServerTypes, OwnInv
<1>2. Head(q) = q[1] /\ 1 \in DOMAIN q
  <2> HIDE DEF q
  <2> QED  BY <1>1, TailInOrder DEF q
<1>3. Head(q) \in Messages /\ Head(q).sender = s
  BY <1>1, <1>2, ElementOfSeq DEF InOrder
<1>4. Head(q).motion \in 1..MaxFrames[s]
  BY <1>2 DEF ContentInv
<1> QED  BY <1>3, <1>4, OfIs

\* Reading takes messages away.
LEMMA ContentQueues ==
    ASSUME ServerTypes, ContentInv, NEW u \in Subscribers, NEW s \in Senders,
           queue[u][s] # <<>>, Read(u, s)
    PROVE  \A v \in Subscribers : \A t \in Senders : \A i \in DOMAIN queue'[v][t] :
              queue'[v][t][i].kind # "flag0" => queue'[v][t][i].motion \in 1..MaxFrames[t]
<1> TAKE v \in Subscribers
<1> TAKE t \in Senders
<1>1. queue'[v][t] = IF v = u /\ t = s THEN Tail(queue[u][s]) ELSE queue[v][t]
  BY ReadQueues
<1>2. CASE v = u /\ t = s
  <2> DEFINE q == queue[u][s]
  <2>1. q \in Seq(Messages) /\ q # <<>>
    BY DEF ServerTypes
  <2>2. \A i \in DOMAIN Tail(q) : Tail(q)[i] = q[i + 1] /\ i + 1 \in DOMAIN q
    <3> HIDE DEF q
    <3> QED  BY <2>1
  <2>3. \A i \in DOMAIN q : q[i].kind # "flag0" => q[i].motion \in 1..MaxFrames[s]
    BY DEF ContentInv
  <2> QED  BY <1>1, <1>2, <2>2, <2>3
<1>3. CASE ~(v = u /\ t = s)
  BY <1>1, <1>3 DEF ContentInv
<1> QED  BY <1>2, <1>3

LEMMA ContentFlagRead ==
    ASSUME ServerTypes, OwnInv, ContentInv, NEW u \in Subscribers, NEW s \in Senders,
           ReadFlag(u, s)
    PROVE  ContentInv'
<1> DEFINE m == Head(queue[u][s])
<1>1. /\ UNCHANGED <<motions, frames, post, posted, handler, events, file, acked>>
      /\ Read(u, s) /\ queue[u][s] # <<>>
      /\ currentEvent' = IF m.kind = "flag1" THEN [currentEvent EXCEPT ![u] = <<m>>]
                                             ELSE currentEvent
  BY DEF ReadFlag, Unread, motionVars, serverVars, IsStart, Remember
<1>2. m.kind = "flag1" => m \in Of("flag1")
  BY <1>1, ContentRead
<1> HIDE DEF m
<1>3. \A v \in Subscribers : currentEvent'[v] # None => currentEvent'[v][1] \in Of("flag1")
  BY <1>1, <1>2 DEF ContentInv, ServerTypes
<1>4. \A v \in Subscribers : \A t \in Senders : \A i \in DOMAIN queue'[v][t] :
         queue'[v][t][i].kind # "flag0" => queue'[v][t][i].motion \in 1..MaxFrames[t]
  BY <1>1, ContentQueues
<1> QED  BY <1>1, <1>3, <1>4 DEF ContentInv

LEMMA ContentImageRead ==
    ASSUME ServerTypes, OwnInv, ContentInv, NEW u \in Subscribers, NEW s \in Senders,
           ReadImage(u, s)
    PROVE  ContentInv'
<1> DEFINE m == Head(queue[u][s])
           pair == currentEvent[u] \o <<m>>
<1>1. /\ UNCHANGED <<motions, frames, events, file, acked>>
      /\ Read(u, s) /\ queue[u][s] # <<>> /\ post[u] = None /\ m.kind = "image"
      /\ currentEvent' = [currentEvent EXCEPT ![u] = None]
      /\ IF currentEvent[u] = None THEN UNCHANGED <<post, posted, handler>>
         ELSE /\ posted' = [posted EXCEPT ![u] = @ \cup {pair}]
              /\ \/ /\ post' = [post EXCEPT ![u] = pair]
                    /\ handler' = [handler EXCEPT ![u] = "append"]
                 \/ UNCHANGED <<post, handler>>
  BY DEF ReadImage, Unread, motionVars
<1>2. m \in Of("image")
  BY <1>1, ContentRead
<1>3. currentEvent[u] # None => pair \in Pairs
  <2> SUFFICES ASSUME currentEvent[u] # None PROVE pair \in Pairs
    OBVIOUS
  <2>1. PICK f \in Messages : currentEvent[u] = <<f>>
    BY DEF OwnInv, FlagTypes
  <2>2. f \in Of("flag1")
    <3>1. currentEvent[u][1] \in Of("flag1")
      BY DEF ContentInv
    <3>2. currentEvent[u][1] = f
      BY <2>1
    <3> QED  BY <3>1, <3>2
  <2>3. m \in Messages
    BY <1>1, ReadTypes
  <2> HIDE DEF m
  <2>4. pair = <<f>> \o <<m>>
    BY <2>1
  <2>5. <<f>> \in Seq(Messages) /\ <<m>> \in Seq(Messages)
    BY <2>3
  <2> HIDE DEF pair
  <2>6. pair \in Seq(Messages) /\ Len(pair) = 2 /\ pair[1] = f /\ pair[2] = m
    BY <2>4, <2>5, ConcatProperties
  <2>7. pair = <<f, m>>
    BY <2>6
  <2> QED  BY <1>2, <2>2, <2>7 DEF Pairs
<1>4. /\ posted \in [Subscribers -> SUBSET (Messages \X Messages)]
      /\ post \in [Subscribers -> Seq(Messages)] /\ handler \in [Subscribers -> Stages]
      /\ currentEvent \in [Subscribers -> Seq(Messages)]
  BY DEF OwnInv, FlagTypes, ServerTypes
<1>5. \A v \in Subscribers : \A t \in Senders : \A i \in DOMAIN queue'[v][t] :
         queue'[v][t][i].kind # "flag0" => queue'[v][t][i].motion \in 1..MaxFrames[t]
  BY <1>1, ContentQueues
<1> HIDE DEF pair, m
<1>6. \A v \in Subscribers :
         /\ currentEvent'[v] # None => currentEvent'[v][1] \in Of("flag1")
         /\ posted[v] \subseteq posted'[v] /\ posted'[v] \subseteq Pairs
  BY <1>1, <1>3, <1>4 DEF ContentInv
<1>7. \A v \in Subscribers : /\ post'[v] = None \/ post'[v] \in Pairs \cap posted'[v]
                             /\ handler'[v] = "none" <=> post'[v] = None
  <2>1. \A v \in Subscribers : v # u =>
           post'[v] = post[v] /\ handler'[v] = handler[v]
    BY <1>1, <1>4
  <2>2. CASE UNCHANGED <<post, handler>>
    BY <1>6, <2>2 DEF ContentInv
  <2>3. CASE currentEvent[u] # None /\ post'[u] = pair /\ handler'[u] = "append"
    <3>1. pair \in posted'[u] /\ pair \in Pairs /\ pair # None
      BY <1>1, <1>3, <1>4, <2>3, PairsAreNoNone
    <3> QED  BY <1>6, <2>1, <2>3, <3>1 DEF ContentInv
  <2> QED  BY <1>1, <1>4, <2>2, <2>3
<1>8. acked' \subseteq UNION {posted'[v] : v \in Subscribers}
  BY <1>1, <1>6 DEF ContentInv
<1> QED  BY <1>1, <1>5, <1>6, <1>7, <1>8 DEF ContentInv

LEMMA ContentHandler ==
    ASSUME ServerTypes, DownIdle, ContentInv, NEW u \in Subscribers, Handler(u)
    PROVE  ContentInv'
<1>1. UNCHANGED <<motions, frames, queue, currentEvent, posted>>
  BY DEF Handler, AppendEvent, OpenFile, WriteFile, Reply, motionVars, subVars
<1>2. CASE AppendEvent(u)
  <2>1. /\ UNCHANGED <<post, file, acked>> /\ handler[u] = "append"
        /\ events' = Append(events, post[u])
        /\ handler' = [handler EXCEPT ![u] = "open"]
    BY <1>2 DEF AppendEvent, AfterAppend, subVars
  <2>2. post[u] \in Pairs
    BY <2>1 DEF ContentInv
  <2>3. \A i \in DOMAIN events' : events'[i] \in Pairs
    <3>1. events \in Seq(Seq(Messages)) /\ post[u] \in Seq(Messages)
      BY DEF ServerTypes
    <3>2. /\ Len(events') = Len(events) + 1 /\ Len(events) \in Nat
          /\ \A i \in 1..Len(events) : events'[i] = events[i]
          /\ events'[Len(events) + 1] = post[u]
          /\ DOMAIN events = 1..Len(events) /\ DOMAIN events' = 1..Len(events')
      BY <2>1, <3>1, AppendProperties
    <3>3. \A i \in DOMAIN events' : i \in DOMAIN events \/ i = Len(events) + 1
      BY <3>2
    <3> QED  BY <2>2, <3>2, <3>3 DEF ContentInv
  <2>4. \A v \in Subscribers : handler'[v] = "none" <=> handler[v] = "none"
    BY <2>1 DEF ServerTypes
  <2> QED  BY <1>1, <2>1, <2>3, <2>4 DEF ContentInv
<1>3. CASE OpenFile(u) \/ WriteFile(u)
  <2>1. /\ UNCHANGED <<post, events, acked>> /\ file' \in {Torn, events}
        /\ \A v \in Subscribers : handler'[v] = "none" <=> handler[v] = "none"
    BY <1>3 DEF OpenFile, WriteFile, subVars, ServerTypes
  <2> QED  BY <1>1, <2>1 DEF ContentInv
<1>4. CASE Reply(u)
  <2>1. /\ UNCHANGED <<events, file>> /\ acked' = acked \cup {post[u]}
        /\ handler[u] = "reply"
        /\ handler'[u] = "none" /\ post'[u] = None
        /\ \A v \in Subscribers : v # u => handler'[v] = handler[v] /\ post'[v] = post[v]
    BY <1>4 DEF Reply, ServerTypes
  <2>2. post[u] \in posted[u]
    BY <2>1 DEF ContentInv
  <2>3. acked' \subseteq UNION {posted[v] : v \in Subscribers}
    BY <2>1, <2>2 DEF ContentInv
  <2> QED  BY <1>1, <2>1, <2>3 DEF ContentInv
<1> QED  BY <1>2, <1>3, <1>4 DEF Handler

LEMMA ContentStep ==
    ServerTypes /\ DownIdle /\ OwnInv /\ ContentInv /\ [EventsNext]_eventsVars => ContentInv'
<1> SUFFICES ASSUME ServerTypes, DownIdle, OwnInv, ContentInv, [EventsNext]_eventsVars
             PROVE  ContentInv'
  OBVIOUS
<1>1. ASSUME NEW s \in Senders, IncompleteFrame(s) PROVE ContentInv'
  <2>1. /\ frames' = [frames EXCEPT ![s] = MaxFrames[s]] /\ frames[s] < MaxFrames[s]
        /\ UNCHANGED <<motions, queue, currentEvent, post, posted, handler, events, file, acked>>
    BY <1>1 DEF IncompleteFrame, subVars, serverVars
  <2>2. /\ motions[s] \in Nat /\ frames[s] \in Nat /\ MaxFrames[s] \in Nat
        /\ motions[s] <= frames[s]
    BY EventsAssumption DEF ContentInv, ServerTypes
  <2>3. /\ frames' \in [Senders -> Nat]
        /\ \A t \in Senders : motions[t] <= frames'[t] /\ frames'[t] <= MaxFrames[t]
    BY <2>1, <2>2 DEF ContentInv
  <2> QED  BY <2>1, <2>3 DEF ContentInv
<1>2. CASE Crash
  BY <1>2 DEF Crash, ContentInv, motionVars
<1>3. CASE Start
  BY <1>3 DEF Start, ContentInv, motionVars, subVars
<1>4. CASE UNCHANGED eventsVars
  BY <1>4 DEF eventsVars, ContentInv, motionVars, subVars, serverVars
<1> QED  BY <1>1, <1>2, <1>3, <1>4, ContentFrame, ContentFlagRead, ContentImageRead,
            ContentHandler DEF EventsNext, EventsOver, Subscriber

EventsInv == ServerTypes /\ DownIdle /\ OwnInv /\ ContentInv

LEMMA EventsStart == EventsInit => EventsInv
<1> SUFFICES ASSUME EventsInit PROVE DownIdle /\ ContentInv
  BY InitTypes, OwnStart DEF EventsInv
<1>1. DownIdle
  BY DEF EventsInit, DownIdle
<1>2. ContentInv
  BY EventsAssumption DEF EventsInit, ContentInv
<1> QED  BY <1>1, <1>2

LEMMA EventsStep == EventsInv /\ [EventsNext]_eventsVars => EventsInv'
BY StepTypes, StepDownIdle, OwnStep, ContentStep DEF EventsInv

LEMMA EventsTypes == EventsInv => EventsTypeOK
<1> SUFFICES ASSUME ServerTypes, OwnInv, ContentInv PROVE EventsTypeOK
  BY DEF EventsInv
<1>1. \A u \in Subscribers :
         currentEvent[u] = None \/ currentEvent[u] \in {<<f>> : f \in Of("flag1")}
  <2> SUFFICES ASSUME NEW u \in Subscribers, currentEvent[u] # None
               PROVE  currentEvent[u] \in {<<f>> : f \in Of("flag1")}
    OBVIOUS
  <2>1. PICK f \in Messages : currentEvent[u] = <<f>>
    BY DEF OwnInv, FlagTypes
  <2>2. currentEvent[u][1] \in Of("flag1")
    BY DEF ContentInv
  <2>3. currentEvent[u][1] = f
    BY <2>1
  <2> QED  BY <2>1, <2>2, <2>3
<1>2. \A u \in Subscribers : handler[u] \in {"none", "append", "open", "write", "reply"}
  BY DEF ServerTypes, Stages
<1>3. moving \in [Senders -> BOOLEAN]
  BY DEF ServerTypes
<1> QED  BY <1>1, <1>2, <1>3 DEF EventsTypeOK, ContentInv, Of, Pairs

\* A subscriber posts nothing but the start of a motion with an image, both
\* announced by a motion node; the list and the file hold nothing else, and what
\* is acknowledged was posted.
THEOREM EventPathTypeOK == EventsSpec => []EventsTypeOK
BY EventsStart, EventsStep, EventsTypes, PTL DEF EventsSpec

-----------------------------------------------------------------------------
(* The programs of .draft/ together.                                       *)

\* Each step of the instance is a step of one part, and stutters in the others.
LEMMA DraftSteps ==
    [MCNext]_<<part, vars, eventsVars, recorderVars>>
        => [Next]_vars /\ [EventsNext]_eventsVars /\ [RecorderNext]_recorderVars
BY Zenon DEF MCNext

\* The programs that look for one another and the event path keep their types,
\* for any constants and from any of the starts of the instance.
THEOREM DraftsTypeCorrect == MCSpec => []DraftsTypeOK
<1>1. MCInit => Types /\ Exchange /\ EventsInv
  BY InitExchange, EventsStart DEF MCInit
<1>2. Types /\ Exchange /\ EventsInv /\ [MCNext]_<<part, vars, eventsVars, recorderVars>>
         => Types' /\ Exchange' /\ EventsInv'
  BY DraftSteps, StepExchange, EventsStep
<1>3. Types /\ EventsInv => DraftsTypeOK
  BY TypesImply, EventsTypes DEF DraftsTypeOK
<1> QED  BY <1>1, <1>2, <1>3, PTL DEF MCSpec
=============================================================================
