----------------------------- MODULE DraftEvents -----------------------------
(***************************************************************************)
(* The event path of .draft/: motion/motion_ffmpeg.py publishes motion     *)
(* flags and images, requests/api_subscriber.py joins them and POSTs the   *)
(* pair to a REST server that keeps all events in a list and in a file:    *)
(* alert/app.py, or test_server.py, which has no lock.                     *)
(*                                                                         *)
(* A flag and its image carry the serial number of the motion they belong  *)
(* to, which stands for their timestamps.  Both servers handle requests in *)
(* threads; a subscriber waits for the answer without a timeout.  The       *)
(* connections are there from the start; PeerNode is about those.  A socket *)
(* keeps the order of the messages of one node, not that of two nodes.      *)
(***************************************************************************)
EXTENDS Naturals, Sequences

CONSTANTS
    Senders,        \* motion nodes
    Subscribers,    \* processes that run requests/api_subscriber.py
    Connected,      \* the motion nodes that each subscriber is connected to
    Servers,        \* the servers that are considered: "app", "test_server"
    MaxFrames,      \* bound: frames each motion node reads
    MaxCrashes      \* bound: crashes of the server

ASSUME EventsAssumption ==
    /\ Connected \in [Subscribers -> SUBSET Senders]
    /\ MaxFrames \in [Senders -> Nat] /\ MaxCrashes \in Nat

VARIABLES
    moving,         \* last_motion_state of each motion node
    frames,         \* frames read by each motion node, or all of them: the process ended
    motions,        \* motions each node has announced
    queue,          \* messages of each node that a subscriber has not read
    currentEvent,   \* current_event of each subscriber, or None
    post,           \* the pair a subscriber is posting, or None
    posted,         \* the pairs posted by each subscriber (log)
    server,         \* which server runs
    up, crashes,    \* the server is up; how often it crashed
    handler,        \* step of the handler thread of each subscriber's request
    overlapped,     \* handlers that had the file open together with another one
    events,         \* EVENTS, the list in memory
    file,           \* EVENTS_FILE: a list, or Torn
    torn,           \* the server crashed while the file was torn (history)
    acked           \* pairs answered with 200 (log)

motionVars == <<moving, frames, motions>>
subVars == <<queue, currentEvent, post, posted>>
serverVars == <<server, up, crashes, handler, overlapped, events, file, torn, acked>>
eventsVars == <<motionVars, subVars, serverVars>>

None == <<>>
\* A file whose content is no event.
Torn == <<None>>
Message(k, s, n) == [kind |-> k, sender |-> s, motion |-> n]

EventsInit ==
    /\ moving = [s \in Senders |-> FALSE]
    /\ frames = [s \in Senders |-> 0]
    /\ motions = [s \in Senders |-> 0]
    /\ queue = [u \in Subscribers |-> [s \in Senders |-> <<>>]]
    /\ currentEvent = [u \in Subscribers |-> None]
    /\ post = [u \in Subscribers |-> None]
    /\ posted = [u \in Subscribers |-> {}]
    /\ server \in Servers
    /\ up = TRUE /\ crashes = 0
    /\ handler = [u \in Subscribers |-> "none"]
    /\ overlapped = {}
    /\ events = <<>> /\ file = <<>>
    /\ torn = FALSE /\ acked = {}

-----------------------------------------------------------------------------
(* motion_ffmpeg.py                                                        *)

Publish(s, messages) ==
    queue' = [u \in Subscribers |->
                IF s \in Connected[u] THEN [queue[u] EXCEPT ![s] = @ \o messages]
                                      ELSE queue[u]]

\* What one frame publishes: flag 1 and, if it can be encoded, the image when
\* motion starts; flag 0 in every frame after one with motion, whether the
\* motion goes on or not.
FrameMessages(s, motion, encoded) ==
    LET n == motions[s] + 1 IN
    IF motion /\ ~moving[s]
    THEN <<Message("flag1", s, n)>> \o (IF encoded THEN <<Message("image", s, n)>> ELSE <<>>)
    ELSE IF moving[s] THEN <<Message("flag0", s, motions[s])>> ELSE <<>>

Frame(s) ==
    /\ frames[s] < MaxFrames[s]
    /\ frames' = [frames EXCEPT ![s] = @ + 1]
    /\ \E motion, encoded \in BOOLEAN :
          /\ Publish(s, FrameMessages(s, motion, encoded))
          /\ moving' = [moving EXCEPT ![s] = motion]
          /\ motions' = [motions EXCEPT ![s] = IF motion /\ ~moving[s] THEN @ + 1 ELSE @]
    /\ UNCHANGED <<currentEvent, post, posted, serverVars>>

\* An incomplete frame ends the loop and the process.
IncompleteFrame(s) ==
    /\ frames[s] < MaxFrames[s]
    /\ frames' = [frames EXCEPT ![s] = MaxFrames[s]]
    /\ UNCHANGED <<moving, motions, subVars, serverVars>>

-----------------------------------------------------------------------------
(* requests/api_subscriber.py                                              *)

IsStart(m) == m.kind = "flag1"

\* Mutant of Remember: the first flag is kept until an image comes.
RememberFirst(u, m) ==
    [currentEvent EXCEPT ![u] = IF @ = None THEN <<m>> ELSE @]

\* A flag 1 replaces the remembered one, whichever node it is from.
Remember(u, m) == [currentEvent EXCEPT ![u] = <<m>>]

Unread(u, s, kinds) ==
    post[u] = None /\ queue[u][s] # <<>> /\ Head(queue[u][s]).kind \in kinds

Read(u, s) == queue' = [queue EXCEPT ![u][s] = Tail(@)]

ReadFlag(u, s) ==
    /\ Unread(u, s, {"flag0", "flag1"})
    /\ currentEvent' = IF IsStart(Head(queue[u][s]))
                       THEN Remember(u, Head(queue[u][s])) ELSE currentEvent
    /\ Read(u, s)
    /\ UNCHANGED <<motionVars, post, posted, serverVars>>

\* An image is combined with the remembered flag, whichever node that is from, and
\* sent, or ignored.  A server that is down refuses the request: the error is
\* logged and the event is gone.
ReadImage(u, s) ==
    /\ Unread(u, s, {"image"})
    /\ Read(u, s)
    /\ currentEvent' = [currentEvent EXCEPT ![u] = None]
    /\ IF currentEvent[u] = None
       THEN UNCHANGED <<post, posted, handler>>
       ELSE LET pair == currentEvent[u] \o <<Head(queue[u][s])>> IN
            /\ posted' = [posted EXCEPT ![u] = @ \cup {pair}]
            /\ IF up
               THEN /\ post' = [post EXCEPT ![u] = pair]
                    /\ handler' = [handler EXCEPT ![u] = "append"]
               ELSE UNCHANGED <<post, handler>>
    /\ UNCHANGED <<motionVars, server, up, crashes, overlapped, events, file, torn,
                   acked>>

-----------------------------------------------------------------------------
(* app.py and test_server.py: the handler of a POST, step by step.         *)

Inside(u) == handler[u] \in {"open", "write"}

\* Mutant of MayEnter: no lock in either server.
MayAlwaysEnter == TRUE

\* with EVENTS_LOCK (app.py only)
MayEnter == server = "app" => \A u \in Subscribers : ~Inside(u)

\* Mutant of AfterAppend: the file is not written.
ReplyAfterAppend == "reply"

AfterAppend == "open"

AppendEvent(u) ==
    /\ handler[u] = "append" /\ MayEnter
    /\ events' = Append(events, post[u])
    /\ handler' = [handler EXCEPT ![u] = AfterAppend]
    /\ UNCHANGED <<motionVars, subVars, server, up, crashes, overlapped, file, torn, acked>>

\* open(EVENTS_FILE, "w") truncates the file.
OpenFile(u) ==
    LET others == {v \in Subscribers : handler[v] = "write"} IN
    /\ handler[u] = "open"
    /\ file' = Torn
    /\ overlapped' = overlapped \cup (IF others = {} THEN {} ELSE others \cup {u})
    /\ handler' = [handler EXCEPT ![u] = "write"]
    /\ UNCHANGED <<motionVars, subVars, server, up, crashes, events, torn, acked>>

\* json.dump writes the list; of two handlers that have the file open together
\* the one that closes it last may have written over the other's part.
WriteFile(u) ==
    /\ handler[u] = "write"
    /\ file' \in {events} \cup (IF u \in overlapped THEN {Torn} ELSE {})
    /\ overlapped' = overlapped \ {u}
    /\ handler' = [handler EXCEPT ![u] = "reply"]
    /\ UNCHANGED <<motionVars, subVars, server, up, crashes, events, torn, acked>>

Reply(u) ==
    /\ handler[u] = "reply"
    /\ acked' = acked \cup {post[u]}
    /\ handler' = [handler EXCEPT ![u] = "none"]
    /\ post' = [post EXCEPT ![u] = None]
    /\ UNCHANGED <<motionVars, queue, currentEvent, posted, server, up, overlapped,
                   crashes, events, file, torn>>

\* The server stops at any point: the subscribers' requests fail.
Crash ==
    /\ up /\ crashes < MaxCrashes
    /\ up' = FALSE /\ crashes' = crashes + 1
    /\ handler' = [u \in Subscribers |-> "none"]
    /\ post' = [u \in Subscribers |-> None]
    /\ overlapped' = {}
    /\ events' = <<>>
    /\ torn' = (torn \/ file = Torn)
    /\ UNCHANGED <<motionVars, queue, currentEvent, posted, server, file,
                   acked>>

\* load_events: app.py starts empty if the file cannot be read, test_server.py
\* does not start.
Loadable == server = "app" \/ file # Torn

Start ==
    /\ ~up /\ Loadable
    /\ up' = TRUE
    /\ events' = IF file = Torn THEN <<>> ELSE file
    /\ UNCHANGED <<motionVars, subVars, server, crashes, handler, overlapped, file, torn, acked>>

Subscriber(u) == \E s \in Senders : ReadFlag(u, s) \/ ReadImage(u, s)
Handler(u) == AppendEvent(u) \/ OpenFile(u) \/ WriteFile(u) \/ Reply(u)

\* Every frame is read and every message handled.
EventsOver ==
    /\ \A t \in Senders : frames[t] = MaxFrames[t]
    /\ \A u \in Subscribers :
          post[u] = None /\ \A s \in Senders : queue[u][s] = <<>>
    /\ UNCHANGED eventsVars

EventsNext ==
    \/ \E s \in Senders : Frame(s) \/ IncompleteFrame(s)
    \/ \E u \in Subscribers :
          Subscriber(u) \/ Handler(u)
    \/ Crash \/ Start
    \/ EventsOver

EventsSpec == EventsInit /\ [][EventsNext]_eventsVars

-----------------------------------------------------------------------------
(* Properties.                                                             *)

\* Type correctness; a subscriber remembers nothing but the start of a motion and
\* posts a flag with an image, and a handler serves a subscriber that waits.
EventsTypeOK ==
    LET Of(k) == UNION {{Message(k, s, n) : n \in 1..MaxFrames[s]} : s \in Senders}
        Pairs == Of("flag1") \X Of("image")
    IN
    /\ moving \in [Senders -> BOOLEAN]
    /\ \A s \in Senders : motions[s] <= frames[s] /\ frames[s] <= MaxFrames[s]
    /\ \A u \in Subscribers :
          /\ currentEvent[u] = None \/ currentEvent[u] \in {<<f>> : f \in Of("flag1")}
          /\ post[u] \in Pairs \cup {None}
          /\ posted[u] \subseteq Pairs
          /\ handler[u] \in {"none", "append", "open", "write", "reply"}
          /\ (handler[u] = "none") = (post[u] = None)
    /\ file = Torn \/ \A i \in DOMAIN file : file[i] \in Pairs
    /\ acked \subseteq UNION {posted[u] : u \in Subscribers}

\* An event that was acknowledged is still served after any crashes, unless one
\* of them hit the server between the truncation and the end of the writing.
AckedKept ==
    up /\ ~torn =>
        \A pair \in acked : \E i \in DOMAIN events : events[i] = pair

\* With the lock of app.py the file is the list whenever no handler is inside;
\* test_server.py, which does not start with a torn file, stays down after a
\* crash that tore it.
FileKept ==
    /\ server = "app" /\ up /\ ~torn /\ (\A u \in Subscribers : ~Inside(u)) => file = events
    /\ server = "test_server" /\ torn => ~up

\* An image is never combined with an older flag of its own node, whatever flags
\* of other nodes are read in between; no flag is posted twice.
OwnFlag ==
    \A u \in Subscribers : \A p, q \in posted[u] :
        /\ p[1].sender = p[2].sender => p[1].motion = p[2].motion
        /\ p[1] = q[1] => p = q
=============================================================================
