----------------------------- MODULE DraftAlert -----------------------------
(***************************************************************************)
(* .draft/alert/: the loop of api_subscriber.py joins motion flags, images *)
(* and detection results of one motion node, and the AlertManager of       *)
(* alerting.py decides what becomes of each event.                         *)
(*                                                                         *)
(* One thread does everything.  Each round flushes the events that are     *)
(* overdue, connects to peers and reads one message; an alert blocks the   *)
(* thread while it is posted.  The loop is connected to 127.0.0.1 and to   *)
(* the address of every peer it discovers: on the device of the motion     *)
(* node both are the same publishers, and every message comes twice.       *)
(* Messages of one publisher on one connection keep their order.           *)
(*                                                                         *)
(* An image and its results carry the image's id, NoId if it is missing; a *)
(* serial number stands for a flag's timestamp.                            *)
(***************************************************************************)
EXTENDS Integers, Sequences, FiniteSets

CONSTANTS
    Verdicts,       \* the class sets that detectors may find, {} among them
    AlertCooldown,  \* ALERT_COOLDOWN_SECONDS, in ticks
    DetectionWait,  \* detection_wait_seconds, in ticks
    AlertsEnabled,  \* ALERTS_ENABLED
    AlertDryRun,    \* ALERT_DRY_RUN
    AlertChannels,  \* the channels enabled, of {"telegram", "webhook"}
    MaxAlertTime,   \* bound: last value of the clock
    MaxMotions,     \* bound: flags a motion node publishes
    MaxPictures,    \* bound: images it publishes
    MaxResults      \* bound: results published

ASSUME DraftAlertAssumption ==
    /\ {} \in Verdicts /\ \A V \in Verdicts : IsFiniteSet(V)
    /\ {AlertsEnabled, AlertDryRun} \subseteq BOOLEAN
    /\ AlertChannels \subseteq {"telegram", "webhook"}
    /\ {AlertCooldown, DetectionWait, MaxAlertTime, MaxMotions,
        MaxPictures, MaxResults} \subseteq Nat

VARIABLES
    time,           \* time.monotonic()
    paths,          \* the connections to the publishers of the device
    mail,           \* unread messages: path -> publisher -> sequence
    made,           \* environment: flags, images and results published
    phase,          \* where the round is: "flush", "read"
    currentFlag,    \* current_events[sender], or NoFlag
    pending,        \* pending_events, the set of its entries
    sending,        \* the request the thread is in, or "none"
    recent,         \* recent_alerts: class set -> time, or Never
    handled,        \* how often an event of each image was processed (log)
    decisions       \* decisions of process_event (log)

loopVars == <<phase, currentFlag, pending, handled>>
limiterVars == <<sending, recent, decisions>>
worldVars == <<paths, made>>
alertVars == <<time, mail, loopVars, limiterVars, worldVars>>

Paths == {"local", "lan"}
Publishers == {"flag", "image", "detection"}
NoFlag == 0
NoId == 0
Never == -1

Mail == [motion : Nat, labels : Verdicts]
Entry == [id : Nat, flag : Nat, deadline : Nat]

AlertInit ==
    /\ time = 0
    /\ paths = {"local"}
    /\ mail = [p \in Paths |-> [k \in Publishers |-> <<>>]]
    /\ made = [k \in Publishers |-> 0]
    /\ phase = "flush"
    /\ currentFlag = NoFlag
    /\ pending = {}
    /\ sending = "none"
    /\ recent = [V \in Verdicts |-> Never]
    /\ handled = [n \in 1..MaxPictures |-> 0]
    /\ decisions = <<>>

-----------------------------------------------------------------------------
(* alerting.py                                                             *)

WasSentRecently(V) == recent[V] # Never /\ time - recent[V] < AlertCooldown

\* _dispatch: Telegram, then the webhook, each if it is enabled.
NextChannel(c) ==
    IF c = "start" /\ "telegram" \in AlertChannels THEN "telegram"
    ELSE IF c # "webhook" /\ "webhook" \in AlertChannels THEN "webhook"
    ELSE "none"

\* process_event: without a class nothing happens.  An event that is new is
\* only summarised, and one that was seen recently is dispatched.
DecideEvent(V) ==
    IF ~AlertsEnabled \/ V = {}
    THEN UNCHANGED limiterVars
    ELSE /\ recent' = [recent EXCEPT ![V] = time]
         /\ decisions' = Append(decisions,
                [labels |-> V, at |-> time,
                 how |-> IF WasSentRecently(V) THEN "alert" ELSE "summary"])
         /\ sending' = IF WasSentRecently(V) /\ ~AlertDryRun THEN NextChannel("start") ELSE "none"

\* _send_telegram and _send_webhook return, or give up after 10 seconds; the
\* outcome is only logged.
RequestReturns(ok) == sending' = NextChannel(sending)

Sending ==
    /\ sending # "none"
    /\ \E ok \in BOOLEAN : RequestReturns(ok)
    /\ UNCHANGED <<time, mail, loopVars, recent, decisions, worldVars>>

-----------------------------------------------------------------------------
(* subscriber_loop                                                         *)

Blocked == sending # "none"

\* Mutant of Stale: an event stays past its deadline until another one is due.
StaleTogether ==
    {e \in pending : e.deadline <= time /\ \E f \in pending \ {e} : f.deadline <= time}

\* pending_event["deadline_monotonic"] <= now_monotonic
Stale == {e \in pending : e.deadline <= time}

\* Events without results are processed, which leads to no decision.
FlushStale ==
    /\ ~Blocked /\ phase = "flush"
    /\ pending' = pending \ Stale
    /\ handled' = [n \in DOMAIN handled |->
                      handled[n] + Cardinality({e \in Stale : e.id = n})]
    /\ phase' = "read"
    /\ UNCHANGED <<time, mail, currentFlag, limiterVars, worldVars>>

Take(p, k) ==
    /\ ~Blocked /\ phase = "read" /\ mail[p][k] # <<>>
    /\ mail' = [mail EXCEPT ![p][k] = Tail(@)]
    /\ phase' = "flush"
    /\ UNCHANGED <<time, worldVars>>

\* A flag 1 is remembered; a flag 0, serial NoFlag here, is ignored.
TakeFlag(p) ==
    /\ Take(p, "flag")
    /\ LET m == Head(mail[p]["flag"]) IN
          currentFlag' = IF m.motion = NoFlag THEN currentFlag ELSE m.motion
    /\ UNCHANGED <<pending, handled, limiterVars>>

\* del current_events[sender]
SpendFlag == NoFlag

\* An image after a flag becomes a pending event, in the place of one with the
\* same id; one without an id is skipped and leaves the flag.
TakeImage(p) ==
    /\ Take(p, "image")
    /\ LET m == Head(mail[p]["image"]) IN
          IF currentFlag = NoFlag \/ m.motion = NoId
          THEN UNCHANGED <<currentFlag, pending>>
          ELSE /\ pending' = {e \in pending : e.id # m.motion} \cup
                     {[id |-> m.motion, flag |-> currentFlag, deadline |-> time + DetectionWait]}
               /\ currentFlag' = SpendFlag
    /\ UNCHANGED <<handled, limiterVars>>

\* Mutant of TakenBy: the event stays (get instead of pop).
ReadBy(m) == {}

\* pending_events.pop(event_key, None); a result without an id takes nothing.
TakenBy(m) == {e \in pending : e.id = m.motion /\ m.motion # NoId}

TakeDetection(p) ==
    /\ Take(p, "detection")
    /\ LET m == Head(mail[p]["detection"]) IN
          /\ pending' = pending \ TakenBy(m)
          /\ IF \E e \in pending : e.id = m.motion /\ m.motion # NoId
             THEN /\ handled' = [handled EXCEPT ![m.motion] = @ + 1]
                  /\ DecideEvent(m.labels)
             ELSE UNCHANGED <<handled, limiterVars>>
    /\ UNCHANGED currentFlag

\* poll(1000) finds nothing.
PollNothing ==
    /\ ~Blocked /\ phase = "read"
    /\ \A p \in Paths, k \in Publishers : mail[p][k] = <<>>
    /\ phase' = "flush"
    /\ UNCHANGED <<time, mail, currentFlag, pending, handled, limiterVars, worldVars>>

\* recv_json raises: the message is gone.
RoundFails(p, k) == Take(p, k) /\ UNCHANGED <<currentFlag, pending, handled, limiterVars>>

SubscriberRound ==
    \/ FlushStale \/ PollNothing
    \/ \E p \in Paths :
          \/ TakeFlag(p) \/ TakeImage(p) \/ TakeDetection(p)
          \/ \E k \in Publishers : RoundFails(p, k)

-----------------------------------------------------------------------------
(* The peers and time.                                                     *)

\* The motion and detection nodes of this device are discovered.
DiscoverLan ==
    /\ paths # Paths
    /\ paths' = Paths
    /\ UNCHANGED <<time, mail, made, loopVars, limiterVars>>

Deliver(k, m) ==
    mail' = [p \in Paths |-> IF p \in paths THEN [mail[p] EXCEPT ![k] = Append(@, m)] ELSE mail[p]]

\* A motion node publishes flags and images, a detector results for images.
PublishMail(k) ==
    /\ made[k] < (CASE k = "flag" -> MaxMotions [] k = "image" -> MaxPictures
                     [] k = "detection" -> MaxResults)
    /\ made' = [made EXCEPT ![k] = @ + 1]
    /\ \E n \in IF k = "detection" THEN 0..made["image"] ELSE {0, made[k] + 1} :
       \E V \in IF k = "detection" THEN Verdicts ELSE {{}} :
          Deliver(k, [motion |-> n, labels |-> V])
    /\ UNCHANGED <<time, paths, loopVars, limiterVars>>

TimePasses ==
    /\ time < MaxAlertTime
    /\ time' = time + 1
    /\ UNCHANGED <<mail, loopVars, limiterVars, worldVars>>

AlertNext ==
    \/ SubscriberRound \/ Sending \/ DiscoverLan \/ TimePasses
    \/ \E k \in Publishers : PublishMail(k)

\* The thread runs and its requests time out.
AlertFairness ==
    /\ WF_alertVars(SubscriberRound)
    /\ WF_alertVars(Sending)

AlertSpec == AlertInit /\ [][AlertNext]_alertVars /\ AlertFairness

-----------------------------------------------------------------------------
(* Properties.                                                             *)

\* Type correctness.
AlertTypeOK ==
    /\ time \in 0..MaxAlertTime
    /\ paths \subseteq Paths
    /\ \A p \in Paths, k \in Publishers : \A i \in DOMAIN mail[p][k] : mail[p][k][i] \in Mail
    /\ phase \in {"flush", "read"}
    /\ currentFlag \in Nat
    /\ pending \subseteq Entry
    /\ sending \in AlertChannels \cup {"none"}
    /\ recent \in [Verdicts -> Nat \cup {Never}]
    /\ handled \in [1..MaxPictures -> Nat]

\* .draft/config.py:76 calls the cooldown "Anti-spam", and line 84 has the "first
\* accepted detection immediately" sent "for any class": an event is alerted
\* exactly if no alert of its class set went out less than the cooldown before.
AntiSpam ==
    \A i \in DOMAIN decisions :
        decisions[i].how = "alert" <=>
            \A j \in 1..(i - 1) :
                decisions[j].labels = decisions[i].labels /\ decisions[j].how = "alert" =>
                    decisions[i].at - decisions[j].at >= AlertCooldown

\* What the limiter does instead: an alert is sent for a class set that was decided
\* on less than the cooldown before, and for no other.  The first event of a kind
\* is never sent, and only events that repeat are (alert/alert.py does the opposite).
OnlyRepeatsAlert ==
    \A i \in DOMAIN decisions :
        decisions[i].how = "alert" <=>
            \E j \in 1..(i - 1) :
                /\ decisions[j].labels = decisions[i].labels
                /\ decisions[i].at - decisions[j].at < AlertCooldown

\* An image makes as many events as there are connections to its publisher, at
\* most: once, until the device's own address is discovered, twice afterwards; and
\* there are no more events than flags that were delivered.
EventPerCopy ==
    LET Sum[n \in 0..MaxPictures] == IF n = 0 THEN 0 ELSE handled[n] + Sum[n - 1] IN
    /\ \A n \in 1..MaxPictures :
          handled[n] + Cardinality({e \in pending : e.id = n}) <= Cardinality(paths)
    /\ Sum[MaxPictures] + Cardinality(pending) <= Cardinality(paths) * made["flag"]

\* Whatever the requests do, the loop comes back: all messages are read, and an
\* overdue event is answered late or flushed and does not stay.
RoundsGoOn ==
    LET Unread == \E p \in Paths, k \in Publishers : mail[p][k] # <<>>
        Overdue(n) == \E e \in pending : e.id = n /\ e.deadline <= time
    IN
    /\ Unread ~> ~Unread
    /\ \A n \in 1..MaxPictures : Overdue(n) ~> ~Overdue(n)
=============================================================================
