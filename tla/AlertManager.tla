---------------------------- MODULE AlertManager ----------------------------
(***************************************************************************)
(* alert/alert.py, class AlertManager: the rate limiter and the outgoing   *)
(* channels of the alert service.                                          *)
(*                                                                         *)
(* One call of process_event decides the fate of one correlated event:     *)
(* nothing (alerts disabled, no class detected), a summary (the same key   *)
(* was seen within the cooldown) or an alert, which is then posted to      *)
(* Telegram and to the webhook, one blocking request after the other, on   *)
(* the caller's thread.  The key of the rate limiter is the text           *)
(* "<node>|<class>,<class>,...", the sorted lower-case class names; names  *)
(* hold neither "|" nor ",", so the text is as good as the pair of the     *)
(* node and the set of classes, which is what the model keeps.             *)
(***************************************************************************)
EXTENDS Integers, Sequences, FiniteSetsExt

CONSTANTS
    Nodes,        \* motion node ids ("<host>-motion")
    Labels,       \* class labels as the models print them
    Classes,      \* lower-cased class names
    Lower,        \* str.lower() on the labels
    Results,      \* the label sets an event may carry ({}: nothing detected)
    Cooldown,     \* ALERT_COOLDOWN_SECONDS, in ticks
    Enabled,      \* ALERTS_ENABLED
    DryRun,       \* ALERT_DRY_RUN
    Channels,     \* the channels that are enabled and configured
    MaxTime,      \* bound: last instant of the clock
    MaxRestarts,  \* bound: restarts of the alert process
    MaxCalls      \* bound: calls of process_event that reach a verdict

ASSUME ManagerAssumption ==
    /\ Lower \in [Labels -> Classes]
    /\ Results \subseteq SUBSET Labels
    /\ Cooldown \in Nat
    /\ Enabled \in BOOLEAN
    /\ DryRun \in BOOLEAN
    /\ Channels \subseteq {"telegram", "webhook"}
    /\ MaxTime \in Nat
    /\ MaxRestarts \in Nat
    /\ MaxCalls \in Nat

VARIABLES
    now,           \* time.monotonic()
    incarnation,   \* how often the process was restarted
    recentAlerts,  \* self.recent_alerts: key -> time, Never where absent
    posting,       \* the request the thread is blocked in, or "none"
    verdicts,      \* the decisions taken, in order (the log; survives restarts)
    posts          \* the requests made, in order (the log; survives restarts)

managerVars == <<recentAlerts, posting, verdicts, posts>>
amVars == <<now, incarnation, managerVars>>

Keys == Nodes \X ((SUBSET Classes) \ {{}})
Never == -1
Kinds == {"alert", "summary", "dry_run"}

Verdict == [key : Keys, at : Nat, inc : Nat, kind : Kinds, image : BOOLEAN]
Post == [alert : Nat, channel : {"telegram", "webhook"}, up : BOOLEAN, ok : BOOLEAN]

-----------------------------------------------------------------------------

ManagerInit ==
    /\ now = 0
    /\ incarnation = 0
    /\ recentAlerts = [k \in Keys |-> Never]
    /\ posting = "none"
    /\ verdicts = <<>>
    /\ posts = <<>>

\* _extract_triggered_classes: labels that differ in case only fall together.
Triggered(detections) == {Lower[d] : d \in detections}

\* Mutants of WasSentRecently: the cooldown ends one tick early, and a key that was
\* never seen counts as seen when the clock started.
WasSentALittleEarlier(key) ==
    recentAlerts[key] # Never /\ now - recentAlerts[key] < Cooldown - 1

WasSentAtStart(key) ==
    now - (IF recentAlerts[key] = Never THEN 0 ELSE recentAlerts[key]) < Cooldown

\* _was_sent_recently: the answer it returns.  The caller also stores the time.
WasSentRecently(key) ==
    /\ recentAlerts[key] # Never
    /\ now - recentAlerts[key] < Cooldown

\* The request _dispatch makes after the one to channel c, "none" at the end.
FirstChannel ==
    IF "telegram" \in Channels THEN "telegram"
    ELSE IF "webhook" \in Channels THEN "webhook" ELSE "none"

\* Mutant of ChannelAfter: Telegram or the webhook, not both.
NoChannelAfter(c) == "none"

ChannelAfter(c) ==
    IF c = "telegram" /\ "webhook" \in Channels THEN "webhook" ELSE "none"

Kind(key) ==
    IF WasSentRecently(key) THEN "summary"
    ELSE IF DryRun THEN "dry_run" ELSE "alert"

\* Mutants of Store: the start of a window that ends now, and only a suppressed
\* event stores its time.
StoreWindowStart(key) == [recentAlerts EXCEPT ![key] = now - Cooldown]

StoreSuppressed(key) ==
    IF Kind(key) = "alert" THEN recentAlerts ELSE [recentAlerts EXCEPT ![key] = now]

\* _was_sent_recently: recent_alerts after it, whatever the answer is.
Store(key) == [recentAlerts EXCEPT ![key] = now]

\* process_event up to the first request of _dispatch: the time of the key is
\* stored before anything is sent.
Decide(key, image) ==
    /\ recentAlerts' = Store(key)
    /\ verdicts' = Append(verdicts, [key |-> key, at |-> now, inc |-> incarnation,
                                     kind |-> Kind(key), image |-> image])
    /\ posting' = IF Kind(key) = "alert" THEN FirstChannel ELSE "none"
    /\ UNCHANGED posts

\* process_event(payload) for node n, the labels found (none for an event that
\* expired) and whether _decode_image produced a picture.
ProcessEvent(n, detections, image) ==
    \/ /\ ~Enabled \/ Triggered(detections) = {}
       /\ UNCHANGED managerVars
    \/ /\ Enabled /\ Triggered(detections) # {}
       /\ Decide(<<n, Triggered(detections)>>, image)

Posted(c, up, ok) ==
    Append(posts, [alert |-> Len(verdicts), channel |-> c, up |-> up, ok |-> ok])

\* _send_telegram returns: a status, an error or a timeout; only logged.
TelegramReturns ==
    /\ posting = "telegram"
    /\ \E up \in BOOLEAN : posts' = Posted("telegram", up, up)
    /\ posting' = ChannelAfter("telegram")
    /\ UNCHANGED <<now, incarnation, recentAlerts, verdicts>>

\* _send_webhook returns.  The payload still holds image_bytes, and bytes do not
\* serialise to JSON: with a picture the request raises and is never sent.
WebhookReturns ==
    /\ posting = "webhook"
    /\ \E up \in BOOLEAN :
          posts' = Posted("webhook", up, up /\ ~verdicts[Len(verdicts)].image)
    /\ posting' = ChannelAfter("webhook")
    /\ UNCHANGED <<now, incarnation, recentAlerts, verdicts>>

\* Time passes, also while the thread is blocked in a request.
AdvanceClock ==
    /\ now < MaxTime
    /\ now' = now + 1

\* The process dies and the container is restarted: its memory is gone.
ManagerRestart ==
    /\ incarnation < MaxRestarts
    /\ incarnation' = incarnation + 1
    /\ recentAlerts' = [k \in Keys |-> Never]
    /\ posting' = "none"
    /\ UNCHANGED <<verdicts, posts>>

-----------------------------------------------------------------------------
(* The manager alone, called with any event by a single thread.            *)

Call ==
    /\ posting = "none"
    /\ Len(verdicts) < MaxCalls
    /\ \E n \in Nodes, D \in Results, image \in BOOLEAN :
          ProcessEvent(n, D, image)
    /\ UNCHANGED <<now, incarnation>>

ManagerTick == AdvanceClock /\ UNCHANGED <<incarnation, managerVars>>

ManagerCrash == ManagerRestart /\ UNCHANGED now

\* The modelled time is up and the thread is free.  Any other state without a
\* next step is a deadlock, which TLC reports.
ManagerTimeUp == now = MaxTime /\ posting = "none" /\ UNCHANGED amVars

ManagerNext ==
    \/ Call \/ TelegramReturns \/ WebhookReturns
    \/ ManagerTick \/ ManagerCrash \/ ManagerTimeUp

ManagerSpec ==
    /\ ManagerInit /\ [][ManagerNext]_amVars
    /\ WF_amVars(TelegramReturns) /\ WF_amVars(WebhookReturns)

-----------------------------------------------------------------------------
(* Properties.                                                             *)

\* Type correctness: the limiter holds a time for each key it has seen, and the
\* thread is blocked in an enabled channel or in none.
ManagerTypeOK ==
    /\ now \in Nat
    /\ incarnation \in Nat
    /\ recentAlerts \in [Keys -> Nat \cup {Never}]
    /\ posting \in Channels \cup {"none"}
    /\ verdicts \in Seq(Verdict)
    /\ posts \in Seq(Post)

IsAlert(v) == v.kind = "alert"

\* Anti-spam: two alerts of one process about the same node and the same set
\* of classes are at least Cooldown apart, however many events come between.
AlertSpacing ==
    \A i, j \in DOMAIN verdicts :
        /\ i < j
        /\ IsAlert(verdicts[i]) /\ IsAlert(verdicts[j])
        /\ verdicts[i].key = verdicts[j].key
        /\ verdicts[i].inc = verdicts[j].inc
        => verdicts[j].at - verdicts[i].at >= Cooldown

\* The promise of AlertThrottle, kept by the log of verdicts.  The last alert of a
\* key is the latest one logged by the running process.
AlertTimes(k) ==
    {verdicts[i].at : i \in {j \in DOMAIN verdicts :
        IsAlert(verdicts[j]) /\ verdicts[j].key = k /\ verdicts[j].inc = incarnation}}

LastAlert == [k \in Keys |-> IF AlertTimes(k) = {} THEN Never ELSE Max(AlertTimes(k))]

Throttle == INSTANCE AlertThrottle WITH
    Gap <- Cooldown, clock <- now, lastAlert <- LastAlert

\* AlertManager implements AlertThrottle: an alert step maps to Alert of its key,
\* a summary or an ignored event to a stutter, a restart to Forget.
ThrottlePromise == Throttle!ThrottleSpec

\* No event is swallowed for nothing: a summary has an earlier verdict of the
\* same process on the same key less than Cooldown before it.
SummaryJustified ==
    \A j \in DOMAIN verdicts :
        verdicts[j].kind = "summary" =>
            \E i \in 1..(j - 1) :
                /\ verdicts[i].key = verdicts[j].key
                /\ verdicts[i].inc = verdicts[j].inc
                /\ verdicts[j].at - verdicts[i].at < Cooldown

\* Dispatch is complete and in order: when the thread is free, each alert of
\* the running process has had exactly one request per channel, whatever the
\* earlier requests returned, and nothing but an alert is ever posted.
PostsOf(a, c) == {p \in DOMAIN posts : posts[p].alert = a /\ posts[p].channel = c}

DispatchComplete ==
    /\ \A p \in DOMAIN posts : IsAlert(verdicts[posts[p].alert])
    /\ \A a \in DOMAIN verdicts, c \in Channels :
          \A p, q \in PostsOf(a, c) : p = q
    /\ posting = "none" =>
          \A a \in DOMAIN verdicts :
              IsAlert(verdicts[a]) /\ verdicts[a].inc = incarnation =>
                  \A c \in Channels : PostsOf(a, c) # {}

\* README.md:55 offers a webhook POST: a request to a server that is up and
\* accepts must succeed.
WebhookDelivers ==
    \A p \in DOMAIN posts :
        posts[p].channel = "webhook" /\ posts[p].up => posts[p].ok

\* The classes README.md:151 calls immediate, by default.
ImmediateClasses == {"weapon", "fire"}
=============================================================================
