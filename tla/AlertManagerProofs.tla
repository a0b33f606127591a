-------------------------- MODULE AlertManagerProofs ------------------------
(***************************************************************************)
(* Theorems about AlertManager, for every value of its constants.          *)
(*                                                                         *)
(* AlertSpacing is not inductive: nothing in it says that the limiter      *)
(* remembers the alerts of the log.  LimiterInv adds that: the time kept   *)
(* for a key is that of a verdict of the running process, and no earlier   *)
(* than any of them.  Each operation of the manager has its own lemma, so  *)
(* that the module that composes the manager with the node can cite them.  *)
(***************************************************************************)
EXTENDS AlertManager, SequenceTheorems, TLAPS

\* The limiter and the log agree.
LimiterInv ==
    /\ \A i \in DOMAIN verdicts : verdicts[i].at <= now /\ verdicts[i].inc <= incarnation
    /\ \A i \in DOMAIN verdicts :
          verdicts[i].inc = incarnation => verdicts[i].at <= recentAlerts[verdicts[i].key]
    /\ \A k \in Keys :
          recentAlerts[k] # Never =>
              \E i \in DOMAIN verdicts :
                  /\ verdicts[i].key = k
                  /\ verdicts[i].inc = incarnation
                  /\ verdicts[i].at = recentAlerts[k]

ManagerInv == ManagerTypeOK /\ LimiterInv /\ AlertSpacing /\ SummaryJustified

\* The manager is in a legal state when the process starts.
LEMMA ManagerInitInv == ManagerInit => ManagerInv
<1> SUFFICES ASSUME ManagerInit PROVE ManagerInv
  OBVIOUS
<1>1. ManagerTypeOK
  BY DEF ManagerInit, ManagerTypeOK, Never
<1>2. LimiterInv /\ AlertSpacing /\ SummaryJustified
  BY DEF ManagerInit, LimiterInv, AlertSpacing, SummaryJustified
<1> QED BY <1>1, <1>2 DEF ManagerInv

\* A step that leaves the manager alone preserves its invariant.
LEMMA SameManagerInv ==
    ASSUME ManagerInv, UNCHANGED <<now, incarnation, managerVars>>
    PROVE  ManagerInv'
BY DEF ManagerInv, ManagerTypeOK, LimiterInv, AlertSpacing, SummaryJustified,
       IsAlert, managerVars

\* The log holds verdicts.
LEMMA VerdictType == ManagerTypeOK => \A i \in DOMAIN verdicts : verdicts[i] \in Verdict
<1>1. ManagerTypeOK => verdicts \in Seq(Verdict)
  BY DEF ManagerTypeOK
<1> QED BY <1>1, ElementOfSeq, LenProperties

\* A decision is well typed: the key stored and logged is a key.
LEMMA DecideType ==
    ASSUME ManagerTypeOK, NEW key \in Keys, NEW image \in BOOLEAN,
           Decide(key, image), UNCHANGED <<now, incarnation>>
    PROVE  ManagerTypeOK'
<1> DEFINE v == [key |-> key, at |-> now, inc |-> incarnation,
                 kind |-> Kind(key), image |-> image]
<1>1. v \in Verdict
  BY DEF ManagerTypeOK, Verdict, Kind, Kinds
<1>2. verdicts' \in Seq(Verdict)
  BY <1>1 DEF Decide, Store, ManagerTypeOK
<1>3. recentAlerts' \in [Keys -> Nat \cup {Never}]
  BY DEF Decide, Store, ManagerTypeOK
<1>4. posting' \in Channels \cup {"none"}
  BY DEF Decide, FirstChannel
<1> QED BY <1>2, <1>3, <1>4 DEF Decide, Store, ManagerTypeOK

\* What a decision adds to the log.
LEMMA DecideLog ==
    ASSUME ManagerTypeOK, NEW key \in Keys, NEW image \in BOOLEAN,
           Decide(key, image)
    PROVE  /\ Len(verdicts') = Len(verdicts) + 1
           /\ DOMAIN verdicts = 1..Len(verdicts)
           /\ DOMAIN verdicts' = 1..(Len(verdicts) + 1)
           /\ \A i \in 1..Len(verdicts) : verdicts'[i] = verdicts[i]
           /\ verdicts'[Len(verdicts) + 1] =
                 [key |-> key, at |-> now, inc |-> incarnation,
                  kind |-> Kind(key), image |-> image]
<1> DEFINE v == [key |-> key, at |-> now, inc |-> incarnation,
                 kind |-> Kind(key), image |-> image]
<1>1. v \in Verdict
  BY DEF ManagerTypeOK, Verdict, Kind, Kinds
<1>2. verdicts \in Seq(Verdict) /\ verdicts' = Append(verdicts, v)
  BY DEF ManagerTypeOK, Decide
<1> QED BY <1>1, <1>2, AppendProperties

\* A decision keeps the limiter and the log in agreement, and the alerts apart:
\* an alert of an earlier verdict on the key would be no later than the time
\* the limiter holds, which is Cooldown old.
LEMMA DecideInv ==
    ASSUME ManagerInv, NEW key \in Keys, NEW image \in BOOLEAN,
           Decide(key, image), UNCHANGED <<now, incarnation>>
    PROVE  ManagerInv'
<1> DEFINE n == Len(verdicts)
           w == verdicts'[n + 1]
<1>0. ManagerTypeOK /\ LimiterInv /\ AlertSpacing /\ SummaryJustified
  BY DEF ManagerInv
<1>1. /\ Len(verdicts') = n + 1
      /\ DOMAIN verdicts = 1..n
      /\ DOMAIN verdicts' = 1..(n + 1)
      /\ \A i \in 1..n : verdicts'[i] = verdicts[i]
      /\ w = [key |-> key, at |-> now, inc |-> incarnation,
              kind |-> Kind(key), image |-> image]
  BY <1>0, DecideLog
<1>2. n \in Nat /\ now \in Nat /\ incarnation \in Nat
  BY <1>0, LenProperties DEF ManagerTypeOK
<1>3. \A i \in 1..n : /\ verdicts[i].key \in Keys
                      /\ verdicts[i].at \in Nat
                      /\ verdicts[i].inc \in Nat
  BY <1>0, <1>1, VerdictType DEF Verdict
<1>4. /\ recentAlerts'[key] = now
      /\ \A k \in Keys : k # key => recentAlerts'[k] = recentAlerts[k]
      /\ \A k \in Keys : recentAlerts[k] \in Nat \cup {Never}
  BY <1>0 DEF Decide, Store, ManagerTypeOK
<1> HIDE DEF n, w
<1>5. ManagerTypeOK'
  BY <1>0, DecideType
<1>6. LimiterInv'
  <2>1. \A i \in 1..(n + 1) :
           verdicts'[i].at <= now' /\ verdicts'[i].inc <= incarnation'
    BY <1>0, <1>1, <1>2 DEF LimiterInv, w
  <2>2. ASSUME NEW i \in 1..(n + 1), verdicts'[i].inc = incarnation'
        PROVE  verdicts'[i].at <= recentAlerts'[verdicts'[i].key]
    <3>1. CASE i \in 1..n
      <4>1. verdicts'[i] = verdicts[i] /\ verdicts[i].inc = incarnation
        BY <3>1, <2>2, <1>1
      <4>2. verdicts[i].at <= now /\ verdicts[i].at <= recentAlerts[verdicts[i].key]
        BY <3>1, <4>1, <1>0, <1>1 DEF LimiterInv
      <4> QED BY <3>1, <4>1, <4>2, <1>3, <1>4
    <3>2. CASE i = n + 1
      BY <3>2, <1>1, <1>2, <1>4 DEF w
    <3> QED BY <3>1, <3>2, <1>2
  <2>3. ASSUME NEW k \in Keys, recentAlerts'[k] # Never
        PROVE  \E i \in 1..(n + 1) : /\ verdicts'[i].key = k
                                     /\ verdicts'[i].inc = incarnation'
                                     /\ verdicts'[i].at = recentAlerts'[k]
    <3>1. CASE k = key
      <4>1. n + 1 \in 1..(n + 1)
        BY <1>2
      <4> QED BY <3>1, <4>1, <1>1, <1>4 DEF w
    <3>2. CASE k # key
      <4>1. recentAlerts[k] # Never
        BY <2>3, <3>2, <1>4
      <4>2. PICK i \in 1..n : /\ verdicts[i].key = k
                             /\ verdicts[i].inc = incarnation
                             /\ verdicts[i].at = recentAlerts[k]
        BY <4>1, <1>0, <1>1 DEF LimiterInv
      <4>3. i \in 1..(n + 1)
        BY <1>2
      <4> QED BY <4>2, <4>3, <3>2, <1>1, <1>4
    <3> QED BY <3>1, <3>2
  <2> QED BY <2>1, <2>2, <2>3, <1>1 DEF LimiterInv
<1>7. AlertSpacing'
  <2> SUFFICES ASSUME NEW i \in 1..(n + 1), NEW j \in 1..(n + 1), i < j,
                      IsAlert(verdicts'[i]), IsAlert(verdicts'[j]),
                      verdicts'[i].key = verdicts'[j].key,
                      verdicts'[i].inc = verdicts'[j].inc
               PROVE  verdicts'[j].at - verdicts'[i].at >= Cooldown
    BY <1>1 DEF AlertSpacing, IsAlert
  <2>1. i \in 1..n
    BY <1>2
  <2>2. CASE j \in 1..n
    BY <2>1, <2>2, <1>0, <1>1 DEF AlertSpacing, IsAlert
  <2>3. CASE j = n + 1
    <3>1. ~WasSentRecently(key)
      BY <2>3, <1>1 DEF IsAlert, Kind, w
    <3>2. verdicts[i].key = key /\ verdicts[i].at <= recentAlerts[key]
      BY <2>1, <2>3, <1>0, <1>1 DEF LimiterInv, w
    <3>3. recentAlerts[key] # Never
      BY <3>2, <2>1, <1>3 DEF Never
    <3>4. now - recentAlerts[key] >= Cooldown
      BY <3>1, <3>3, <1>2, <1>4, ManagerAssumption DEF WasSentRecently
    <3>5. recentAlerts[key] \in Nat
      BY <3>3, <1>4
    <3> QED BY <3>2, <3>4, <3>5, <2>1, <2>3, <1>1, <1>2, <1>3, ManagerAssumption DEF w
  <2> QED BY <2>2, <2>3, <1>2
<1>8. SummaryJustified'
  <2> SUFFICES ASSUME NEW j \in 1..(n + 1), verdicts'[j].kind = "summary"
               PROVE  \E i \in 1..(j - 1) :
                          /\ verdicts'[i].key = verdicts'[j].key
                          /\ verdicts'[i].inc = verdicts'[j].inc
                          /\ verdicts'[j].at - verdicts'[i].at < Cooldown
    BY <1>1 DEF SummaryJustified
  <2>1. CASE j \in 1..n
    <3>1. PICK i \in 1..(j - 1) :
             /\ verdicts[i].key = verdicts[j].key
             /\ verdicts[i].inc = verdicts[j].inc
             /\ verdicts[j].at - verdicts[i].at < Cooldown
      BY <2>1, <1>0, <1>1 DEF SummaryJustified
    <3>2. i \in 1..n
      BY <2>1, <1>2
    <3> QED BY <3>1, <3>2, <2>1, <1>1
  <2>2. CASE j = n + 1
    <3>1. WasSentRecently(key)
      BY <2>2, <1>1 DEF Kind, w
    <3>2. PICK i \in 1..n : /\ verdicts[i].key = key
                           /\ verdicts[i].inc = incarnation
                           /\ verdicts[i].at = recentAlerts[key]
      BY <3>1, <1>0, <1>1 DEF WasSentRecently, LimiterInv
    <3>3. now - verdicts[i].at < Cooldown
      BY <3>1, <3>2 DEF WasSentRecently
    <3>4. i \in 1..(j - 1)
      BY <2>2, <1>2
    <3> QED BY <3>2, <3>3, <3>4, <2>2, <1>1 DEF w
  <2> QED BY <2>1, <2>2, <1>2
<1> QED BY <1>5, <1>6, <1>7, <1>8 DEF ManagerInv

\* What process_event hands to the limiter is a key.
LEMMA CallKey ==
    ASSUME NEW n \in Nodes, NEW D \in SUBSET Labels, Triggered(D) # {}
    PROVE  <<n, Triggered(D)>> \in Keys
<1>1. Triggered(D) \in (SUBSET Classes) \ {{}}
  BY ManagerAssumption DEF Triggered
<1> QED BY <1>1 DEF Keys

\* A call of process_event preserves the invariant, whatever it finds.
LEMMA ProcessEventInv ==
    ASSUME ManagerInv, NEW n \in Nodes, NEW D \in SUBSET Labels, NEW image \in BOOLEAN,
           ProcessEvent(n, D, image), UNCHANGED <<now, incarnation>>
    PROVE  ManagerInv'
<1>1. CASE UNCHANGED managerVars
  BY <1>1, SameManagerInv
<1>2. CASE Triggered(D) # {} /\ Decide(<<n, Triggered(D)>>, image)
  <2>1. <<n, Triggered(D)>> \in Keys
    BY <1>2, CallKey
  <2>2. Decide(<<n, Triggered(D)>>, image)
    BY <1>2
  <2> QED BY <2>1, <2>2, DecideInv
<1> QED BY <1>1, <1>2 DEF ProcessEvent

\* A request that comes back only adds to the list of requests.
LEMMA PostingInv ==
    ASSUME ManagerInv, TelegramReturns \/ WebhookReturns
    PROVE  ManagerInv'
<1>1. PICK c \in {"telegram", "webhook"}, up \in BOOLEAN, ok \in BOOLEAN :
         posts' = Posted(c, up, ok)
  BY DEF TelegramReturns, WebhookReturns
<1>2. Len(verdicts) \in Nat
  BY LenProperties DEF ManagerInv, ManagerTypeOK
<1>3. [alert |-> Len(verdicts), channel |-> c, up |-> up, ok |-> ok] \in Post
  BY <1>2 DEF Post
<1>4. posts' \in Seq(Post)
  BY <1>1, <1>3 DEF Posted, ManagerInv, ManagerTypeOK
<1>5. posting' \in Channels \cup {"none"}
  BY DEF TelegramReturns, WebhookReturns, ChannelAfter
<1>6. UNCHANGED <<now, incarnation, recentAlerts, verdicts>>
  BY DEF TelegramReturns, WebhookReturns
<1>7. ManagerTypeOK'
  BY <1>4, <1>5, <1>6 DEF ManagerInv, ManagerTypeOK
<1>8. LimiterInv' /\ AlertSpacing' /\ SummaryJustified'
  BY <1>6 DEF ManagerInv, LimiterInv, AlertSpacing, SummaryJustified, IsAlert
<1> QED BY <1>7, <1>8 DEF ManagerInv

\* Time passes: the log stays behind the clock.
LEMMA ClockInv ==
    ASSUME ManagerInv, AdvanceClock, UNCHANGED <<incarnation, managerVars>>
    PROVE  ManagerInv'
<1>1. UNCHANGED <<incarnation, recentAlerts, posting, verdicts, posts>>
  BY DEF managerVars
<1>2. now \in Nat /\ now' = now + 1
  BY DEF AdvanceClock, ManagerInv, ManagerTypeOK
<1>3. ManagerTypeOK'
  BY <1>1, <1>2 DEF ManagerInv, ManagerTypeOK
<1>4. \A i \in DOMAIN verdicts : verdicts[i].at \in Nat
  BY VerdictType DEF ManagerInv, Verdict
<1>5. LimiterInv'
  BY <1>1, <1>2, <1>4 DEF ManagerInv, LimiterInv
<1>6. AlertSpacing' /\ SummaryJustified'
  BY <1>1 DEF ManagerInv, AlertSpacing, SummaryJustified, IsAlert
<1> QED BY <1>3, <1>5, <1>6 DEF ManagerInv

\* A restart forgets the limiter; the verdicts logged are those of others now.
LEMMA RestartInv ==
    ASSUME ManagerInv, ManagerRestart, UNCHANGED now
    PROVE  ManagerInv'
<1>1. /\ incarnation' = incarnation + 1
      /\ recentAlerts' = [k \in Keys |-> Never]
      /\ posting' = "none"
      /\ UNCHANGED <<now, verdicts, posts>>
  BY DEF ManagerRestart
<1>2. ManagerTypeOK'
  BY <1>1 DEF ManagerInv, ManagerTypeOK
<1>3. \A i \in DOMAIN verdicts :
         verdicts[i].inc \in Nat /\ verdicts[i].inc <= incarnation
  BY VerdictType DEF ManagerInv, Verdict, LimiterInv
<1>4. incarnation \in Nat
  BY DEF ManagerInv, ManagerTypeOK
<1>5. LimiterInv'
  <2>1. \A i \in DOMAIN verdicts' :
           verdicts'[i].at <= now' /\ verdicts'[i].inc < incarnation'
    BY <1>1, <1>3, <1>4 DEF ManagerInv, LimiterInv
  <2>2. \A k \in Keys : recentAlerts'[k] = Never
    BY <1>1
  <2>3. \A i \in DOMAIN verdicts' : verdicts'[i].inc \in Nat
    BY <1>1, <1>3
  <2> QED BY <2>1, <2>2, <2>3, <1>1, <1>4 DEF LimiterInv
<1>6. AlertSpacing' /\ SummaryJustified'
  BY <1>1 DEF ManagerInv, AlertSpacing, SummaryJustified, IsAlert
<1> QED BY <1>2, <1>5, <1>6 DEF ManagerInv

\* What a step may be to the manager, whoever calls it: process_event on a free
\* thread, a request that returns, a tick, a restart, or nothing.
CallStep ==
    /\ posting = "none"
    /\ \E n \in Nodes, D \in SUBSET Labels, image \in BOOLEAN : ProcessEvent(n, D, image)
    /\ UNCHANGED <<now, incarnation>>

ManagerStep ==
    \/ CallStep \/ TelegramReturns \/ WebhookReturns
    \/ AdvanceClock /\ UNCHANGED <<incarnation, managerVars>>
    \/ ManagerRestart /\ UNCHANGED now
    \/ UNCHANGED amVars

LEMMA ManagerTakesSteps == [ManagerNext]_amVars => ManagerStep
<1>1. Call => CallStep
  BY ManagerAssumption DEF Call, CallStep
<1> QED BY <1>1 DEF ManagerNext, ManagerStep, ManagerTick, ManagerCrash, ManagerTimeUp

\* Every step of the manager preserves the invariant.
LEMMA ManagerStepInv == ManagerInv /\ ManagerStep => ManagerInv'
<1> SUFFICES ASSUME ManagerInv, ManagerStep PROVE ManagerInv'
  OBVIOUS
<1>1. CASE CallStep
  BY <1>1, ProcessEventInv DEF CallStep
<1>2. CASE TelegramReturns \/ WebhookReturns
  BY <1>2, PostingInv
<1>3. CASE AdvanceClock /\ UNCHANGED <<incarnation, managerVars>>
  BY <1>3, ClockInv
<1>4. CASE ManagerRestart /\ UNCHANGED now
  BY <1>4, RestartInv
<1>5. CASE UNCHANGED amVars
  BY <1>5, SameManagerInv DEF amVars
<1> QED BY <1>1, <1>2, <1>3, <1>4, <1>5 DEF ManagerStep

LEMMA ManagerInvariant == ManagerSpec => []ManagerInv
<1> QED BY ManagerInitInv, ManagerStepInv, ManagerTakesSteps, PTL DEF ManagerSpec

\* Type correctness of the alert manager (class AlertManager): whatever is
\* called, the limiter holds times and the thread is in an enabled channel.
THEOREM ManagerTypeCorrect == ManagerSpec => []ManagerTypeOK
<1>1. ManagerInv => ManagerTypeOK
  BY DEF ManagerInv
<1> QED BY <1>1, ManagerInvariant, PTL

\* Anti-spam (_was_sent_recently): two alerts of one process on one key are
\* always at least Cooldown apart.
THEOREM ManagerSpacing == ManagerSpec => []AlertSpacing
<1>1. ManagerInv => AlertSpacing
  BY DEF ManagerInv
<1> QED BY <1>1, ManagerInvariant, PTL

\* An event is suppressed only within Cooldown of an earlier verdict on its key
\* by the same process: a first event always gets its alert.
THEOREM ManagerSuppression == ManagerSpec => []SummaryJustified
<1>1. ManagerInv => SummaryJustified
  BY DEF ManagerInv
<1> QED BY <1>1, ManagerInvariant, PTL

-----------------------------------------------------------------------------
(* The dispatch.  DispatchComplete says nothing while the thread is blocked  *)
(* in a request, so it is not inductive; DispatchInv adds which requests the *)
(* last alert still has before it.                                           *)

\* The channels the last alert was not yet posted to.
Due == IF posting = "none" THEN {} ELSE IF posting = "telegram" THEN Channels ELSE {posting}

\* The posts and the log agree: an open alert lacks the posts that are due, and
\* no other alert of the running process lacks any.
DispatchInv ==
    /\ \A p \in DOMAIN posts :
          posts[p].alert \in DOMAIN verdicts /\ IsAlert(verdicts[posts[p].alert])
    /\ \A p, q \in DOMAIN posts :
          posts[p].alert = posts[q].alert /\ posts[p].channel = posts[q].channel => p = q
    /\ \A a \in DOMAIN verdicts, c \in Channels :
          IsAlert(verdicts[a]) /\ verdicts[a].inc = incarnation =>
              (PostsOf(a, c) # {} <=> ~(a = Len(verdicts) /\ c \in Due))
    /\ posting # "none" =>
          /\ Len(verdicts) \in DOMAIN verdicts
          /\ IsAlert(verdicts[Len(verdicts)])
          /\ verdicts[Len(verdicts)].inc = incarnation

LEMMA DispatchIsComplete == DispatchInv => DispatchComplete
BY DEF DispatchInv, DispatchComplete, PostsOf, Due

LEMMA DispatchInit == ManagerInit => DispatchInv
BY DEF ManagerInit, DispatchInv

LEMMA SameDispatch ==
    ASSUME DispatchInv, UNCHANGED <<incarnation, posting, verdicts, posts>>
    PROVE  DispatchInv'
BY DEF DispatchInv, PostsOf, Due, IsAlert

\* A decision opens an alert only when no other one is open.
LEMMA DecideDispatch ==
    ASSUME ManagerTypeOK, DispatchInv, posting = "none",
           NEW key \in Keys, NEW image \in BOOLEAN,
           Decide(key, image), UNCHANGED <<now, incarnation>>
    PROVE  DispatchInv'
<1> DEFINE n == Len(verdicts)
<1>0. n \in Nat
  BY LenProperties DEF ManagerTypeOK
<1>1. /\ Len(verdicts') = n + 1 /\ n \in Nat
      /\ DOMAIN verdicts = 1..n
      /\ DOMAIN verdicts' = 1..(n + 1)
      /\ \A i \in 1..n : verdicts'[i] = verdicts[i]
      /\ verdicts'[n + 1] = [key |-> key, at |-> now, inc |-> incarnation,
                             kind |-> Kind(key), image |-> image]
  BY <1>0, DecideLog
<1>2. /\ posts' = posts /\ incarnation' = incarnation
      /\ posting' = IF Kind(key) = "alert" THEN FirstChannel ELSE "none"
  BY DEF Decide
<1> HIDE DEF n
<1>2a. verdicts'[n + 1].inc = incarnation /\ verdicts'[n + 1].kind = Kind(key)
  BY <1>1
<1>3. \A p \in DOMAIN posts' :
         /\ posts'[p].alert \in 1..n
         /\ posts'[p].alert \in DOMAIN verdicts'
         /\ IsAlert(verdicts'[posts'[p].alert])
  BY <1>1, <1>2 DEF DispatchInv, IsAlert
<1>4. ASSUME NEW a \in DOMAIN verdicts', NEW c \in Channels,
             IsAlert(verdicts'[a]), verdicts'[a].inc = incarnation'
      PROVE  PostsOf(a, c)' # {} <=> ~(a = Len(verdicts') /\ c \in Due')
  <2>1. CASE a \in 1..n
    <3>1. PostsOf(a, c)' = PostsOf(a, c)
      BY <1>2 DEF PostsOf
    <3>2. IsAlert(verdicts[a]) /\ verdicts[a].inc = incarnation
      BY <2>1, <1>1, <1>2, <1>4 DEF IsAlert
    <3>3. PostsOf(a, c) # {}
      BY <2>1, <3>2, <1>1 DEF DispatchInv, Due
    <3>4. a # Len(verdicts')
      BY <2>1, <1>1
    <3> QED BY <3>1, <3>3, <3>4
  <2>2. CASE a = n + 1
    <3>1. PostsOf(a, c)' = {}
      BY <2>2, <1>1, <1>3 DEF PostsOf
    <3>2. posting' = FirstChannel
      BY <2>2, <1>2a, <1>2, <1>4 DEF IsAlert
    <3>3. c \in Due'
      BY <3>2, ManagerAssumption DEF Due, FirstChannel
    <3> QED BY <2>2, <3>1, <3>3, <1>1
  <2> QED BY <2>1, <2>2, <1>1
<1>5. posting' # "none" => /\ n + 1 \in DOMAIN verdicts'
                           /\ IsAlert(verdicts'[n + 1])
                           /\ verdicts'[n + 1].inc = incarnation'
  BY <1>1, <1>2a, <1>2 DEF IsAlert
<1>6. \A p, q \in DOMAIN posts' :
         posts'[p].alert = posts'[q].alert /\ posts'[p].channel = posts'[q].channel => p = q
  BY <1>2 DEF DispatchInv
<1> QED BY <1>1, <1>3, <1>4, <1>5, <1>6 DEF DispatchInv

LEMMA ProcessEventDispatch ==
    ASSUME ManagerTypeOK, DispatchInv, posting = "none",
           NEW n \in Nodes, NEW D \in SUBSET Labels, NEW image \in BOOLEAN,
           ProcessEvent(n, D, image), UNCHANGED <<now, incarnation>>
    PROVE  DispatchInv'
<1>1. CASE UNCHANGED managerVars
  BY <1>1, SameDispatch DEF managerVars
<1>2. CASE Triggered(D) # {} /\ Decide(<<n, Triggered(D)>>, image)
  <2>1. <<n, Triggered(D)>> \in Keys
    BY <1>2, CallKey
  <2>2. Decide(<<n, Triggered(D)>>, image)
    BY <1>2
  <2> QED BY <2>1, <2>2, DecideDispatch
<1> QED BY <1>1, <1>2 DEF ProcessEvent

\* A request that returns pays one due post of the open alert.
LEMMA PostingDispatch ==
    ASSUME ManagerTypeOK, DispatchInv, TelegramReturns \/ WebhookReturns
    PROVE  DispatchInv'
<1> DEFINE n == Len(verdicts)
<1>1. /\ posting \in {"telegram", "webhook"}
      /\ posting' = ChannelAfter(posting)
      /\ UNCHANGED <<incarnation, verdicts>>
  BY DEF TelegramReturns, WebhookReturns
<1>2. PICK up \in BOOLEAN, ok \in BOOLEAN : posts' = Posted(posting, up, ok)
  BY DEF TelegramReturns, WebhookReturns
<1> DEFINE m == Len(posts)
           r == [alert |-> n, channel |-> posting, up |-> up, ok |-> ok]
<1>3. n \in Nat /\ r \in Post /\ posts \in Seq(Post) /\ posts' = Append(posts, r)
  BY <1>1, <1>2, LenProperties DEF Post, Posted, ManagerTypeOK
<1>4. /\ DOMAIN posts = 1..m /\ DOMAIN posts' = 1..(m + 1) /\ m \in Nat
      /\ \A p \in 1..m : posts'[p] = posts[p]
      /\ posts'[m + 1] = r
  BY <1>3, AppendProperties, LenProperties
<1>5. r.alert = n /\ r.channel = posting
  OBVIOUS
<1>6. /\ n \in DOMAIN verdicts /\ IsAlert(verdicts[n])
      /\ verdicts[n].inc = incarnation /\ posting \in Channels
  BY <1>1 DEF DispatchInv, ManagerTypeOK
<1> HIDE DEF n, m, r
<1>7. posting \in Due /\ Due' = Due \ {posting}
  BY <1>1, <1>6, ManagerAssumption DEF Due, ChannelAfter
<1>8. \A p \in DOMAIN posts' :
         posts'[p].alert \in DOMAIN verdicts' /\ IsAlert(verdicts'[posts'[p].alert])
  BY <1>1, <1>4, <1>5, <1>6 DEF DispatchInv, IsAlert
<1>9. \A p \in 1..m : ~(posts[p].alert = n /\ posts[p].channel = posting)
  <2>1. PostsOf(n, posting) = {}
    BY <1>6, <1>7 DEF DispatchInv, n
  <2> QED BY <2>1, <1>4 DEF PostsOf
<1>10. \A p, q \in DOMAIN posts' :
          posts'[p].alert = posts'[q].alert /\ posts'[p].channel = posts'[q].channel => p = q
  BY <1>4, <1>5, <1>9 DEF DispatchInv
<1>11. ASSUME NEW a \in DOMAIN verdicts', NEW c \in Channels,
              IsAlert(verdicts'[a]), verdicts'[a].inc = incarnation'
       PROVE  PostsOf(a, c)' # {} <=> ~(a = Len(verdicts') /\ c \in Due')
  <2>1. PostsOf(a, c) # {} <=> ~(a = n /\ c \in Due)
    BY <1>1, <1>11 DEF DispatchInv, IsAlert, n
  <2>2. PostsOf(a, c)' # {} <=> PostsOf(a, c) # {} \/ (a = n /\ c = posting)
    BY <1>4, <1>5 DEF PostsOf
  <2>3. Len(verdicts') = n
    BY <1>1 DEF n
  <2> QED BY <2>1, <2>2, <2>3, <1>7
<1>12. posting' # "none" => /\ Len(verdicts') \in DOMAIN verdicts'
                            /\ IsAlert(verdicts'[Len(verdicts')])
                            /\ verdicts'[Len(verdicts')].inc = incarnation'
  BY <1>1, <1>6 DEF IsAlert, n
<1> QED BY <1>8, <1>10, <1>11, <1>12 DEF DispatchInv

\* A restart gives up what was open: none of the alerts logged is of the new
\* process.
LEMMA RestartDispatch ==
    ASSUME ManagerInv, DispatchInv, ManagerRestart
    PROVE  DispatchInv'
<1>1. /\ incarnation' = incarnation + 1 /\ posting' = "none"
      /\ UNCHANGED <<verdicts, posts>>
  BY DEF ManagerRestart
<1>2. \A a \in DOMAIN verdicts : verdicts[a].inc # incarnation'
  BY <1>1, VerdictType DEF ManagerInv, ManagerTypeOK, LimiterInv, Verdict
<1> QED BY <1>1, <1>2 DEF DispatchInv, IsAlert

LEMMA DispatchStep == ManagerInv /\ DispatchInv /\ ManagerStep => DispatchInv'
<1> SUFFICES ASSUME ManagerInv, DispatchInv, ManagerStep PROVE DispatchInv'
  OBVIOUS
<1>0. ManagerTypeOK
  BY DEF ManagerInv
<1>1. CASE CallStep
  BY <1>0, <1>1, ProcessEventDispatch DEF CallStep
<1>2. CASE TelegramReturns \/ WebhookReturns
  BY <1>0, <1>2, PostingDispatch
<1>3. CASE \/ AdvanceClock /\ UNCHANGED <<incarnation, managerVars>>
           \/ UNCHANGED amVars
  BY <1>3, SameDispatch DEF amVars, managerVars
<1>4. CASE ManagerRestart
  BY <1>4, RestartDispatch
<1> QED BY <1>1, <1>2, <1>3, <1>4 DEF ManagerStep

\* Dispatch is complete and in order (_dispatch): a free thread has posted each
\* alert of its process exactly once to each channel, whatever the requests
\* returned, and nothing but an alert is posted.
THEOREM ManagerDispatch == ManagerSpec => []DispatchComplete
<1> QED BY DispatchInit, DispatchStep, DispatchIsComplete, ManagerTakesSteps, ManagerInvariant,
            PTL DEF ManagerSpec

-----------------------------------------------------------------------------
(* AlertManager implements AlertThrottle.  The mapping takes the last alert  *)
(* of a key from the log; that there is a last one, the sets of times being  *)
(* unbounded as far as their types tell, is an invariant of its own.         *)

HasLatest ==
    \A k \in Keys : AlertTimes(k) # {} =>
        \E m \in AlertTimes(k) : \A t \in AlertTimes(k) : t <= m

\* The greatest element of a set of times is the one Max chooses.
LEMMA MaxIs ==
    ASSUME NEW S \in SUBSET Nat, NEW m \in S, \A t \in S : t <= m
    PROVE  Max(S) = m
<1>1. \A t \in S : m >= t
  OBVIOUS
<1>2. Max(S) \in S /\ \A t \in S : Max(S) >= t
  BY <1>1, Zenon DEF Max
<1>3. m \in Nat /\ Max(S) \in Nat
  BY <1>2
<1> QED BY <1>2, <1>3

\* The times of the alerts of a key are those of the clock so far.
LEMMA AlertTimesPast ==
    ManagerInv => \A k \in Keys : /\ AlertTimes(k) \in SUBSET Nat
                                  /\ \A t \in AlertTimes(k) : t <= now
BY VerdictType DEF ManagerInv, LimiterInv, Verdict, AlertTimes

\* What a decision on key does to the times of the alerts.
LEMMA DecideTimes ==
    ASSUME ManagerInv, NEW key \in Keys, NEW image \in BOOLEAN,
           Decide(key, image), UNCHANGED <<now, incarnation>>, NEW k \in Keys
    PROVE  AlertTimes(k)' = IF k = key /\ Kind(key) = "alert"
                            THEN AlertTimes(k) \cup {now} ELSE AlertTimes(k)
<1> DEFINE n == Len(verdicts)
           w == [key |-> key, at |-> now, inc |-> incarnation,
                 kind |-> Kind(key), image |-> image]
<1>0. n \in Nat
  BY LenProperties DEF ManagerInv, ManagerTypeOK
<1>1. /\ DOMAIN verdicts = 1..n
      /\ DOMAIN verdicts' = 1..(n + 1)
      /\ \A i \in 1..n : verdicts'[i] = verdicts[i]
      /\ verdicts'[n + 1] = w
  BY <1>0, DecideLog DEF ManagerInv
<1>2. /\ w.key = key /\ w.at = now /\ w.inc = incarnation /\ w.kind = Kind(key)
      /\ incarnation' = incarnation
  OBVIOUS
<1> HIDE DEF n, w
<1>3. \A i : i \in 1..(n + 1) <=> i \in 1..n \/ i = n + 1
  BY <1>0
<1> DEFINE Of(log, i) == IsAlert(log[i]) /\ log[i].key = k /\ log[i].inc = incarnation
<1>4. AlertTimes(k) = {verdicts[i].at : i \in {j \in 1..n : Of(verdicts, j)}}
  BY <1>1 DEF AlertTimes
<1>5. AlertTimes(k)' = {verdicts'[i].at : i \in {j \in 1..(n + 1) : Of(verdicts', j)}}
  BY <1>1, <1>2 DEF AlertTimes, IsAlert
<1>6. \A i \in 1..n : Of(verdicts', i) <=> Of(verdicts, i)
  BY <1>1 DEF IsAlert
<1>7. Of(verdicts', n + 1) <=> k = key /\ Kind(key) = "alert"
  BY <1>1, <1>2 DEF IsAlert
<1> HIDE DEF Of
<1> QED BY <1>1, <1>2, <1>3, <1>4, <1>5, <1>6, <1>7

LEMMA RestartTimes ==
    ASSUME ManagerInv, ManagerRestart, NEW k \in Keys
    PROVE  AlertTimes(k)' = {}
<1>1. incarnation' = incarnation + 1 /\ verdicts' = verdicts
  BY DEF ManagerRestart
<1>2. \A i \in DOMAIN verdicts : verdicts[i].inc # incarnation'
  BY <1>1, VerdictType DEF ManagerInv, ManagerTypeOK, LimiterInv, Verdict
<1> QED BY <1>1, <1>2 DEF AlertTimes

\* There is a last alert whenever there is one.
LEMMA StepHasLatest == ManagerInv /\ HasLatest /\ ManagerStep => HasLatest'
<1> SUFFICES ASSUME ManagerInv, HasLatest, ManagerStep PROVE HasLatest'
  OBVIOUS
<1>1. ASSUME UNCHANGED <<incarnation, verdicts>> PROVE HasLatest'
  BY <1>1 DEF HasLatest, AlertTimes, IsAlert
<1>2. CASE CallStep
  <2>1. PICK n \in Nodes, D \in SUBSET Labels, image \in BOOLEAN : ProcessEvent(n, D, image)
    BY <1>2 DEF CallStep
  <2>2. CASE UNCHANGED managerVars
    BY <1>1, <1>2, <2>2 DEF CallStep, managerVars
  <2>3. CASE Triggered(D) # {} /\ Decide(<<n, Triggered(D)>>, image)
    <3> DEFINE key == <<n, Triggered(D)>>
    <3>1. key \in Keys
      BY <2>3, CallKey
    <3>2. Decide(key, image) /\ UNCHANGED <<now, incarnation>>
      BY <1>2, <2>3 DEF CallStep
    <3> HIDE DEF key
    <3> SUFFICES ASSUME NEW k \in Keys, AlertTimes(k)' # {}
                 PROVE  \E m \in AlertTimes(k)' : \A t \in AlertTimes(k)' : t <= m
      BY DEF HasLatest
    <3>3. AlertTimes(k)' = IF k = key /\ Kind(key) = "alert"
                           THEN AlertTimes(k) \cup {now} ELSE AlertTimes(k)
      BY <3>1, <3>2, DecideTimes
    <3>4. now \in Nat /\ \A t \in AlertTimes(k) : t <= now
      BY AlertTimesPast DEF ManagerInv, ManagerTypeOK
    <3> QED BY <3>3, <3>4 DEF HasLatest
  <2> QED BY <2>1, <2>2, <2>3 DEF ProcessEvent
<1>3. CASE \/ TelegramReturns \/ WebhookReturns
           \/ UNCHANGED <<incarnation, managerVars>> \/ UNCHANGED amVars
  BY <1>1, <1>3 DEF TelegramReturns, WebhookReturns, amVars, managerVars
<1>4. CASE ManagerRestart
  BY <1>4, RestartTimes DEF HasLatest
<1> QED BY <1>2, <1>3, <1>4 DEF ManagerStep

LEMMA LatestInit == ManagerInit => HasLatest
BY DEF ManagerInit, HasLatest, AlertTimes

LEMMA HasLatestHolds == ManagerSpec => []HasLatest
<1>1. ManagerInit => HasLatest
  BY LatestInit
<1> QED BY <1>1, StepHasLatest, ManagerTakesSteps, ManagerInvariant, PTL DEF ManagerSpec

\* The mapped state, one key at a time.
LEMMA LastAlertOf ==
    ASSUME ManagerInv, NEW k \in Keys, NEW m \in AlertTimes(k),
           \A t \in AlertTimes(k) : t <= m
    PROVE  LastAlert[k] = m
<1>1. Max(AlertTimes(k)) = m
  BY AlertTimesPast, MaxIs
<1> QED BY <1>1 DEF LastAlert

LEMMA NoLastAlert ==
    ASSUME NEW k \in Keys, AlertTimes(k) = {}
    PROVE  LastAlert[k] = Never
BY DEF LastAlert

LEMMA SameLastAlert ==
    ASSUME \A k \in Keys : AlertTimes(k)' = AlertTimes(k)
    PROVE  LastAlert' = LastAlert
BY DEF LastAlert

\* An alert decided now is one the throttle allows: its key has had none, or the
\* last one is no later than the time the limiter holds, Cooldown ago.
LEMMA DecideThrottle ==
    ASSUME ManagerInv, ManagerInv', HasLatest, NEW key \in Keys, NEW image \in BOOLEAN,
           Decide(key, image), UNCHANGED <<now, incarnation>>
    PROVE  Throttle!Alert(key) \/ LastAlert' = LastAlert
<1>1. \A k \in Keys : AlertTimes(k)' = IF k = key /\ Kind(key) = "alert"
                                       THEN AlertTimes(k) \cup {now} ELSE AlertTimes(k)
  BY DecideTimes
<1>2. CASE Kind(key) # "alert"
  BY <1>1, <1>2, SameLastAlert
<1>3. CASE Kind(key) = "alert"
  <2>1. now \in Nat /\ \A t \in AlertTimes(key) : t <= now
    BY AlertTimesPast DEF ManagerInv, ManagerTypeOK
  <2>2. LastAlert[key] = Never \/ now - LastAlert[key] >= Cooldown
    <3>1. CASE AlertTimes(key) = {}
      BY <3>1, NoLastAlert
    <3>2. CASE AlertTimes(key) # {}
      <4>1. PICK m \in AlertTimes(key) : \A t \in AlertTimes(key) : t <= m
        BY <3>2 DEF HasLatest
      <4>2. LastAlert[key] = m
        BY <4>1, LastAlertOf
      <4>3. PICK i \in DOMAIN verdicts :
               m = verdicts[i].at /\ verdicts[i].key = key /\ verdicts[i].inc = incarnation
        BY <4>1 DEF AlertTimes
      <4>4. m \in Nat /\ m <= recentAlerts[key]
        BY <4>3, VerdictType DEF ManagerInv, LimiterInv, Verdict
      <4>5. recentAlerts[key] \in Nat
        BY <4>4 DEF ManagerInv, ManagerTypeOK, Never
      <4>6. ~WasSentRecently(key)
        BY <1>3 DEF Kind
      <4>7. now - recentAlerts[key] >= Cooldown
        BY <2>1, <4>5, <4>6, ManagerAssumption DEF WasSentRecently, Never
      <4> QED BY <2>1, <4>2, <4>4, <4>5, <4>7, ManagerAssumption
    <3> QED BY <3>1, <3>2
  <2>3. LastAlert' = [LastAlert EXCEPT ![key] = now]
    <3>1. LastAlert'[key] = now
      <4>1. AlertTimes(key)' = AlertTimes(key) \cup {now}
        BY <1>1, <1>3
      <4>2. AlertTimes(key) \in SUBSET Nat
        BY AlertTimesPast
      <4>3. AlertTimes(key)' \in SUBSET Nat /\ now \in AlertTimes(key)'
            /\ \A t \in AlertTimes(key)' : t <= now
        BY <2>1, <4>1, <4>2
      <4>4. Max(AlertTimes(key)') = now
        BY <4>3, MaxIs
      <4> QED BY <4>3, <4>4 DEF LastAlert
    <3>2. \A k \in Keys : k # key => LastAlert'[k] = LastAlert[k]
      BY <1>1 DEF LastAlert
    <3>3. LastAlert' = [k \in Keys |-> LastAlert'[k]]
      BY DEF LastAlert
    <3>4. [LastAlert EXCEPT ![key] = now] =
             [k \in Keys |-> IF k = key THEN now ELSE LastAlert[k]]
      BY DEF LastAlert
    <3> QED BY <3>1, <3>2, <3>3, <3>4
  <2> QED BY <2>2, <2>3 DEF Throttle!Alert, Throttle!Never, Never
<1> QED BY <1>2, <1>3

LEMMA ThrottleStep ==
    ManagerInv /\ ManagerInv' /\ HasLatest /\ ManagerStep
        => [Throttle!ThrottleNext]_(Throttle!throttleVars)
<1> SUFFICES ASSUME ManagerInv, ManagerInv', HasLatest, ManagerStep
             PROVE  \/ Throttle!ThrottleNext
                    \/ now' = now /\ LastAlert' = LastAlert
  BY DEF Throttle!throttleVars
<1>1. ASSUME UNCHANGED <<incarnation, verdicts>> PROVE LastAlert' = LastAlert
  <2>1. \A k \in Keys : AlertTimes(k)' = AlertTimes(k)
    BY <1>1 DEF AlertTimes, IsAlert
  <2> QED BY <2>1, SameLastAlert
<1>2. CASE CallStep
  <2>1. PICK n \in Nodes, D \in SUBSET Labels, image \in BOOLEAN : ProcessEvent(n, D, image)
    BY <1>2 DEF CallStep
  <2>2. CASE UNCHANGED managerVars
    BY <1>1, <1>2, <2>2 DEF CallStep, managerVars
  <2>3. CASE Triggered(D) # {} /\ Decide(<<n, Triggered(D)>>, image)
    <3>1. <<n, Triggered(D)>> \in Keys
      BY <2>3, CallKey
    <3>2. Throttle!Alert(<<n, Triggered(D)>>) \/ LastAlert' = LastAlert
      BY <1>2, <2>3, <3>1, DecideThrottle DEF CallStep
    <3> QED BY <1>2, <3>1, <3>2 DEF CallStep, Throttle!ThrottleNext
  <2> QED BY <2>1, <2>2, <2>3 DEF ProcessEvent
<1>3. CASE TelegramReturns \/ WebhookReturns \/ UNCHANGED amVars
  BY <1>1, <1>3 DEF TelegramReturns, WebhookReturns, amVars, managerVars
<1>4. CASE AdvanceClock /\ UNCHANGED <<incarnation, managerVars>>
  BY <1>1, <1>4 DEF AdvanceClock, managerVars, Throttle!ThrottleNext, Throttle!Advance
<1>5. CASE ManagerRestart /\ UNCHANGED now
  <2>1. \A k \in Keys : AlertTimes(k)' = {}
    BY <1>5, RestartTimes
  <2>2. LastAlert' = [k \in Keys |-> Never]
    BY <2>1 DEF LastAlert
  <2> QED BY <1>5, <2>2 DEF Never, Throttle!ThrottleNext, Throttle!Forget,
          Throttle!NoAlerts, Throttle!Never
<1> QED BY <1>2, <1>3, <1>4, <1>5 DEF ManagerStep

LEMMA ThrottleStart == ManagerInit => Throttle!ThrottleInit
<1> SUFFICES ASSUME ManagerInit PROVE Throttle!ThrottleInit
  OBVIOUS
<1>1. \A k \in Keys : AlertTimes(k) = {}
  BY DEF ManagerInit, AlertTimes
<1>2. LastAlert = [k \in Keys |-> Never]
  BY <1>1 DEF LastAlert
<1> QED BY <1>2 DEF ManagerInit, Never, Throttle!ThrottleInit, Throttle!NoAlerts, Throttle!Never

\* AlertManager implements AlertThrottle: process_event sends an alert only where
\* the abstract limiter allows it, a restart forgets, everything else stutters.
THEOREM ManagerImplementsThrottle == ManagerSpec => ThrottlePromise
<1> QED BY ThrottleStart, ThrottleStep, ManagerTakesSteps, HasLatestHolds, ManagerInvariant, PTL
        DEF ManagerSpec, ThrottlePromise, Throttle!ThrottleSpec

=============================================================================
