--------------------------- MODULE EventLifecycle ---------------------------
(***************************************************************************)
(* What the correlation of alert/alert.py promises about an image event:   *)
(* it is admitted once, it waits, and it leaves exactly once: answered by  *)
(* one detection result, expired no earlier than its deadline, or lost     *)
(* when another event takes its slot or the process dies.  Only an answer  *)
(* leads to a decision, and to one at most.  AlertNode implements this     *)
(* specification.                                                          *)
(***************************************************************************)
EXTENDS Integers

VARIABLES
    clock,     \* the time
    waiting,   \* the events that wait
    answered,  \* the events that got a result
    expired,   \* the events that got none in time
    decisions  \* how many decisions were taken on answered events

lifecycleVars == <<clock, waiting, answered, expired, decisions>>

Slot(e) == <<e.sender, e.id>>

LifecycleInit ==
    /\ clock = 0 /\ decisions = 0
    /\ waiting = {} /\ answered = {} /\ expired = {}

\* A new event, never seen before, takes its slot.
Admit ==
    /\ \E e \in waiting' :
          /\ e \notin waiting \cup answered \cup expired
          /\ waiting' = {f \in waiting : Slot(f) # Slot(e)} \cup {e}
    /\ UNCHANGED <<clock, answered, expired, decisions>>

Answer ==
    /\ \E e \in waiting : waiting' = waiting \ {e} /\ answered' = answered \cup {e}
    /\ decisions' \in {decisions, decisions + 1}
    /\ UNCHANGED <<clock, expired>>

\* Events past their deadline expire, several at once.
Expire ==
    /\ expired' = expired \cup {e \in waiting : e.deadline <= clock}
    /\ waiting' = {e \in waiting : e.deadline > clock}
    /\ UNCHANGED <<clock, answered, decisions>>

Crash == waiting' = {} /\ UNCHANGED <<clock, answered, expired, decisions>>

Advance == clock' = clock + 1 /\ UNCHANGED <<waiting, answered, expired, decisions>>

LifecycleNext == Admit \/ Answer \/ Expire \/ Crash \/ Advance

LifecycleSpec == LifecycleInit /\ [][LifecycleNext]_lifecycleVars
=============================================================================
