---------------------------- MODULE AlertThrottle ---------------------------
(***************************************************************************)
(* What the rate limiter of alert/alert.py promises, and nothing of how:   *)
(* alerts of one key of one running process are at least Gap apart.        *)
(* AlertManager implements this specification.                             *)
(***************************************************************************)
EXTENDS Integers

CONSTANTS Keys, Gap

VARIABLES
    clock,      \* the time
    lastAlert   \* key -> time of the last alert of this process, or Never

throttleVars == <<clock, lastAlert>>

Never == -1
NoAlerts == [k \in Keys |-> Never]

ThrottleInit == clock = 0 /\ lastAlert = NoAlerts

\* An alert goes out: the first one of its key, or Gap after the last one.
Alert(k) ==
    /\ lastAlert[k] = Never \/ clock - lastAlert[k] >= Gap
    /\ lastAlert' = [lastAlert EXCEPT ![k] = clock]
    /\ UNCHANGED clock

Advance == clock' = clock + 1 /\ UNCHANGED lastAlert

\* The process restarts and knows of no alert any more.
Forget == lastAlert' = NoAlerts /\ UNCHANGED clock

ThrottleNext == (\E k \in Keys : Alert(k)) \/ Advance \/ Forget

ThrottleSpec == ThrottleInit /\ [][ThrottleNext]_throttleVars
=============================================================================
