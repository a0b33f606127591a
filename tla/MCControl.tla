------------------------------ MODULE MCControl ------------------------------
(* The alert manager and the rebalancer, small.  They share nothing: each   *)
(* behaviour is one of one of them, the other stays in its initial state.   *)
EXTENDS MCAlertManager, MCRebalancer

VARIABLE part

\* One service on each node.
MCBalanced == [s \in Services |-> CASE s = "alert" -> "pi3"
                                    [] s = "coco" -> "pi4"
                                    [] s = "motion" -> "pi5"]

MCInit ==
    /\ part \in {"manager", "rebalancer"}
    /\ ManagerInit /\ Init
    /\ part # "rebalancer" => place = MCBalanced

MCNext ==
    /\ UNCHANGED part
    /\ \/ part = "manager" /\ ManagerNext /\ UNCHANGED vars
       \/ part = "rebalancer" /\ Next /\ UNCHANGED amVars

MCSpec ==
    /\ MCInit /\ [][MCNext]_<<part, amVars, vars>>
    /\ WF_vars(part = "rebalancer" /\ Script)
    /\ WF_vars(part = "rebalancer" /\ Tick)
    /\ \A s \in Services : WF_vars(part = "rebalancer" /\ Reschedule(s))
=============================================================================
