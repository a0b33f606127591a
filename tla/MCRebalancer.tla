---------------------------- MODULE MCRebalancer ----------------------------
(* Instances of Rebalancer for TLC: a small stack with one constraint, and  *)
(* the services and constraints of docker-compose.yml.                     *)
EXTENDS Rebalancer

MCSwarm == <<"pi3", "pi4", "pi5">>
MCServices == <<"alert", "coco", "motion">>
MCTwoNodes == {"pi4", "pi5"}
MCNoNode == {}
MCMotionPinned ==
    [s \in Services |-> IF s = "motion" THEN SwarmNodes \ {"pi3"} ELSE SwarmNodes]

MCComposeNodes == <<"pi5", "pi4", "pi3">>
MCComposeServices == <<"alert", "coco", "fire", "motion">>
MCCompose ==
    [s \in Services |-> IF s = "alert" THEN SwarmNodes ELSE SwarmNodes \ {"pi3"}]
=============================================================================
