-------------------------- MODULE RebalancerProofs --------------------------
(* Theorems of Rebalancer, for every list of nodes and services, every     *)
(* placement constraint, poll period and cooldown, with and without failing *)
(* commands.                                                               *)
EXTENDS Rebalancer, FiniteSetTheorems, TLAPS

-----------------------------------------------------------------------------
(* What the script knows while it counts.                                  *)

\* The nodes the outer loop of do_rebalance is through with.
Passed == {NodeList[i] : i \in {j \in DOMAIN NodeList : j < node}}

\* Within a node, the count is at most the number of services asked for; the
\* idle and the busy node are of those the loop has passed, a count above zero
\* has a busy node, and no node is both.
PollOK ==
    /\ count < svc
    /\ pc = "count" =>
          /\ idleNode \in Passed \cup {Nowhere}
          /\ busyNode \in Passed \cup {Nowhere}
          /\ maxCount > 0 => busyNode # Nowhere
          /\ idleNode # Nowhere => idleNode # busyNode

IInv == TypeOK /\ PollOK

(* The script's position and what it points at.                            *)
LEMMA Positions ==
    ASSUME TypeOK
    PROVE  /\ Node \in SwarmNodes /\ Svc \in Services
           /\ node \in 1..Len(NodeList) /\ svc \in 1..Len(ServiceList)
           /\ Len(NodeList) \in Nat /\ Len(ServiceList) \in Nat
           /\ Len(NodeList) >= 1 /\ Len(ServiceList) >= 1
           /\ 1 \in DOMAIN NodeList /\ 1 \in DOMAIN ServiceList
<1>1. node \in DOMAIN NodeList /\ svc \in DOMAIN ServiceList
  BY DEF TypeOK
<1>2. NodeList \in Seq(STRING) /\ NodeList # <<>>
  BY RebalancerAssumption
<1>3. ServiceList \in Seq(STRING) /\ ServiceList # <<>>
  BY RebalancerAssumption
<1>4. Node \in SwarmNodes /\ Svc \in Services
  BY <1>1 DEF Node, Svc, SwarmNodes, Services
<1>5. /\ DOMAIN NodeList = 1..Len(NodeList)
      /\ Len(NodeList) \in Nat /\ Len(NodeList) >= 1
  BY <1>2
<1>6. /\ DOMAIN ServiceList = 1..Len(ServiceList)
      /\ Len(ServiceList) \in Nat /\ Len(ServiceList) >= 1
  BY <1>3
<1> QED
  BY <1>1, <1>4, <1>5, <1>6

(* Swarm chooses a node of the swarm, or none.                             *)
LEMMA ChoicesAreNodes ==
    ASSUME up \subseteq SwarmNodes, NEW s \in Services
    PROVE  BestNodes(s) \subseteq SwarmNodes \cup {Nowhere}
  BY DEF BestNodes

(* An age stays within its limit and never goes back.                      *)
LEMMA OlderType ==
    ASSUME NEW limit \in Nat, NEW age \in 0..limit
    PROVE  Older(age, limit) \in 0..limit /\ age <= Older(age, limit)
  BY DEF Older

(* A node of the loop comes after those it is through with.                *)
LEMMA NodeIsNew ==
    ASSUME TypeOK
    PROVE  Node \notin Passed /\ Passed \subseteq SwarmNodes
  BY RebalancerAssumption, Positions DEF Node, Passed, SwarmNodes

(* Going on to the next node, the loop is through with this one; after the  *)
(* last node it is through with all.                                       *)
LEMMA PassedGrows ==
    ASSUME TypeOK, node' = node + 1
    PROVE  Passed' = Passed \cup {Node}
<1>1. node \in Nat /\ node \in DOMAIN NodeList
  BY Positions DEF TypeOK
<1>2. DOMAIN NodeList = 1..Len(NodeList) /\ Len(NodeList) \in Nat
  BY RebalancerAssumption
<1>3. {j \in DOMAIN NodeList : j < node'} = {j \in DOMAIN NodeList : j < node} \cup {node}
  BY <1>1, <1>2
<1> QED
  BY <1>3 DEF Passed, Node

LEMMA PassedAll ==
    ASSUME TypeOK, node = Len(NodeList)
    PROVE  SwarmNodes = Passed \cup {Node}
<1>1. DOMAIN NodeList = 1..Len(NodeList) /\ Len(NodeList) \in Nat
  BY RebalancerAssumption
<1>2. Len(NodeList) >= 1
  BY Positions
<1>3. DOMAIN NodeList = {j \in DOMAIN NodeList : j < node} \cup {node}
  BY <1>1, <1>2
<1> QED
  BY <1>3 DEF Passed, Node, SwarmNodes

(* The ways an answer is counted: the loop goes on to the next service or   *)
(* to the next node, the script picks a service, or the poll is over.       *)
NextService(c) ==
    /\ svc # Len(ServiceList)
    /\ svc' = svc + 1 /\ count' = c
    /\ UNCHANGED <<pc, node, idleNode, busyNode, maxCount, slept>>

NodeCounted(c) ==
    /\ svc = Len(ServiceList)
    /\ svc' = 1 /\ count' = 0 /\ UNCHANGED slept
    /\ idleNode' = IF c = 0 THEN Node ELSE idleNode
    /\ maxCount' = IF c > maxCount THEN c ELSE maxCount
    /\ busyNode' = IF c > maxCount THEN Node ELSE busyNode

NextNode(c) ==
    /\ NodeCounted(c)
    /\ node # Len(NodeList) /\ node' = node + 1 /\ UNCHANGED pc

StartPick(c) ==
    /\ NodeCounted(c)
    /\ node = Len(NodeList) /\ pc' = "pick" /\ UNCHANGED node
    /\ idleNode' # Nowhere /\ ~(maxCount' <= 1)

LEMMA CountKinds ==
    ASSUME CountService
    PROVE  /\ pc = "count"
           /\ UNCHANGED <<up, place, stamp, since>>
           /\ \E answer \in Answers(Svc) :
                /\ disturbed' = (disturbed \/ answer # place[Svc])
                /\ \/ NextService(Counted(answer)) \/ NextNode(Counted(answer))
                   \/ StartPick(Counted(answer)) \/ GoToSleep
<1>1. pc = "count" /\ UNCHANGED <<up, place, stamp, since>>
  BY DEF CountService, swarmVars
<1>2. PICK answer \in Answers(Svc) :
        LET c == Counted(answer)
            idle == IF c = 0 THEN Node ELSE idleNode
            most == IF NewBusy(c) THEN c ELSE maxCount
            nodeDone == svc = Len(ServiceList)
            allDone == nodeDone /\ node = Len(NodeList)
        IN  /\ disturbed' = (disturbed \/ answer # place[Svc])
            /\ \/ /\ ~nodeDone
                  /\ svc' = svc + 1 /\ count' = c
                  /\ UNCHANGED <<pc, node, idleNode, busyNode, maxCount, slept>>
               \/ /\ nodeDone /\ (allDone => ~InBalance(idle, most))
                  /\ svc' = 1 /\ count' = CountForNext(c)
                  /\ idleNode' = idle /\ maxCount' = most
                  /\ busyNode' = IF NewBusy(c) THEN Node ELSE busyNode
                  /\ IF allDone THEN pc' = "pick" /\ UNCHANGED node
                                ELSE node' = node + 1 /\ UNCHANGED pc
                  /\ UNCHANGED slept
               \/ /\ allDone /\ InBalance(idle, most)
                  /\ GoToSleep
  BY DEF CountService
<1>3. disturbed' = (disturbed \/ answer # place[Svc])
  BY <1>2
<1>4. ASSUME svc # Len(ServiceList)
      PROVE  NextService(Counted(answer))
  BY <1>2, <1>4 DEF NextService
<1>5. ASSUME svc = Len(ServiceList), node # Len(NodeList)
      PROVE  NextNode(Counted(answer))
  BY <1>2, <1>5 DEF NextNode, NodeCounted, CountForNext, NewBusy
<1>6. ASSUME svc = Len(ServiceList), node = Len(NodeList)
      PROVE  StartPick(Counted(answer)) \/ GoToSleep
  BY <1>2, <1>6 DEF StartPick, NodeCounted, CountForNext, NewBusy, InBalance
<1> QED
  BY <1>1, <1>3, <1>4, <1>5, <1>6

LEMMA CountedType ==
    ASSUME IInv, NEW answer \in Answers(Svc)
    PROVE  /\ Counted(answer) \in Nat /\ Counted(answer) <= svc
           /\ Counted(answer) \in 0..Len(ServiceList)
<1>1. count \in Nat /\ count < svc /\ svc \in 1..Len(ServiceList)
  BY Positions DEF IInv, TypeOK, PollOK
<1>2. Len(ServiceList) \in Nat
  BY Positions DEF IInv
<1> QED
  BY <1>1, <1>2 DEF Counted

(* A node's count leaves the idle and the busy node apart.                 *)
LEMMA NodeCountedType ==
    ASSUME IInv, pc = "count", NEW answer \in Answers(Svc), NodeCounted(Counted(answer))
    PROVE  /\ idleNode' \in Passed \cup {Node, Nowhere}
           /\ busyNode' \in Passed \cup {Node, Nowhere}
           /\ maxCount' \in 0..Len(ServiceList)
           /\ maxCount' > 0 => busyNode' # Nowhere
           /\ idleNode' # Nowhere => idleNode' # busyNode'
           /\ count' = 0 /\ svc' = 1 /\ UNCHANGED slept
<1> DEFINE c == Counted(answer)
<1>1. c \in Nat /\ c \in 0..Len(ServiceList)
  BY CountedType
<1>2. maxCount \in 0..Len(ServiceList) /\ maxCount \in Nat /\ Len(ServiceList) \in Nat
  BY Positions DEF IInv, TypeOK
<1>3. /\ idleNode \in Passed \cup {Nowhere} /\ busyNode \in Passed \cup {Nowhere}
      /\ maxCount > 0 => busyNode # Nowhere
      /\ idleNode # Nowhere => idleNode # busyNode
  BY DEF IInv, PollOK
<1>4. Node \notin Passed /\ Node # Nowhere
  BY NodeIsNew, Positions, RebalancerAssumption DEF IInv
<1>5. NodeCounted(c)
  OBVIOUS
<1> HIDE DEF c
<1>6. CASE c = 0
  BY <1>1, <1>2, <1>3, <1>4, <1>5, <1>6 DEF NodeCounted
<1>7. CASE c # 0
  BY <1>1, <1>2, <1>3, <1>4, <1>5, <1>7 DEF NodeCounted
<1> QED
  BY <1>6, <1>7

LEMMA IInvInit == Init => IInv
<1> SUFFICES ASSUME Init PROVE IInv
  OBVIOUS
<1>1. /\ 1 \in DOMAIN NodeList /\ 1 \in DOMAIN ServiceList /\ Len(ServiceList) \in Nat
  BY RebalancerAssumption
<1>2. Poll \in Nat /\ MoveCooldown \in Nat
  BY RebalancerAssumption
<1>3. /\ up \subseteq SwarmNodes
      /\ place \in [Services -> SwarmNodes \cup {Nowhere}]
  BY DEF Init
<1>4. /\ stamp \in [Services -> 0..MoveCooldown] /\ since \in [Services -> 0..MoveCooldown]
      /\ slept \in 0..Poll
  BY <1>2 DEF Init
<1>5. disturbed \in BOOLEAN
  BY DEF Init
<1>6. TypeOK
  BY <1>1, <1>3, <1>4, <1>5 DEF Init, TypeOK
<1>7. PollOK
  BY DEF Init, PollOK
<1> QED
  BY <1>6, <1>7 DEF IInv

(* A poll begins and ends with the variables as do_rebalance sets them.    *)
LEMMA PollReset ==
    ASSUME ResetPoll
    PROVE  /\ (node \in DOMAIN NodeList)' /\ (svc \in DOMAIN ServiceList)'
           /\ (count \in 0..Len(ServiceList))' /\ (maxCount \in 0..Len(ServiceList))'
           /\ (idleNode \in SwarmNodes \cup {Nowhere})'
           /\ (busyNode \in SwarmNodes \cup {Nowhere})'
           /\ PollOK'
<1>1. 1 \in DOMAIN NodeList /\ 1 \in DOMAIN ServiceList /\ Len(ServiceList) \in Nat
  BY RebalancerAssumption
<1> QED
  BY <1>1 DEF ResetPoll, PollOK

LEMMA SleepKeepsIInv ==
    ASSUME IInv, GoToSleep,
           (up \subseteq SwarmNodes)',
           (place \in [Services -> SwarmNodes \cup {Nowhere}])',
           (stamp \in [Services -> 0..MoveCooldown])',
           (since \in [Services -> 0..MoveCooldown])',
           disturbed' \in BOOLEAN
    PROVE  IInv'
<1>1. ResetPoll /\ pc' = "sleep" /\ slept' = 0
  BY DEF GoToSleep
<1>2. slept' \in 0..Poll
  BY <1>1, RebalancerAssumption
<1> QED
  BY <1>1, <1>2, PollReset DEF IInv, TypeOK

LEMMA IInvSwarm ==
    ASSUME IInv,
           \/ \E n \in SwarmNodes : NodeFails(n) \/ NodeReturns(n)
           \/ \E s \in Services : Reschedule(s)
    PROVE  IInv'
<1>1. UNCHANGED <<scriptVars, clockVars>> /\ disturbed' = TRUE
  BY DEF NodeFails, NodeReturns, Reschedule
<1>2. up' \subseteq SwarmNodes
  BY RebalancerAssumption DEF IInv, TypeOK, NodeFails, NodeReturns, Reschedule
<1>3. place' \in [Services -> SwarmNodes \cup {Nowhere}]
  BY ChoicesAreNodes DEF IInv, TypeOK, NodeFails, NodeReturns, Reschedule
<1> QED
  BY <1>1, <1>2, <1>3 DEF IInv, TypeOK, PollOK, Passed, scriptVars, clockVars

LEMMA IInvStartPoll ==
    ASSUME IInv, StartPoll
    PROVE  IInv'
<1>1. UNCHANGED <<up, place, stamp, since>>
  BY DEF StartPoll, swarmVars
<1>2. CASE pc' = "count" /\ ResetPoll /\ disturbed' = FALSE /\ UNCHANGED slept
  BY <1>1, <1>2, PollReset DEF IInv, TypeOK
<1>3. CASE GoToSleep /\ disturbed' = TRUE
  BY <1>1, <1>3, SleepKeepsIInv DEF IInv, TypeOK
<1> QED
  BY <1>2, <1>3 DEF StartPoll

LEMMA IInvCount ==
    ASSUME IInv, CountService
    PROVE  IInv'
<1>1. PICK answer \in Answers(Svc) :
        /\ disturbed' = (disturbed \/ answer # place[Svc])
        /\ \/ NextService(Counted(answer)) \/ NextNode(Counted(answer))
           \/ StartPick(Counted(answer)) \/ GoToSleep
  BY CountKinds
<1>2. pc = "count" /\ UNCHANGED <<up, place, stamp, since>>
  BY CountKinds
<1>3. disturbed' \in BOOLEAN
  BY <1>1
<1> DEFINE c == Counted(answer)
<1>4. c \in Nat /\ c <= svc /\ c \in 0..Len(ServiceList)
  BY CountedType
<1>5. /\ DOMAIN NodeList = 1..Len(NodeList) /\ Len(NodeList) \in Nat
      /\ DOMAIN ServiceList = 1..Len(ServiceList) /\ Len(ServiceList) \in Nat
      /\ 1 \in DOMAIN ServiceList
  BY RebalancerAssumption
<1>6. node \in DOMAIN NodeList /\ svc \in DOMAIN ServiceList
  BY DEF IInv, TypeOK
<1>7. CASE NextService(c)
  <2>1. svc' \in DOMAIN ServiceList /\ count' < svc' /\ count' \in 0..Len(ServiceList)
    BY <1>4, <1>5, <1>6, <1>7 DEF NextService
  <2>2. Passed' = Passed
    BY <1>7 DEF NextService, Passed
  <2> HIDE DEF c
  <2> QED
    BY <1>2, <1>3, <1>7, <2>1, <2>2 DEF IInv, TypeOK, PollOK, NextService
<1>8. ASSUME NodeCounted(c)
      PROVE  /\ idleNode' \in SwarmNodes \cup {Nowhere}
             /\ busyNode' \in SwarmNodes \cup {Nowhere}
             /\ svc' \in DOMAIN ServiceList /\ count' \in 0..Len(ServiceList)
             /\ count' < svc' /\ slept' \in 0..Poll
  <2>1. Passed \subseteq SwarmNodes /\ Node \in SwarmNodes
    BY NodeIsNew, Positions DEF IInv
  <2> QED
    BY <1>2, <1>5, <1>8, <2>1, NodeCountedType DEF IInv, TypeOK
<1>9. CASE NextNode(c)
  <2>1. NodeCounted(c) /\ node' = node + 1 /\ pc' = pc
    BY <1>9 DEF NextNode
  <2>2. node' \in DOMAIN NodeList
    BY <1>5, <1>6, <1>9 DEF NextNode
  <2>3. Passed' = Passed \cup {Node}
    BY <2>1, PassedGrows DEF IInv
  <2>4. TypeOK'
    BY <1>2, <1>3, <1>8, <2>1, <2>2, NodeCountedType DEF IInv, TypeOK
  <2>5. PollOK'
    BY <1>2, <1>8, <2>1, <2>3, NodeCountedType DEF PollOK
  <2> QED
    BY <2>4, <2>5 DEF IInv
<1>10. CASE StartPick(c)
  <2>1. NodeCounted(c) /\ node' = node /\ pc' = "pick"
    BY <1>10 DEF StartPick
  <2>2. idleNode' # Nowhere /\ ~(maxCount' <= 1)
    BY <1>10 DEF StartPick
  <2>3. /\ maxCount' \in 0..Len(ServiceList)
        /\ maxCount' > 0 => busyNode' # Nowhere
        /\ idleNode' # Nowhere => idleNode' # busyNode'
    BY <1>2, <2>1, NodeCountedType
  <2>4. maxCount' > 1 /\ {idleNode', busyNode'} \subseteq SwarmNodes
        /\ idleNode' # busyNode'
    BY <1>5, <1>8, <2>1, <2>2, <2>3
  <2> HIDE DEF c
  <2>5. TypeOK'
    BY <1>2, <1>3, <1>6, <1>8, <2>1, <2>3, <2>4 DEF IInv, TypeOK
  <2>6. PollOK'
    BY <1>8, <2>1 DEF PollOK
  <2> QED
    BY <2>5, <2>6 DEF IInv
<1>11. CASE GoToSleep
  BY <1>2, <1>3, <1>11, SleepKeepsIInv DEF IInv, TypeOK
<1> QED
  BY <1>1, <1>7, <1>9, <1>10, <1>11

LEMMA IInvPick ==
    ASSUME IInv, PickService
    PROVE  IInv'
<1>1. pc = "pick" /\ UNCHANGED <<up, place, stamp, since>> /\ disturbed' \in BOOLEAN
  BY DEF PickService, swarmVars
<1>2. CASE pc' = "force" /\ UNCHANGED <<svc, pollVars>>
  BY <1>1, <1>2 DEF IInv, TypeOK, PollOK, pollVars
<1>3. CASE svc < Len(ServiceList) /\ svc' = svc + 1 /\ UNCHANGED <<pc, pollVars>>
  <2>1. DOMAIN ServiceList = 1..Len(ServiceList) /\ Len(ServiceList) \in Nat
    BY RebalancerAssumption
  <2>2. svc' \in DOMAIN ServiceList /\ svc < svc'
    BY <1>3, <2>1 DEF IInv, TypeOK
  <2>3. count \in Nat /\ svc \in Nat /\ svc' \in Nat
    BY <1>3, <2>1 DEF IInv, TypeOK
  <2> QED
    BY <1>1, <1>3, <2>2, <2>3 DEF IInv, TypeOK, PollOK, pollVars
<1>4. CASE GoToSleep
  BY <1>1, <1>4, SleepKeepsIInv DEF IInv, TypeOK
<1> QED
  BY <1>2, <1>3, <1>4 DEF PickService

LEMMA IInvForce ==
    ASSUME IInv, ForceService
    PROVE  IInv'
<1>1. /\ pc = "force" /\ pc' = "stamp"
      /\ UNCHANGED <<up, svc, node, count, idleNode, busyNode, maxCount, slept, stamp>>
  BY DEF ForceService, pollVars
<1>2. since' \in [Services -> 0..MoveCooldown]
  <2>1. since' = [since EXCEPT ![Svc] = 0] /\ 0 \in 0..MoveCooldown
    BY RebalancerAssumption DEF ForceService
  <2> QED
    BY <2>1 DEF IInv, TypeOK
<1>3. place' \in [Services -> SwarmNodes \cup {Nowhere}]
  BY Positions, ChoicesAreNodes DEF IInv, TypeOK, ForceService
<1>4. disturbed' \in BOOLEAN
  BY DEF IInv, TypeOK, ForceService
<1> QED
  BY <1>1, <1>2, <1>3, <1>4 DEF IInv, TypeOK, PollOK

LEMMA IInvStamp ==
    ASSUME IInv, StampService
    PROVE  IInv'
<1>1. GoToSleep /\ UNCHANGED <<up, place, since, disturbed>>
  BY DEF StampService, swarmVars
<1>2. stamp' \in [Services -> 0..MoveCooldown]
  <2>1. stamp' = [stamp EXCEPT ![Svc] = 0] /\ 0 \in 0..MoveCooldown
    BY RebalancerAssumption DEF StampService
  <2> QED
    BY <2>1 DEF IInv, TypeOK
<1>3. (up \subseteq SwarmNodes)' /\ (since \in [Services -> 0..MoveCooldown])'
      /\ (place \in [Services -> SwarmNodes \cup {Nowhere}])' /\ disturbed' \in BOOLEAN
  BY <1>1 DEF IInv, TypeOK
<1> QED
  BY <1>1, <1>2, <1>3, SleepKeepsIInv

LEMMA IInvRestart ==
    ASSUME IInv, Restart
    PROVE  IInv'
<1>1. ResetPoll /\ pc' = "sleep" /\ UNCHANGED <<up, place>> /\ disturbed' \in BOOLEAN
  BY DEF Restart, swarmVars
<1>2. /\ stamp' \in [Services -> 0..MoveCooldown] /\ since' \in [Services -> 0..MoveCooldown]
      /\ slept' \in 0..Poll
  BY RebalancerAssumption DEF Restart
<1> QED
  BY <1>1, <1>2, PollReset DEF IInv, TypeOK

LEMMA IInvTick ==
    ASSUME IInv, Tick
    PROVE  IInv'
<1>1. UNCHANGED <<up, place, pc, node, svc, count, idleNode, busyNode, maxCount, disturbed>>
  BY DEF Tick, swarmVars, scriptVars
<1>2. MoveCooldown \in Nat /\ Poll \in Nat
  BY RebalancerAssumption
<1>3. /\ stamp' \in [Services -> 0..MoveCooldown] /\ since' \in [Services -> 0..MoveCooldown]
      /\ slept' \in 0..Poll
  BY <1>2, OlderType DEF IInv, TypeOK, Tick
<1> QED
  BY <1>1, <1>3 DEF IInv, TypeOK, PollOK, Passed

LEMMA IInvStep == IInv /\ [Next]_vars => IInv'
<1> SUFFICES ASSUME IInv, [Next]_vars PROVE IInv'
  OBVIOUS
<1>1. CASE UNCHANGED vars
  BY <1>1 DEF IInv, TypeOK, PollOK, Passed, vars, swarmVars, scriptVars, clockVars
<1>2. CASE Script
  BY <1>2, IInvStartPoll, IInvCount, IInvPick, IInvForce, IInvStamp DEF Script
<1>3. CASE Restart
  BY <1>3, IInvRestart
<1>4. CASE Tick
  BY <1>4, IInvTick
<1>5. CASE \/ \E n \in SwarmNodes : NodeFails(n) \/ NodeReturns(n)
           \/ \E s \in Services : Reschedule(s)
  BY <1>5, IInvSwarm
<1> QED
  BY <1>1, <1>2, <1>3, <1>4, <1>5 DEF Next

\* Whatever Swarm does to the tasks between two docker commands, the loops of
\* do_rebalance stay within their lists, and when they end with a node to take
\* from and one to give to, the first has more than one service and the two
\* are different nodes.
THEOREM RebalancerTypeOK == Spec => []TypeOK
<1>1. Init => IInv
  BY IInvInit
<1>2. IInv /\ [Next]_vars => IInv'
  BY IInvStep
<1>3. IInv => TypeOK
  BY DEF IInv
<1> QED
  BY <1>1, <1>2, <1>3, PTL DEF Spec

-----------------------------------------------------------------------------
(* The moves are spaced.                                                   *)

\* A stamp file is never older than the last move of its service, but in the
\* moment between the two commands; the script has not slept longer than it has
\* moved nothing; a poll begins after a whole poll period, and a service is
\* forced only after a whole cooldown.
SpacedInv ==
    /\ \A s \in Services : (pc = "stamp" /\ s = Svc) \/ stamp[s] <= since[s]
    /\ pc = "sleep" => \A s \in Services : slept <= since[s]
    /\ pc \in {"count", "pick", "force"} => \A s \in Services : Poll <= since[s]
    /\ pc = "force" => MoveCooldown <= stamp[Svc]

(* The ages that the invariant compares are numbers.                       *)
LEMMA Ages ==
    ASSUME TypeOK
    PROVE  /\ Poll \in Nat /\ MoveCooldown \in Nat /\ Poll <= MoveCooldown
           /\ slept \in 0..Poll
           /\ \A s \in Services : stamp[s] \in 0..MoveCooldown /\ since[s] \in 0..MoveCooldown
           /\ Svc \in Services
  BY RebalancerAssumption, Positions DEF TypeOK

LEMMA SpacedInit == Init => SpacedInv
<1>1. Poll \in Nat /\ MoveCooldown \in Nat /\ Poll <= MoveCooldown
  BY RebalancerAssumption
<1> QED
  BY <1>1 DEF Init, SpacedInv

(* A poll that ends without a move.                                        *)
LEMMA SleepKeepsSpaced ==
    ASSUME TypeOK, SpacedInv, GoToSleep, UNCHANGED <<stamp, since>>, pc # "stamp"
    PROVE  SpacedInv'
  BY Ages DEF SpacedInv, GoToSleep

LEMMA SpacedScript ==
    ASSUME TypeOK, SpacedInv, Script
    PROVE  SpacedInv'
<1>1. CASE StartPoll
  <2>1. pc = "sleep" /\ slept = Poll /\ UNCHANGED <<stamp, since>>
    BY <1>1 DEF StartPoll
  <2>2. CASE pc' = "count"
    BY <2>1, <2>2 DEF SpacedInv
  <2>3. CASE GoToSleep
    BY <2>1, <2>3, SleepKeepsSpaced
  <2> QED
    BY <1>1, <2>2, <2>3 DEF StartPoll
<1>2. CASE CountService
  <2>1. pc = "count" /\ UNCHANGED <<stamp, since>>
    BY <1>2, CountKinds
  <2>2. pc' \in {"count", "pick"} \/ GoToSleep
    BY <1>2, CountKinds DEF NextService, NextNode, StartPick
  <2>3. CASE pc' \in {"count", "pick"}
    BY <2>1, <2>3 DEF SpacedInv
  <2> QED
    BY <2>1, <2>2, <2>3, SleepKeepsSpaced
<1>3. CASE PickService
  <2>1. pc = "pick" /\ UNCHANGED <<stamp, since>>
    BY <1>3 DEF PickService
  <2>2. CASE ~InCooldown(Svc) /\ pc' = "force" /\ svc' = svc
    BY <2>1, <2>2, Ages DEF SpacedInv, InCooldown, Svc
  <2>3. CASE pc' = pc
    BY <2>1, <2>3 DEF SpacedInv
  <2>4. CASE GoToSleep
    BY <2>1, <2>4, SleepKeepsSpaced
  <2> QED
    BY <1>3, <2>2, <2>3, <2>4 DEF PickService
<1>4. CASE ForceService
  <2>1. pc = "force" /\ pc' = "stamp" /\ UNCHANGED <<svc, stamp>>
    BY <1>4 DEF ForceService
  <2>2. since' = [since EXCEPT ![Svc] = 0] /\ Svc' = Svc
    BY <1>4, <2>1 DEF ForceService, Svc
  <2>3. \A s \in Services : s # Svc => since'[s] = since[s]
    BY <2>2 DEF TypeOK
  <2> QED
    BY <2>1, <2>2, <2>3 DEF SpacedInv
<1>5. CASE StampService
  <2>1. pc = "stamp" /\ pc' = "sleep" /\ slept' = 0 /\ since' = since
    BY <1>5 DEF StampService, GoToSleep
  <2>2. stamp' = [stamp EXCEPT ![Svc] = 0]
    BY <1>5 DEF StampService
  <2>3. stamp'[Svc] = 0 /\ \A s \in Services : s # Svc => stamp'[s] = stamp[s]
    BY <2>2, Ages DEF TypeOK
  <2>4. \A s \in Services : stamp'[s] <= since'[s]
    BY <2>1, <2>3, Ages DEF SpacedInv
  <2> QED
    BY <2>1, <2>4, Ages DEF SpacedInv
<1> QED
  BY <1>1, <1>2, <1>3, <1>4, <1>5 DEF Script

LEMMA SpacedTick ==
    ASSUME TypeOK, SpacedInv, Tick
    PROVE  SpacedInv'
<1>1. pc' = pc /\ Svc' = Svc
  BY DEF Tick, scriptVars, Svc
<1>2. \A s \in Services : /\ stamp'[s] = Older(stamp[s], MoveCooldown)
                          /\ since'[s] = Older(since[s], MoveCooldown)
  BY DEF Tick
<1>3. slept' = Older(slept, Poll) \/ slept' = slept
  BY DEF Tick
<1>4. \A s \in Services : stamp[s] <= since[s] => stamp'[s] <= since'[s]
  BY <1>2, Ages DEF Older
<1>5. \A s \in Services : Poll <= since[s] => Poll <= since'[s]
  BY <1>2, Ages DEF Older
<1>6. \A s \in Services : slept <= since[s] => slept' <= since'[s]
  BY <1>2, <1>3, Ages DEF Older
<1>7. MoveCooldown <= stamp[Svc] => MoveCooldown <= stamp'[Svc']
  BY <1>1, <1>2, Ages DEF Older
<1> QED
  BY <1>1, <1>4, <1>5, <1>6, <1>7 DEF SpacedInv

LEMMA SpacedStep == TypeOK /\ SpacedInv /\ [Next]_vars => SpacedInv'
<1> SUFFICES ASSUME TypeOK, SpacedInv, [Next]_vars PROVE SpacedInv'
  OBVIOUS
<1>1. CASE UNCHANGED <<clockVars, pc, svc>>
  BY <1>1 DEF SpacedInv, clockVars, Svc
<1>2. CASE Restart
  <2>1. /\ pc' = "sleep" /\ slept' = Poll
        /\ \A s \in Services : stamp'[s] = MoveCooldown /\ since'[s] = MoveCooldown
    BY <1>2 DEF Restart
  <2> QED
    BY <2>1, Ages DEF SpacedInv
<1>3. UNCHANGED vars => UNCHANGED <<clockVars, pc, svc>>
  BY DEF vars, scriptVars
<1>4. \A n \in SwarmNodes : NodeFails(n) \/ NodeReturns(n) => UNCHANGED <<clockVars, pc, svc>>
  BY DEF NodeFails, NodeReturns, scriptVars
<1>5. \A s \in Services : Reschedule(s) => UNCHANGED <<clockVars, pc, svc>>
  BY DEF Reschedule, scriptVars
<1> QED
  BY <1>1, <1>2, <1>3, <1>4, <1>5, SpacedScript, SpacedTick DEF Next

\* No service is forced again within its cooldown and no two services within a
\* poll period, for any two periods, although the age of a stamp file is read
\* polls after the move it stands for, a restart clears the files, and a poll
\* may fail at any of its commands.
THEOREM RebalancerMovesSpaced == Spec => MovesSpaced
<1>1. Init => IInv /\ SpacedInv
  BY IInvInit, SpacedInit
<1>2. IInv /\ SpacedInv /\ [Next]_vars => IInv' /\ SpacedInv'
  BY IInvStep, SpacedStep DEF IInv
<1> DEFINE Spaced == /\ since[Svc] >= MoveCooldown
                     /\ \A s \in Services : since[s] >= Poll
<1>3. IInv /\ SpacedInv /\ [Next]_vars => [pc = "force" /\ pc' = "stamp" => Spaced]_vars
  <2> SUFFICES ASSUME IInv, SpacedInv, pc = "force" PROVE Spaced
    OBVIOUS
  <2>1. MoveCooldown <= stamp[Svc] /\ stamp[Svc] <= since[Svc] /\ Svc \in Services
    BY Ages DEF SpacedInv, IInv
  <2> QED
    BY <2>1, Ages DEF SpacedInv, IInv
<1> QED
  BY <1>1, <1>2, <1>3, PTL DEF Spec, MovesSpaced

-----------------------------------------------------------------------------
(* Counting one by one is right in a poll that nothing disturbs.           *)

\* The services on n among the first k of the list.
FirstOn(n, k) ==
    {s \in Services : place[s] = n /\ \E i \in 1..k : s = ServiceList[i]}

\* The count is the number of services the loop has found on its node; the idle
\* node is empty, the busy one has as many services as was counted, and no node
\* the loop is through with has more.
CountInv ==
    ~disturbed =>
      /\ pc = "count" =>
            /\ count = Cardinality(FirstOn(Node, svc - 1))
            /\ idleNode # Nowhere => Load(idleNode) = 0
            /\ maxCount > 0 => Load(busyNode) = maxCount
            /\ \A n \in Passed : Load(n) <= maxCount
      /\ pc \in {"pick", "force"} =>
            /\ Load(idleNode) = 0
            /\ Load(busyNode) = maxCount
            /\ \A n \in SwarmNodes : Load(n) <= maxCount
      /\ pc = "force" => place[Svc] = busyNode

LEMMA ServicesFinite == IsFiniteSet(Services)
<1>1. ServiceList \in Seq(STRING)
  BY RebalancerAssumption
<1> DEFINE D == 1..Len(ServiceList)
<1>2. DOMAIN ServiceList = D /\ Len(ServiceList) \in Nat
  BY <1>1
<1>3. IsFiniteSet(D)
  BY <1>2, FS_Interval
<1>4. ServiceList \in Surjection(D, Services)
  BY <1>1, <1>2 DEF Services, Surjection
<1> QED
  BY <1>3, <1>4, FS_Surjection

LEMMA FirstOnFinite ==
    ASSUME NEW n, NEW k
    PROVE  IsFiniteSet(FirstOn(n, k)) /\ Cardinality(FirstOn(n, k)) \in Nat
<1>1. FirstOn(n, k) \in SUBSET Services
  BY DEF FirstOn
<1> QED
  BY <1>1, ServicesFinite, FS_Subset, FS_CardinalityType

LEMMA LoadType ==
    ASSUME NEW n
    PROVE  Load(n) \in Nat
<1>1. {s \in Services : place[s] = n} \in SUBSET Services
  OBVIOUS
<1> QED
  BY <1>1, ServicesFinite, FS_Subset, FS_CardinalityType DEF Load

(* After the last service the whole load is counted.                       *)
LEMMA FirstOnAll ==
    ASSUME NEW n
    PROVE  Cardinality(FirstOn(n, Len(ServiceList))) = Load(n)
<1>1. DOMAIN ServiceList = 1..Len(ServiceList)
  BY RebalancerAssumption
<1>2. FirstOn(n, Len(ServiceList)) = {s \in Services : place[s] = n}
  BY <1>1 DEF FirstOn, Services
<1> QED
  BY <1>2 DEF Load

(* One service more: each service is in the list once.                     *)
LEMMA FirstOnNext ==
    ASSUME TypeOK, NEW n
    PROVE  Cardinality(FirstOn(n, svc)) =
              IF place[Svc] = n THEN Cardinality(FirstOn(n, svc - 1)) + 1
              ELSE Cardinality(FirstOn(n, svc - 1))
<1>1. /\ DOMAIN ServiceList = 1..Len(ServiceList)
      /\ \A i, j \in DOMAIN ServiceList : ServiceList[i] = ServiceList[j] => i = j
  BY RebalancerAssumption
<1>2. svc \in 1..Len(ServiceList) /\ Len(ServiceList) \in Nat /\ Svc \in Services
  BY Positions
<1>3. 1..svc = (1..(svc - 1)) \cup {svc} /\ svc \notin 1..(svc - 1)
  BY <1>2
<1>4. 1..(svc - 1) \subseteq DOMAIN ServiceList /\ svc \in DOMAIN ServiceList
  BY <1>1, <1>2
<1>5. Svc \notin FirstOn(n, svc - 1)
  BY <1>1, <1>3, <1>4 DEF FirstOn, Svc
<1>6. CASE place[Svc] = n
  <2>1. FirstOn(n, svc) = FirstOn(n, svc - 1) \cup {Svc}
    BY <1>2, <1>3, <1>6 DEF FirstOn, Svc
  <2>2. IsFiniteSet(FirstOn(n, svc - 1))
    BY FirstOnFinite
  <2>3. Cardinality(FirstOn(n, svc)) = Cardinality(FirstOn(n, svc - 1)) + 1
    BY <1>5, <2>1, <2>2, FS_AddElement
  <2> QED
    BY <1>6, <2>3
<1>7. CASE place[Svc] # n
  <2>1. FirstOn(n, svc) = FirstOn(n, svc - 1)
    BY <1>2, <1>3, <1>7 DEF FirstOn, Svc
  <2> QED
    BY <1>7, <2>1
<1> QED
  BY <1>6, <1>7

(* The count is right for one service more, when the answer is.            *)
LEMMA CountRight ==
    ASSUME IInv, CountInv, ~disturbed, pc = "count"
    PROVE  Counted(place[Svc]) = Cardinality(FirstOn(Node, svc))
<1>1. count = Cardinality(FirstOn(Node, svc - 1))
  BY DEF CountInv
<1> QED
  BY <1>1, FirstOnNext DEF Counted, IInv

(* The idle and the busy node are right for one node more.                 *)
LEMMA NodeCountedRight ==
    ASSUME IInv, CountInv, ~disturbed, pc = "count", place' = place,
           NodeCounted(Counted(place[Svc]))
    PROVE  /\ idleNode' # Nowhere => Load(idleNode)' = 0
           /\ maxCount' > 0 => Load(busyNode)' = maxCount'
           /\ \A n \in Passed \cup {Node} : Load(n) <= maxCount'
<1> DEFINE c == Counted(place[Svc])
           L(n) == Cardinality({s \in Services : place[s] = n})
<1>1. Load(idleNode)' = L(idleNode') /\ Load(busyNode)' = L(busyNode')
  BY DEF Load
<1>2. \A n : Load(n) = L(n) /\ L(n) \in Nat
  BY LoadType DEF Load
<1>3. c = L(Node) /\ c \in Nat
  BY <1>2, CountRight, FirstOnAll DEF NodeCounted
<1>4. maxCount \in Nat
  BY RebalancerAssumption DEF IInv, TypeOK
<1>5. /\ idleNode # Nowhere => L(idleNode) = 0
      /\ maxCount > 0 => L(busyNode) = maxCount
      /\ \A n \in Passed : L(n) <= maxCount
  BY <1>2 DEF CountInv
<1>6. /\ idleNode' = IF c = 0 THEN Node ELSE idleNode
      /\ maxCount' = IF c > maxCount THEN c ELSE maxCount
      /\ busyNode' = IF c > maxCount THEN Node ELSE busyNode
  BY DEF NodeCounted
<1> HIDE DEF c, L
<1>7. idleNode' # Nowhere => L(idleNode') = 0
  BY <1>3, <1>5, <1>6
<1>8. maxCount' > 0 => L(busyNode') = maxCount'
  BY <1>3, <1>4, <1>5, <1>6
<1>9. \A n \in Passed \cup {Node} : L(n) <= maxCount'
  BY <1>2, <1>3, <1>4, <1>5, <1>6
<1> QED
  BY <1>1, <1>2, <1>7, <1>8, <1>9

LEMMA CountInvCount ==
    ASSUME IInv, CountInv, CountService
    PROVE  CountInv'
<1>1. PICK answer \in Answers(Svc) :
        /\ disturbed' = (disturbed \/ answer # place[Svc])
        /\ \/ NextService(Counted(answer)) \/ NextNode(Counted(answer))
           \/ StartPick(Counted(answer)) \/ GoToSleep
  BY CountKinds
<1>2. pc = "count" /\ place' = place
  BY CountKinds
<1> SUFFICES ASSUME ~disturbed' PROVE CountInv'
  BY DEF CountInv
<1>3. ~disturbed /\ answer = place[Svc]
  BY <1>1
<1> DEFINE c == Counted(place[Svc])
<1>4. c = Cardinality(FirstOn(Node, svc))
  BY <1>2, <1>3, CountRight
<1>5. svc \in Nat /\ node \in Nat
  BY Positions DEF IInv
<1>6. CASE NextService(c)
  <2>1. /\ pc' = "count" /\ node' = node /\ svc' - 1 = svc /\ count' = c
        /\ UNCHANGED <<idleNode, busyNode, maxCount>>
    BY <1>2, <1>5, <1>6 DEF NextService
  <2>2. Node' = Node /\ Passed' = Passed
    BY <2>1 DEF Node, Passed
  <2>3. FirstOn(Node, svc - 1)' = FirstOn(Node, svc)
    BY <1>2, <2>1, <2>2 DEF FirstOn
  <2>4. Load(idleNode)' = Load(idleNode) /\ Load(busyNode)' = Load(busyNode)
    BY <1>2, <2>1 DEF Load
  <2>5. \A n : Load(n)' = Load(n)
    BY <1>2 DEF Load
  <2> HIDE DEF c
  <2>6. count' = Cardinality(FirstOn(Node, svc - 1))'
    BY <1>4, <2>1, <2>3
  <2> QED
    BY <1>2, <1>3, <2>1, <2>2, <2>4, <2>5, <2>6 DEF CountInv
<1>7. ASSUME NodeCounted(c)
      PROVE  /\ (idleNode # Nowhere => Load(idleNode) = 0)'
             /\ (maxCount > 0 => Load(busyNode) = maxCount)'
             /\ \A n \in Passed \cup {Node} : Load(n)' <= maxCount'
  <2>1. \A n : Load(n)' = Load(n)
    BY <1>2 DEF Load
  <2> QED
    BY <1>2, <1>3, <1>7, <2>1, NodeCountedRight
<1>8. CASE NextNode(c)
  <2>1. /\ NodeCounted(c) /\ node' = node + 1 /\ pc' = "count"
        /\ svc' = 1 /\ count' = 0
    BY <1>2, <1>8 DEF NextNode, NodeCounted
  <2>2. Passed' = Passed \cup {Node}
    BY <2>1, PassedGrows DEF IInv
  <2>3. Cardinality(FirstOn(Node, svc - 1))' = 0
    <3>1. FirstOn(Node, svc - 1)' = {}
      BY <2>1 DEF FirstOn
    <3> QED
      BY <3>1, FS_EmptySet
  <2> HIDE DEF c
  <2> QED
    BY <1>7, <2>1, <2>2, <2>3 DEF CountInv
<1>9. CASE StartPick(c)
  <2>1. /\ NodeCounted(c) /\ node = Len(NodeList) /\ pc' = "pick"
        /\ idleNode' # Nowhere /\ ~(maxCount' <= 1)
    BY <1>9 DEF StartPick
  <2>2. SwarmNodes = Passed \cup {Node}
    BY <2>1, PassedAll DEF IInv
  <2>3. maxCount' \in 0..Len(ServiceList) /\ Len(ServiceList) \in Nat
    BY <1>2, <1>3, <2>1, NodeCountedType, Positions, CountKinds DEF IInv
  <2>4. maxCount' > 0
    BY <2>1, <2>3
  <2> HIDE DEF c
  <2> QED
    BY <1>7, <2>1, <2>2, <2>4 DEF CountInv
<1>10. CASE GoToSleep
  BY <1>10 DEF CountInv, GoToSleep
<1> QED
  BY <1>1, <1>3, <1>6, <1>8, <1>9, <1>10

(* A poll begins with nothing counted.                                     *)
LEMMA CountInvStart ==
    ASSUME ResetPoll
    PROVE  /\ count' = Cardinality(FirstOn(Node, svc - 1))'
           /\ Passed' = {} /\ idleNode' = Nowhere /\ maxCount' = 0
<1>1. FirstOn(Node, svc - 1)' = {}
  BY DEF ResetPoll, FirstOn
<1>2. DOMAIN NodeList = 1..Len(NodeList) /\ Len(NodeList) \in Nat
  BY RebalancerAssumption
<1>3. Passed' = {}
  BY <1>2 DEF ResetPoll, Passed
<1> QED
  BY <1>1, <1>3, FS_EmptySet DEF ResetPoll

LEMMA CountInvStep == IInv /\ CountInv /\ [Next]_vars => CountInv'
<1> SUFFICES ASSUME IInv, CountInv, [Next]_vars PROVE CountInv'
  OBVIOUS
<1>1. CASE disturbed'
  BY <1>1 DEF CountInv
<1>2. CASE StartPoll
  <2>1. CASE pc' = "count" /\ ResetPoll
    BY <2>1, CountInvStart DEF CountInv
  <2>2. CASE GoToSleep
    BY <2>2 DEF CountInv, GoToSleep
  <2> QED
    BY <1>2, <2>1, <2>2 DEF StartPoll
<1>3. CASE CountService
  BY <1>3, CountInvCount
<1>4. CASE PickService
  <2>1. pc = "pick" /\ place' = place
    BY <1>4 DEF PickService, swarmVars
  <2>2. PICK answer \in Answers(Svc) :
          /\ disturbed' = (disturbed \/ answer # place[Svc])
          /\ \/ answer = busyNode /\ pc' = "force" /\ UNCHANGED <<svc, pollVars>>
             \/ pc' = pc /\ UNCHANGED pollVars
             \/ GoToSleep
    BY <1>4 DEF PickService
  <2>3. CASE GoToSleep
    BY <2>3 DEF CountInv, GoToSleep
  <2>4. CASE UNCHANGED pollVars /\ ~disturbed'
    <3>1. ~disturbed /\ answer = place[Svc]
      BY <2>2, <2>4
    <3>2. UNCHANGED <<idleNode, busyNode, maxCount>>
      BY <2>4 DEF pollVars
    <3>3. Load(idleNode)' = Load(idleNode) /\ Load(busyNode)' = Load(busyNode)
      BY <2>1, <3>2 DEF Load
    <3>4. \A n : Load(n)' = Load(n)
      BY <2>1 DEF Load
    <3>5. CASE pc' = "pick"
      BY <2>1, <3>1, <3>2, <3>3, <3>4, <3>5 DEF CountInv
    <3>6. CASE answer = busyNode /\ pc' = "force" /\ svc' = svc
      <4>1. place'[Svc'] = busyNode'
        BY <2>1, <3>1, <3>2, <3>6 DEF Svc
      <4> QED
        BY <2>1, <3>1, <3>2, <3>3, <3>4, <3>6, <4>1 DEF CountInv
    <3> QED
      BY <2>1, <2>2, <2>3, <3>5, <3>6
  <2> QED
    BY <1>1, <2>2, <2>3, <2>4
<1>5. CASE ForceService
  BY <1>5 DEF CountInv, ForceService
<1>6. CASE StampService
  BY <1>6 DEF CountInv, StampService, GoToSleep
<1>7. ASSUME UNCHANGED <<place, scriptVars, disturbed>>
      PROVE  CountInv'
  <2>1. UNCHANGED <<pc, node, svc, count, idleNode, busyNode, maxCount, place, disturbed>>
    BY <1>7 DEF scriptVars
  <2>2. Node' = Node /\ Svc' = Svc /\ Passed' = Passed
    BY <2>1 DEF Node, Svc, Passed
  <2>3. /\ FirstOn(Node, svc - 1)' = FirstOn(Node, svc - 1)
        /\ Load(idleNode)' = Load(idleNode) /\ Load(busyNode)' = Load(busyNode)
    BY <2>1, <2>2 DEF FirstOn, Load
  <2>4. \A n : Load(n)' = Load(n)
    BY <2>1 DEF Load
  <2>5. Cardinality(FirstOn(Node, svc - 1))' = Cardinality(FirstOn(Node, svc - 1))
    BY <2>3
  <2> QED
    BY <2>1, <2>2, <2>3, <2>4, <2>5 DEF CountInv
<1>8. CASE Tick
  BY <1>7, <1>8 DEF Tick, swarmVars
<1>9. CASE UNCHANGED vars
  BY <1>7, <1>9 DEF vars, swarmVars
<1>10. Restart => disturbed'
  BY DEF Restart
<1>11. \A n \in SwarmNodes : NodeFails(n) \/ NodeReturns(n) => disturbed'
  BY DEF NodeFails, NodeReturns
<1>12. \A s \in Services : Reschedule(s) => disturbed'
  BY DEF Reschedule
<1> QED
  BY <1>1, <1>2, <1>3, <1>4, <1>5, <1>6, <1>8, <1>9, <1>10, <1>11, <1>12 DEF Next, Script

\* In a poll in which no command failed, no node went or came and Swarm moved no
\* task, a service is forced only while some node has none and another more than
\* one, and it is taken from a node that has the most: counting the services of
\* one node after the other, with one command each, comes to the same as counting
\* all at once, for any number of nodes and services.
THEOREM RebalancerMoveJustified == Spec => MoveJustified
<1>1. Init => IInv /\ CountInv
  BY IInvInit DEF Init, CountInv
<1>2. IInv /\ CountInv /\ [Next]_vars => IInv' /\ CountInv'
  BY IInvStep, CountInvStep
<1> DEFINE Justified == /\ Imbalanced
                        /\ \A n \in SwarmNodes : Load(n) <= Load(place[Svc])
<1>3. IInv /\ CountInv /\ [Next]_vars
         => [pc = "force" /\ pc' = "stamp" /\ ~disturbed => Justified]_vars
  <2> SUFFICES ASSUME IInv, CountInv, pc = "force", ~disturbed PROVE Justified
    OBVIOUS
  <2>1. /\ Load(idleNode) = 0 /\ Load(busyNode) = maxCount /\ place[Svc] = busyNode
        /\ \A n \in SwarmNodes : Load(n) <= maxCount
    BY DEF CountInv
  <2>2. maxCount > 1 /\ idleNode \in SwarmNodes /\ busyNode \in SwarmNodes
    BY DEF IInv, TypeOK
  <2> QED
    BY <2>1, <2>2 DEF Imbalanced
<1> QED
  BY <1>1, <1>2, <1>3, PTL DEF Spec, MoveJustified
=============================================================================
