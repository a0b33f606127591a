----------------------------- MODULE Rebalancer -----------------------------
(***************************************************************************)
(* rebalancer/rebalancer.sh: the loop that looks for an idle node and an   *)
(* overloaded one, and forces Swarm to place one service again.            *)
(*                                                                         *)
(* Each docker command is one action: the script asks for the node of one  *)
(* service after the other while Swarm places tasks and nodes come and go, *)
(* and any command may fail (its errors go to /dev/null).                  *)
(*                                                                         *)
(* Times are ages that stop at the largest one the script compares with,   *)
(* so the model runs for ever without a bound.  Swarm itself is external:  *)
(* a task is placed on one of the least loaded nodes that are up and meet  *)
(* the constraints of its service; no task moves back when a node returns. *)
(***************************************************************************)
EXTENDS Naturals, FiniteSets, Sequences

CONSTANTS
    NodeList,    \* what docker node ls prints, in its order
    ServiceList, \* get_replicated_stack_services, in its order
    Eligible,    \* service -> the nodes its placement constraints allow
    Poll,        \* POLL_SECONDS, in ticks
    MoveCooldown,    \* COOLDOWN_SECONDS, in ticks
    FailingNodes, \* the nodes that may go down
    Failures     \* TRUE: docker commands may fail and the script be restarted

SwarmNodes == {NodeList[i] : i \in DOMAIN NodeList}
Services == {ServiceList[i] : i \in DOMAIN ServiceList}
Nowhere == "nowhere"    \* the empty string of a service without a node

ASSUME RebalancerAssumption ==
    /\ NodeList \in Seq(STRING) /\ NodeList # <<>>
    /\ ServiceList \in Seq(STRING) /\ ServiceList # <<>>
    /\ \A i, j \in DOMAIN NodeList : NodeList[i] = NodeList[j] => i = j
    /\ \A i, j \in DOMAIN ServiceList : ServiceList[i] = ServiceList[j] => i = j
    /\ Nowhere \notin SwarmNodes
    /\ Eligible \in [Services -> SUBSET SwarmNodes]
    /\ Poll \in Nat \ {0} /\ MoveCooldown \in Nat /\ Poll <= MoveCooldown
    /\ FailingNodes \subseteq SwarmNodes
    /\ Failures \in BOOLEAN

VARIABLES
    up,         \* external: the nodes that are up
    place,      \* external: service -> node of its running task, or Nowhere
    pc,         \* where the script is: "sleep", "count", "pick", "force", "stamp"
    node, svc,  \* the loops' positions in NodeList and ServiceList
    count, idleNode, busyNode, maxCount,    \* do_rebalance's variables
    stamp,      \* age of a service's stamp file; MoveCooldown: old, or no file
    slept,      \* how long the script has slept
    since,      \* time since the script last forced a service (the log)
    disturbed   \* this poll met a failure or a task that Swarm moved (the log)

scriptVars == <<pc, node, svc, count, idleNode, busyNode, maxCount>>
swarmVars == <<up, place>>
pollVars == <<node, count, idleNode, busyNode, maxCount, slept>>
clockVars == <<stamp, slept, since>>
vars == <<swarmVars, scriptVars, clockVars, disturbed>>

Svc == ServiceList[svc]
Node == NodeList[node]

\* A new rebalancer: clear_cooldowns, and the first poll at once.
Init ==
    /\ up = SwarmNodes
    /\ place \in [Services -> SwarmNodes]
    /\ \A s \in Services : place[s] \in Eligible[s]
    /\ pc = "sleep"
    /\ node = 1 /\ svc = 1
    /\ count = 0 /\ maxCount = 0
    /\ idleNode = Nowhere /\ busyNode = Nowhere
    /\ stamp = [s \in Services |-> MoveCooldown]
    /\ slept = Poll
    /\ since = [s \in Services |-> MoveCooldown]
    /\ disturbed = FALSE

-----------------------------------------------------------------------------
(* Swarm.                                                                  *)

Load(n) == Cardinality({s \in Services : place[s] = n})

\* Swarm's spread strategy for one task of s.
Others(s, n) == Cardinality({t \in Services \ {s} : place[t] = n})
BestNodes(s) ==
    LET able == up \cap Eligible[s] IN
    IF able = {} THEN {Nowhere}
    ELSE {n \in able : \A m \in able : Others(s, n) <= Others(s, m)}

NodeFails(n) ==
    /\ n \in up \cap FailingNodes
    /\ up' = up \ {n}
    /\ disturbed' = TRUE
    /\ UNCHANGED <<place, scriptVars, clockVars>>

NodeReturns(n) ==
    /\ n \in SwarmNodes \ up
    /\ up' = up \cup {n}
    /\ disturbed' = TRUE
    /\ UNCHANGED <<place, scriptVars, clockVars>>

\* A task whose node is down, or that is pending, is placed again.
Reschedule(s) ==
    /\ place[s] \notin up
    /\ \E n \in BestNodes(s) : place' = [place EXCEPT ![s] = n]
    /\ place' # place
    /\ disturbed' = TRUE
    /\ UNCHANGED <<up, scriptVars, clockVars>>

-----------------------------------------------------------------------------
(* The script.                                                             *)

\* The variables of do_rebalance when it starts; they mean nothing between polls.
ResetPoll ==
    /\ node' = 1 /\ svc' = 1
    /\ count' = 0 /\ maxCount' = 0
    /\ idleNode' = Nowhere /\ busyNode' = Nowhere

\* sleep POLL_SECONDS
GoToSleep == pc' = "sleep" /\ slept' = 0 /\ ResetPoll

\* do_rebalance starts and reads the lists; a command that fails gives an empty
\* list and ends the poll.
StartPoll ==
    /\ pc = "sleep" /\ slept = Poll
    /\ \/ /\ pc' = "count"
          /\ ResetPoll
          /\ disturbed' = FALSE
          /\ UNCHANGED slept
       \/ /\ Failures
          /\ GoToSleep
          /\ disturbed' = TRUE
    /\ UNCHANGED <<swarmVars, stamp, since>>

\* get_service_node: the node, or an empty answer when the command fails.
Answers(s) == {place[s]} \cup (IF Failures THEN {Nowhere} ELSE {})

Counted(answer) == IF answer = Node THEN count + 1 ELSE count

\* The node is the busiest so far.
NewBusy(c) == c > maxCount

\* Mutant of CountForNext: the count goes on from node to node.
CountCarried(c) == c

\* count starts at 0 for each node.
CountForNext(c) == 0

\* Mutants of InBalance: one service on a node is too many already, and two are
\* not too many.
OnlyIdle(idle, most) == idle = Nowhere

UpToTwo(idle, most) == idle = Nowhere \/ most <= 2

\* No node is idle, or none has more than one service.
InBalance(idle, most) == idle = Nowhere \/ most <= 1

\* count_services_on_node for one service, and what do_rebalance does after the
\* last one.
CountService ==
    /\ pc = "count"
    /\ \E answer \in Answers(Svc) :
          LET c == Counted(answer)
              idle == IF c = 0 THEN Node ELSE idleNode
              most == IF NewBusy(c) THEN c ELSE maxCount
              nodeDone == svc = Len(ServiceList)
              allDone == nodeDone /\ node = Len(NodeList)
          IN  /\ disturbed' = (disturbed \/ answer # place[Svc])
              /\ \/ /\ ~nodeDone
                    /\ svc' = svc + 1 /\ count' = c
                    /\ UNCHANGED <<pc, node, idleNode, busyNode, maxCount, slept>>
                 \/ /\ nodeDone /\ (allDone => ~InBalance(idle, most))
                    /\ svc' = 1 /\ count' = CountForNext(c)
                    /\ idleNode' = idle /\ maxCount' = most
                    /\ busyNode' = IF NewBusy(c) THEN Node ELSE busyNode
                    /\ IF allDone THEN pc' = "pick" /\ UNCHANGED node
                                  ELSE node' = node + 1 /\ UNCHANGED pc
                    /\ UNCHANGED slept
                 \/ /\ allDone /\ InBalance(idle, most)
                    /\ GoToSleep
    /\ UNCHANGED <<swarmVars, stamp, since>>

\* Mutant of InCooldown: a service is free a tick too early.
InCooldownShort(s) == stamp[s] < MoveCooldown - 1

InCooldown(s) == stamp[s] < MoveCooldown

\* The loop over the services: the first one on the busy node that is not in
\* its cooldown is forced; the poll ends when there is none.
PickService ==
    /\ pc = "pick"
    /\ \E answer \in Answers(Svc) :
          /\ disturbed' = (disturbed \/ answer # place[Svc])
          /\ IF answer = busyNode /\ ~InCooldown(Svc)
             THEN pc' = "force" /\ UNCHANGED <<svc, pollVars>>
             ELSE IF svc < Len(ServiceList)
             THEN svc' = svc + 1 /\ UNCHANGED <<pc, pollVars>>
             ELSE GoToSleep
    /\ UNCHANGED <<swarmVars, stamp, since>>

\* docker service update --force: Swarm replaces the task.  Its failure is not
\* noticed.
ForceService ==
    /\ pc = "force"
    /\ pc' = "stamp"
    /\ since' = [since EXCEPT ![Svc] = 0]
    /\ \/ /\ \E n \in BestNodes(Svc) : place' = [place EXCEPT ![Svc] = n]
          /\ UNCHANGED disturbed
       \/ /\ Failures /\ disturbed' = TRUE
          /\ UNCHANGED place
    /\ UNCHANGED <<up, svc, pollVars, stamp>>

\* set_cooldown, and the end of the poll.
StampService ==
    /\ pc = "stamp"
    /\ stamp' = [stamp EXCEPT ![Svc] = 0]
    /\ GoToSleep
    /\ UNCHANGED <<swarmVars, since, disturbed>>

\* The container is restarted (restart_policy any): clear_cooldowns.
Restart ==
    /\ Failures
    /\ pc' = "sleep" /\ slept' = Poll
    /\ ResetPoll
    /\ stamp' = [s \in Services |-> MoveCooldown]
    /\ since' = [s \in Services |-> MoveCooldown]
    /\ disturbed' = TRUE
    /\ UNCHANGED swarmVars

Older(age, limit) == IF age < limit THEN age + 1 ELSE age

Tick ==
    /\ stamp' = [s \in Services |-> Older(stamp[s], MoveCooldown)]
    /\ since' = [s \in Services |-> Older(since[s], MoveCooldown)]
    /\ slept' = IF pc = "sleep" THEN Older(slept, Poll) ELSE slept
    /\ UNCHANGED <<swarmVars, scriptVars, disturbed>>

Script == StartPoll \/ CountService \/ PickService \/ ForceService \/ StampService

Next ==
    \/ Script \/ Restart \/ Tick
    \/ \E n \in SwarmNodes : NodeFails(n) \/ NodeReturns(n)
    \/ \E s \in Services : Reschedule(s)

\* The script runs, time passes, and Swarm places the tasks it can place.
Spec ==
    /\ Init /\ [][Next]_vars
    /\ WF_vars(Script) /\ WF_vars(Tick)
    /\ \A s \in Services : WF_vars(Reschedule(s))

-----------------------------------------------------------------------------
(* Properties.                                                             *)

\* Type correctness; while the script picks or forces, it has found a busy node
\* with more than one service, and an idle one that is another.
TypeOK ==
    /\ up \subseteq SwarmNodes
    /\ place \in [Services -> SwarmNodes \cup {Nowhere}]
    /\ pc \in {"sleep", "count", "pick", "force", "stamp"}
    /\ node \in DOMAIN NodeList /\ svc \in DOMAIN ServiceList
    /\ count \in 0..Len(ServiceList) /\ maxCount \in 0..Len(ServiceList)
    /\ idleNode \in SwarmNodes \cup {Nowhere}
    /\ busyNode \in SwarmNodes \cup {Nowhere}
    /\ pc \in {"pick", "force", "stamp"} =>
          /\ maxCount > 1 /\ {idleNode, busyNode} \subseteq SwarmNodes
          /\ idleNode # busyNode
    /\ stamp \in [Services -> 0..MoveCooldown]
    /\ since \in [Services -> 0..MoveCooldown]
    /\ slept \in 0..Poll
    /\ disturbed \in BOOLEAN

\* README.md:61, "moves one service at a time (with a 60 s per-service
\* cooldown)": no service is forced again within its cooldown, and no two
\* services within a poll period, unless the rebalancer itself was restarted.
MovesSpaced ==
    [][pc = "force" /\ pc' = "stamp" =>
          /\ since[Svc] >= MoveCooldown
          /\ \A s \in Services : since[s] >= Poll]_vars

Imbalanced == (\E n \in SwarmNodes : Load(n) = 0) /\ \E n \in SwarmNodes : Load(n) > 1

\* README.md:61: a service is moved only if "any node has zero replicated
\* services while another has more than one", and from a node that has the
\* most; counting one by one is right in a poll that nothing disturbed.
MoveJustified ==
    [][pc = "force" /\ pc' = "stamp" /\ ~disturbed =>
          /\ Imbalanced
          /\ \A n \in SwarmNodes : Load(n) <= Load(place[Svc])]_vars

\* README.md:61, "to restore balance": when all nodes are up and nothing
\* disturbs the polls any more, the stack is balanced in the end.
BalanceRestored == <>[](~disturbed /\ up = SwarmNodes) => <>[]~Imbalanced
=============================================================================
