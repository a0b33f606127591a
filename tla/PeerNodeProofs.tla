---------------------------- MODULE PeerNodeProofs ---------------------------
(***************************************************************************)
(* Proofs about PeerNode, for any peers, programs and addresses: type      *)
(* correctness, the answers of node.py and the pinned addresses.           *)
(***************************************************************************)
EXTENDS PeerNode, FiniteSetTheorems, TLAPS

\* The steps of the process by what they do, with the programs that do them.
LEMMA Steps ==
    ASSUME [Next]_vars
    PROVE  \/ DiscoveryLoop
           \/ BeginScan \/ EndScan
           \/ \E p \in Peers : Visit(p)
           \/ program \notin {"node", "node_pubsub"} /\ Forget
           \/ Ignore \/ Die \/ GiveUp
           \/ EndThread("top", "closed")
           \/ EndThread("top", "dead")
           \/ EndThread("listening", "closed")
           \/ StatusDone \/ SendToApi \/ PostReturns
           \/ \E p \in Peers : SendStatus(p) \/ Answer(p) \/ AnswerTimeout(p) \/ SkipPeer(p)
           \/ program = "detection_weapon" /\ (FoundPeer \/ UseLocalhost)
           \/ \E p \in Peers : OtherPeer(p)
           \/ Stop \/ Exit
           \/ \E p \in Peers : Arrive(p) \/ Move(p)
           \/ UNCHANGED vars
<1>1. CASE Node \/ NodePubSub \/ Server
  BY <1>1 DEF Node, NodePubSub, Server, Scan, StatusLoop
<1>2. CASE SubImg \/ SubImgJpeg \/ DetectionZeroMQ \/ RequestsSubscriber \/ ApiSubscriber
  <2>1. program \notin {"node", "node_pubsub"} /\ (DiscoveryLoop \/ SubscriberLoop \/ SendToApi)
    BY <1>2 DEF SubImg, SubImgJpeg, DetectionZeroMQ, RequestsSubscriber, ApiSubscriber
  <2> QED  BY <2>1 DEF SubscriberLoop, Scan, CloseSocket
<1>3. CASE DetectionWeapon
  BY <1>3 DEF DetectionWeapon, WeaponLoop, DiscoverPeerBySuffix
<1>4. CASE PubImg \/ MotionFfmpeg \/ SystemMonitor \/ Recorder
  BY <1>4 DEF PubImg, MotionFfmpeg, SystemMonitor, Recorder
<1>5. CASE Stop \/ Exit \/ PostReturns \/ Ended \/ UNCHANGED vars
           \/ \E p \in Peers : Arrive(p) \/ Move(p)
  BY <1>5 DEF Ended
<1> QED  BY <1>1, <1>2, <1>3, <1>4, <1>5 DEF Next, Process

-----------------------------------------------------------------------------
(* Type correctness.                                                       *)

Places == {"top", "scan", "posting", "status", "listening", "closed", "dead"}
RequestStates == {"none", "ready", "waiting", "stuck"}

\* TypeOK in the parts a group of steps changes, and what an iteration visits.
DiscoveryTypes ==
    /\ program \in Programs
    /\ address \in [Peers -> Addresses]
    /\ inbox \subseteq Datagrams
    /\ peersInfo \in [Peers -> Addresses \cup {Unknown}]
    /\ discovery \in {"send", "receive", "ended"}

Buffered == IsFiniteSet(inbox) /\ Cardinality(inbox) <= Backlog

ThreadTypes ==
    /\ thread \in Places
    /\ size \in Nat
    /\ left \subseteq Peers
    /\ connected \subseteq Endpoints
    /\ connections \subseteq Endpoints
    /\ thread = "scan" => left \subseteq Known

RequestTypes ==
    /\ request \in [Peers -> RequestStates]
    /\ sent \in [Peers -> 0..MaxRequests]
    /\ underway \subseteq Requests
    /\ accepted \subseteq (1..MaxRequests) \X (1..MaxRequests)

Bits == {broken, stop, exited} \subseteq BOOLEAN

Types == DiscoveryTypes /\ Buffered /\ ThreadTypes /\ RequestTypes /\ Bits

LEMMA TypesImply == Types => TypeOK
BY DEF Types, DiscoveryTypes, Buffered, ThreadTypes, RequestTypes, Bits, TypeOK,
       Places, RequestStates

LEMMA PeerInitTypes == Init => Types
<1> SUFFICES ASSUME Init PROVE Types
  OBVIOUS
<1>1. DiscoveryTypes
  BY PeerAssumption DEF Init, DiscoveryTypes, Addresses, Datagrams
<1>2. Buffered
  BY PeerAssumption, FS_EmptySet DEF Init, Buffered
<1>3. ThreadTypes
  BY DEF Init, ThreadTypes, Places
<1>4. RequestTypes
  BY PeerAssumption DEF Init, RequestTypes, RequestStates
<1>5. Bits
  <2>1. broken = FALSE /\ stop = FALSE /\ exited = FALSE
    BY DEF Init
  <2> QED  BY <2>1, Zenon DEF Bits
<1> QED  BY <1>1, <1>2, <1>3, <1>4, <1>5 DEF Types

LEMMA StepDiscoveryTypes == Types /\ [Next]_vars => DiscoveryTypes'
<1> SUFFICES ASSUME DiscoveryTypes, [Next]_vars PROVE DiscoveryTypes'
  BY DEF Types
<1> USE DEF DiscoveryTypes
<1>1. CASE Broadcast
  BY <1>1, PeerAssumption DEF Broadcast, Datagrams, Addresses
<1>2. CASE Receive
  <2>1. PICK d \in inbox : inbox' = inbox \ {d} /\ peersInfo' = Learn(d)
    BY <1>2 DEF Receive
  <2>2. peersInfo' \in [Peers -> Addresses \cup {Unknown}]
    BY <2>1 DEF Learn, Datagrams
  <2> QED  BY <1>2, <2>1, <2>2 DEF Receive
<1>3. CASE ReceiveTimeout \/ DiscoveryEnds
  BY <1>3 DEF ReceiveTimeout, DiscoveryEnds
<1>4. ASSUME NEW p \in Peers, Arrive(p) PROVE DiscoveryTypes'
  BY <1>4, PeerAssumption DEF Arrive, Datagrams, Addresses
<1>5. ASSUME NEW p \in Peers, Move(p) PROVE DiscoveryTypes'
  BY <1>5, PeerAssumption DEF Move, Addresses, discoveryVars
<1>6. ASSUME UNCHANGED <<program, address, discoveryVars>> PROVE DiscoveryTypes'
  BY <1>6 DEF discoveryVars
<1>7. ASSUME NEW p \in Peers,
             Visit(p) \/ OtherPeer(p) \/ SendStatus(p) \/ Answer(p) \/ AnswerTimeout(p) \/ SkipPeer(p)
      PROVE  DiscoveryTypes'
  BY <1>6, <1>7 DEF Visit, OtherPeer, SendStatus, Answer, AnswerTimeout, SkipPeer
<1>8. CASE BeginScan \/ EndScan \/ StatusDone \/ SendToApi \/ PostReturns \/ Stop \/ Exit
           \/ UNCHANGED vars
  BY <1>6, <1>8 DEF BeginScan, EndScan, StatusDone, SendToApi, PostReturns, Stop, Exit, vars
<1>9. CASE \/ Forget \/ Ignore \/ Die \/ GiveUp
           \/ EndThread("top", "closed") \/ EndThread("top", "dead")
           \/ EndThread("listening", "closed") \/ FoundPeer \/ UseLocalhost
  BY <1>6, <1>9 DEF Forget, Ignore, Die, GiveUp, Break, EndThread, FoundPeer, UseLocalhost, Connect
<1> QED  BY <1>1, <1>2, <1>3, <1>4, <1>5, <1>7, <1>8, <1>9, Steps DEF DiscoveryLoop

LEMMA StepBuffered == Types /\ [Next]_vars => Buffered'
<1> SUFFICES ASSUME Buffered, [Next]_vars PROVE Buffered'
  BY DEF Types
<1> USE DEF Buffered
<1>1. ASSUME NEW d, Cardinality(inbox) < Backlog PROVE
         IsFiniteSet(inbox \cup {d}) /\ Cardinality(inbox \cup {d}) <= Backlog
  <2>1. Cardinality(inbox) \in Nat /\ Backlog \in Nat
    BY FS_CardinalityType, PeerAssumption
  <2>2. /\ IsFiniteSet(inbox \cup {d})
        /\ \/ Cardinality(inbox \cup {d}) = Cardinality(inbox)
           \/ Cardinality(inbox \cup {d}) = Cardinality(inbox) + 1
    BY FS_AddElement
  <2> QED  BY <1>1, <2>1, <2>2
<1>2. CASE Broadcast
  BY <1>1, <1>2 DEF Broadcast
<1>3. CASE Receive
  <2>1. PICK d \in inbox : inbox' = inbox \ {d}
    BY <1>3 DEF Receive
  <2>2. IsFiniteSet(inbox') /\ Cardinality(inbox') <= Cardinality(inbox)
    BY <2>1, FS_Subset
  <2> QED  BY <2>2, FS_CardinalityType, PeerAssumption
<1>4. ASSUME NEW p \in Peers, Arrive(p) PROVE Buffered'
  BY <1>1, <1>4 DEF Arrive
<1>5. ASSUME UNCHANGED inbox PROVE Buffered'
  BY <1>5
<1>6. ASSUME NEW p \in Peers,
             \/ Visit(p) \/ OtherPeer(p) \/ SendStatus(p) \/ Answer(p) \/ AnswerTimeout(p)
             \/ SkipPeer(p) \/ Move(p)
      PROVE  Buffered'
  BY <1>5, <1>6 DEF Visit, OtherPeer, SendStatus, Answer, AnswerTimeout, SkipPeer, Move, discoveryVars
<1>7. CASE ReceiveTimeout \/ DiscoveryEnds \/ BeginScan \/ EndScan \/ StatusDone
           \/ SendToApi \/ PostReturns \/ Stop \/ Exit
           \/ UNCHANGED vars
  BY <1>5, <1>7 DEF ReceiveTimeout, DiscoveryEnds, BeginScan, EndScan, StatusDone,
                    SendToApi, PostReturns, Stop, Exit,
                    vars, discoveryVars
<1>8. CASE \/ Forget \/ Ignore \/ Die \/ GiveUp
           \/ EndThread("top", "closed") \/ EndThread("top", "dead")
           \/ EndThread("listening", "closed") \/ FoundPeer \/ UseLocalhost
  BY <1>5, <1>8 DEF Forget, Ignore, Die, GiveUp, Break, EndThread, FoundPeer, UseLocalhost,
                    Connect, discoveryVars
<1> QED  BY <1>2, <1>3, <1>4, <1>6, <1>7, <1>8, Steps DEF DiscoveryLoop

LEMMA StepThreadTypes == Types /\ [Next]_vars => ThreadTypes'
<1> SUFFICES ASSUME DiscoveryTypes, ThreadTypes, [Next]_vars PROVE ThreadTypes'
  BY DEF Types
<1>1. Known \subseteq Peers /\ Cardinality(Known) \in Nat
  <2>1. Known \subseteq Peers
    BY DEF Known
  <2> QED  BY <2>1, FS_Subset, FS_CardinalityType, PeerAssumption
<1>2. \A p \in Known : <<p, peersInfo[p]>> \in Endpoints
  BY DEF Known, Endpoints, DiscoveryTypes
<1>3. CASE Receive
  <2>1. PICK d \in inbox : peersInfo' = Learn(d)
    BY <1>3 DEF Receive
  <2>2. d \in Datagrams
    BY DEF DiscoveryTypes
  <2>3. Known \subseteq Known'
    BY <2>1, <2>2, PeerAssumption DEF Known, Learn, DiscoveryTypes, Datagrams, Addresses, Unknown
  <2>4. UNCHANGED threadVars
    BY <1>3 DEF Receive
  <2> QED  BY <2>3, <2>4 DEF ThreadTypes, threadVars
<1>4. ASSUME UNCHANGED <<peersInfo, threadVars>> PROVE ThreadTypes'
  BY <1>4 DEF ThreadTypes, threadVars, Known
<1>5. CASE Broadcast \/ ReceiveTimeout \/ DiscoveryEnds \/ Exit \/ UNCHANGED vars
  BY <1>4, <1>5 DEF Broadcast, ReceiveTimeout, DiscoveryEnds, Exit, vars, discoveryVars
<1>6. ASSUME NEW p \in Peers, Arrive(p) \/ Move(p) PROVE ThreadTypes'
  BY <1>4, <1>6 DEF Arrive, Move, discoveryVars
<1>7. CASE BeginScan
  <2>1. thread' = "scan" /\ size' = Cardinality(Known) /\ left' = Known
        /\ UNCHANGED <<peersInfo, connected, connections>>
    BY <1>7 DEF BeginScan, discoveryVars
  <2>2. Known' = Known
    BY <2>1 DEF Known
  <2> QED  BY <1>1, <2>1, <2>2 DEF ThreadTypes, Places
<1>8. CASE EndScan \/ StatusDone \/ SendToApi \/ PostReturns
  BY <1>8 DEF EndScan, StatusDone, SendToApi, PostReturns, ThreadTypes, Places, discoveryVars
<1>9. ASSUME NEW p \in Peers, Visit(p) PROVE ThreadTypes'
  <2>1. /\ left' = left \ {p} /\ p \in left /\ thread = "scan"
        /\ UNCHANGED <<peersInfo, thread, size>>
    BY <1>9 DEF Visit, discoveryVars
  <2>2. <<p, peersInfo[p]>> \in Endpoints
    BY <1>2, <2>1 DEF ThreadTypes
  <2>3. connected' \subseteq Endpoints /\ connections' \subseteq Endpoints
    BY <1>9, <2>2 DEF Visit, ThreadTypes
  <2> QED  BY <2>1, <2>3 DEF ThreadTypes, Known
<1>10. ASSUME NEW p \in Peers,
              OtherPeer(p) \/ SendStatus(p) \/ Answer(p) \/ AnswerTimeout(p) \/ SkipPeer(p)
       PROVE  ThreadTypes'
  <2>1. /\ left' = left \ {p} \/ left' = left
        /\ UNCHANGED <<peersInfo, thread, size, connected, connections>>
    BY <1>10 DEF OtherPeer, SendStatus, Answer, AnswerTimeout, SkipPeer, discoveryVars, threadVars
  <2> QED  BY <2>1 DEF ThreadTypes, Known
<1>11. CASE Forget \/ Ignore \/ Die \/ GiveUp
  BY <1>11 DEF Forget, Ignore, Die, GiveUp, Break, ThreadTypes, Places
<1>12. CASE EndThread("top", "closed") \/ EndThread("top", "dead") \/ EndThread("listening", "closed")
  BY <1>12 DEF EndThread, ThreadTypes, Places, discoveryVars
<1>13. CASE Stop
  BY <1>13 DEF Stop, ThreadTypes, Places, Known, discoveryVars
<1>14. CASE FoundPeer
  <2>1. PICK p \in left \cap MotionPeers : thread = "scan" /\ Connect({<<p, peersInfo[p]>>})
    BY <1>14 DEF FoundPeer
  <2>2. <<p, peersInfo[p]>> \in Endpoints
    BY <1>2, <2>1 DEF ThreadTypes
  <2> QED  BY <2>1, <2>2 DEF Connect, ThreadTypes, Places
<1>15. CASE UseLocalhost
  BY <1>15 DEF UseLocalhost, Connect, ThreadTypes, Places
<1> QED  BY <1>3, <1>5, <1>6, <1>7, <1>8, <1>9, <1>10, <1>11, <1>12, <1>13, <1>14, <1>15, Steps
            DEF DiscoveryLoop

\* The steps that leave the requests alone.
LEMMA RequestFrame ==
    ASSUME [Next]_vars
    PROVE  \/ UNCHANGED requestVars
           \/ \E p \in Peers : Visit(p) \/ SendStatus(p) \/ Answer(p) \/ AnswerTimeout(p)
<1>1. CASE DiscoveryLoop
  BY <1>1 DEF DiscoveryLoop, Broadcast, Receive, ReceiveTimeout, DiscoveryEnds
<1>2. CASE BeginScan \/ EndScan \/ StatusDone \/ SendToApi \/ PostReturns \/ Stop \/ Exit
           \/ UNCHANGED vars
  BY <1>2 DEF BeginScan, EndScan, StatusDone, SendToApi, PostReturns, Stop, Exit, vars
<1>3. CASE \/ Forget \/ Ignore \/ Die \/ GiveUp
           \/ EndThread("top", "closed") \/ EndThread("top", "dead")
           \/ EndThread("listening", "closed") \/ FoundPeer \/ UseLocalhost
  BY <1>3 DEF Forget, Ignore, Die, GiveUp, Break, EndThread, FoundPeer, UseLocalhost, Connect
<1>4. ASSUME NEW p \in Peers, OtherPeer(p) \/ SkipPeer(p) \/ Arrive(p) \/ Move(p)
      PROVE  UNCHANGED requestVars
  BY <1>4 DEF OtherPeer, SkipPeer, Arrive, Move
<1> QED  BY <1>1, <1>2, <1>3, <1>4, Steps

\* The exchange with each peer: only a socket that waits, or that gave up, has a
\* request underway, and the one it waits for is its last.
Awaited ==
    \A p \in Peers : \A r \in underway :
        r[1] = p => \/ request[p] = "waiting" /\ r[2] = sent[p]
                    \/ request[p] = "stuck"

\* Only node.py has REQ sockets, each connected to its peer.
Reached ==
    \A p \in Peers : request[p] # "none" =>
        program = "node" /\ \E a \in Addresses : <<p, a>> \in connected

Exchange == Awaited /\ Reached /\ AnswersMatch

LEMMA StepRequests ==
    Types /\ Exchange /\ [Next]_vars => RequestTypes' /\ Exchange'
<1> SUFFICES ASSUME DiscoveryTypes, ThreadTypes, RequestTypes, Exchange, [Next]_vars
             PROVE  RequestTypes' /\ Exchange'
  BY DEF Types
<1>0. program' = program
  BY Steps DEF DiscoveryLoop, Broadcast, Receive, ReceiveTimeout, DiscoveryEnds, BeginScan,
     EndScan, Visit, Forget, Ignore, Die, GiveUp, Break, EndThread, StatusDone,
     SendToApi, PostReturns, SendStatus, Answer, AnswerTimeout, SkipPeer, FoundPeer,
     UseLocalhost, OtherPeer, Connect, Stop, Exit, Arrive, Move, vars
<1>1. CASE UNCHANGED requestVars
  <2>1. CASE connected \subseteq connected'
    BY <1>0, <1>1, <2>1 DEF requestVars, RequestTypes, Exchange, Awaited, Reached, AnswersMatch
  <2>2. CASE program # "node"
    BY <1>0, <1>1, <2>2 DEF requestVars, RequestTypes, Exchange, Awaited, Reached, AnswersMatch
  <2>3. connected \subseteq connected' \/ program # "node"
    BY Steps DEF DiscoveryLoop, Broadcast, Receive, ReceiveTimeout, DiscoveryEnds, BeginScan,
       EndScan, Visit, Forget, Ignore, Die, GiveUp, Break, EndThread, StatusDone,
       SendToApi, PostReturns, SendStatus, Answer, AnswerTimeout, SkipPeer, OtherPeer,
     Stop, Exit, Arrive, Move, vars, threadVars
  <2> QED  BY <2>1, <2>2, <2>3
<1>2. ASSUME NEW p \in Peers, Visit(p) PROVE RequestTypes' /\ Exchange'
  <2>1. UNCHANGED <<sent, underway, accepted>> /\ connected \subseteq connected'
    BY <1>2 DEF Visit
  <2>2. CASE request' = request
    BY <1>0, <2>1, <2>2 DEF RequestTypes, Exchange, Awaited, Reached, AnswersMatch
  <2>3. CASE request' # request
    <3>1. /\ program = "node" /\ ~Remembered(p)
          /\ request' = [request EXCEPT ![p] = "ready"]
          /\ <<p, peersInfo[p]>> \in connected'
      BY <1>2, <2>3 DEF Visit
    <3>2. request[p] = "none"
      BY <3>1 DEF Remembered, ByAddress, Exchange, Reached
    <3>3. peersInfo[p] \in Addresses
      BY <1>2 DEF Visit, ThreadTypes, Known, DiscoveryTypes
    <3>4. RequestTypes'
      BY <2>1, <3>1 DEF RequestTypes, RequestStates
    <3>5. Awaited'
      BY <2>1, <3>1, <3>2 DEF RequestTypes, Exchange, Awaited
    <3>6. Reached'
      BY <1>0, <2>1, <3>1, <3>3 DEF RequestTypes, Exchange, Reached
    <3> QED  BY <2>1, <3>4, <3>5, <3>6 DEF Exchange, AnswersMatch
  <2> QED  BY <2>2, <2>3
<1>3. ASSUME NEW p \in Peers, SendStatus(p) PROVE RequestTypes' /\ Exchange'
  <2>1. /\ request[p] = "ready" /\ sent[p] < MaxRequests
        /\ request' = [request EXCEPT ![p] = "waiting"]
        /\ sent' = [sent EXCEPT ![p] = @ + 1]
        /\ underway' = underway \cup {<<p, sent[p] + 1>>}
        /\ UNCHANGED <<accepted, connected>>
    BY <1>3 DEF SendStatus, MaySend, threadVars
  <2>2. sent[p] + 1 \in 1..MaxRequests /\ sent[p] + 1 \in 0..MaxRequests
    BY <2>1, PeerAssumption DEF RequestTypes
  <2>3. RequestTypes'
    BY <2>1, <2>2 DEF RequestTypes, RequestStates, Requests
  <2>4. Awaited'
    <3> SUFFICES ASSUME NEW q \in Peers, NEW r \in underway', r[1] = q
                 PROVE  \/ request'[q] = "waiting" /\ r[2] = sent'[q]
                        \/ request'[q] = "stuck"
      BY DEF Awaited
    <3>1. CASE r \in underway
      BY <2>1, <3>1 DEF RequestTypes, Exchange, Awaited
    <3>2. CASE r = <<p, sent[p] + 1>>
      BY <2>1, <3>2 DEF RequestTypes
    <3> QED  BY <2>1, <3>1, <3>2
  <2>5. Reached'
    BY <1>0, <2>1 DEF RequestTypes, Exchange, Reached
  <2> QED  BY <2>1, <2>3, <2>4, <2>5 DEF Exchange, AnswersMatch
<1>4. ASSUME NEW p \in Peers, Answer(p) PROVE RequestTypes' /\ Exchange'
  <2>1. PICK r \in underway :
            /\ r[1] = p
            /\ underway' = underway \ {r}
            /\ accepted' = accepted \cup {<<r[2], sent[p]>>}
    BY <1>4 DEF Answer
  <2>2. /\ request[p] = "waiting"
        /\ request' = [request EXCEPT ![p] = "ready"]
        /\ UNCHANGED <<sent, connected>>
    BY <1>4 DEF Answer
  <2>3. r[2] = sent[p] /\ r[2] \in 1..MaxRequests /\ r = <<p, sent[p]>>
    BY <2>1, <2>2 DEF Exchange, Awaited, RequestTypes, Requests
  <2>4. \A q \in underway : q[1] = p => q = r
    BY <2>1, <2>2, <2>3 DEF Exchange, Awaited, RequestTypes, Requests
  <2>5. RequestTypes'
    BY <2>1, <2>2, <2>3 DEF RequestTypes, RequestStates
  <2>6. Awaited'
    BY <2>1, <2>2, <2>4 DEF RequestTypes, Exchange, Awaited
  <2>7. Reached'
    BY <1>0, <2>2 DEF RequestTypes, Exchange, Reached
  <2>8. AnswersMatch'
    BY <2>1, <2>3 DEF Exchange, AnswersMatch
  <2> QED  BY <2>5, <2>6, <2>7, <2>8 DEF Exchange
<1>5. ASSUME NEW p \in Peers, AnswerTimeout(p) PROVE RequestTypes' /\ Exchange'
  <2>1. /\ request[p] = "waiting"
        /\ request' = [request EXCEPT ![p] = "stuck"]
        /\ UNCHANGED <<sent, underway, accepted, connected>>
    BY <1>5 DEF AnswerTimeout
  <2> QED  BY <1>0, <2>1 DEF RequestTypes, RequestStates, Exchange, Awaited, Reached, AnswersMatch
<1> QED  BY <1>1, <1>2, <1>3, <1>4, <1>5, RequestFrame

LEMMA StepBits == Types /\ [Next]_vars => Bits'
<1> SUFFICES ASSUME Bits, [Next]_vars PROVE Bits'
  BY DEF Types
<1>1. broken' = broken \/ broken' = TRUE
  BY Steps DEF DiscoveryLoop, Broadcast, Receive, ReceiveTimeout, DiscoveryEnds, BeginScan,
     EndScan, Visit, Forget, Ignore, Die, GiveUp, Break, EndThread, StatusDone,
     SendToApi, PostReturns, SendStatus, Answer, AnswerTimeout, SkipPeer, FoundPeer,
     UseLocalhost, OtherPeer, Connect, Stop, Exit, Arrive, Move, vars, threadVars
<1>2. stop' = stop \/ stop' = TRUE
  BY Steps DEF DiscoveryLoop, Broadcast, Receive, ReceiveTimeout, DiscoveryEnds, BeginScan,
     EndScan, Visit, Forget, Ignore, Die, GiveUp, Break, EndThread, StatusDone,
     SendToApi, PostReturns, SendStatus, Answer, AnswerTimeout, SkipPeer, FoundPeer,
     UseLocalhost, OtherPeer, Connect, Stop, Exit, Arrive, Move, vars, mainVars
<1>3. exited' = exited \/ exited' = TRUE
  BY Steps DEF DiscoveryLoop, Broadcast, Receive, ReceiveTimeout, DiscoveryEnds, BeginScan,
     EndScan, Visit, Forget, Ignore, Die, GiveUp, Break, EndThread, StatusDone,
     SendToApi, PostReturns, SendStatus, Answer, AnswerTimeout, SkipPeer, FoundPeer,
     UseLocalhost, OtherPeer, Connect, Stop, Exit, Arrive, Move, vars, mainVars
<1> QED  BY <1>1, <1>2, <1>3, Zenon DEF Bits

LEMMA InitExchange == Init => Types /\ Exchange
BY PeerInitTypes DEF Init, Exchange, Awaited, Reached, AnswersMatch

LEMMA StepExchange == Types /\ Exchange /\ [Next]_vars => Types' /\ Exchange'
BY StepDiscoveryTypes, StepBuffered, StepThreadTypes, StepRequests, StepBits DEF Types

LEMMA TypesHold == Spec => [](Types /\ Exchange)
BY InitExchange, StepExchange, PTL DEF Spec

-----------------------------------------------------------------------------
(* The theorems.                                                           *)

\* A process of .draft/ is well typed: it is never its own peer, its buffer never
\* overflows, and no socket sends more requests than are modelled.
THEOREM PeerTypeCorrect == Spec => []TypeOK
BY TypesHold, TypesImply, PTL

\* No answer of a peer is taken for the answer to another request.
THEOREM PeerAnswersMatch == Spec => []AnswersMatch
<1>1. Exchange => AnswersMatch
  BY DEF Exchange
<1> QED  BY <1>1, TypesHold, PTL

\* What the thread remembers of a peer is one address, the one its socket is
\* connected to, as long as the program remembers at all.
Pinned ==
    program \notin ByAddress /\ (~broken \/ program = "node_pubsub") =>
        /\ connections = connected
        /\ \A e, f \in connected : e[1] = f[1] => e = f

LEMMA StepPinned == Types /\ Pinned /\ [Next]_vars => Pinned'
<1> SUFFICES ASSUME DiscoveryTypes, ThreadTypes, Pinned, [Next]_vars,
                    program' \notin ByAddress, ~broken' \/ program' = "node_pubsub"
             PROVE  /\ connections' = connected'
                    /\ \A e, f \in connected' : e[1] = f[1] => e = f
  BY DEF Types, Pinned
<1> DEFINE Goal == /\ connections' = connected'
                   /\ \A e, f \in connected' : e[1] = f[1] => e = f
<1>0. program' = program /\ (broken' = broken \/ broken' = TRUE)
  BY Steps DEF DiscoveryLoop, Broadcast, Receive, ReceiveTimeout, DiscoveryEnds, BeginScan,
     EndScan, Visit, Forget, Ignore, Die, GiveUp, Break, EndThread, StatusDone,
     SendToApi, PostReturns, SendStatus, Answer, AnswerTimeout, SkipPeer, FoundPeer,
     UseLocalhost, OtherPeer, Connect, Stop, Exit, Arrive, Move, vars, threadVars
<1>1. /\ connections = connected
      /\ \A e, f \in connected : e[1] = f[1] => e = f
  BY <1>0 DEF Pinned
<1>2. CASE UNCHANGED <<connected, connections>>
  BY <1>1, <1>2
<1>3. ASSUME NEW p \in Peers, Visit(p), connected' # connected PROVE Goal
  <2>1. /\ ~Remembered(p)
        /\ connected' = connected \cup {<<p, peersInfo[p]>>}
        /\ connections' = connections \cup {<<p, peersInfo[p]>>}
    BY <1>3 DEF Visit
  <2>2. \A e \in connected : e[1] # p
    BY <1>0, <2>1 DEF Remembered, ThreadTypes, Endpoints
  <2> QED  BY <1>1, <2>1, <2>2
<1>4. ASSUME NEW p \in Peers, Visit(p), connected' = connected PROVE Goal
  <2>1. CASE Remembered(p) \/ ~Wanted(p)
    BY <1>1, <1>4, <2>1 DEF Visit
  <2>2. CASE ~Remembered(p) /\ Wanted(p)
    BY <1>1, <1>4, <2>2 DEF Visit
  <2> QED  BY <2>1, <2>2
<1>5. CASE FoundPeer \/ UseLocalhost
  BY <1>5 DEF FoundPeer, UseLocalhost, Connect
<1>6. ~(program # "node_pubsub" /\ Forget)
  BY <1>0 DEF Forget, Break
<1>7. \/ UNCHANGED <<connected, connections>>
      \/ \E p \in Peers : Visit(p)
      \/ FoundPeer \/ UseLocalhost
  BY <1>6, Steps DEF DiscoveryLoop, Broadcast, Receive, ReceiveTimeout, DiscoveryEnds, BeginScan,
     EndScan, Ignore, Die, GiveUp, Break, EndThread, StatusDone,
     SendToApi, PostReturns, SendStatus, Answer, AnswerTimeout, SkipPeer, OtherPeer,
     Stop, Exit, Arrive, Move, vars, threadVars
<1> QED  BY <1>2, <1>3, <1>4, <1>5, <1>7

\* A program that remembers ids stays with the first address of each peer.
THEOREM PeerFirstAddressPinned == Spec => []FirstAddressPinned
<1>1. Init => Pinned
  BY DEF Init, Pinned
<1>2. Pinned => FirstAddressPinned
  BY DEF Pinned, FirstAddressPinned
<1> QED  BY <1>1, <1>2, StepPinned, TypesHold, PTL DEF Spec
=============================================================================
