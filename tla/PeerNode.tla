------------------------------- MODULE PeerNode ------------------------------
(***************************************************************************)
(* One process of the ZeroMQ implementation in .draft/: a thread that      *)
(* discovers peers by UDP broadcast and a second thread, or the main       *)
(* thread, that connects a socket to every peer found.  Every program has  *)
(* its own copy of the discovery loop; which program the process runs is   *)
(* chosen in Init.  The two threads share the dictionary peers_info and no *)
(* lock: an insertion during an iteration raises RuntimeError in the       *)
(* iterating thread, and the programs differ in what they do then.         *)
(*                                                                         *)
(* The peers are an open environment: they answer at any time or never,    *)
(* move to another address (a restart on another host), and their          *)
(* datagrams are lost, delayed and reordered.  Of the messages they        *)
(* publish two matter here: the one that cannot be handled, and the one    *)
(* that makes requests/api_subscriber.py post to a web server, without a   *)
(* timeout: the server may never answer.                                   *)
(***************************************************************************)
EXTENDS Integers, FiniteSets

CONSTANTS
    Peers,          \* node ids of the other processes
    Self,           \* the process's own node id
    Programs,       \* the programs the process may run
    MotionPeers,    \* the peers whose node id ends with "-motion"
    MonitorPeers,   \* the peers whose node id contains "system_monitor"
    MovingPeers,    \* bound: the peers that move to another address
    MaxAddress,     \* bound: addresses a peer has in its life
    Backlog,        \* bound: datagrams the UDP socket buffers
    MaxRequests     \* bound: requests sent to one peer

ASSUME PeerAssumption ==
    /\ Self \notin Peers
    /\ IsFiniteSet(Peers)
    /\ MotionPeers \subseteq Peers
    /\ MonitorPeers \subseteq Peers
    /\ MovingPeers \subseteq Peers
    /\ MaxAddress \in Nat \ {0}
    /\ Backlog \in Nat \ {0}
    /\ MaxRequests \in Nat

VARIABLES
    program,        \* the program the process runs
    address,        \* environment: the present address of each peer
    inbox,          \* datagrams in the UDP socket's buffer
    peersInfo,      \* peers_info: the last address heard of, or Unknown
    discovery,      \* where the discovery thread is
    thread,         \* where the connecting thread is
    size, left,     \* its iteration: size of peers_info at the start, peers to visit
    connected,      \* connected_peers, connected_endpoints: what the thread remembers
    connections,    \* the connections its socket has
    broken,         \* a round of the thread has ended with an exception (history)
    stop,           \* stop_event, or the end of the main thread
    exited,         \* context.term() has returned
    request,        \* state of the REQ socket of each peer
    sent,           \* requests sent to each peer
    underway,       \* requests and replies on their way, by peer and number
    accepted        \* replies read, with the number of the last request (log)

discoveryVars == <<inbox, peersInfo, discovery>>
threadVars == <<thread, size, left, connected, connections, broken>>
requestVars == <<request, sent, underway, accepted>>
mainVars == <<stop, exited>>
vars == <<program, address, discoveryVars, threadVars, requestVars, mainVars>>

Unknown == 0
Addresses == 1..MaxAddress
\* A discover or an announce message; the two differ in the answer only, an
\* announce to the peer.
Datagrams == [from : Peers \cup {Self}, at : Addresses]
Endpoints == Peers \X Addresses
\* Programs that discover peers and connect to none of them.
Publishers == {"pub_img", "motion_ffmpeg", "system_monitor", "recorder"}
\* Programs that look up a peer by its address instead of its id.
ByAddress == {"api_subscriber", "server"}

Init ==
    /\ program \in Programs
    /\ address = [p \in Peers |-> 1]
    /\ inbox = {}
    /\ peersInfo = [p \in Peers |-> Unknown]
    /\ discovery \in {"send", "ended"}      \* "ended": the port could not be bound
    /\ thread = IF program \in Publishers THEN "closed" ELSE "top"
    /\ size = 0 /\ left = {}
    /\ connected = {} /\ connections = {}
    /\ broken = FALSE /\ stop = FALSE /\ exited = FALSE
    /\ request = [p \in Peers |-> "none"]
    /\ sent = [p \in Peers |-> 0]
    /\ underway = {} /\ accepted = {}

-----------------------------------------------------------------------------
(* The discovery thread.                                                   *)

\* Broadcast "discover"; the own socket hears it too if its buffer has room.
Broadcast ==
    /\ discovery = "send" /\ ~stop
    /\ discovery' = "receive"
    /\ inbox' = IF Cardinality(inbox) < Backlog
                THEN inbox \cup {[from |-> Self, at |-> 1]}
                ELSE inbox
    /\ UNCHANGED <<program, address, peersInfo, threadVars, requestVars, mainVars>>

\* Mutant of Learn: the process takes itself for a peer.
LearnSelf(d) ==
    [p \in Peers \cup {d.from} |-> IF p = d.from THEN d.at ELSE peersInfo[p]]

\* peers_info[peer_id] = {...}, for every node but the process itself.
Learn(d) ==
    IF d.from \in Peers THEN [peersInfo EXCEPT ![d.from] = d.at] ELSE peersInfo

\* One datagram is read per round, however many wait.
Receive ==
    /\ discovery = "receive"
    /\ \E d \in inbox :
          /\ inbox' = inbox \ {d}
          /\ peersInfo' = Learn(d)
    /\ discovery' = "send"
    /\ UNCHANGED <<program, address, threadVars, requestVars, mainVars>>

\* The second of settimeout passes: the exception is swallowed.
ReceiveTimeout ==
    /\ discovery = "receive" /\ inbox = {}
    /\ discovery' = "send"
    /\ UNCHANGED <<program, address, inbox, peersInfo, threadVars, requestVars, mainVars>>

DiscoveryEnds ==
    /\ discovery = "send" /\ stop
    /\ discovery' = "ended"
    /\ UNCHANGED <<program, address, inbox, peersInfo, threadVars, requestVars, mainVars>>

DiscoveryLoop == Broadcast \/ Receive \/ ReceiveTimeout \/ DiscoveryEnds

-----------------------------------------------------------------------------
(* The thread that connects to the peers.                                  *)

Known == {p \in Peers : peersInfo[p] # Unknown}

\* for peer_id, info in peers_info.items()
BeginScan ==
    /\ thread = "top" /\ ~stop
    /\ thread' = "scan"
    /\ size' = Cardinality(Known)
    /\ left' = Known
    /\ UNCHANGED <<program, address, discoveryVars, connected, connections,
                   broken, requestVars, mainVars>>

\* The iteration raises "dictionary changed size during iteration"; server.py
\* iterates over a copy.
Grown == program # "server" /\ Cardinality(Known) # size

\* Mutants of Remembered: the endpoint and any peer at all are looked up in
\* every program.
RememberedEndpoint(p) == <<p, peersInfo[p]>> \in connected

RememberedAny(p) == connected # {}

\* peer_id in connected_peers; the endpoint or the address in the programs
\* that remember those.
Remembered(p) ==
    IF program \in ByAddress
    THEN <<p, peersInfo[p]>> \in connected
    ELSE \E a \in Addresses : <<p, a>> \in connected

\* server.py passes over every peer that is no system monitor.
Wanted(p) == program = "server" => p \in MonitorPeers

\* One step of the iteration: connect to a wanted peer that is not remembered.
Visit(p) ==
    /\ thread = "scan" /\ p \in left /\ ~Grown
    /\ left' = left \ {p}
    /\ IF Remembered(p) \/ ~Wanted(p)
       THEN UNCHANGED <<connected, connections, request>>
       ELSE /\ connected' = connected \cup {<<p, peersInfo[p]>>}
            /\ connections' = connections \cup {<<p, peersInfo[p]>>}
            /\ request' = IF program = "node" THEN [request EXCEPT ![p] = "ready"] ELSE request
    /\ UNCHANGED <<program, address, discoveryVars, thread, size, broken,
                   sent, underway, accepted, mainVars>>

\* The iteration is over: node.py goes on to send its status, the others poll
\* their socket and start again.
EndScan ==
    /\ thread = "scan" /\ left = {} /\ ~Grown
    /\ IF program = "node"
       THEN thread' = "status" /\ left' = {p \in Peers : request[p] # "none"}
       ELSE thread' = "top" /\ left' = {}
    /\ UNCHANGED <<program, address, discoveryVars, size, connected, connections,
                   broken, requestVars, mainVars>>

Scan == BeginScan \/ EndScan \/ \E p \in Peers : Visit(p)

\* The message that is read after the iteration cannot be handled.
BadMessage == left = {}

\* A round ends with an exception.
Break(after) ==
    /\ thread = "scan"
    /\ thread' = after /\ left' = {} /\ broken' = TRUE
    /\ UNCHANGED <<program, address, discoveryVars, size, connections, requestVars, exited>>

\* except Exception: connected_peers.clear()
Forget == (Grown \/ BadMessage) /\ Break("top") /\ connected' = {} /\ UNCHANGED stop

\* except Exception: pass
Ignore == (Grown \/ BadMessage) /\ Break("top") /\ UNCHANGED <<connected, stop>>

\* An exception outside of any try ends the thread; its socket stays open.
Die == Grown /\ Break("dead") /\ UNCHANGED <<connected, stop>>

\* node.py iterates in its main thread: the program ends.
GiveUp == Grown /\ Break("closed") /\ connected' = connected /\ stop' = TRUE

\* The thread stops, with its socket closed or left open.
EndThread(from, to) ==
    /\ stop /\ thread = from
    /\ thread' = to
    /\ UNCHANGED <<program, address, discoveryVars, size, left, connected,
                   connections, broken, requestVars, mainVars>>

\* Mutant of CloseSocket: stop_event and ContextTerminated are ignored.
CloseNothing == stop /\ thread = "top" /\ UNCHANGED vars

\* while not stop_event.is_set(); except ContextTerminated: break; close()
CloseSocket == EndThread("top", "closed")

SubscriberLoop == Scan \/ Forget \/ CloseSocket

\* send_to_api: an image that follows a flag is posted, between the iteration
\* and the next look at stop_event.
SendToApi ==
    /\ thread = "scan" /\ left = {} /\ ~Grown
    /\ thread' = "posting"
    /\ UNCHANGED <<program, address, discoveryVars, size, left, connected,
                   connections, broken, requestVars, mainVars>>

-----------------------------------------------------------------------------
(* The status messages of node.py: one REQ socket per peer, whose server   *)
(* thread answers each request.                                            *)

Requests == Peers \X (1..MaxRequests)

\* Mutant of MaySend: a socket that timed out may be used again.
MayAlwaysSend(p) == request[p] \in {"ready", "stuck"}

\* A REQ socket sends only after it has read the answer to its last request.
MaySend(p) == request[p] = "ready"

\* sock.send_json, then sock.recv_json waits.
SendStatus(p) ==
    /\ thread = "status" /\ p \in left /\ \A q \in Peers : request[q] # "waiting"
    /\ MaySend(p) /\ sent[p] < MaxRequests
    /\ request' = [request EXCEPT ![p] = "waiting"]
    /\ sent' = [sent EXCEPT ![p] = @ + 1]
    /\ underway' = underway \cup {<<p, sent[p] + 1>>}
    /\ UNCHANGED <<program, address, discoveryVars, threadVars, accepted, mainVars>>

\* server_loop of the peer answered, and the answer is read.
Answer(p) ==
    /\ request[p] = "waiting" /\ ~stop
    /\ \E r \in underway :
          /\ r[1] = p
          /\ underway' = underway \ {r}
          /\ accepted' = accepted \cup {<<r[2], sent[p]>>}
    /\ request' = [request EXCEPT ![p] = "ready"]
    /\ left' = left \ {p}
    /\ UNCHANGED <<program, address, discoveryVars, thread, size, connected,
                   connections, broken, sent, mainVars>>

\* RCVTIMEO passes: the exception is swallowed, the socket still waits.
AnswerTimeout(p) ==
    /\ request[p] = "waiting" /\ ~stop
    /\ request' = [request EXCEPT ![p] = "stuck"]
    /\ left' = left \ {p}
    /\ UNCHANGED <<program, address, discoveryVars, thread, size, connected,
                   connections, broken, sent, underway, accepted, mainVars>>

\* send_json on a socket that waits raises at once: the exception is swallowed.
SkipPeer(p) ==
    /\ thread = "status" /\ p \in left /\ request[p] = "stuck"
    /\ left' = left \ {p}
    /\ UNCHANGED <<program, address, discoveryVars, thread, size, connected,
                   connections, broken, requestVars, mainVars>>

StatusDone ==
    /\ thread = "status" /\ \A p \in left : request[p] = "ready" /\ sent[p] = MaxRequests
    /\ thread' = "top" /\ left' = {}
    /\ UNCHANGED <<program, address, discoveryVars, size, connected, connections,
                   broken, requestVars, mainVars>>

StatusLoop == StatusDone \/ \E p \in Peers :
                  SendStatus(p) \/ Answer(p) \/ AnswerTimeout(p) \/ SkipPeer(p)

-----------------------------------------------------------------------------
(* discover_peer_by_suffix and the programs.                               *)

Connect(es) ==
    /\ thread' = "listening" /\ left' = {}
    /\ connected' = es /\ connections' = es
    /\ UNCHANGED <<program, address, discoveryVars, size, broken, requestVars, mainVars>>

\* The first peer of the iteration that has the suffix is used.
FoundPeer ==
    /\ thread = "scan" /\ ~Grown
    /\ \E p \in left \cap MotionPeers : Connect({<<p, peersInfo[p]>>})

OtherPeer(p) ==
    /\ thread = "scan" /\ p \in left \ MotionPeers /\ ~Grown
    /\ left' = left \ {p}
    /\ UNCHANGED <<program, address, discoveryVars, thread, size, connected,
                   connections, broken, requestVars, mainVars>>

\* No such peer was found in time: localhost, which is no endpoint of a peer.
UseLocalhost == thread = "scan" /\ left = {} /\ ~Grown /\ Connect({})

DiscoverPeerBySuffix ==
    \/ BeginScan \/ EndScan \/ FoundPeer \/ UseLocalhost
    \/ \E p \in Peers : OtherPeer(p)

\* A stopped search returns None, and subscriber_loop returns with its socket open.
WeaponLoop ==
    \/ DiscoverPeerBySuffix \/ Die
    \/ EndThread("top", "dead")
    \/ EndThread("listening", "closed")

\* The processes: what the threads of each program do.
Node == program = "node" /\ (DiscoveryLoop \/ Scan \/ GiveUp \/ StatusLoop)
NodePubSub == program = "node_pubsub" /\ (DiscoveryLoop \/ Scan \/ Ignore)
SubImg == program = "sub_img" /\ (DiscoveryLoop \/ SubscriberLoop)
SubImgJpeg == program = "sub_img_jpeg" /\ (DiscoveryLoop \/ SubscriberLoop)
DetectionZeroMQ == program = "detection_zeromq" /\ (DiscoveryLoop \/ SubscriberLoop)
RequestsSubscriber ==
    program = "requests" /\ (DiscoveryLoop \/ SubscriberLoop \/ SendToApi)
ApiSubscriber == program = "api_subscriber" /\ (DiscoveryLoop \/ SubscriberLoop)
Server == program = "server" /\ (DiscoveryLoop \/ Scan)
DetectionWeapon == program = "detection_weapon" /\ (DiscoveryLoop \/ WeaponLoop)
PubImg == program = "pub_img" /\ DiscoveryLoop
MotionFfmpeg == program = "motion_ffmpeg" /\ DiscoveryLoop
SystemMonitor == program = "system_monitor" /\ DiscoveryLoop
Recorder == program = "recorder" /\ DiscoveryLoop

Process ==
    \/ Node \/ NodePubSub \/ SubImg \/ SubImgJpeg \/ DetectionZeroMQ
    \/ RequestsSubscriber \/ ApiSubscriber \/ Server \/ DetectionWeapon
    \/ PubImg \/ MotionFfmpeg \/ SystemMonitor \/ Recorder

\* The main thread is interrupted; node.py's is the connecting one.  server.py
\* has no way to stop.
Stop ==
    /\ ~stop /\ program # "server"
    /\ stop' = TRUE
    /\ thread' = IF program = "node" THEN "closed" ELSE thread
    /\ UNCHANGED <<program, address, discoveryVars, size, left, connected,
                   connections, broken, requestVars, exited>>

\* context.term() returns when every socket is closed.  The server thread of
\* node.py goes on after ContextTerminated and never closes its own.
Exit ==
    /\ stop /\ ~exited /\ thread = "closed" /\ program # "node"
    /\ exited' = TRUE
    /\ UNCHANGED <<program, address, discoveryVars, threadVars, requestVars, stop>>

-----------------------------------------------------------------------------
(* The peers.                                                              *)

\* A datagram of a peer arrives, with an address it has or had.
Arrive(p) ==
    /\ discovery # "ended" /\ Cardinality(inbox) < Backlog
    /\ \E a \in 1..address[p] : inbox' = inbox \cup {[from |-> p, at |-> a]}
    /\ UNCHANGED <<program, address, peersInfo, discovery, threadVars,
                   requestVars, mainVars>>

\* A peer starts again with the same id on another address.
Move(p) ==
    /\ p \in MovingPeers /\ address[p] < MaxAddress
    /\ address' = [address EXCEPT ![p] = @ + 1]
    /\ UNCHANGED <<program, discoveryVars, threadVars, requestVars, mainVars>>

\* The web server answers, or its connection breaks: what requests.post raises
\* is logged and the round is over.  Nothing says that it ever does.
PostReturns ==
    /\ thread = "posting"
    /\ thread' = "top"
    /\ UNCHANGED <<program, address, discoveryVars, size, left, connected,
                   connections, broken, requestVars, mainVars>>

\* Nothing is left to do, or what is left waits for ever.
Ended == stop /\ UNCHANGED vars

Next ==
    \/ Process \/ Stop \/ Exit \/ PostReturns \/ Ended
    \/ \E p \in Peers : Arrive(p) \/ Move(p)

\* Each thread of the process runs, unless it waits for the web server: nothing
\* is assumed of that server (PostReturns) or of the peers.
Fairness ==
    /\ WF_vars(DiscoveryLoop)
    /\ WF_vars(Process /\ UNCHANGED discoveryVars)
    /\ WF_vars(Exit)

Spec == Init /\ [][Next]_vars /\ Fairness

-----------------------------------------------------------------------------
(* Properties.                                                             *)

\* Type correctness.
TypeOK ==
    /\ program \in Programs
    /\ address \in [Peers -> Addresses]
    /\ inbox \subseteq Datagrams /\ Cardinality(inbox) <= Backlog
    /\ peersInfo \in [Peers -> Addresses \cup {Unknown}]
    /\ discovery \in {"send", "receive", "ended"}
    /\ thread \in {"top", "scan", "posting", "status", "listening", "closed", "dead"}
    /\ size \in Nat /\ left \subseteq Peers
    /\ connected \subseteq Endpoints /\ connections \subseteq Endpoints
    /\ {broken, stop, exited} \subseteq BOOLEAN
    /\ request \in [Peers -> {"none", "ready", "waiting", "stuck"}]
    /\ sent \in [Peers -> 0..MaxRequests]
    /\ underway \subseteq Requests
    /\ accepted \subseteq (1..MaxRequests) \X (1..MaxRequests)

\* A program that remembers ids stays with the first address it learned of a
\* peer, wherever the peer goes, until an exception ends a round (and for good if
\* its handler does not clear what it remembers): the reconnect that "Reconnect
\* on error" promises happens only by the accident of an insertion or a message
\* that cannot be handled.
FirstAddressPinned ==
    program \notin ByAddress /\ (~broken \/ program = "node_pubsub") =>
        \A e, f \in connections : e[1] = f[1] => e = f

\* A status message of node.py is confirmed by its own answer: an answer that
\* comes after the timeout is never taken for the answer to a later request.
AnswersMatch == \A r \in accepted : r[1] = r[2]

\* The web server does not keep a post waiting for ever.
PostsReturn == []<>(thread # "posting")

\* Whatever insertions break the iterations and however long posts take, a
\* discovered peer that the program wants is connected in the end, unless the
\* program stops; and a program that remembers addresses follows a peer that
\* moves.
PeersFollowed ==
    PostsReturn => \A p \in Peers :
        /\ peersInfo[p] # Unknown /\ Wanted(p) /\ program \notin Publishers \cup {"detection_weapon"}
               ~> stop \/ \E a \in Addresses : <<p, a>> \in connections
        /\ \A a \in Addresses :
               program \in ByAddress /\ Wanted(p) /\ peersInfo[p] = a
                   ~> stop \/ peersInfo[p] # a \/ <<p, a>> \in connections

\* Wherever a stop finds the subscriber thread, in an iteration, in one that
\* breaks or in a post, it closes its socket and context.term() returns, unless
\* the post hangs.  Not so for node.py and node_pubsub.py, whose threads never
\* close their socket, and for a weapon detector that is stopped while it
\* searches: these are left out.
StopExits ==
    PostsReturn =>
        (stop /\ program \notin {"node", "node_pubsub", "detection_weapon"} ~> exited)
=============================================================================
