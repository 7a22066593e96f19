-------------------------------- MODULE Router --------------------------------
(***************************************************************************)
(* Forwarding of data packets: the other half of Router::handleMessage, on *)
(* top of the tables that LocationFlood fills.  A packet follows the local *)
(* routing table, then the greedy table, then walks along a face of the    *)
(* network graph.                                                          *)
(*                                                                         *)
(* A packet is one in flight at a time; its header keeps the two octets    *)
(* that matter, the message type and the routing mode.  ModeOctet is the   *)
(* octet that getRoutingMode and setRoutingMode of Packet.hpp use: the     *)
(* code uses the message type's, formal_packet_definition.md has octet 3.  *)
(***************************************************************************)
EXTENDS LocationFlood

CONSTANTS
    Traffic,      \* the packets that hosts send
    Source,       \* Source[t]: the node whose host sends packet t
    Destination,  \* Destination[t]: the node it is addressed to
    Type,         \* Type[t]: its message type
    ModeOctet,    \* the octet that holds the routing mode
    LocalHost     \* interface 0: the packet comes from this node's own host

MSGTYPE_IPv6 == 0
MSGTYPE_LOCATION_INFO == 1
MSGTYPE_DHT_FIND_CLOSEST == 10

ROUTING_GREEDY == 0
ROUTING_FACE_RIGHT == 1
ROUTING_FACE_LEFT == 2

HEADER_MESSAGE_TYPE == 2
HEADER_ROUTING_MODE == 3

FACE_ROUTING_RANGE_MULTIPLIER == 2

ASSUME TrafficAssumption ==
    /\ Source \in [Traffic -> Node]
    /\ Destination \in [Traffic -> Node]
    /\ \A t \in Traffic : Source[t] # Destination[t]
    /\ Type \in [Traffic -> {MSGTYPE_IPv6, MSGTYPE_DHT_FIND_CLOSEST}]
    /\ ModeOctet \in {HEADER_MESSAGE_TYPE, HEADER_ROUTING_MODE}
    /\ LocalHost \notin Node

VARIABLES
    flight,    \* the data packets on the links
    fate       \* what became of each packet

routerVars == <<ifaces, greedy, local, face, net, flight, fate>>

Octet == {0, 1, 2, 10}

Packet == [id : Traffic,
           header : [{HEADER_MESSAGE_TYPE, HEADER_ROUTING_MODE} -> Octet],
           closest : Nat, range : Nat]

Fate == {"unsent", "flying", "delivered", "taken for location info", "dropped"}

RouterTypeOK ==
    /\ TypeOK
    /\ flight \in SUBSET [from : Node, to : Node, pkt : Packet]
    /\ fate \in [Traffic -> Fate]

------------------------------------------------------------------------------

MessageType(p) == p.header[HEADER_MESSAGE_TYPE]
RoutingMode(p) == p.header[ModeOctet]
SetRoutingMode(p, mode) == [p EXCEPT !.header[ModeOctet] = mode]

\* A packet as LocalPacketHandler::sendFromLocal makes it.
NewPacket(t) ==
    [id |-> t, closest |-> 0, range |-> 0,
     header |-> [octet \in {HEADER_MESSAGE_TYPE, HEADER_ROUTING_MODE} |->
                   IF octet = HEADER_MESSAGE_TYPE THEN Type[t] ELSE ROUTING_GREEDY]]

\* Mutation of Sent: the interface is not looked up.
SentBlindly(n, iface, p) == {[from |-> n, to |-> iface, pkt |-> p]}

\* LinkManager::sendPacket by node n: nothing where the interface does not exist.
Sent(n, iface, p) ==
    IF iface \in ifaces[n] THEN {[from |-> n, to |-> iface, pkt |-> p]} ELSE {}

\* The face table is a ring, ordered by heading.
Successor(table, e) ==
    LET later == {f \in table : f.heading > e.heading}
        among == IF later = {} THEN table ELSE later
    IN  CHOOSE f \in among : \A g \in among : f.heading <= g.heading

Predecessor(table, e) == CHOOSE f \in table : Successor(table, f) = e

\* Does `direction' lie between neighbours `before' and `after' of the ring?
InRange(before, after, direction) ==
    IF before.heading < after.heading
    THEN before.heading <= direction /\ direction <= after.heading
    ELSE before.heading <= direction \/ direction <= after.heading

\* Face routing starts with the neighbour to the right of the destination; a
\* node with one neighbour sends the packet back where it came from.
RouteFaceBegin(n, from, p) ==
    LET dst == Destination[p.id]
        q == [SetRoutingMode(p, ROUTING_FACE_RIGHT) EXCEPT
                !.closest = Distance[n, dst],
                !.range = Distance[n, dst] * FACE_ROUTING_RANGE_MULTIPLIER]
        befores == {e \in face[n] :
                      InRange(e, Successor(face[n], e), Heading[n, dst])}
        before == CHOOSE e \in befores : \A f \in befores : e.heading <= f.heading
    IN  CASE Cardinality(face[n]) = 0 -> {}
          [] Cardinality(face[n]) = 1 -> Sent(n, from, q)
          [] OTHER -> Sent(n, Successor(face[n], before).iface, q)

\* Follow the face; at the edge of the search range turn round and double it.
RouteFaceRelay(n, from, p) ==
    LET entry == CHOOSE e \in face[n] : e.iface = from
        right == RoutingMode(p) = ROUTING_FACE_RIGHT
    IN  IF Distance[n, Destination[p.id]] > p.range
        THEN Sent(n, from,
                  [SetRoutingMode(p, IF right THEN ROUTING_FACE_LEFT ELSE ROUTING_FACE_RIGHT)
                     EXCEPT !.range = @ * FACE_ROUTING_RANGE_MULTIPLIER])
        ELSE IF \E e \in face[n] : e.iface = from
             THEN Sent(n, (IF right THEN Successor(face[n], entry)
                                    ELSE Predecessor(face[n], entry)).iface, p)
             ELSE {}

CanSwitchFaceToGreedy(n, p) ==
    LET dst == Destination[p.id]
    IN  \/ Distance[dst, n] < p.closest
        \/ \E e \in greedy[n] : Distance[dst, e.target] < p.closest

\* Mutation of RouteGreedy: no face routing as a backup.
RouteGreedyOnly(n, from, p) ==
    LET dst == Destination[p.id]
    IN  UNION {Sent(n, e.iface, p) :
                 e \in GreedyEntries(greedy[n], dst, Distance[dst, n])}

RouteGreedy(n, from, p) ==
    LET dst == Destination[p.id]
        entries == GreedyEntries(greedy[n], dst, Distance[dst, n])
    IN  IF entries # {}
        THEN UNION {Sent(n, e.iface, p) : e \in entries}
        ELSE RouteFaceBegin(n, from, p)

\* Router::forwardPacket: the ways node n can send the packet on; none when it
\* drops it.
ForwardPacket(n, from, p) ==
    LET hop == local[n][Destination[p.id]]
    IN  CASE hop \in ifaces[n] -> Sent(n, hop, p)
          [] hop \notin ifaces[n] /\ RoutingMode(p) = ROUTING_GREEDY -> RouteGreedy(n, from, p)
          [] hop \notin ifaces[n] /\ RoutingMode(p) \in {ROUTING_FACE_LEFT, ROUTING_FACE_RIGHT} ->
               IF CanSwitchFaceToGreedy(n, p)
               THEN RouteGreedy(n, from, SetRoutingMode(p, ROUTING_GREEDY))
               ELSE RouteFaceRelay(n, from, p)
          [] OTHER -> {}

\* Router::handleMessage of packet p by node n; `rest' is what remains in flight.
HandleMessage(n, from, p, rest) ==
    \/ /\ Destination[p.id] = n
       /\ fate' = [fate EXCEPT ![p.id] = "delivered"]
       /\ flight' = rest
    \/ /\ Destination[p.id] # n
       /\ MessageType(p) = MSGTYPE_LOCATION_INFO
       /\ fate' = [fate EXCEPT ![p.id] = "taken for location info"]
       /\ flight' = rest
    \/ /\ Destination[p.id] # n
       /\ MessageType(p) # MSGTYPE_LOCATION_INFO
       /\ \/ \E hop \in ForwardPacket(n, from, p) :
                /\ flight' = rest \cup {hop}
                /\ fate' = [fate EXCEPT ![p.id] = "flying"]
          \/ /\ ForwardPacket(n, from, p) = {}
             /\ flight' = rest
             /\ fate' = [fate EXCEPT ![p.id] = "dropped"]

\* The host of a node sends packet t.
SendFromLocal(t) ==
    /\ fate[t] = "unsent"
    /\ HandleMessage(Source[t], LocalHost, NewPacket(t), flight)
    /\ UNCHANGED vars

ReceiveData(e) ==
    /\ e.from \in ifaces[e.to]
    /\ HandleMessage(e.to, e.from, e.pkt, flight \ {e})
    /\ UNCHANGED vars

RouterInit ==
    /\ flight = {}
    /\ fate = [t \in Traffic |-> "unsent"]

\* The flood goes on under the traffic, over links that are up.
FloodStep == (\E m \in net : Consume(m) \/ Lose(m)) /\ UNCHANGED <<flight, fate>>

RouterNext ==
    \/ FloodStep
    \/ \E t \in Traffic : SendFromLocal(t)
    \/ \E e \in flight : ReceiveData(e)

\* Every router reads its sockets for as long as there is something to read
\* (FDNotifier::waitForFD, called again and again).
FloodFairness == WF_routerVars(\E m \in net : Consume(m) /\ UNCHANGED <<flight, fate>>)

TrafficFairness ==
    \A t \in Traffic : WF_routerVars(\E e \in flight : e.pkt.id = t /\ ReceiveData(e))

\* No advert or packet is lost, and hosts wait for the flood to end: the best that
\* a network can offer.
SettledNext ==
    \/ \E m \in net : Consume(m) /\ UNCHANGED <<flight, fate>>
    \/ net = {} /\ \E t \in Traffic : SendFromLocal(t)
    \/ \E e \in flight : ReceiveData(e)

SettledFairness == FloodFairness /\ TrafficFairness

------------------------------------------------------------------------------
(* Properties.                                                             *)

\* Node n has no way on for packet p: no route in the local table, and then no entry that is
\* nearer to the destination and nobody to begin a face with (its only neighbour is no use
\* to a packet of its own host); or a peer out of the face table; or no routing mode.
DeadEnd(n, from, p) ==
    /\ local[n][Destination[p.id]] = NoIface
    /\ \/ /\ RoutingMode(p) \in {ROUTING_GREEDY, ROUTING_FACE_LEFT, ROUTING_FACE_RIGHT}
          /\ GreedyEntries(greedy[n], Destination[p.id], Distance[Destination[p.id], n]) = {}
          /\ face[n] = {} \/ (from = LocalHost /\ Cardinality(face[n]) = 1)
       \/ /\ RoutingMode(p) \in {ROUTING_FACE_LEFT, ROUTING_FACE_RIGHT}
          /\ ~ \E e \in face[n] : e.iface = from
       \/ RoutingMode(p) \notin {ROUTING_GREEDY, ROUTING_FACE_LEFT, ROUTING_FACE_RIGHT}

\* The packets that routers may handle next, where they are and where they came from.
Arriving ==
    flight \cup {[from |-> LocalHost, to |-> Source[t], pkt |-> NewPacket(t)] : t \in Traffic}

\* Routing drops a packet at a dead end only: where it chooses a way on, the interface
\* exists, some range of the face table holds every direction, and the ring has a next
\* neighbour to either side (routeFaceBegin and routeFaceRelay end in a drop otherwise).
DropsExplained ==
    [][\A t \in Traffic : fate[t] # "dropped" /\ fate'[t] = "dropped" =>
           \E e \in Arriving : e.pkt.id = t /\ DeadEnd(e.to, e.from, e.pkt)]_routerVars

\* A node that has the destination in its local table gets the packet there, while
\* the flood is still changing the tables under it.
LocalTrafficArrives ==
    \A t \in Traffic :
        (\E e \in flight : /\ e.pkt.id = t
                           /\ MessageType(e.pkt) # MSGTYPE_LOCATION_INFO
                           /\ local[e.to][Destination[t]] # NoIface)
            ~> (fate[t] = "delivered")

\* The flood of adverts dies out whatever the order of deliveries, and losses,
\* although adverts carry no time to live.
FloodQuiesces == <>[](net = {})

\* Greedy routing "with face routing as a backup [...] guarantees delivery in
\* planar graphs" (readme.md): a packet that was sent arrives.
DeliversInPlanarGraph ==
    \A t \in Traffic : (fate[t] = "flying") ~> (fate[t] = "delivered")

\* The weaker promise that no packet travels for ever.
NoEndlessJourney ==
    \A t \in Traffic : (fate[t] = "flying") ~> (fate[t] # "flying")

==============================================================================
