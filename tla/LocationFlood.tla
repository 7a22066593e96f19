---------------------------- MODULE LocationFlood ----------------------------
(***************************************************************************)
(* How routers learn about each other: the LOCATION_INFO half of           *)
(* Router::handleMessage.  A router advertises its location on every new   *)
(* interface; an advert is entered into the face, local and greedy routing *)
(* tables of the router that receives it and passed on while it is young   *)
(* (hops < 3) or was useful.  Nothing else ends the flood: packets carry   *)
(* no time to live.                                                        *)
(*                                                                         *)
(* Links are UDP: an advert in `net' may be lost, delivered more than once *)
(* and overtaken by another.  There is at most one link between two nodes, *)
(* so that an interface is named by the peer behind it, and a node never   *)
(* moves, so that its location is named by the node.                       *)
(***************************************************************************)
EXTENDS GeographicRoutingTable, FiniteSets

CONSTANTS
    Node,
    Linked,        \* the pairs of nodes with a link between them
    Heading,       \* Heading[n, l]: the direction from node n to location l
    HopModulus,    \* 2^16: the hop count is a 16-bit field
    NoIface,       \* the address has no entry in the local routing table
    Damages,       \* what damage leaves of an advert: its source, location and hop count
    DamageBound    \* bound: adverts that links damage

ASSUME NetworkAssumption ==
    /\ IsFiniteSet(Node)
    /\ Node \subseteq Location
    /\ Linked \subseteq Node \X Node
    /\ \A n, p \in Node : <<n, p>> \in Linked => n # p /\ <<p, n>> \in Linked
    /\ Heading \in [Node \X Location -> Nat]
    /\ NoIface \notin Node

\* The 16-bit hop count does not wrap in a network this small.
ASSUME HopAssumption ==
    /\ HopModulus \in Nat
    /\ HopModulus > Cardinality(Node) + 4

ASSUME DamageAssumption ==
    /\ Damages \subseteq [src : Node, loc : Location, hops : 0 .. HopModulus - 1]
    /\ DamageBound \in Nat

VARIABLES
    ifaces,    \* LinkManager::mInterfaces: the connected interfaces of a node
    greedy,    \* greedyRoutingTable
    local,     \* mLocalRoutingTable
    face,      \* mFaceRoutingTable, a set ordered by heading
    net        \* the adverts on the links

vars == <<ifaces, greedy, local, face, net>>

DirectionalEntry == [iface : Node, heading : Nat, loc : Location]

Advert == [from : Node, to : Node, src : Node, loc : Location,
           hops : 0 .. HopModulus - 1, intact : BOOLEAN]

TypeOK ==
    /\ ifaces \in [Node -> SUBSET Node]
    /\ greedy \in [Node -> SUBSET Entry(Node)]
    /\ local \in [Node -> [Node -> Node \cup {NoIface}]]
    /\ face \in [Node -> SUBSET DirectionalEntry]
    /\ net \in SUBSET Advert

Init ==
    /\ ifaces = [n \in Node |-> {}]
    /\ greedy = [n \in Node |-> {}]
    /\ local = [n \in Node |-> [d \in Node |-> NoIface]]
    /\ face = [n \in Node |-> {}]
    /\ net = {}

------------------------------------------------------------------------------

\* std::set::insert leaves the set alone when it holds an entry of that heading.
InsertDirection(table, entry) ==
    IF \E e \in table : e.heading = entry.heading THEN table ELSE table \cup {entry}

LocationInfo(n, p) ==
    [from |-> n, to |-> p, src |-> n, loc |-> n, hops |-> 1, intact |-> TRUE]

\* Mutation of PassedOn: the hop count is not increased.
PassedOnSameAge(m) ==
    {[m EXCEPT !.from = m.to, !.to = p, !.intact = TRUE] :
        p \in ifaces[m.to] \ {m.from}}

\* The copies of m that node m.to sends on; the check sum is recomputed.
PassedOn(m) ==
    {[m EXCEPT !.from = m.to, !.to = p, !.hops = (m.hops + 1) % HopModulus,
               !.intact = TRUE] : p \in ifaces[m.to] \ {m.from}}

\* LinkManager::connectInterface and the router's link listener.
ConnectInterface(n, p) ==
    /\ <<n, p>> \in Linked
    /\ p \notin ifaces[n]
    /\ ifaces' = [ifaces EXCEPT ![n] = @ \cup {p}]
    /\ net' = net \cup {LocationInfo(n, p)}
    /\ UNCHANGED <<greedy, local, face>>

IsGoodSuggestion(m) ==
    m.intact /\ IsUseful(greedy[m.to], m.loc, m.to)

\* Mutation of ProcessRoutingSuggestion: three hops still count as the neighbourhood.
ProcessSuggestionFarLocal(m) ==
    LET n == m.to
        entry == [iface |-> m.from, heading |-> Heading[n, m.loc], loc |-> m.loc]
    IN  /\ face' = IF m.intact /\ m.hops = 1
                   THEN [face EXCEPT ![n] = InsertDirection(@, entry)]
                   ELSE face
        /\ local' = IF m.intact /\ m.hops <= 3
                    THEN [local EXCEPT ![n][m.src] = m.from]
                    ELSE local
        /\ greedy' = IF m.intact
                     THEN [greedy EXCEPT ![n] =
                             InsertIfUseful(@, m.loc, m.from, m.hops, n)]
                     ELSE greedy

\* Mutation of ProcessRoutingSuggestion: the face table takes damaged locations.
ProcessSuggestionUnchecked(m) ==
    LET n == m.to
        entry == [iface |-> m.from, heading |-> Heading[n, m.loc], loc |-> m.loc]
    IN  /\ face' = IF m.hops = 1
                   THEN [face EXCEPT ![n] = InsertDirection(@, entry)]
                   ELSE face
        /\ local' = IF m.intact /\ m.hops < 3
                    THEN [local EXCEPT ![n][m.src] = m.from]
                    ELSE local
        /\ greedy' = IF m.intact
                     THEN [greedy EXCEPT ![n] =
                             InsertIfUseful(@, m.loc, m.from, m.hops, n)]
                     ELSE greedy

\* The three tables after processRoutingSuggestion of advert m by node m.to.
ProcessRoutingSuggestion(m) ==
    LET n == m.to
        entry == [iface |-> m.from, heading |-> Heading[n, m.loc], loc |-> m.loc]
    IN  /\ face' = IF m.intact /\ m.hops = 1
                   THEN [face EXCEPT ![n] = InsertDirection(@, entry)]
                   ELSE face
        /\ local' = IF m.intact /\ m.hops < 3
                    THEN [local EXCEPT ![n][m.src] = m.from]
                    ELSE local
        /\ greedy' = IF m.intact
                     THEN [greedy EXCEPT ![n] =
                             InsertIfUseful(@, m.loc, m.from, m.hops, n)]
                     ELSE greedy

\* Mutation of HandleLocationInfo: every advert is passed on.
HandlePassingAllOn(m, rest) ==
    /\ m.from \in ifaces[m.to]
    /\ ProcessRoutingSuggestion(m)
    /\ net' = rest \cup PassedOn(m)
    /\ UNCHANGED ifaces

\* Router::handleMessage of advert m; `rest' is what remains on the links.
HandleLocationInfo(m, rest) ==
    /\ m.from \in ifaces[m.to]
    /\ ProcessRoutingSuggestion(m)
    /\ net' = rest \cup (IF IsGoodSuggestion(m) \/ m.hops < 3 THEN PassedOn(m) ELSE {})
    /\ UNCHANGED ifaces

\* An advert on a UDP link: it stays in `net', so that it can be delivered late,
\* again after others, or never.
Receive(m) == HandleLocationInfo(m, net)

Next ==
    \/ \E n, p \in Node : ConnectInterface(n, p)
    \/ \E m \in net : Receive(m)

Spec == Init /\ [][Next]_vars

\* Without duplication, as module Router uses it: a delivery takes the advert off the
\* link, and so does the loss of a datagram.
Consume(m) == HandleLocationInfo(m, net \ {m})

Lose(m) ==
    /\ net' = net \ {m}
    /\ UNCHANGED <<ifaces, greedy, local, face>>

\* A link that damages what the check sum covers: source, location, hop count, or only
\* the check sum.  Damage that keeps the sum is not modelled, and a damaged source is the
\* address of a node: an entry for any other is never looked up.
Damage(m) ==
    /\ m.intact
    /\ Cardinality({k \in net : ~k.intact}) < DamageBound
    /\ \E r \in Damages :
          net' = net \cup {[m EXCEPT !.src = r.src, !.loc = r.loc, !.hops = r.hops,
                                    !.intact = FALSE]}
    /\ UNCHANGED <<ifaces, greedy, local, face>>

DamageNext == Next \/ \E m \in net : Damage(m)

DamageSpec == Init /\ [][DamageNext]_vars

------------------------------------------------------------------------------
(* Properties.                                                             *)

\* The flood is bounded without a time to live: once an advert has travelled
\* more than three hops, each further hop was paid for by a node that entered
\* the location into its greedy table for the first time.  In particular the
\* hop count never wraps (Router::handleMessage, isGoodSuggestion || hops < 3).
Accepted(l) == {n \in Node : \E e \in greedy[n] : e.target = l}

HopBound ==
    \A m \in net : m.hops \in 1 .. Cardinality(Accepted(m.loc)) + 3

\* What an entry of the greedy table promises (GeographicRoutingTable.hpp): the
\* node behind its interface is the target, or holds an entry that lies closer
\* to the target than itself, and so can send a packet for it onwards.  The
\* promise outlives every later change of that node's table.
KnowsBetter(i, l) ==
    \/ i = l
    \/ \E f \in greedy[i] : Distance[f.target, l] < Distance[i, l]

NextHopKnowsBetter ==
    \A n \in Node : \A e \in greedy[n] : KnowsBetter(e.iface, e.target)

\* The damaged adverts that node n was sent and that claim to be h hops old.  It refuses
\* them, but sends on those of less than three hops, one hop older and with a check sum.
Damaged(n, h) == {k \in net : ~k.intact /\ k.to = n /\ k.hops = h}

\* n sends adverts of address d as its neighbours know them, one hop old: it is d, or
\* was told so by a damaged advert.
Announces(n, d) == n = d \/ \E k \in Damaged(n, 0) : k.src = d

\* n sends adverts of location l that are one hop old.
AnnouncesAt(n, l) == n = l \/ \E k \in Damaged(n, 0) : k.loc = l

\* n sends adverts of address d that are two hops old.
Relays(n, d) ==
    \/ \E q \in Node : <<q, n>> \in Linked /\ Announces(q, d)
    \/ \E k \in Damaged(n, 1) : k.src = d

\* The local routing table leads to the direct neighbourhood only: an address in
\* it is at most two hops away through the recorded interface, however long and
\* in whatever order the adverts travelled.  Damage misleads it no further: a wrong
\* address was in a damaged advert that got a new check sum at most two hops from here,
\* while it claimed to be less than two hops old (Router::handleMessage).
LocalWithinTwoHops ==
    \A n, d \in Node :
        LET p == local[n][d]
        IN  p # NoIface => <<n, p>> \in Linked /\ (Announces(p, d) \/ Relays(p, d))

\* Without triangles the local table also leads to the address: the next hop is the
\* destination or has it as its own direct route.  (With a triangle of links it
\* need not: two neighbours of a node may point at each other.)
TriangleFree ==
    \A n, p, q \in Node :
        <<n, p>> \in Linked /\ <<p, q>> \in Linked => <<q, n>> \notin Linked

LocalRoutesLead ==
    TriangleFree =>
        \A n, d \in Node : local[n][d] # NoIface =>
            local[n][d] = d \/ local[local[n][d]][d] = d

\* A direction of the face table is the direction of the direct neighbour that
\* the entry's interface leads to, and no two entries share a heading.  A location where
\* that neighbour is not can only come from a damaged advert that the neighbour was sent
\* with a hop count of zero and gave a new check sum: damage of anything else, on
\* whatever links, leaves the neighbours' directions right.
FaceFromNeighbours ==
    \A n \in Node : \A e, f \in face[n] :
        /\ <<n, e.iface>> \in Linked
        /\ AnnouncesAt(e.iface, e.loc)
        /\ e.heading = f.heading => e = f

\* What a router has learned it keeps: no step removes or changes an entry of
\* the greedy or face tables, or empties an entry of the local table.
TablesOnlyGrow ==
    [][\A n \in Node :
          /\ greedy[n] \subseteq greedy'[n]
          /\ face[n] \subseteq face'[n]
          /\ \A d \in Node : local[n][d] # NoIface => local'[n][d] # NoIface]_vars

==============================================================================
