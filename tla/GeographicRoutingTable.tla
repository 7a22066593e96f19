----------------------- MODULE GeographicRoutingTable -----------------------
(***************************************************************************)
(* The greedy routing table of a router: which interface brings a packet   *)
(* closer to a location.  The vector of the code is a set here; where the  *)
(* code takes the first of several equally close entries, any of them may  *)
(* be taken.                                                               *)
(***************************************************************************)
EXTENDS Naturals

CONSTANTS
    Location,         \* the locations that nodes can advertise
    Distance,         \* great-circle distance between two locations, in metres
    PruningDivisor    \* 1 / PRUNING_COEFFICIENT

ASSUME GeometryAssumption ==
    /\ Distance \in [Location \X Location -> Nat]
    /\ \A a, b \in Location : Distance[a, b] = 0 <=> a = b
    /\ \A a, b \in Location : Distance[a, b] = Distance[b, a]
    /\ PruningDivisor \in Nat
    /\ PruningDivisor > 1

Entry(Iface) == [target : Location, iface : Iface, hops : Nat]

\* The entries that getClosestEntry's linear search may end on.
ClosestEntries(table, l) ==
    {e \in table : \A f \in table : Distance[e.target, l] <= Distance[f.target, l]}

\* A suggestion is recorded in an empty table, or when its closest entry (hence
\* every entry) is further from it than a fraction of its distance from `me'.
IsUseful(table, suggestion, me) ==
    \A e \in table :
        PruningDivisor * Distance[e.target, suggestion] > Distance[me, suggestion]

\* Mutation of InsertIfUseful: the new entry takes the place of the old ones.
InsertReplacing(table, suggestion, iface, hops, me) ==
    IF IsUseful(table, suggestion, me)
    THEN {[target |-> suggestion, iface |-> iface, hops |-> hops]}
    ELSE table

InsertIfUseful(table, suggestion, iface, hops, me) ==
    IF IsUseful(table, suggestion, me)
    THEN table \cup {[target |-> suggestion, iface |-> iface, hops |-> hops]}
    ELSE table

\* Mutation of GreedyEntries: the entry need not be closer than the node itself.
GreedyEntriesAnyDistance(table, destination, maxDistance) ==
    ClosestEntries(table, destination)

\* The entries getGreedyInterface may choose; empty where it returns -1.
GreedyEntries(table, destination, maxDistance) ==
    {e \in ClosestEntries(table, destination) :
        Distance[e.target, destination] < maxDistance}

=============================================================================
