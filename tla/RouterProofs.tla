----------------------------- MODULE RouterProofs -----------------------------
(***************************************************************************)
(* What holds of the advert flood and of data packets in every network,    *)
(* whatever its links, its geography and the order of connections and      *)
(* deliveries.  The first part is about LocationFlood alone, the second    *)
(* about data packets while interfaces are still being connected and the   *)
(* flood goes on under the traffic.                                        *)
(***************************************************************************)
EXTENDS Router, FiniteSetTheorems, WellFoundedInduction, TLAPS

(***************************************************************************)
(* The flood.                                                              *)
(***************************************************************************)

\* What an advert on a link says about the tables of the nodes: the strengthening
\* that makes the four invariants below inductive.
AdvertOK(m) ==
    /\ m.intact
    /\ m.loc = m.src
    /\ <<m.from, m.to>> \in Linked
    /\ m.hops \in 1 .. Cardinality(Accepted(m.loc)) + 3
    /\ m.hops = 1 => m.src = m.from
    /\ m.hops = 2 => <<m.from, m.src>> \in Linked
    /\ KnowsBetter(m.from, m.loc)

\* What LocalWithinTwoHops and FaceFromNeighbours say where nothing is damaged.
LocalKnowsTwoHops ==
    \A n, d \in Node : local[n][d] # NoIface =>
        /\ <<n, local[n][d]>> \in Linked
        /\ local[n][d] = d \/ <<local[n][d], d>> \in Linked

FaceKnowsNeighbours ==
    \A n \in Node : \A e, f \in face[n] :
        /\ e.loc = e.iface /\ <<n, e.iface>> \in Linked
        /\ e.heading = f.heading => e = f

IInv ==
    /\ TypeOK
    /\ \A n \in Node : \A p \in ifaces[n] : <<n, p>> \in Linked
    /\ \A m \in net : AdvertOK(m)
    /\ NextHopKnowsBetter
    /\ LocalKnowsTwoHops
    /\ FaceKnowsNeighbours

------------------------------------------------------------------------------

\* The number of nodes that accepted a location is a natural number bounded by the
\* number of nodes.
LEMMA AcceptedFinite ==
    ASSUME NEW l
    PROVE  /\ IsFiniteSet(Accepted(l))
           /\ Cardinality(Accepted(l)) \in Nat
           /\ Cardinality(Node) \in Nat
           /\ Cardinality(Accepted(l)) <= Cardinality(Node)
<1>1. Accepted(l) \subseteq Node
  BY DEF Accepted
<1> QED
  BY <1>1, NetworkAssumption, FS_Subset, FS_CardinalityType

\* The comparison of insertIfUseful, for an entry x metres from the suggestion and
\* a router y metres from it.
LEMMA Pruning ==
    ASSUME NEW x \in Nat, NEW y \in Nat
    PROVE  /\ x = 0 => ~ (PruningDivisor * x > y)
           /\ y # 0 /\ ~ (PruningDivisor * x > y) => x < y
<1>1. PruningDivisor \in Nat /\ PruningDivisor > 1
  BY GeometryAssumption
<1> DEFINE k == PruningDivisor
<1> HIDE DEF k
<1>2. k \in Nat /\ k > 1
  BY <1>1 DEF k
<1>3. /\ x = 0 => ~ (k * x > y)
      /\ y # 0 /\ ~ (k * x > y) => x < y
  BY <1>2, SMT
<1> QED
  BY <1>3 DEF k

\* A node finds a location useful at most once: it is nearer than any fraction of
\* a distance to the entry it becomes.
LEMMA GoodOnlyOnce ==
    ASSUME TypeOK, NEW m \in net, IsGoodSuggestion(m)
    PROVE  m.to \notin Accepted(m.loc)
<1> SUFFICES ASSUME NEW e \in greedy[m.to], e.target = m.loc
             PROVE  FALSE
  BY DEF Accepted
<1>1. m.to \in Node /\ m.loc \in Location
  BY DEF TypeOK, Advert
<1>2. Distance[e.target, m.loc] = 0 /\ Distance[m.to, m.loc] \in Nat
  BY <1>1, GeometryAssumption, NetworkAssumption
<1>3. PruningDivisor * Distance[e.target, m.loc] > Distance[m.to, m.loc]
  BY DEF IsGoodSuggestion, IsUseful
<1> DEFINE x == Distance[e.target, m.loc]
           y == Distance[m.to, m.loc]
<1> HIDE DEF x, y
<1>4. x = 0 /\ y \in Nat /\ PruningDivisor * x > y
  BY <1>2, <1>3 DEF x, y
<1> QED
  BY <1>4, Pruning

\* A node that finds a location not useful has an entry nearer to it than itself.
LEMMA RejectedIsKnown ==
    ASSUME TypeOK, NEW n \in Node, NEW l \in Location, ~ IsUseful(greedy[n], l, n)
    PROVE  KnowsBetter(n, l)
<1> SUFFICES ASSUME n # l
             PROVE  \E f \in greedy[n] : Distance[f.target, l] < Distance[n, l]
  BY DEF KnowsBetter
<1>1. PICK f \in greedy[n] : ~ (PruningDivisor * Distance[f.target, l] > Distance[n, l])
  BY DEF IsUseful
<1>2. f.target \in Location
  BY DEF TypeOK, Entry
<1>3. Distance[f.target, l] \in Nat /\ Distance[n, l] \in Nat /\ Distance[n, l] # 0
  BY <1>2, GeometryAssumption, NetworkAssumption
<1> DEFINE x == Distance[f.target, l]
           y == Distance[n, l]
<1> HIDE DEF x, y
<1>4. x \in Nat /\ y \in Nat /\ y # 0 /\ ~ (PruningDivisor * x > y)
  BY <1>1, <1>3 DEF x, y
<1>5. x < y
  BY <1>4, Pruning
<1> QED
  BY <1>5 DEF x, y

------------------------------------------------------------------------------

\* A 16-bit increment stays a hop count.
LEMMA HopStep ==
    ASSUME NEW h \in 0 .. HopModulus - 1
    PROVE  /\ (h + 1) % HopModulus \in 0 .. HopModulus - 1
           /\ h + 1 < HopModulus => (h + 1) % HopModulus = h + 1
<1> DEFINE M == HopModulus
<1> HIDE DEF M
<1>1. M \in Nat /\ M > 0 /\ h \in 0 .. M - 1
  BY HopAssumption, AcceptedFinite DEF M
<1>2. /\ (h + 1) % M \in 0 .. M - 1
      /\ h + 1 < M => (h + 1) % M = h + 1
  BY <1>1, SMT
<1> QED
  BY <1>2 DEF M

\* What a node sends on keeps source and location and has travelled one hop more.
LEMMA PassedOnIs ==
    ASSUME TypeOK, NEW m \in net, NEW q \in PassedOn(m)
    PROVE  /\ q \in Advert
           /\ q.from = m.to /\ q.to \in ifaces[m.to]
           /\ q.src = m.src /\ q.loc = m.loc /\ q.intact
           /\ q.hops = (m.hops + 1) % HopModulus
<1>1. m \in Advert
  BY DEF TypeOK
<1>2. PICK p \in ifaces[m.to] \ {m.from} :
        q = [m EXCEPT !.from = m.to, !.to = p, !.hops = (m.hops + 1) % HopModulus,
                      !.intact = TRUE]
  BY DEF PassedOn
<1>3. p \in Node /\ (m.hops + 1) % HopModulus \in 0 .. HopModulus - 1
  BY <1>1, HopStep DEF TypeOK, Advert
<1> QED
  BY <1>1, <1>2, <1>3 DEF Advert

\* The steps of a flood over links that may lose adverts: what a delivery leaves on the
\* links is open.
Delivery(m) ==
    /\ m.from \in ifaces[m.to]
    /\ ProcessRoutingSuggestion(m)
    /\ net' \subseteq net \cup (IF IsGoodSuggestion(m) \/ m.hops < 3 THEN PassedOn(m) ELSE {})
    /\ UNCHANGED ifaces

Loss == net' \subseteq net /\ UNCHANGED <<ifaces, greedy, local, face>>

LossyNext ==
    \/ \E n, p \in Node : ConnectInterface(n, p)
    \/ \E m \in net : Delivery(m)
    \/ Loss

LEMMA StepsAreLossy == [Next]_vars => LossyNext
<1> QED
  BY DEF Next, Receive, HandleLocationInfo, Delivery, Loss, LossyNext, vars

\* The greedy tables after a delivery: the receiver's gains at most the entry that
\* the advert suggests.
NewEntry(m) == [target |-> m.loc, iface |-> m.from, hops |-> m.hops]

LEMMA GreedyAfter ==
    ASSUME TypeOK, NEW m \in net, Delivery(m)
    PROVE  /\ m.to \in Node /\ NewEntry(m) \in Entry(Node)
           /\ greedy' = [greedy EXCEPT ![m.to] =
                IF IsGoodSuggestion(m) THEN @ \cup {NewEntry(m)} ELSE @]
<1>1. m.to \in Node /\ m.loc \in Location /\ m.from \in Node /\ m.hops \in Nat
      /\ m.intact \in BOOLEAN
  BY HopAssumption DEF TypeOK, Advert
<1>2. NewEntry(m) \in Entry(Node)
  BY <1>1 DEF NewEntry, Entry
<1>3. greedy' = IF m.intact
                THEN [greedy EXCEPT ![m.to] =
                        InsertIfUseful(@, m.loc, m.from, m.hops, m.to)]
                ELSE greedy
  BY DEF Delivery, ProcessRoutingSuggestion
<1>4. CASE ~ m.intact
  BY <1>1, <1>2, <1>3, <1>4 DEF IsGoodSuggestion, TypeOK
<1>5. CASE m.intact
  <2>1. InsertIfUseful(greedy[m.to], m.loc, m.from, m.hops, m.to)
          = IF IsGoodSuggestion(m) THEN greedy[m.to] \cup {NewEntry(m)} ELSE greedy[m.to]
    BY <1>5 DEF InsertIfUseful, IsGoodSuggestion, NewEntry
  <2> QED
    BY <1>1, <1>2, <1>3, <1>5, <2>1
<1> QED
  BY <1>4, <1>5

\* A useful suggestion is in the table afterwards.
LEMMA GoodIsEntered ==
    ASSUME TypeOK, NEW m \in net, Delivery(m), IsGoodSuggestion(m)
    PROVE  NewEntry(m) \in greedy'[m.to]
<1>1. m.to \in Node /\ greedy' = [greedy EXCEPT ![m.to] = greedy[m.to] \cup {NewEntry(m)}]
  BY GreedyAfter
<1>2. DOMAIN greedy = Node
  BY DEF TypeOK
<1>3. greedy'[m.to] = greedy[m.to] \cup {NewEntry(m)}
  BY <1>1, <1>2
<1> QED
  BY <1>3

\* The state has the types of the code.
LEMMA TypeStep == TypeOK /\ LossyNext => TypeOK'
<1> SUFFICES ASSUME TypeOK, LossyNext
             PROVE  TypeOK'
  OBVIOUS
<1>1. ASSUME NEW n \in Node, NEW p \in Node, ConnectInterface(n, p)
      PROVE  TypeOK'
  <2>1. 1 \in 0 .. HopModulus - 1
    BY HopAssumption, AcceptedFinite
  <2>2. LocationInfo(n, p) \in Advert
    BY <2>1, NetworkAssumption DEF LocationInfo, Advert
  <2> QED
    BY <1>1, <2>2 DEF ConnectInterface, TypeOK
<1>2. ASSUME NEW m \in net, Delivery(m)
      PROVE  TypeOK'
  <2>1. m \in Advert /\ m.to \in Node /\ m.from \in Node /\ m.src \in Node
        /\ m.loc \in Location /\ m.hops \in Nat
    BY HopAssumption DEF TypeOK, Advert
  <2>2. net' \in SUBSET Advert
    BY <1>2, PassedOnIs DEF Delivery, TypeOK
  <2>3. face' \in [Node -> SUBSET DirectionalEntry]
    <3>1. [iface |-> m.from, heading |-> Heading[m.to, m.loc], loc |-> m.loc]
            \in DirectionalEntry
      BY <2>1, NetworkAssumption DEF DirectionalEntry
    <3> QED
      BY <1>2, <2>1, <3>1
      DEF Delivery, ProcessRoutingSuggestion, InsertDirection, TypeOK
  <2>4. local' \in [Node -> [Node -> Node \cup {NoIface}]]
    BY <1>2, <2>1
    DEF Delivery, ProcessRoutingSuggestion, TypeOK
  <2>5. greedy' \in [Node -> SUBSET Entry(Node)]
    <3> DEFINE g == IF IsGoodSuggestion(m) THEN greedy[m.to] \cup {NewEntry(m)}
                    ELSE greedy[m.to]
    <3>1. g \in SUBSET Entry(Node)
      BY <1>2, GreedyAfter DEF TypeOK
    <3>2. greedy' = [greedy EXCEPT ![m.to] = g]
      BY <1>2, GreedyAfter
    <3> HIDE DEF g
    <3> QED
      BY <2>1, <3>1, <3>2 DEF TypeOK
  <2>6. ifaces' \in [Node -> SUBSET Node]
    BY <1>2 DEF Delivery, TypeOK
  <2> QED
    BY <2>2, <2>3, <2>4, <2>5, <2>6 DEF TypeOK
<1>3. CASE Loss
  BY <1>3 DEF Loss, TypeOK
<1> QED
  BY <1>1, <1>2, <1>3 DEF LossyNext

\* No step removes an entry from a greedy table, so that a node keeps accepting
\* what it accepted and knowing what it knew.
LEMMA GreedyGrows ==
    ASSUME TypeOK, LossyNext
    PROVE  /\ \A n \in Node : greedy[n] \subseteq greedy'[n]
           /\ \A l : Accepted(l) \subseteq Accepted(l)'
           /\ \A i \in Node : \A l : KnowsBetter(i, l) => KnowsBetter(i, l)'
<1>1. ASSUME NEW n \in Node
      PROVE  greedy[n] \subseteq greedy'[n]
  <2>1. CASE \E q, p \in Node : ConnectInterface(q, p)
    BY <2>1 DEF ConnectInterface
  <2>2. ASSUME NEW m \in net, Delivery(m)
        PROVE  greedy[n] \subseteq greedy'[n]
    <3>1. /\ DOMAIN greedy = Node
          /\ greedy' = [greedy EXCEPT ![m.to] =
               IF IsGoodSuggestion(m) THEN greedy[m.to] \cup {NewEntry(m)}
               ELSE greedy[m.to]]
      BY <2>2, GreedyAfter DEF TypeOK
    <3> QED
      BY <3>1
  <2>3. CASE Loss
    BY <2>3 DEF Loss
  <2> QED
    BY <2>1, <2>2, <2>3 DEF LossyNext
<1>2. ASSUME NEW l PROVE Accepted(l) \subseteq Accepted(l)'
  BY <1>1 DEF Accepted
<1>3. ASSUME NEW i \in Node, NEW l, KnowsBetter(i, l) PROVE KnowsBetter(i, l)'
  BY <1>1, <1>3 DEF KnowsBetter
<1> QED
  BY <1>1, <1>2, <1>3

------------------------------------------------------------------------------

\* An advert that was fine stays fine: the tables it speaks about only grow.
LEMMA AdvertStays ==
    ASSUME TypeOK, LossyNext, NEW m \in Advert, AdvertOK(m)
    PROVE  AdvertOK(m)'
<1>1. Cardinality(Accepted(m.loc)) <= Cardinality(Accepted(m.loc)')
  <2>1. Accepted(m.loc) \subseteq Accepted(m.loc)' /\ Accepted(m.loc)' \subseteq Node
    BY GreedyGrows DEF Accepted
  <2> QED
    BY <2>1, NetworkAssumption, FS_Subset
<1>2. /\ Cardinality(Accepted(m.loc)) \in Nat
      /\ Cardinality(Accepted(m.loc)') \in Nat
  <2>1. Accepted(m.loc)' \subseteq Node
    BY DEF Accepted
  <2> QED
    BY <2>1, AcceptedFinite, NetworkAssumption, FS_Subset, FS_CardinalityType
<1>3. m.hops \in 1 .. Cardinality(Accepted(m.loc)') + 3
  BY <1>1, <1>2 DEF AdvertOK
<1>4. KnowsBetter(m.from, m.loc)'
  BY GreedyGrows DEF AdvertOK, Advert
<1> QED
  BY <1>3, <1>4 DEF AdvertOK

\* The node that has handled an advert knows the location or something nearer.
LEMMA ReceiverKnows ==
    ASSUME TypeOK, NEW m \in net, m.intact, Delivery(m)
    PROVE  KnowsBetter(m.to, m.loc)'
<1>1. m.to \in Node /\ m.loc \in Location
  BY DEF TypeOK, Advert
<1>2. LossyNext
  BY DEF LossyNext
<1>3. CASE IsGoodSuggestion(m)
  <2>1. NewEntry(m) \in greedy'[m.to]
    BY <1>3, GoodIsEntered
  <2>2. NewEntry(m).target = m.loc
    BY DEF NewEntry
  <2>3. m.to # m.loc => Distance[m.loc, m.loc] < Distance[m.to, m.loc]
    <3>1. m.to \in Location
      BY <1>1, NetworkAssumption
    <3>2. Distance[m.loc, m.loc] = 0
      BY <1>1, GeometryAssumption
    <3>3. Distance[m.to, m.loc] \in Nat /\ (m.to # m.loc => Distance[m.to, m.loc] # 0)
      BY <1>1, <3>1, GeometryAssumption
    <3> DEFINE x == Distance[m.loc, m.loc]
               y == Distance[m.to, m.loc]
    <3> HIDE DEF x, y
    <3>4. x = 0 /\ y \in Nat /\ (m.to # m.loc => y # 0)
      BY <3>2, <3>3 DEF x, y
    <3>5. m.to # m.loc => x < y
      BY <3>4
    <3> QED
      BY <3>5 DEF x, y
  <2> QED
    BY <2>1, <2>2, <2>3 DEF KnowsBetter
<1>4. CASE ~ IsGoodSuggestion(m)
  BY <1>1, <1>2, <1>4, RejectedIsKnown, GreedyGrows DEF IsGoodSuggestion
<1> QED
  BY <1>3, <1>4

\* The hop count of what is passed on: either it is young, or the receiver has
\* just joined the nodes that accepted the location.
LEMMA HopsPassedOn ==
    ASSUME TypeOK, NEW m \in net, Delivery(m),
           m.hops \in 1 .. Cardinality(Accepted(m.loc)) + 3,
           IsGoodSuggestion(m) \/ m.hops < 3
    PROVE  /\ (m.hops + 1) % HopModulus = m.hops + 1
           /\ m.hops + 1 \in 1 .. Cardinality(Accepted(m.loc)') + 3
<1> DEFINE A == Accepted(m.loc)
           B == Accepted(m.loc)'
<1>1. /\ A \subseteq B /\ B \subseteq Node
      /\ IsFiniteSet(A) /\ IsFiniteSet(B)
      /\ Cardinality(A) \in Nat /\ Cardinality(B) \in Nat /\ Cardinality(Node) \in Nat
      /\ Cardinality(A) <= Cardinality(B) /\ Cardinality(B) <= Cardinality(Node)
  <2>1. A \subseteq B /\ B \subseteq Node
    BY GreedyGrows DEF Accepted, LossyNext
  <2> QED
    BY <2>1, NetworkAssumption, FS_Subset, FS_CardinalityType
<1>2. m.hops \in 0 .. HopModulus - 1 /\ m.hops \in 1 .. Cardinality(A) + 3
  BY DEF TypeOK, Advert
<1>3. (m.hops + 1) % HopModulus = m.hops + 1
  BY <1>1, <1>2, HopStep, HopAssumption
<1>4. CASE m.hops < 3
  BY <1>1, <1>2, <1>3, <1>4
<1>5. CASE IsGoodSuggestion(m)
  <2>1. m.to \notin A
    BY <1>5, GoodOnlyOnce
  <2>2. m.to \in B
    <3>1. NewEntry(m) \in greedy'[m.to] /\ m.to \in Node
      BY <1>5, GoodIsEntered DEF TypeOK, Advert
    <3> QED
      BY <3>1 DEF NewEntry, Accepted
  <2>3. Cardinality(A \cup {m.to}) = Cardinality(A) + 1
    BY <1>1, <2>1, FS_AddElement
  <2>4. Cardinality(A \cup {m.to}) <= Cardinality(B)
    <3>1. A \cup {m.to} \subseteq B
      BY <1>1, <2>2
    <3> QED
      BY <1>1, <3>1, FS_Subset
  <2> HIDE DEF A, B
  <2>5. m.hops + 1 \in 1 .. Cardinality(B) + 3
    BY <1>1, <1>2, <2>3, <2>4
  <2> QED
    BY <1>3, <2>5 DEF B
<1> QED
  BY <1>4, <1>5

\* The fields of an advert in flight.
LEMMA AdvertFields ==
    ASSUME TypeOK, NEW m \in net, AdvertOK(m)
    PROVE  /\ m.to \in Node /\ m.from \in Node /\ m.src \in Node /\ m.loc \in Location
           /\ m.hops \in Nat /\ m.hops # 0
<1>1. m \in Advert
  BY DEF TypeOK
<1>2. m.hops \in 1 .. Cardinality(Accepted(m.loc)) + 3
  BY DEF AdvertOK
<1>3. Cardinality(Accepted(m.loc)) + 3 \in Nat
  BY AcceptedFinite
<1>4. m.hops \in Nat /\ m.hops # 0
  BY <1>2, <1>3
<1> QED
  BY <1>1, <1>4 DEF Advert

\* Every advert on a link is fine after a step.
LEMMA AdvertsStep == IInv /\ LossyNext => \A m \in net' : AdvertOK(m)'
<1> SUFFICES ASSUME IInv, LossyNext, NEW q \in net'
             PROVE  AdvertOK(q)'
  OBVIOUS
<1> USE DEF IInv
<1>1. CASE q \in net
  BY <1>1, AdvertStays DEF TypeOK
<1>2. ASSUME NEW n \in Node, NEW p \in Node, ConnectInterface(n, p), q = LocationInfo(n, p)
      PROVE  AdvertOK(q)'
  <2>1. Accepted(n)' \subseteq Node
    BY DEF Accepted
  <2>2. Cardinality(Accepted(n)') \in Nat
    BY <2>1, NetworkAssumption, FS_Subset, FS_CardinalityType
  <2>3. 1 \in 1 .. Cardinality(Accepted(n)') + 3
    BY <2>2
  <2>4. /\ q.from = n /\ q.to = p /\ q.src = n /\ q.loc = n /\ q.hops = 1 /\ q.intact
        /\ <<n, p>> \in Linked
    BY <1>2 DEF LocationInfo, ConnectInterface
  <2>5. KnowsBetter(q.from, q.loc)'
    BY <2>4 DEF KnowsBetter
  <2> QED
    BY <2>3, <2>4, <2>5 DEF AdvertOK
<1>3. ASSUME NEW m \in net, Delivery(m), q \notin net
      PROVE  AdvertOK(q)'
  <2>1. q \in PassedOn(m) /\ (IsGoodSuggestion(m) \/ m.hops < 3)
    BY <1>3 DEF Delivery
  <2>2. /\ q.from = m.to /\ q.to \in ifaces[m.to]
        /\ q.src = m.src /\ q.loc = m.loc /\ q.intact
        /\ q.hops = (m.hops + 1) % HopModulus
    BY <2>1, PassedOnIs
  <2>3. q.hops = m.hops + 1 /\ q.hops \in 1 .. Cardinality(Accepted(q.loc)') + 3
    BY <1>3, <2>1, <2>2, HopsPassedOn DEF AdvertOK
  <2>4. KnowsBetter(q.from, q.loc)'
    BY <1>3, <2>2, ReceiverKnows DEF AdvertOK
  <2>5. m.to \in Node /\ m.from \in Node /\ m.hops \in Nat /\ m.hops # 0
    BY AdvertFields
  <2>6. q.hops # 1
    BY <2>3, <2>5
  <2>7. q.hops = 2 => <<q.from, q.src>> \in Linked
    <3>1. q.hops = 2 => m.hops = 1
      BY <2>3, <2>5
    <3>2. <<m.from, m.to>> \in Linked /\ (m.hops = 1 => m.src = m.from)
      BY DEF AdvertOK
    <3>3. <<m.to, m.from>> \in Linked
      BY <2>5, <3>2, NetworkAssumption
    <3> QED
      BY <2>2, <3>1, <3>2, <3>3
  <2>8. <<q.from, q.to>> \in Linked
    BY <2>2, <2>5
  <2> QED
    BY <2>2, <2>3, <2>4, <2>6, <2>7, <2>8 DEF AdvertOK
<1>4. CASE Loss
  BY <1>1, <1>4 DEF Loss
<1>5. ASSUME NEW n \in Node, NEW p \in Node, ConnectInterface(n, p), q \notin net
      PROVE  AdvertOK(q)'
  BY <1>2, <1>5 DEF ConnectInterface
<1> QED
  BY <1>1, <1>3, <1>4, <1>5 DEF LossyNext

\* The tables after a delivery, in the terms of the invariants on them.
LEMMA TablesStep ==
    IInv /\ LossyNext => NextHopKnowsBetter' /\ LocalKnowsTwoHops' /\ FaceKnowsNeighbours'
<1> SUFFICES ASSUME IInv, LossyNext
             PROVE  NextHopKnowsBetter' /\ LocalKnowsTwoHops' /\ FaceKnowsNeighbours'
  OBVIOUS
<1> USE DEF IInv
<1>1. CASE \/ Loss
           \/ \E n, p \in Node : ConnectInterface(n, p)
  <2>1. UNCHANGED <<greedy, local, face>>
    BY <1>1 DEF Loss, ConnectInterface
  <2> QED
    BY <2>1 DEF NextHopKnowsBetter, KnowsBetter, LocalKnowsTwoHops, FaceKnowsNeighbours
<1>2. ASSUME NEW m \in net, Delivery(m)
      PROVE  NextHopKnowsBetter' /\ LocalKnowsTwoHops' /\ FaceKnowsNeighbours'
  <2>1. /\ m.to \in Node /\ m.from \in Node /\ m.src \in Node
        /\ m.hops \in Nat /\ m.hops # 0
    BY AdvertFields
  <2>2. /\ m.intact /\ m.loc = m.src
        /\ <<m.from, m.to>> \in Linked /\ <<m.to, m.from>> \in Linked
        /\ m.hops = 1 => m.src = m.from
        /\ m.hops = 2 => <<m.from, m.src>> \in Linked
    BY <2>1, NetworkAssumption DEF AdvertOK
  <2>3. NextHopKnowsBetter'
    <3> SUFFICES ASSUME NEW n \in Node, NEW e \in greedy'[n]
                 PROVE  KnowsBetter(e.iface, e.target)'
      BY DEF NextHopKnowsBetter
    <3>1. CASE e \in greedy[n]
      <4>1. e.iface \in Node /\ KnowsBetter(e.iface, e.target)
        BY <3>1 DEF NextHopKnowsBetter, TypeOK, Entry
      <4> QED
        BY <4>1, GreedyGrows
    <3>2. CASE e \notin greedy[n]
      <4>1. e = NewEntry(m)
        <5>1. /\ DOMAIN greedy = Node
              /\ greedy' = [greedy EXCEPT ![m.to] =
                   IF IsGoodSuggestion(m) THEN greedy[m.to] \cup {NewEntry(m)}
                   ELSE greedy[m.to]]
          BY <1>2, GreedyAfter DEF TypeOK
        <5>2. greedy'[n] \subseteq greedy[n] \cup {NewEntry(m)}
          BY <2>1, <5>1
        <5> QED
          BY <3>2, <5>2
      <4>2. e.iface = m.from /\ e.target = m.loc
        BY <4>1 DEF NewEntry
      <4>3. KnowsBetter(m.from, m.loc)
        BY DEF AdvertOK
      <4> QED
        BY <2>1, <4>2, <4>3, GreedyGrows
    <3> QED
      BY <3>1, <3>2
  <2>4. LocalKnowsTwoHops'
    <3>1. local' = IF m.hops < 3 THEN [local EXCEPT ![m.to][m.src] = m.from] ELSE local
      BY <1>2, <2>2 DEF Delivery, ProcessRoutingSuggestion
    <3>2. m.hops < 3 => m.hops = 1 \/ m.hops = 2
      BY <2>1
    <3>3. ASSUME NEW n \in Node, NEW d \in Node
          PROVE  \/ local'[n][d] = local[n][d]
                 \/ n = m.to /\ d = m.src /\ local'[n][d] = m.from /\ m.hops < 3
      BY <2>1, <3>1 DEF TypeOK
    <3> QED
      BY <2>2, <3>2, <3>3 DEF LocalKnowsTwoHops
  <2>5. FaceKnowsNeighbours'
    <3> DEFINE entry == [iface |-> m.from, heading |-> Heading[m.to, m.loc], loc |-> m.loc]
    <3>1. face' = IF m.hops = 1
                  THEN [face EXCEPT ![m.to] = InsertDirection(face[m.to], entry)]
                  ELSE face
      BY <1>2, <2>2 DEF Delivery, ProcessRoutingSuggestion
    <3>2. ASSUME NEW n \in Node, face'[n] # face[n]
          PROVE  /\ n = m.to /\ m.hops = 1
                 /\ face'[n] = face[n] \cup {entry}
                 /\ \A e \in face[n] : e.heading # entry.heading
      BY <2>1, <3>1, <3>2 DEF InsertDirection, TypeOK
    <3>3. entry.loc = m.loc /\ entry.iface = m.from
      OBVIOUS
    <3> HIDE DEF entry
    <3> SUFFICES ASSUME NEW n \in Node, NEW e \in face'[n], NEW f \in face'[n]
                 PROVE  /\ e.loc = e.iface /\ <<n, e.iface>> \in Linked
                        /\ e.heading = f.heading => e = f
      BY DEF FaceKnowsNeighbours
    <3>4. CASE face'[n] = face[n]
      BY <3>4 DEF FaceKnowsNeighbours
    <3>5. CASE face'[n] # face[n]
      <4>1. /\ n = m.to /\ m.hops = 1
            /\ e \in face[n] \/ e = entry
            /\ f \in face[n] \/ f = entry
            /\ \A g \in face[n] : g.heading # entry.heading
        BY <3>2, <3>5
      <4>2. entry.loc = entry.iface /\ <<n, entry.iface>> \in Linked
        BY <2>2, <3>3, <4>1
      <4> QED
        BY <4>1, <4>2 DEF FaceKnowsNeighbours
    <3> QED
      BY <3>4, <3>5
  <2> QED
    BY <2>3, <2>4, <2>5
<1> QED
  BY <1>1, <1>2 DEF LossyNext

LEMMA IInvInit == Init => IInv
<1> SUFFICES ASSUME Init PROVE IInv
  OBVIOUS
<1>1. TypeOK
  BY DEF Init, TypeOK
<1> QED
  BY <1>1 DEF Init, IInv, NextHopKnowsBetter, LocalKnowsTwoHops, FaceKnowsNeighbours

\* Interfaces are ends of links.
LEMMA InterfacesLinked ==
    ASSUME TypeOK, LossyNext, \A n \in Node : \A p \in ifaces[n] : <<n, p>> \in Linked
    PROVE  (\A n \in Node : \A p \in ifaces[n] : <<n, p>> \in Linked)'
<1>1. ASSUME NEW n \in Node, NEW p \in Node, ConnectInterface(n, p)
      PROVE  (\A i \in Node : \A j \in ifaces[i] : <<i, j>> \in Linked)'
  BY <1>1 DEF ConnectInterface, TypeOK
<1>2. CASE UNCHANGED ifaces
  BY <1>2
<1> QED
  BY <1>1, <1>2 DEF LossyNext, Delivery, Loss

LEMMA IInvStep == IInv /\ LossyNext => IInv'
<1> SUFFICES ASSUME IInv, LossyNext PROVE IInv'
  OBVIOUS
<1>1. TypeOK'
  BY TypeStep DEF IInv
<1>2. (\A n \in Node : \A p \in ifaces[n] : <<n, p>> \in Linked)'
  BY InterfacesLinked DEF IInv
<1> QED
  BY <1>1, <1>2, AdvertsStep, TablesStep DEF IInv

THEOREM IInvCorrect == Spec => []IInv
<1> QED
  BY IInvInit, IInvStep, StepsAreLossy, PTL DEF Spec

------------------------------------------------------------------------------

\* The variables keep their types in every reachable state.
THEOREM TypeCorrect == Spec => []TypeOK
<1>1. IInv => TypeOK
  BY DEF IInv
<1> QED
  BY <1>1, IInvCorrect, PTL

\* Router::handleMessage needs no time to live to end the flood of an advert: beyond
\* three hops each hop is paid for by a node that had not accepted the location.
THEOREM FloodBounded == Spec => []HopBound
<1>1. IInv => HopBound
  BY DEF IInv, AdvertOK, HopBound
<1> QED
  BY <1>1, IInvCorrect, PTL

\* Every greedy entry leads to its target or to a node that holds a nearer entry.
THEOREM GreedyEntryLeadsOn == Spec => []NextHopKnowsBetter
<1>1. IInv => NextHopKnowsBetter
  BY DEF IInv
<1> QED
  BY <1>1, IInvCorrect, PTL

\* The local and the face routing table describe the direct neighbourhood.
THEOREM NeighbourhoodCorrect == Spec => [](LocalKnowsTwoHops /\ FaceKnowsNeighbours)
<1>1. IInv => LocalKnowsTwoHops /\ FaceKnowsNeighbours
  BY DEF IInv
<1> QED
  BY <1>1, IInvCorrect, PTL

------------------------------------------------------------------------------

\* In a network without triangles, an advert on its second hop was sent by a node
\* with a direct route to the source, and direct routes stay.
LeadInv ==
    /\ \A m \in net : m.hops = 2 => local[m.from][m.src] = m.src
    /\ LocalRoutesLead

\* The one entry of the local tables that a delivery may change.
LEMMA LocalAfter ==
    ASSUME IInv, NEW m \in net, Delivery(m), NEW n \in Node, NEW d \in Node
    PROVE  local'[n][d] = IF m.hops < 3 /\ n = m.to /\ d = m.src
                          THEN m.from ELSE local[n][d]
<1>1. m.intact /\ m.to \in Node /\ m.src \in Node
  BY AdvertFields DEF IInv, AdvertOK
<1>2. local' = IF m.hops < 3 THEN [local EXCEPT ![m.to][m.src] = m.from] ELSE local
  BY <1>1 DEF Delivery, ProcessRoutingSuggestion
<1> QED
  BY <1>1, <1>2 DEF IInv, TypeOK

\* A direct route is only ever replaced by itself.
LEMMA DirectRouteStays ==
    ASSUME TriangleFree, IInv, LossyNext, NEW n \in Node, NEW d \in Node,
           local[n][d] = d
    PROVE  local'[n][d] = d
<1>1. ASSUME NEW m \in net, Delivery(m)
      PROVE  local'[n][d] = d
  <2>1. CASE m.hops < 3 /\ n = m.to /\ d = m.src
    <3>1. /\ m.hops = 1 \/ m.hops = 2
          /\ m.from \in Node
      BY <2>1, AdvertFields DEF IInv
    <3>2. CASE m.hops = 1
      BY <1>1, <2>1, <3>2, LocalAfter DEF IInv, AdvertOK
    <3>3. CASE m.hops = 2
      <4>1. <<n, d>> \in Linked
        BY NetworkAssumption DEF IInv, LocalKnowsTwoHops
      <4>2. <<m.from, n>> \in Linked /\ <<m.from, d>> \in Linked
        BY <2>1, <3>3 DEF IInv, AdvertOK
      <4>3. <<d, m.from>> \in Linked
        BY <3>1, <4>2, NetworkAssumption
      <4> QED
        BY <3>1, <4>1, <4>2, <4>3 DEF TriangleFree
    <3> QED
      BY <3>1, <3>2, <3>3
  <2>2. CASE ~ (m.hops < 3 /\ n = m.to /\ d = m.src)
    BY <1>1, <2>2, LocalAfter
  <2> QED
    BY <2>1, <2>2
<1>2. CASE UNCHANGED local
  BY <1>2
<1> QED
  BY <1>1, <1>2 DEF LossyNext, ConnectInterface, Loss

LEMMA LeadStep ==
    ASSUME TriangleFree, IInv, LeadInv, LossyNext
    PROVE  LeadInv'
<1>1. ASSUME NEW q \in net', q.hops = 2
      PROVE  local'[q.from][q.src] = q.src
  <2>1. CASE q \in net
    <3>1. q.from \in Node /\ q.src \in Node /\ local[q.from][q.src] = q.src
      BY <1>1, <2>1, AdvertFields DEF IInv, LeadInv
    <3> QED
      BY <3>1, DirectRouteStays
  <2>2. ASSUME NEW m \in net, Delivery(m), q \notin net
        PROVE  local'[q.from][q.src] = q.src
    <3>1. /\ q.from = m.to /\ q.src = m.src
          /\ m.to \in Node /\ m.src \in Node
          /\ m.hops = 1
      <4>1. q \in PassedOn(m) /\ (IsGoodSuggestion(m) \/ m.hops < 3)
        BY <2>2 DEF Delivery
      <4>2. q.hops = m.hops + 1
        BY <2>2, <4>1, PassedOnIs, HopsPassedOn DEF IInv, AdvertOK
      <4> QED
        BY <1>1, <4>1, <4>2, PassedOnIs, AdvertFields DEF IInv
    <3>2. m.src = m.from
      BY <3>1 DEF IInv, AdvertOK
    <3> QED
      BY <2>2, <3>1, <3>2, LocalAfter
  <2>3. ASSUME NEW n \in Node, NEW p \in Node, ConnectInterface(n, p), q \notin net
        PROVE  FALSE
    BY <1>1, <2>3 DEF ConnectInterface, LocationInfo
  <2>4. CASE Loss
    BY <2>1, <2>4 DEF Loss
  <2> QED
    BY <2>1, <2>2, <2>3, <2>4 DEF LossyNext
<1>2. ASSUME NEW n \in Node, NEW d \in Node, local'[n][d] # NoIface
      PROVE  local'[n][d] = d \/ local'[local'[n][d]][d] = d
  <2>1. CASE local'[n][d] = local[n][d]
    <3>1. local[n][d] \in Node
      BY <1>2, <2>1 DEF IInv, TypeOK
    <3>2. local[n][d] = d \/ local[local[n][d]][d] = d
      BY <1>2, <2>1 DEF LeadInv, LocalRoutesLead
    <3> QED
      BY <2>1, <3>1, <3>2, DirectRouteStays
  <2>2. ASSUME NEW m \in net, Delivery(m), local'[n][d] # local[n][d]
        PROVE  local'[n][d] = d \/ local'[local'[n][d]][d] = d
    <3>1. m.hops < 3 /\ d = m.src /\ local'[n][d] = m.from
      BY <2>2, LocalAfter
    <3>2. m.from \in Node /\ (m.hops = 1 \/ m.hops = 2)
      BY <3>1, AdvertFields DEF IInv
    <3>3. m.hops = 1 => m.from = d
      BY <3>1 DEF IInv, AdvertOK
    <3>4. m.hops = 2 => local[m.from][d] = d
      BY <3>1 DEF LeadInv
    <3> QED
      BY <3>1, <3>2, <3>3, <3>4, DirectRouteStays
  <2> QED
    BY <2>1, <2>2 DEF LossyNext, ConnectInterface, Loss
<1> QED
  BY <1>1, <1>2 DEF LeadInv, LocalRoutesLead

\* In every network without triangles the local routing table is free of loops: it
\* leads to the destination in at most two hops.
THEOREM LocalRoutingLeads == Spec => []LocalRoutesLead
<1>1. CASE ~ TriangleFree
  <2>1. LocalRoutesLead
    BY <1>1 DEF LocalRoutesLead
  <2> QED
    BY <2>1, PTL
<1>2. CASE TriangleFree
  <2>1. Init => LeadInv
    BY DEF Init, LeadInv, LocalRoutesLead
  <2>2. IInv /\ LeadInv /\ LossyNext => LeadInv'
    BY <1>2, LeadStep
  <2>3. LeadInv => LocalRoutesLead
    BY DEF LeadInv
  <2> QED
    BY <2>1, <2>2, <2>3, IInvCorrect, StepsAreLossy, PTL DEF Spec
<1> QED
  BY <1>1, <1>2

------------------------------------------------------------------------------
(* Links that damage adverts.                                              *)

\* What is left of AdvertOK: an advert with a right check sum has a bounded number of hops,
\* also if it was damaged before, and while it is young its sender has a reason to send it.
\* Nothing is known of what a damaged advert says.
AdvertSound(m) ==
    /\ <<m.from, m.to>> \in Linked
    /\ m.intact =>
         /\ m.hops \in 1 .. Cardinality(Accepted(m.loc)) + 3
         /\ m.hops = 1 => Announces(m.from, m.src) /\ AnnouncesAt(m.from, m.loc)
         /\ m.hops = 2 => Relays(m.from, m.src)

DamageInv ==
    /\ TypeOK
    /\ \A n \in Node : \A p \in ifaces[n] : <<n, p>> \in Linked
    /\ \A m \in net : AdvertSound(m)
    /\ LocalWithinTwoHops
    /\ FaceFromNeighbours

\* Every step leaves the adverts where they may be delivered again, the damaged ones too.
LEMMA StepsKeepAdverts ==
    DamageNext => net \subseteq net' /\ (LossyNext \/ \E m \in net : Damage(m))
<1>1. ASSUME Next PROVE net \subseteq net' /\ LossyNext
  <2>1. net \subseteq net'
    BY <1>1 DEF Next, ConnectInterface, Receive, HandleLocationInfo
  <2>2. LossyNext
    BY <1>1, StepsAreLossy
  <2> QED
    BY <2>1, <2>2
<1>2. ASSUME NEW m \in net, Damage(m) PROVE net \subseteq net'
  BY <1>2 DEF Damage
<1> QED
  BY <1>1, <1>2 DEF DamageNext

\* A reason to send an advert stays one.
LEMMA ReasonsStay ==
    ASSUME net \subseteq net', NEW n, NEW x
    PROVE  /\ Announces(n, x) => Announces(n, x)'
           /\ AnnouncesAt(n, x) => AnnouncesAt(n, x)'
           /\ Relays(n, x) => Relays(n, x)'
<1>1. \A i, h : Damaged(i, h) \subseteq Damaged(i, h)'
  BY DEF Damaged
<1>2. \A i : Announces(i, x) => Announces(i, x)'
  BY <1>1 DEF Announces
<1>3. AnnouncesAt(n, x) => AnnouncesAt(n, x)'
  BY <1>1 DEF AnnouncesAt
<1>4. Relays(n, x) => Relays(n, x)'
  BY <1>1, <1>2 DEF Relays
<1> QED
  BY <1>2, <1>3, <1>4

LEMMA SoundFields ==
    ASSUME DamageInv, NEW m \in net
    PROVE  /\ m \in Advert /\ m.to \in Node /\ m.from \in Node /\ m.src \in Node
           /\ m.loc \in Location /\ m.hops \in Nat /\ m.intact \in BOOLEAN
           /\ <<m.from, m.to>> \in Linked /\ <<m.to, m.from>> \in Linked
<1>1. m \in Advert /\ <<m.from, m.to>> \in Linked
  BY DEF DamageInv, TypeOK, AdvertSound
<1>2. m.to \in Node /\ m.from \in Node /\ m.src \in Node /\ m.loc \in Location
      /\ m.intact \in BOOLEAN
  BY <1>1 DEF Advert
<1>3. m.hops \in Nat
  BY <1>1, HopAssumption DEF Advert
<1> QED
  BY <1>1, <1>2, <1>3, NetworkAssumption

\* An advert that is passed on counts one hop more, and not too many, damaged or not.
LEMMA SoundHops ==
    ASSUME DamageInv, NEW m \in net, Delivery(m), IsGoodSuggestion(m) \/ m.hops < 3
    PROVE  /\ (m.hops + 1) % HopModulus = m.hops + 1
           /\ m.hops + 1 \in 1 .. Cardinality(Accepted(m.loc)') + 3
<1>1. CASE m.intact
  <2>1. m.hops \in 1 .. Cardinality(Accepted(m.loc)) + 3
    BY <1>1 DEF DamageInv, AdvertSound
  <2> QED
    BY <1>1, <2>1, HopsPassedOn DEF DamageInv
<1>2. CASE ~m.intact
  <2>1. m.hops < 3 /\ m.hops \in Nat
    BY <1>2, SoundFields DEF IsGoodSuggestion
  <2>2. Accepted(m.loc)' \subseteq Node
    BY DEF Accepted
  <2>3. PICK c \in Nat : c = Cardinality(Accepted(m.loc)')
    BY <2>2, NetworkAssumption, FS_Subset, FS_CardinalityType
  <2>4. HopModulus \in Nat /\ HopModulus > 4
    BY NetworkAssumption, FS_CardinalityType, HopAssumption
  <2>5. (m.hops + 1) % HopModulus = m.hops + 1
    BY <2>1, <2>4
  <2>6. m.hops + 1 \in 1 .. c + 3
    BY <2>1, <2>3
  <2> QED
    BY <2>3, <2>5, <2>6
<1> QED
  BY <1>1, <1>2, SoundFields

LEMMA SoundStays ==
    ASSUME TypeOK, net \subseteq net', LossyNext \/ UNCHANGED greedy,
           NEW m \in Advert, AdvertSound(m)
    PROVE  AdvertSound(m)'
<1>1. Accepted(m.loc) \subseteq Accepted(m.loc)' /\ Accepted(m.loc)' \subseteq Node
  BY GreedyGrows DEF Accepted
<1>2. Cardinality(Accepted(m.loc)) <= Cardinality(Accepted(m.loc)')
  BY <1>1, NetworkAssumption, FS_Subset
<1>3. /\ Cardinality(Accepted(m.loc)) \in Nat
      /\ Cardinality(Accepted(m.loc)') \in Nat
  BY <1>1, AcceptedFinite, NetworkAssumption, FS_Subset, FS_CardinalityType
<1>4. m.intact => m.hops \in 1 .. Cardinality(Accepted(m.loc)') + 3
  BY <1>2, <1>3 DEF AdvertSound
<1> QED
  BY <1>4, ReasonsStay DEF AdvertSound

\* What a router passes on it has a reason for.
LEMMA SoundStep ==
    ASSUME DamageInv, LossyNext, net \subseteq net', NEW q \in net'
    PROVE  AdvertSound(q)'
<1> USE DEF DamageInv
<1>1. CASE q \in net
  BY <1>1, SoundStays DEF TypeOK
<1>2. ASSUME NEW n \in Node, NEW p \in Node, ConnectInterface(n, p), q \notin net
      PROVE  AdvertSound(q)'
  <2>1. q = LocationInfo(n, p) /\ <<n, p>> \in Linked
    BY <1>2 DEF ConnectInterface
  <2>2. Accepted(n)' \subseteq Node
    BY DEF Accepted
  <2>3. Cardinality(Accepted(n)') \in Nat
    BY <2>2, NetworkAssumption, FS_Subset, FS_CardinalityType
  <2>4. 1 \in 1 .. Cardinality(Accepted(n)') + 3
    BY <2>3
  <2>5. Announces(n, n)' /\ AnnouncesAt(n, n)'
    BY DEF Announces, AnnouncesAt
  <2> QED
    BY <2>1, <2>4, <2>5 DEF LocationInfo, AdvertSound
<1>3. ASSUME NEW m \in net, Delivery(m), q \notin net
      PROVE  AdvertSound(q)'
  <2>1. q \in PassedOn(m) /\ (IsGoodSuggestion(m) \/ m.hops < 3)
    BY <1>3 DEF Delivery
  <2>2. /\ q.from = m.to /\ q.to \in ifaces[m.to]
        /\ q.src = m.src /\ q.loc = m.loc
        /\ q.hops = (m.hops + 1) % HopModulus
    BY <2>1, PassedOnIs
  <2>3. q.hops = m.hops + 1 /\ q.hops \in 1 .. Cardinality(Accepted(q.loc)') + 3
    BY <1>3, <2>1, <2>2, SoundHops
  <2>4. /\ m.to \in Node /\ m.from \in Node /\ m.hops \in Nat /\ m.intact \in BOOLEAN
        /\ <<m.from, m.to>> \in Linked
    BY SoundFields
  <2>5. <<q.from, q.to>> \in Linked
    BY <2>2, <2>4
  <2>6. CASE m.intact
    <3>1. m.hops \in 1 .. Cardinality(Accepted(m.loc)) + 3 /\ m.hops # 0
      BY <2>4, <2>6 DEF AdvertSound
    <3>2. q.hops # 1 /\ (q.hops = 2 => m.hops = 1)
      BY <2>3, <2>4, <3>1
    <3>3. q.hops = 2 => Relays(q.from, q.src)
      BY <2>2, <2>4, <2>6, <3>2 DEF AdvertSound, Relays
    <3> QED
      BY <2>3, <2>5, <3>2, <3>3, ReasonsStay DEF AdvertSound
  <2>7. CASE ~m.intact
    <3>1. m \in Damaged(m.to, m.hops)
      BY <2>7 DEF Damaged
    <3>2. q.hops = 1 => m.hops = 0
      BY <2>3, <2>4
    <3>3. q.hops = 2 => m.hops = 1
      BY <2>3, <2>4
    <3>4. q.hops = 1 => Announces(q.from, q.src) /\ AnnouncesAt(q.from, q.loc)
      BY <2>2, <3>1, <3>2 DEF Announces, AnnouncesAt
    <3>5. q.hops = 2 => Relays(q.from, q.src)
      BY <2>2, <3>1, <3>3 DEF Relays
    <3> QED
      BY <2>3, <2>5, <3>4, <3>5, ReasonsStay DEF AdvertSound
  <2> QED
    BY <2>4, <2>6, <2>7
<1>4. CASE Loss
  BY <1>1, <1>4 DEF Loss
<1> QED
  BY <1>1, <1>2, <1>3, <1>4 DEF LossyNext

\* As long as no table changes, the tables have the reasons they had.
LEMMA NeighbourhoodStays ==
    ASSUME DamageInv, net \subseteq net', UNCHANGED <<local, face>>
    PROVE  LocalWithinTwoHops' /\ FaceFromNeighbours'
<1>1. LocalWithinTwoHops'
  BY ReasonsStay DEF DamageInv, LocalWithinTwoHops
<1>2. FaceFromNeighbours'
  BY ReasonsStay DEF DamageInv, FaceFromNeighbours
<1> QED
  BY <1>1, <1>2

\* The tables of the neighbourhood take nothing from a damaged advert, and from one with a
\* right check sum only what its sender has a reason for.
LEMMA NeighbourhoodStep ==
    ASSUME DamageInv, LossyNext, net \subseteq net'
    PROVE  LocalWithinTwoHops' /\ FaceFromNeighbours'
<1> USE DEF DamageInv
<1>1. CASE \/ Loss
           \/ \E n, p \in Node : ConnectInterface(n, p)
  <2>1. UNCHANGED <<local, face>>
    BY <1>1 DEF Loss, ConnectInterface
  <2> QED
    BY <2>1, NeighbourhoodStays
<1>2. ASSUME NEW m \in net, Delivery(m)
      PROVE  LocalWithinTwoHops' /\ FaceFromNeighbours'
  <2>1. /\ m.to \in Node /\ m.from \in Node /\ m.src \in Node
        /\ m.hops \in Nat /\ <<m.to, m.from>> \in Linked
    BY SoundFields
  <2>2. m.intact =>
          /\ m.hops # 0
          /\ m.hops = 1 => Announces(m.from, m.src)' /\ AnnouncesAt(m.from, m.loc)'
          /\ m.hops = 2 => Relays(m.from, m.src)'
    <3>1. m.intact =>
            /\ m.hops \in 1 .. Cardinality(Accepted(m.loc)) + 3
            /\ m.hops = 1 => Announces(m.from, m.src) /\ AnnouncesAt(m.from, m.loc)
            /\ m.hops = 2 => Relays(m.from, m.src)
      BY DEF AdvertSound
    <3>2. Cardinality(Accepted(m.loc)) + 3 \in Nat
      BY AcceptedFinite
    <3>3. m.intact => m.hops # 0
      BY <3>1, <3>2
    <3>4. Announces(m.from, m.src) => Announces(m.from, m.src)'
      BY ReasonsStay
    <3>5. AnnouncesAt(m.from, m.loc) => AnnouncesAt(m.from, m.loc)'
      BY ReasonsStay
    <3>6. Relays(m.from, m.src) => Relays(m.from, m.src)'
      BY ReasonsStay
    <3> QED
      BY <3>1, <3>3, <3>4, <3>5, <3>6
  <2>3. LocalWithinTwoHops'
    <3>1. local' = IF m.intact /\ m.hops < 3
                   THEN [local EXCEPT ![m.to][m.src] = m.from] ELSE local
      BY <1>2 DEF Delivery, ProcessRoutingSuggestion
    <3>2. m.intact /\ m.hops < 3 => m.hops = 1 \/ m.hops = 2
      BY <2>1, <2>2
    <3>3. ASSUME NEW n \in Node, NEW d \in Node
          PROVE  \/ local'[n][d] = local[n][d]
                 \/ /\ n = m.to /\ d = m.src /\ local'[n][d] = m.from
                    /\ m.intact /\ m.hops < 3
      BY <2>1, <3>1 DEF TypeOK
    <3> SUFFICES ASSUME NEW n \in Node, NEW d \in Node, NEW p, p = local'[n][d], p # NoIface
                 PROVE  <<n, p>> \in Linked /\ (Announces(p, d)' \/ Relays(p, d)')
      BY DEF LocalWithinTwoHops
    <3>4. CASE local'[n][d] = local[n][d]
      <4>1. <<n, p>> \in Linked /\ (Announces(p, d) \/ Relays(p, d))
        BY <3>4 DEF LocalWithinTwoHops
      <4> QED
        BY <4>1, ReasonsStay
    <3>5. CASE local'[n][d] # local[n][d]
      <4>1. n = m.to /\ d = m.src /\ p = m.from /\ m.intact /\ m.hops < 3
        BY <3>3, <3>5
      <4> QED
        BY <2>1, <2>2, <3>2, <4>1
    <3> QED
      BY <3>4, <3>5
  <2>4. FaceFromNeighbours'
    <3> DEFINE entry == [iface |-> m.from, heading |-> Heading[m.to, m.loc], loc |-> m.loc]
    <3>1. face' = IF m.intact /\ m.hops = 1
                  THEN [face EXCEPT ![m.to] = InsertDirection(face[m.to], entry)]
                  ELSE face
      BY <1>2 DEF Delivery, ProcessRoutingSuggestion
    <3>2. ASSUME NEW n \in Node, face'[n] # face[n]
          PROVE  /\ n = m.to /\ m.intact /\ m.hops = 1
                 /\ face'[n] = face[n] \cup {entry}
                 /\ \A e \in face[n] : e.heading # entry.heading
      BY <2>1, <3>1, <3>2 DEF InsertDirection, TypeOK
    <3>3. entry.loc = m.loc /\ entry.iface = m.from
      OBVIOUS
    <3> HIDE DEF entry
    <3>4. ASSUME NEW n \in Node, NEW e \in face[n]
          PROVE  <<n, e.iface>> \in Linked /\ AnnouncesAt(e.iface, e.loc)'
      <4>1. <<n, e.iface>> \in Linked /\ AnnouncesAt(e.iface, e.loc)
        BY <3>4 DEF FaceFromNeighbours
      <4> QED
        BY <4>1, ReasonsStay
    <3> SUFFICES ASSUME NEW n \in Node, NEW e \in face'[n], NEW f \in face'[n]
                 PROVE  /\ <<n, e.iface>> \in Linked
                        /\ AnnouncesAt(e.iface, e.loc)'
                        /\ e.heading = f.heading => e = f
      BY DEF FaceFromNeighbours
    <3>5. CASE face'[n] = face[n]
      BY <3>4, <3>5 DEF FaceFromNeighbours
    <3>6. CASE face'[n] # face[n]
      <4>1. /\ n = m.to /\ m.intact /\ m.hops = 1
            /\ e \in face[n] \/ e = entry
            /\ f \in face[n] \/ f = entry
            /\ \A g \in face[n] : g.heading # entry.heading
        BY <3>2, <3>6
      <4>2. <<n, entry.iface>> \in Linked /\ AnnouncesAt(entry.iface, entry.loc)'
        BY <2>1, <2>2, <3>3, <4>1
      <4>3. e.heading = f.heading => e = f
        BY <4>1 DEF FaceFromNeighbours
      <4> QED
        BY <3>4, <4>1, <4>2, <4>3
    <3> QED
      BY <3>5, <3>6
  <2> QED
    BY <2>3, <2>4
<1> QED
  BY <1>1, <1>2 DEF LossyNext

\* Damage changes an advert on a link and nothing else.
LEMMA DamageStep ==
    ASSUME DamageInv, NEW m \in net, Damage(m)
    PROVE  DamageInv'
<1>1. PICK r \in Damages :
        net' = net \cup {[m EXCEPT !.src = r.src, !.loc = r.loc, !.hops = r.hops,
                                   !.intact = FALSE]}
  BY DEF Damage
<1>2. UNCHANGED <<ifaces, greedy, local, face>>
  BY DEF Damage
<1>3. PICK q : q = [m EXCEPT !.src = r.src, !.loc = r.loc, !.hops = r.hops, !.intact = FALSE]
  OBVIOUS
<1>4. m \in Advert /\ AdvertSound(m)
  BY DEF DamageInv, TypeOK
<1>5. r.src \in Node /\ r.loc \in Location /\ r.hops \in 0 .. HopModulus - 1
  BY DamageAssumption
<1>6. q \in Advert /\ q.from = m.from /\ q.to = m.to /\ q.intact = FALSE
  BY <1>3, <1>4, <1>5 DEF Advert
<1>7. TypeOK'
  BY <1>1, <1>2, <1>3, <1>6 DEF DamageInv, TypeOK
<1>8. ASSUME NEW k \in net'
      PROVE  AdvertSound(k)'
  <2>1. CASE k \in net
    <3>1. k \in Advert /\ AdvertSound(k)
      BY <2>1 DEF DamageInv, TypeOK
    <3> QED
      BY <1>1, <1>2, <3>1, SoundStays DEF DamageInv
  <2>2. CASE k = q
    BY <1>4, <1>6, <2>2 DEF AdvertSound
  <2> QED
    BY <1>1, <1>3, <2>1, <2>2
<1>9. LocalWithinTwoHops' /\ FaceFromNeighbours'
  BY <1>1, <1>2, NeighbourhoodStays
<1>10. (\A n \in Node : \A p \in ifaces[n] : <<n, p>> \in Linked)'
  BY <1>2 DEF DamageInv
<1> QED
  BY <1>7, <1>8, <1>9, <1>10 DEF DamageInv

LEMMA DamageInvCorrect == DamageSpec => []DamageInv
<1>1. Init => DamageInv
  <2> SUFFICES ASSUME Init PROVE DamageInv
    OBVIOUS
  <2>1. TypeOK
    BY DEF Init, TypeOK
  <2> QED
    BY <2>1 DEF Init, DamageInv, LocalWithinTwoHops, FaceFromNeighbours
<1>2. DamageInv /\ [DamageNext]_vars => DamageInv'
  <2> SUFFICES ASSUME DamageInv, [DamageNext]_vars PROVE DamageInv'
    OBVIOUS
  <2>1. CASE LossyNext /\ net \subseteq net'
    <3>1. TypeOK'
      BY <2>1, TypeStep DEF DamageInv
    <3>2. (\A n \in Node : \A p \in ifaces[n] : <<n, p>> \in Linked)'
      BY <2>1, InterfacesLinked DEF DamageInv
    <3> QED
      BY <2>1, <3>1, <3>2, SoundStep, NeighbourhoodStep DEF DamageInv
  <2>2. CASE UNCHANGED vars
    BY <2>1, <2>2 DEF vars, LossyNext, Loss
  <2> QED
    BY <2>1, <2>2, StepsKeepAdverts, DamageStep
<1> QED
  BY <1>1, <1>2, PTL DEF DamageSpec

\* Damage to any adverts, of source, location, hop count or check sum, misleads local tables
\* only where an advert that claims to be less than two hops old got a new check sum, and
\* no further than two hops from there.
THEOREM LocalDespiteDamage == DamageSpec => []LocalWithinTwoHops
<1>1. DamageInv => LocalWithinTwoHops
  BY DEF DamageInv
<1> QED
  BY <1>1, DamageInvCorrect, PTL

\* The same damage misleads face tables only about a neighbour that gave a new check sum to an
\* advert with a hop count of zero.
THEOREM FaceDespiteDamage == DamageSpec => []FaceFromNeighbours
<1>1. DamageInv => FaceFromNeighbours
  BY DEF DamageInv
<1> QED
  BY <1>1, DamageInvCorrect, PTL

\* What HopBound says of adverts with a right check sum.
IntactHopBound ==
    \A m \in net : m.intact => m.hops \in 1 .. Cardinality(Accepted(m.loc)) + 3

\* The flood also ends when links damage adverts: a damaged advert is passed on only as long
\* as its hop count is young, and what comes of it is bounded like every other.
THEOREM FloodBoundedDamaged == DamageSpec => []IntactHopBound
<1>1. DamageInv => IntactHopBound
  BY DEF DamageInv, AdvertSound, IntactHopBound
<1> QED
  BY <1>1, DamageInvCorrect, PTL

------------------------------------------------------------------------------

\* A delivery changes the tables of its receiver only, and takes nothing out of them.
LEMMA TablesGrow ==
    ASSUME TypeOK, LossyNext, NEW n \in Node
    PROVE  /\ greedy[n] \subseteq greedy'[n]
           /\ face[n] \subseteq face'[n]
           /\ \A d \in Node : local[n][d] # NoIface => local'[n][d] # NoIface
<1>1. greedy[n] \subseteq greedy'[n]
  BY GreedyGrows
<1>2. ASSUME NEW m \in net, Delivery(m)
      PROVE  /\ face[n] \subseteq face'[n]
             /\ \A d \in Node : local[n][d] # NoIface => local'[n][d] # NoIface
  <2>1. m.to \in Node /\ m.from \in Node /\ m.src \in Node /\ m.from # NoIface
    BY NetworkAssumption DEF TypeOK, Advert
  <2>2. \/ local' = local
        \/ local' = [local EXCEPT ![m.to][m.src] = m.from]
    BY <1>2 DEF Delivery, ProcessRoutingSuggestion
  <2>3. \A d \in Node : local[n][d] # NoIface => local'[n][d] # NoIface
    BY <2>1, <2>2 DEF TypeOK
  <2>4. PICK entry : \/ face' = face
                     \/ face' = [face EXCEPT ![m.to] = InsertDirection(face[m.to], entry)]
    BY <1>2 DEF Delivery, ProcessRoutingSuggestion
  <2>5. face[m.to] \subseteq InsertDirection(face[m.to], entry)
    BY DEF InsertDirection
  <2>6. face[n] \subseteq face'[n]
    BY <2>1, <2>4, <2>5 DEF TypeOK
  <2> QED
    BY <2>3, <2>6
<1>3. CASE UNCHANGED <<local, face>>
  BY <1>1, <1>3
<1>4. ASSUME NEW q \in Node, NEW p \in Node, ConnectInterface(q, p)
      PROVE  UNCHANGED <<local, face>>
  BY <1>4 DEF ConnectInterface
<1>5. Loss => UNCHANGED <<local, face>>
  BY DEF Loss
<1> QED
  BY <1>1, <1>2, <1>3, <1>4, <1>5 DEF LossyNext

\* What a router has learned it keeps, also where links damage adverts.
THEOREM TablesKept == DamageSpec => TablesOnlyGrow
<1>1. DamageInv /\ [DamageNext]_vars =>
        [\A n \in Node :
            /\ greedy[n] \subseteq greedy'[n]
            /\ face[n] \subseteq face'[n]
            /\ \A d \in Node : local[n][d] # NoIface => local'[n][d] # NoIface]_vars
  <2>1. CASE [Next]_vars
    BY <2>1, StepsAreLossy, TablesGrow DEF DamageInv
  <2>2. CASE \E m \in net : Damage(m)
    BY <2>2 DEF Damage
  <2> QED
    BY <2>1, <2>2 DEF DamageNext
<1> QED
  BY <1>1, DamageInvCorrect, PTL DEF DamageSpec, TablesOnlyGrow

(***************************************************************************)
(* Data packets.                                                           *)
(***************************************************************************)

Connect == (\E n, p \in Node : ConnectInterface(n, p)) /\ UNCHANGED <<flight, fate>>

RouterSpec == Init /\ RouterInit /\ [][Connect \/ RouterNext]_routerVars

\* A packet is in one place: forwarding makes no copies of it and loses none silently.
OnePlace ==
    /\ \A e, f \in flight : e.pkt.id = f.pkt.id => e = f
    /\ \A t \in Traffic : fate[t] = "flying" <=> \E e \in flight : e.pkt.id = t

\* What the shared octet makes of face routing and of queries of the location lookup: see
\* the theorems below.
FaceRoutingStops ==
    ModeOctet = HEADER_MESSAGE_TYPE =>
        \A e \in flight : MessageType(e.pkt) \in {Type[e.pkt.id], MSGTYPE_LOCATION_INFO}

LookupsStayNear ==
    ModeOctet = HEADER_MESSAGE_TYPE =>
        \A e \in flight : Type[e.pkt.id] = MSGTYPE_DHT_FIND_CLOSEST =>
            \/ e.to = Destination[e.pkt.id]
            \/ <<e.to, Destination[e.pkt.id]>> \in Linked

TypesKept ==
    ModeOctet = HEADER_ROUTING_MODE =>
        /\ \A e \in flight : MessageType(e.pkt) = Type[e.pkt.id]
        /\ \A t \in Traffic : fate[t] # "taken for location info"

\* With the shared octet a query keeps its type, which is no routing mode, and only an
\* IPv6 packet, whose type is that of greedy routing, ever starts face routing.
TypeOctet(e) ==
    ModeOctet = HEADER_MESSAGE_TYPE =>
        \/ MessageType(e.pkt) = Type[e.pkt.id]
        \/ Type[e.pkt.id] = MSGTYPE_IPv6 /\ MessageType(e.pkt) = MSGTYPE_LOCATION_INFO

RouterInv ==
    /\ IInv
    /\ flight \in SUBSET [from : Node, to : Node, pkt : Packet]
    /\ fate \in [Traffic -> Fate]
    /\ OnePlace
    /\ \A e \in flight : TypeOctet(e)
    /\ LookupsStayNear
    /\ TypesKept

------------------------------------------------------------------------------
(* Forwarding.                                                             *)

\* The distances that face routing records and searches.
LEMMA RangeNat ==
    ASSUME NEW x \in Nat
    PROVE  x * FACE_ROUTING_RANGE_MULTIPLIER \in Nat
<1> QED
  BY DEF FACE_ROUTING_RANGE_MULTIPLIER

LEMMA DistanceNat ==
    ASSUME NEW n \in Node, NEW d \in Node
    PROVE  Distance[n, d] \in Nat /\ Distance[n, d] * FACE_ROUTING_RANGE_MULTIPLIER \in Nat
<1>1. Distance[n, d] \in Nat
  BY GeometryAssumption, NetworkAssumption
<1>2. Distance[n, d] * FACE_ROUTING_RANGE_MULTIPLIER \in Nat
  BY <1>1, RangeNat, Zenon
<1> QED
  BY <1>1, <1>2, Zenon

\* Setting the routing mode changes one octet of the header.
LEMMA ModeSet ==
    ASSUME NEW p \in Packet, NEW mode \in Octet, NEW q, q = SetRoutingMode(p, mode)
    PROVE  /\ q \in Packet /\ q.id = p.id
           /\ RoutingMode(q) = mode
           /\ ModeOctet = HEADER_ROUTING_MODE => MessageType(q) = MessageType(p)
<1>1. q = [p EXCEPT !.header = [p.header EXCEPT ![ModeOctet] = mode]]
  BY DEF SetRoutingMode
<1>2. p.header \in [{HEADER_MESSAGE_TYPE, HEADER_ROUTING_MODE} -> Octet]
  BY DEF Packet
<1>3. PICK h : h = [p.header EXCEPT ![ModeOctet] = mode]
  OBVIOUS
<1>4. ModeOctet \in {HEADER_MESSAGE_TYPE, HEADER_ROUTING_MODE}
  BY TrafficAssumption
<1>5. /\ h \in [{HEADER_MESSAGE_TYPE, HEADER_ROUTING_MODE} -> Octet]
      /\ h[ModeOctet] = mode
      /\ \A o \in {HEADER_MESSAGE_TYPE, HEADER_ROUTING_MODE} : o # ModeOctet => h[o] = p.header[o]
  BY <1>2, <1>3, <1>4
<1>6. q \in Packet /\ q.id = p.id /\ q.header = h
  BY <1>1, <1>3, <1>5 DEF Packet
<1> QED
  BY <1>5, <1>6 DEF RoutingMode, MessageType, HEADER_MESSAGE_TYPE, HEADER_ROUTING_MODE

\* A hop that carries what became of packet p at node n.
HopOf(n, p, hop) ==
    /\ hop.from = n /\ hop.to \in ifaces[n]
    /\ hop \in [from : Node, to : Node, pkt : Packet]
    /\ hop.pkt.id = p.id
    /\ ModeOctet = HEADER_ROUTING_MODE => MessageType(hop.pkt) = MessageType(p)

\* Whatever interface routing chose, a packet leaves by one that exists.
LEMMA SentIs ==
    ASSUME TypeOK, NEW n \in Node, NEW iface, NEW p \in Packet, NEW hop \in Sent(n, iface, p)
    PROVE  /\ hop = [from |-> n, to |-> iface, pkt |-> p]
           /\ iface \in ifaces[n]
           /\ HopOf(n, p, hop)
<1>1. hop = [from |-> n, to |-> iface, pkt |-> p] /\ iface \in ifaces[n]
  BY DEF Sent
<1>2. iface \in Node
  BY <1>1 DEF TypeOK
<1> QED
  BY <1>1, <1>2 DEF HopOf

\* Face routing sets out in mode FACE_RIGHT.
LEMMA FaceBegun ==
    ASSUME TypeOK, NEW n \in Node, NEW from, NEW p \in Packet,
           NEW hop \in RouteFaceBegin(n, from, p)
    PROVE  HopOf(n, p, hop) /\ RoutingMode(hop.pkt) = ROUTING_FACE_RIGHT
<1>1. ROUTING_FACE_RIGHT \in Octet /\ Destination[p.id] \in Node
  BY TrafficAssumption DEF Octet, ROUTING_FACE_RIGHT, Packet
<1>2. PICK r : r = SetRoutingMode(p, ROUTING_FACE_RIGHT)
  OBVIOUS
<1>3. /\ r \in Packet /\ r.id = p.id
      /\ RoutingMode(r) = ROUTING_FACE_RIGHT
      /\ ModeOctet = HEADER_ROUTING_MODE => MessageType(r) = MessageType(p)
  BY <1>1, <1>2, ModeSet
<1>4. PICK q : q = [r EXCEPT !.closest = Distance[n, Destination[p.id]],
                             !.range = Distance[n, Destination[p.id]]
                                         * FACE_ROUTING_RANGE_MULTIPLIER]
  OBVIOUS
<1>5. q \in Packet /\ q.id = p.id /\ q.header = r.header
  BY <1>1, <1>3, <1>4, DistanceNat DEF Packet
<1>6. PICK iface : hop \in Sent(n, iface, q)
  BY <1>2, <1>4 DEF RouteFaceBegin
<1>7. HopOf(n, q, hop) /\ hop.pkt = q
  BY <1>5, <1>6, SentIs
<1> QED
  BY <1>3, <1>5, <1>7 DEF HopOf, RoutingMode, MessageType

\* Greedy routing sends the packet as it is, or hands it to face routing.
LEMMA GreedyRouted ==
    ASSUME TypeOK, NEW n \in Node, NEW from, NEW p \in Packet,
           NEW hop \in RouteGreedy(n, from, p)
    PROVE  /\ HopOf(n, p, hop)
           /\ hop.pkt = p \/ RoutingMode(hop.pkt) = ROUTING_FACE_RIGHT
<1>1. CASE hop \in RouteFaceBegin(n, from, p)
  BY <1>1, FaceBegun
<1>2. CASE hop \notin RouteFaceBegin(n, from, p)
  <2>1. PICK iface : hop \in Sent(n, iface, p)
    BY <1>2 DEF RouteGreedy
  <2> QED
    BY <2>1, SentIs
<1> QED
  BY <1>1, <1>2

\* Following a face changes mode and range at most.
LEMMA FaceRelayed ==
    ASSUME TypeOK, NEW n \in Node, NEW from, NEW p \in Packet,
           NEW hop \in RouteFaceRelay(n, from, p)
    PROVE  HopOf(n, p, hop)
<1>1. CASE \E iface : hop \in Sent(n, iface, p)
  BY <1>1, SentIs
<1>2. CASE ~ \E iface : hop \in Sent(n, iface, p)
  <2>1. PICK mode \in {ROUTING_FACE_LEFT, ROUTING_FACE_RIGHT} :
          hop \in Sent(n, from, [SetRoutingMode(p, mode)
                                   EXCEPT !.range = @ * FACE_ROUTING_RANGE_MULTIPLIER])
    BY <1>2 DEF RouteFaceRelay
  <2>2. mode \in Octet
    BY DEF Octet, ROUTING_FACE_LEFT, ROUTING_FACE_RIGHT
  <2>3. PICK r : r = SetRoutingMode(p, mode)
    OBVIOUS
  <2>4. /\ r \in Packet /\ r.id = p.id
        /\ ModeOctet = HEADER_ROUTING_MODE => MessageType(r) = MessageType(p)
    BY <2>2, <2>3, ModeSet
  <2>5. PICK q : q = [r EXCEPT !.range = r.range * FACE_ROUTING_RANGE_MULTIPLIER]
    OBVIOUS
  <2>6. q \in Packet /\ q.id = p.id /\ q.header = r.header
    <3>1. r.range * FACE_ROUTING_RANGE_MULTIPLIER \in Nat
      BY <2>4 DEF Packet, FACE_ROUTING_RANGE_MULTIPLIER
    <3> QED
      BY <2>4, <2>5, <3>1 DEF Packet
  <2>7. HopOf(n, q, hop)
    BY <2>1, <2>3, <2>5, <2>6, SentIs
  <2> QED
    BY <2>4, <2>6, <2>7 DEF HopOf, MessageType
<1> QED
  BY <1>1, <1>2

\* forwardPacket: a packet in greedy mode leaves in greedy mode or begins face routing; one
\* whose octet is no routing mode leaves by the local table or not at all.
LEMMA Forwarded ==
    ASSUME TypeOK, NEW n \in Node, NEW from, NEW p \in Packet,
           NEW hop \in ForwardPacket(n, from, p)
    PROVE  /\ HopOf(n, p, hop)
           /\ RoutingMode(p) = ROUTING_GREEDY =>
                hop.pkt = p \/ RoutingMode(hop.pkt) = ROUTING_FACE_RIGHT
           /\ RoutingMode(p) \notin {ROUTING_GREEDY, ROUTING_FACE_LEFT, ROUTING_FACE_RIGHT} =>
                hop.pkt = p /\ hop.to = local[n][Destination[p.id]]
<1> DEFINE out == local[n][Destination[p.id]]
<1>1. CASE out \in ifaces[n]
  <2>1. hop \in Sent(n, out, p)
    BY <1>1 DEF ForwardPacket
  <2> QED
    BY <2>1, SentIs
<1>2. CASE out \notin ifaces[n] /\ RoutingMode(p) = ROUTING_GREEDY
  <2>1. hop \in RouteGreedy(n, from, p)
    BY <1>2 DEF ForwardPacket, ROUTING_GREEDY, ROUTING_FACE_LEFT, ROUTING_FACE_RIGHT
  <2> QED
    BY <1>2, <2>1, GreedyRouted
<1>3. CASE out \notin ifaces[n] /\ RoutingMode(p) \in {ROUTING_FACE_LEFT, ROUTING_FACE_RIGHT}
  <2>1. \/ hop \in RouteGreedy(n, from, SetRoutingMode(p, ROUTING_GREEDY))
        \/ hop \in RouteFaceRelay(n, from, p)
    BY <1>3 DEF ForwardPacket, ROUTING_GREEDY, ROUTING_FACE_LEFT, ROUTING_FACE_RIGHT
  <2>2. RoutingMode(p) # ROUTING_GREEDY
    BY <1>3 DEF ROUTING_GREEDY, ROUTING_FACE_LEFT, ROUTING_FACE_RIGHT
  <2>3. PICK q : q = SetRoutingMode(p, ROUTING_GREEDY)
    OBVIOUS
  <2>4. /\ q \in Packet /\ q.id = p.id
        /\ ModeOctet = HEADER_ROUTING_MODE => MessageType(q) = MessageType(p)
    BY <2>3, ModeSet DEF Octet, ROUTING_GREEDY
  <2>5. CASE hop \in RouteGreedy(n, from, q)
    <3>1. HopOf(n, q, hop)
      BY <2>4, <2>5, GreedyRouted
    <3> QED
      BY <1>3, <2>2, <2>4, <3>1 DEF HopOf
  <2>6. CASE hop \in RouteFaceRelay(n, from, p)
    BY <1>3, <2>2, <2>6, FaceRelayed
  <2> QED
    BY <2>1, <2>3, <2>5, <2>6
<1>4. CASE out \notin ifaces[n] /\ RoutingMode(p) \notin
             {ROUTING_GREEDY, ROUTING_FACE_LEFT, ROUTING_FACE_RIGHT}
  BY <1>4 DEF ForwardPacket
<1> QED
  BY <1>1, <1>2, <1>3, <1>4

------------------------------------------------------------------------------
(* The invariant.                                                          *)

\* What a node may assume of the packet it handles, from its host or from a link.
Sound(p) ==
    /\ p \in Packet
    /\ ModeOctet = HEADER_MESSAGE_TYPE =>
         \/ MessageType(p) = Type[p.id]
         \/ Type[p.id] = MSGTYPE_IPv6 /\ MessageType(p) = MSGTYPE_LOCATION_INFO
    /\ ModeOctet = HEADER_ROUTING_MODE => MessageType(p) = Type[p.id]

\* The octets of a packet that is sent on.
LEMMA HopOctets ==
    ASSUME RouterInv, NEW n \in Node, NEW from, NEW p, Sound(p),
           MessageType(p) # MSGTYPE_LOCATION_INFO, NEW hop \in ForwardPacket(n, from, p)
    PROVE  /\ TypeOctet(hop)
           /\ ModeOctet = HEADER_ROUTING_MODE => MessageType(hop.pkt) = Type[hop.pkt.id]
           /\ ModeOctet = HEADER_MESSAGE_TYPE /\ Type[hop.pkt.id] = MSGTYPE_DHT_FIND_CLOSEST =>
                \/ hop.to = Destination[hop.pkt.id]
                \/ <<hop.to, Destination[hop.pkt.id]>> \in Linked
<1>1. TypeOK /\ p \in Packet /\ p.id \in Traffic
  BY DEF RouterInv, IInv, Sound, Packet
<1>2. HopOf(n, p, hop) /\ hop.pkt.id = p.id
  BY <1>1, Forwarded DEF HopOf
<1>3. Type[p.id] = MSGTYPE_IPv6 \/ Type[p.id] = MSGTYPE_DHT_FIND_CLOSEST
  BY <1>1, TrafficAssumption
<1>4. CASE ModeOctet = HEADER_ROUTING_MODE
  BY <1>2, <1>4 DEF HopOf, Sound, TypeOctet, HEADER_MESSAGE_TYPE, HEADER_ROUTING_MODE
<1>5. CASE ModeOctet = HEADER_MESSAGE_TYPE
  <2>1. MessageType(p) = Type[p.id] /\ RoutingMode(p) = Type[p.id]
    BY <1>5 DEF Sound, RoutingMode, MessageType
  <2>2. MessageType(hop.pkt) = RoutingMode(hop.pkt)
    BY <1>5 DEF RoutingMode, MessageType
  <2>3. CASE Type[p.id] = MSGTYPE_IPv6
    <3>1. hop.pkt = p \/ RoutingMode(hop.pkt) = ROUTING_FACE_RIGHT
      BY <1>1, <2>1, <2>3, Forwarded DEF MSGTYPE_IPv6, ROUTING_GREEDY
    <3> QED
      BY <1>2, <1>5, <2>1, <2>2, <2>3, <3>1
      DEF TypeOctet, MSGTYPE_IPv6, MSGTYPE_LOCATION_INFO, MSGTYPE_DHT_FIND_CLOSEST,
          ROUTING_FACE_RIGHT, HEADER_MESSAGE_TYPE, HEADER_ROUTING_MODE
  <2>4. CASE Type[p.id] = MSGTYPE_DHT_FIND_CLOSEST
    <3>1. RoutingMode(p) \notin {ROUTING_GREEDY, ROUTING_FACE_LEFT, ROUTING_FACE_RIGHT}
      BY <2>1, <2>4
      DEF MSGTYPE_DHT_FIND_CLOSEST, ROUTING_GREEDY, ROUTING_FACE_LEFT, ROUTING_FACE_RIGHT
    <3>2. hop.pkt = p /\ hop.to = local[n][Destination[p.id]]
      BY <1>1, <3>1, Forwarded
    <3>3. hop.to \in Node /\ NoIface \notin Node
      BY <1>2, NetworkAssumption DEF HopOf
    <3>4. Destination[p.id] \in Node
      BY <1>1, TrafficAssumption
    <3>5. hop.to = Destination[p.id] \/ <<hop.to, Destination[p.id]>> \in Linked
      BY <3>2, <3>3, <3>4 DEF RouterInv, IInv, LocalKnowsTwoHops
    <3> QED
      BY <1>5, <2>1, <3>2, <3>5
      DEF TypeOctet, HEADER_MESSAGE_TYPE, HEADER_ROUTING_MODE
  <2> QED
    BY <1>3, <2>3, <2>4
<1> QED
  BY <1>4, <1>5, TrafficAssumption

\* Router::handleMessage of a packet that is nowhere else.
LEMMA HandleStep ==
    ASSUME RouterInv, UNCHANGED vars, NEW n \in Node, NEW from, NEW p, Sound(p),
           NEW rest, rest = {e \in flight : e.pkt.id # p.id},
           HandleMessage(n, from, p, rest)
    PROVE  RouterInv'
<1>1. IInv'
  BY IInvStep DEF RouterInv, LossyNext, Loss, vars
<1>2. p \in Packet /\ p.id \in Traffic /\ TypeOK
  BY DEF Sound, Packet, RouterInv, IInv
<1>3. PICK f : fate' = [fate EXCEPT ![p.id] = f]
               /\ f \in {"delivered", "taken for location info", "flying", "dropped"}
  BY DEF HandleMessage
<1>4. /\ fate' \in [Traffic -> Fate]
      /\ fate'[p.id] = f
      /\ \A t \in Traffic : t # p.id => fate'[t] = fate[t]
  BY <1>2, <1>3 DEF RouterInv, Fate
<1>5. CASE flight' = rest /\ f # "flying"
  <2>1. OnePlace'
    BY <1>2, <1>4, <1>5 DEF RouterInv, OnePlace, Packet
  <2>2. f = "taken for location info" => ModeOctet # HEADER_ROUTING_MODE
    <3>1. f = "taken for location info" => MessageType(p) = MSGTYPE_LOCATION_INFO
      BY <1>2, <1>3, <1>4 DEF HandleMessage, RouterInv
    <3>2. Type[p.id] # MSGTYPE_LOCATION_INFO
      <4>1. Type[p.id] \in {MSGTYPE_IPv6, MSGTYPE_DHT_FIND_CLOSEST}
        BY <1>2, TrafficAssumption
      <4> QED
        BY <4>1 DEF MSGTYPE_IPv6, MSGTYPE_LOCATION_INFO, MSGTYPE_DHT_FIND_CLOSEST
    <3> QED
      BY <3>1, <3>2 DEF Sound
  <2>3. TypesKept'
    BY <1>4, <1>5, <2>2 DEF RouterInv, TypesKept, MessageType
  <2> QED
    BY <1>1, <1>4, <1>5, <2>1, <2>3 DEF RouterInv, TypeOctet, LookupsStayNear
<1>6. ASSUME NEW hop \in ForwardPacket(n, from, p), flight' = rest \cup {hop},
             f = "flying", MessageType(p) # MSGTYPE_LOCATION_INFO
      PROVE  RouterInv'
  <2>1. /\ hop \in [from : Node, to : Node, pkt : Packet]
        /\ hop.pkt.id = p.id
    BY <1>2, <1>6, Forwarded DEF HopOf
  <2>2. /\ TypeOctet(hop)
        /\ ModeOctet = HEADER_ROUTING_MODE => MessageType(hop.pkt) = Type[hop.pkt.id]
        /\ ModeOctet = HEADER_MESSAGE_TYPE /\ Type[hop.pkt.id] = MSGTYPE_DHT_FIND_CLOSEST =>
             \/ hop.to = Destination[hop.pkt.id]
             \/ <<hop.to, Destination[hop.pkt.id]>> \in Linked
    BY <1>6, HopOctets
  <2>3. flight' \in SUBSET [from : Node, to : Node, pkt : Packet]
    BY <1>6, <2>1 DEF RouterInv
  <2>4. OnePlace'
    BY <1>2, <1>4, <1>6, <2>1 DEF RouterInv, OnePlace
  <2>5. \A e \in flight' : TypeOctet(e)
    BY <1>6, <2>2 DEF RouterInv
  <2>6. LookupsStayNear'
    BY <1>6, <2>2 DEF RouterInv, LookupsStayNear
  <2>7. TypesKept'
    BY <1>4, <1>6, <2>2 DEF RouterInv, TypesKept
  <2> QED
    BY <1>1, <1>4, <2>3, <2>4, <2>5, <2>6, <2>7 DEF RouterInv, TypeOctet
<1> QED
  <2>1. \/ flight' = rest /\ fate' = [fate EXCEPT ![p.id] = "delivered"]
        \/ flight' = rest /\ fate' = [fate EXCEPT ![p.id] = "taken for location info"]
        \/ flight' = rest /\ fate' = [fate EXCEPT ![p.id] = "dropped"]
        \/ /\ MessageType(p) # MSGTYPE_LOCATION_INFO
           /\ fate' = [fate EXCEPT ![p.id] = "flying"]
           /\ \E hop \in ForwardPacket(n, from, p) : flight' = rest \cup {hop}
    BY DEF HandleMessage
  <2>2. ASSUME NEW g, fate' = [fate EXCEPT ![p.id] = g] PROVE f = g
    BY <1>2, <1>4, <2>2 DEF RouterInv
  <2> QED
    BY <1>5, <1>6, <2>1, <2>2

\* Whatever routers do, the tables change only as the flood changes them.
LEMMA FloodGoesOn == [Connect \/ RouterNext]_routerVars => LossyNext
<1>1. \A m \in net : Consume(m) => Delivery(m)
  BY DEF Consume, HandleLocationInfo, Delivery
<1>2. \A m \in net : Lose(m) => Loss
  BY DEF Lose, Loss
<1>3. UNCHANGED vars => LossyNext
  BY DEF vars, Loss, LossyNext
<1>4. Connect \/ FloodStep => LossyNext
  BY <1>1, <1>2 DEF Connect, FloodStep, LossyNext
<1>5. (\E t \in Traffic : SendFromLocal(t)) \/ (\E e \in flight : ReceiveData(e)) => UNCHANGED vars
  BY DEF SendFromLocal, ReceiveData
<1>6. UNCHANGED routerVars => UNCHANGED vars
  BY DEF routerVars, vars
<1> QED
  BY <1>3, <1>4, <1>5, <1>6 DEF RouterNext

LEMMA RouterStep == RouterInv /\ [Connect \/ RouterNext]_routerVars => RouterInv'
<1> SUFFICES ASSUME RouterInv, [Connect \/ RouterNext]_routerVars
             PROVE  RouterInv'
  OBVIOUS
<1>1. IInv'
  BY FloodGoesOn, IInvStep DEF RouterInv
<1>2. CASE Connect \/ FloodStep \/ UNCHANGED routerVars
  <2>1. UNCHANGED <<flight, fate>>
    BY <1>2 DEF Connect, FloodStep, routerVars
  <2> QED
    BY <1>1, <2>1 DEF RouterInv, OnePlace, TypeOctet, LookupsStayNear, TypesKept
<1>3. ASSUME NEW t \in Traffic, SendFromLocal(t)
      PROVE  RouterInv'
  <2>1. PICK p : p = NewPacket(t)
    OBVIOUS
  <2>2. Type[t] \in Octet /\ Type[t] \in {MSGTYPE_IPv6, MSGTYPE_DHT_FIND_CLOSEST}
    BY TrafficAssumption DEF Octet, MSGTYPE_IPv6, MSGTYPE_DHT_FIND_CLOSEST
  <2>3. /\ p.header \in [{HEADER_MESSAGE_TYPE, HEADER_ROUTING_MODE} -> Octet]
        /\ p.header[HEADER_MESSAGE_TYPE] = Type[t]
        /\ p.id = t /\ p \in Packet
    <3>1. ROUTING_GREEDY \in Octet
      BY DEF ROUTING_GREEDY, Octet
    <3> QED
      BY <2>1, <2>2, <3>1 DEF NewPacket, Packet
  <2>4. Sound(p)
    BY <2>3 DEF Sound, MessageType
  <2>5. flight = {e \in flight : e.pkt.id # p.id}
    BY <1>3, <2>3 DEF RouterInv, OnePlace, SendFromLocal
  <2>6. UNCHANGED vars /\ HandleMessage(Source[t], LocalHost, p, flight) /\ Source[t] \in Node
    BY <1>3, <2>1, TrafficAssumption DEF SendFromLocal
  <2> QED
    BY <2>4, <2>5, <2>6, HandleStep
<1>4. ASSUME NEW e \in flight, ReceiveData(e)
      PROVE  RouterInv'
  <2>1. e \in [from : Node, to : Node, pkt : Packet]
    BY DEF RouterInv
  <2>2. Sound(e.pkt)
    BY <2>1 DEF RouterInv, Sound, TypeOctet, TypesKept
  <2>3. flight \ {e} = {g \in flight : g.pkt.id # e.pkt.id}
    BY DEF RouterInv, OnePlace
  <2> QED
    BY <1>4, <2>1, <2>2, <2>3, HandleStep DEF ReceiveData
<1> QED
  BY <1>2, <1>3, <1>4 DEF RouterNext

THEOREM RouterInvCorrect == RouterSpec => []RouterInv
<1>1. Init /\ RouterInit => RouterInv
  <2> SUFFICES ASSUME Init, RouterInit PROVE RouterInv
    OBVIOUS
  <2>1. flight = {} /\ fate = [t \in Traffic |-> "unsent"]
    BY DEF RouterInit
  <2> QED
    BY <2>1, IInvInit DEF RouterInv, OnePlace, LookupsStayNear, TypesKept, Fate
<1> QED
  BY <1>1, RouterStep, PTL DEF RouterSpec

------------------------------------------------------------------------------
(* The theorems.                                                           *)

\* Packets on links are well formed: whatever the tables hold, a packet leaves by an
\* interface that exists (LinkManager::sendPacket looks it up).
THEOREM RoutedTypeCorrect == RouterSpec => []RouterTypeOK
<1>1. RouterInv => RouterTypeOK
  BY DEF RouterInv, IInv, RouterTypeOK
<1> QED
  BY <1>1, RouterInvCorrect, PTL

\* A packet is forwarded at most once by each handleMessage, so that it stays in one place,
\* and is lost on no link without being counted as dropped.
THEOREM ForwardedOnce == RouterSpec => []OnePlace
<1>1. RouterInv => OnePlace
  BY DEF RouterInv
<1> QED
  BY <1>1, RouterInvCorrect, PTL

\* The flood is bounded, and greedy entries lead on, also where adverts are lost and where
\* data packets travel between the deliveries.
THEOREM FloodUnderTraffic == RouterSpec => [](HopBound /\ NextHopKnowsBetter)
<1>1. RouterInv => HopBound /\ NextHopKnowsBetter
  BY DEF RouterInv, IInv, AdvertOK, HopBound
<1> QED
  BY <1>1, RouterInvCorrect, PTL

\* In every network without triangles the local tables lead to the destination, at every
\* moment that a data packet looks into them.
THEOREM LocalRoutesUnderTraffic == RouterSpec => []LocalRoutesLead
<1>1. CASE ~ TriangleFree
  <2>1. LocalRoutesLead
    BY <1>1 DEF LocalRoutesLead
  <2> QED
    BY <2>1, PTL
<1>2. CASE TriangleFree
  <2>1. Init => LeadInv
    BY DEF Init, LeadInv, LocalRoutesLead
  <2>2. RouterInv /\ LeadInv /\ [Connect \/ RouterNext]_routerVars => LeadInv'
    BY <1>2, LeadStep, FloodGoesOn DEF RouterInv
  <2>3. LeadInv => LocalRoutesLead
    BY DEF LeadInv
  <2> QED
    BY <2>1, <2>2, <2>3, RouterInvCorrect, PTL DEF RouterSpec
<1> QED
  BY <1>1, <1>2

\* With the octet of the code (getRoutingMode and setRoutingMode of Packet.hpp read and write
\* the message type), no packet goes further in face routing than its first hop: on a link
\* it has its own type or that of an advert, which no router forwards.
THEOREM FaceRoutingEnds == RouterSpec => []FaceRoutingStops
<1>1. RouterInv => FaceRoutingStops
  <2> SUFFICES ASSUME RouterInv, ModeOctet = HEADER_MESSAGE_TYPE, NEW e \in flight
               PROVE  MessageType(e.pkt) \in {Type[e.pkt.id], MSGTYPE_LOCATION_INFO}
    BY DEF FaceRoutingStops
  <2> QED
    BY DEF RouterInv, TypeOctet
<1> QED
  BY <1>1, RouterInvCorrect, PTL

\* With the octet of the code, queries of the location lookup (message type 10, which is no
\* routing mode) are sent by the local routing table or not at all: one on a link is at
\* its destination or next to it.
THEOREM LookupsReachTwoHops == RouterSpec => []LookupsStayNear
<1>1. RouterInv => LookupsStayNear
  BY DEF RouterInv
<1> QED
  BY <1>1, RouterInvCorrect, PTL

\* With the octet of formal_packet_definition.md, every packet keeps its message type, and
\* none is taken for an advert.
THEOREM OctetsApart == RouterSpec => []TypesKept
<1>1. RouterInv => TypesKept
  BY DEF RouterInv
<1> QED
  BY <1>1, RouterInvCorrect, PTL

------------------------------------------------------------------------------
(* Packets that are dropped.                                               *)

\* Every interface that a routing table names is connected, so that LinkManager::sendPacket
\* finds it.
RoutesExist ==
    \A n \in Node :
        /\ \A d \in Node : local[n][d] \in ifaces[n] \cup {NoIface}
        /\ \A e \in greedy[n] : e.iface \in ifaces[n]
        /\ \A e \in face[n] : e.iface \in ifaces[n]

\* A direction in the face table is that of its location.
Directed(n, e) == e.heading = Heading[n, e.loc]

RoutesInv == RoutesExist /\ \A n \in Node : \A e \in face[n] : Directed(n, e)

\* No step disconnects an interface or takes an entry without one.
LEMMA RoutesStep == IInv /\ RoutesInv /\ LossyNext => RoutesInv'
<1> SUFFICES ASSUME IInv, RoutesInv, LossyNext PROVE RoutesInv'
  OBVIOUS
<1>0. TypeOK
  BY DEF IInv
<1>1. \A n \in Node : ifaces[n] \subseteq ifaces'[n]
  <2>1. CASE UNCHANGED ifaces
    BY <2>1
  <2>2. ASSUME NEW n \in Node, NEW p \in Node, ConnectInterface(n, p)
        PROVE  \A i \in Node : ifaces[i] \subseteq ifaces'[i]
    BY <1>0, <2>2 DEF ConnectInterface, TypeOK
  <2> QED
    BY <2>1, <2>2 DEF LossyNext, Delivery, Loss
<1>2. CASE UNCHANGED <<greedy, local, face>>
  BY <1>1, <1>2 DEF RoutesInv, RoutesExist, Directed
<1>3. ASSUME NEW m \in net, Delivery(m)
      PROVE  RoutesInv'
  <2>1. /\ m.to \in Node /\ m.from \in Node /\ m.src \in Node
        /\ m.intact /\ m.from \in ifaces[m.to] /\ ifaces' = ifaces
    BY <1>3, AdvertFields DEF IInv, AdvertOK, Delivery
  <2> SUFFICES ASSUME NEW n \in Node
               PROVE  /\ \A d \in Node : local'[n][d] \in ifaces[n] \cup {NoIface}
                      /\ \A e \in greedy'[n] : e.iface \in ifaces[n]
                      /\ \A e \in face'[n] : e.iface \in ifaces[n] /\ Directed(n, e)
    BY <2>1 DEF RoutesInv, RoutesExist, Directed
  <2>2. /\ \A d \in Node : local[n][d] \in ifaces[n] \cup {NoIface}
        /\ \A e \in greedy[n] : e.iface \in ifaces[n]
        /\ \A e \in face[n] : e.iface \in ifaces[n] /\ Directed(n, e)
    BY DEF RoutesInv, RoutesExist
  <2>3. \A d \in Node : local'[n][d] \in ifaces[n] \cup {NoIface}
    <3>1. \A d \in Node : local'[n][d] = IF m.hops < 3 /\ n = m.to /\ d = m.src
                                         THEN m.from ELSE local[n][d]
      BY <1>3, LocalAfter
    <3> QED
      BY <2>1, <2>2, <3>1
  <2>4. ASSUME NEW e \in greedy'[n]
        PROVE  e.iface \in ifaces[n]
    <3>1. DOMAIN greedy = Node /\ greedy' = [greedy EXCEPT ![m.to] =
             IF IsGoodSuggestion(m) THEN greedy[m.to] \cup {NewEntry(m)} ELSE greedy[m.to]]
      BY <1>0, <1>3, GreedyAfter DEF TypeOK
    <3>2. e \in greedy[n] \/ (n = m.to /\ e = NewEntry(m))
      BY <2>1, <2>4, <3>1
    <3>3. NewEntry(m).iface = m.from
      BY DEF NewEntry
    <3> QED
      BY <2>1, <2>2, <3>2, <3>3
  <2>5. ASSUME NEW e \in face'[n]
        PROVE  e.iface \in ifaces[n] /\ Directed(n, e)
    <3> DEFINE entry == [iface |-> m.from, heading |-> Heading[m.to, m.loc], loc |-> m.loc]
    <3>1. face' = IF m.hops = 1
                  THEN [face EXCEPT ![m.to] = InsertDirection(face[m.to], entry)]
                  ELSE face
      BY <1>3, <2>1 DEF Delivery, ProcessRoutingSuggestion
    <3>2. e \in face[n] \/ (n = m.to /\ e = entry)
      BY <1>0, <2>1, <2>5, <3>1 DEF InsertDirection, TypeOK
    <3>3. entry.iface = m.from /\ Directed(m.to, entry)
      BY DEF Directed
    <3> HIDE DEF entry
    <3> QED
      BY <2>1, <2>2, <3>2, <3>3
  <2> QED
    BY <2>3, <2>4, <2>5
<1> QED
  BY <1>2, <1>3 DEF LossyNext, ConnectInterface, Loss

LEMMA RoutesInvCorrect == RouterSpec => []RoutesInv
<1>1. Init => RoutesInv
  BY DEF Init, RoutesInv, RoutesExist
<1>2. RouterInv /\ RoutesInv /\ [Connect \/ RouterNext]_routerVars => RoutesInv'
  BY RoutesStep, FloodGoesOn DEF RouterInv
<1> QED
  BY <1>1, <1>2, RouterInvCorrect, PTL DEF RouterSpec

\* Routing never chooses an interface that does not exist.
THEOREM RoutesAreConnected == RouterSpec => []RoutesExist
<1>1. RoutesInv => RoutesExist
  BY DEF RoutesInv
<1> QED
  BY <1>1, RoutesInvCorrect, PTL

\* A set of numbers that is not empty has a least one.
LEMMA LeastNumber ==
    ASSUME NEW T, T \subseteq Nat, T # {}
    PROVE  \E i \in T : \A j \in T : i <= j
<1>1. PICK i \in T : \A j \in T : <<j, i>> \notin OpToRel(<, Nat)
  BY WFMin, NatLessThanWellFounded, Zenon
<1>2. \A j \in T : ~(j < i)
  BY <1>1, Zenon DEF OpToRel
<1> QED
  BY <1>2

\* The first direction of a table, and the last one.
LEMMA FirstDirection ==
    ASSUME NEW T, T \subseteq DirectionalEntry, T # {}
    PROVE  \E f \in T : \A g \in T : f.heading <= g.heading
<1> DEFINE H == {e.heading : e \in T}
<1>1. H \subseteq Nat /\ H # {}
  BY DEF DirectionalEntry
<1>2. PICK h \in H : \A k \in H : h <= k
  <2> HIDE DEF H
  <2> QED
    BY <1>1, LeastNumber, Zenon
<1> QED
  BY <1>2

LEMMA LastDirection ==
    ASSUME NEW T, T \subseteq DirectionalEntry, T # {}, IsFiniteSet(T)
    PROVE  \E f \in T : \A g \in T : g.heading <= f.heading
<1> DEFINE Later(e) == {f \in T : f.heading > e.heading}
           F == {Later(e) : e \in T}
<1>0. \A e \in T : e.heading \in Nat
  BY DEF DirectionalEntry
<1>1. F \subseteq FiniteSubsetsOf(T) /\ F # {}
  <2>1. \A e \in T : Later(e) \in SUBSET T
    OBVIOUS
  <2>2. \A e \in T : IsFiniteSet(Later(e))
    <3> HIDE DEF Later
    <3> QED
      BY <2>1, FS_Subset
  <2> QED
    BY <2>1, <2>2 DEF FiniteSubsetsOf
<1>2. PICK A \in F : \A B \in F : ~(<<B, A>> \in StrictSubsetOrdering(T))
  <2> HIDE DEF F
  <2> QED
    BY <1>1, WFMin, FS_StrictSubsetOrderingWellFounded, Zenon
<1>3. PICK e \in T : A = Later(e)
  BY <1>2
<1>4. ASSUME NEW g \in T, g.heading > e.heading
      PROVE  FALSE
  <2>1. Later(g) \subseteq Later(e)
    BY <1>0, <1>4
  <2>2. g \in Later(e) /\ g \notin Later(g)
    BY <1>0, <1>4
  <2>3. <<Later(g), Later(e)>> \in StrictSubsetOrdering(T)
    BY <2>1, <2>2 DEF StrictSubsetOrdering
  <2> QED
    BY <1>2, <1>3, <2>3
<1>5. \A g \in T : g.heading <= e.heading
  BY <1>0, <1>4
<1> QED
  BY <1>5

\* The next direction of the ring.
LEMMA SuccessorIs ==
    ASSUME NEW table, table \subseteq DirectionalEntry, NEW e \in table
    PROVE  /\ Successor(table, e) \in table
           /\ \/ /\ Successor(table, e).heading > e.heading
                 /\ \A g \in table : g.heading > e.heading =>
                                        Successor(table, e).heading <= g.heading
              \/ \A g \in table : /\ ~(g.heading > e.heading)
                                  /\ Successor(table, e).heading <= g.heading
<1> DEFINE later == {f \in table : f.heading > e.heading}
           among == IF later = {} THEN table ELSE later
<1>1. among \subseteq table /\ among # {}
  OBVIOUS
<1>2. \E f \in among : \A g \in among : f.heading <= g.heading
  <2> HIDE DEF among
  <2> QED
    BY <1>1, FirstDirection
<1>3. PICK s : s = Successor(table, e) /\ s \in among /\ \A g \in among : s.heading <= g.heading
  BY <1>2 DEF Successor
<1>4. CASE later = {}
  BY <1>3, <1>4
<1>5. CASE later # {}
  BY <1>3, <1>5
<1> QED
  BY <1>4, <1>5

\* The ranges between neighbours of the ring cover every direction.
LEMMA SomeRange ==
    ASSUME NEW table, table \subseteq DirectionalEntry, table # {}, IsFiniteSet(table),
           NEW direction \in Nat
    PROVE  \E e \in table : InRange(e, Successor(table, e), direction)
<1>0. \A e \in table : e.heading \in Nat
  BY DEF DirectionalEntry
<1> DEFINE before == {e \in table : e.heading <= direction}
<1>1. CASE before = {}
  <2>1. PICK e \in table : \A g \in table : g.heading <= e.heading
    BY LastDirection
  <2>2. PICK s \in table : s = Successor(table, e)
    BY SuccessorIs
  <2>3. ~(e.heading < s.heading) /\ direction <= s.heading
    BY <1>0, <1>1, <2>1, <2>2
  <2> QED
    BY <2>2, <2>3 DEF InRange
<1>2. CASE before # {}
  <2>1. PICK e \in before : \A g \in before : g.heading <= e.heading
    <3>1. before \subseteq DirectionalEntry /\ before \in SUBSET table
      OBVIOUS
    <3>2. IsFiniteSet(before)
      <4> HIDE DEF before
      <4> QED
        BY <3>1, FS_Subset
    <3> HIDE DEF before
    <3> QED
      BY <1>2, <3>1, <3>2, LastDirection
  <2>2. e \in table /\ e.heading <= direction
    OBVIOUS
  <2>3. PICK s \in table : s = Successor(table, e)
    BY <2>2, SuccessorIs
  <2>4. CASE e.heading < s.heading
    <3>1. s \notin before
      BY <1>0, <2>1, <2>2, <2>4
    <3>2. direction <= s.heading
      BY <1>0, <3>1
    <3> QED
      BY <2>2, <2>3, <2>4, <3>2 DEF InRange
  <2>5. CASE ~(e.heading < s.heading)
    BY <2>2, <2>3, <2>5 DEF InRange
  <2> QED
    BY <2>4, <2>5
<1> QED
  BY <1>1, <1>2

\* A node has one direction for a neighbour.
LEMMA FaceFinite ==
    ASSUME IInv, RoutesInv, NEW n \in Node
    PROVE  IsFiniteSet(face[n]) /\ face[n] \subseteq DirectionalEntry
<1>1. face[n] \subseteq DirectionalEntry
  BY DEF IInv, TypeOK
<1> DEFINE iface == [e \in face[n] |-> e.iface]
<1>2. iface \in [face[n] -> Node]
  BY <1>1 DEF DirectionalEntry
<1>3. ASSUME NEW e \in face[n], NEW f \in face[n], e.iface = f.iface
      PROVE  e = f
  <2>1. e.loc = f.loc
    BY <1>3 DEF IInv, FaceKnowsNeighbours
  <2>2. e.heading = f.heading
    BY <2>1, Zenon DEF RoutesInv, Directed
  <2> QED
    BY <2>2 DEF IInv, FaceKnowsNeighbours
<1>4. iface \in Injection(face[n], Node)
  <2>1. \A e, f \in face[n] : iface[e] = iface[f] => e = f
    BY <1>3
  <2> HIDE DEF iface
  <2> QED
    BY <1>2, <2>1 DEF Injection, IsInjective
<1> QED
  BY <1>1, <1>4, NetworkAssumption, FS_Injection

\* Somebody comes before every entry of the ring, whose entries have different headings.
LEMMA PredecessorIs ==
    ASSUME NEW table, table \subseteq DirectionalEntry, IsFiniteSet(table),
           \A f, g \in table : f.heading = g.heading => f = g,
           NEW e \in table
    PROVE  Predecessor(table, e) \in table
<1>0. \A f \in table : f.heading \in Nat
  BY DEF DirectionalEntry
<1> DEFINE before == {f \in table : f.heading < e.heading}
<1>1. \E f \in table : Successor(table, f) = e
  <2>1. CASE before = {}
    <3>1. PICK f \in table : \A g \in table : g.heading <= f.heading
      BY LastDirection
    <3>2. PICK s \in table : s = Successor(table, f) /\ s.heading <= e.heading
      <4>1. \A g \in table : ~(g.heading > f.heading)
        BY <1>0, <3>1
      <4> QED
        BY <4>1, SuccessorIs
    <3>3. s.heading = e.heading
      BY <1>0, <2>1, <3>2
    <3> QED
      BY <3>2, <3>3
  <2>2. CASE before # {}
    <3>1. PICK f \in before : \A g \in before : g.heading <= f.heading
      <4>1. before \subseteq DirectionalEntry /\ before \in SUBSET table
        OBVIOUS
      <4>2. IsFiniteSet(before)
        <5> HIDE DEF before
        <5> QED
          BY <4>1, FS_Subset
      <4> HIDE DEF before
      <4> QED
        BY <2>2, <4>1, <4>2, LastDirection
    <3>2. f \in table /\ e.heading > f.heading
      BY <1>0
    <3>3. PICK s \in table : /\ s = Successor(table, f)
                             /\ s.heading > f.heading /\ s.heading <= e.heading
      BY <3>2, SuccessorIs
    <3>4. s \notin before
      BY <1>0, <3>1, <3>2, <3>3
    <3>5. s.heading = e.heading
      BY <1>0, <3>3, <3>4
    <3> QED
      BY <3>2, <3>3, <3>5
  <2> QED
    BY <2>1, <2>2
<1> QED
  BY <1>1 DEF Predecessor

\* An interface that exists takes the packet.
LEMMA NothingSent ==
    ASSUME NEW n, NEW iface, NEW p, Sent(n, iface, p) = {}
    PROVE  iface \notin ifaces[n]
<1> QED
  BY DEF Sent

\* Face routing begins with some neighbour unless there is none, or only the one that the
\* packet of the node's own host does not come from.
LEMMA FaceStuck ==
    ASSUME IInv, RoutesInv, NEW n \in Node, NEW p \in Packet,
           NEW from \in ifaces[n] \cup {LocalHost}, RouteFaceBegin(n, from, p) = {}
    PROVE  face[n] = {} \/ (from = LocalHost /\ Cardinality(face[n]) = 1)
<1>1. IsFiniteSet(face[n]) /\ face[n] \subseteq DirectionalEntry
  BY FaceFinite
<1>2. CASE Cardinality(face[n]) = 0
  BY <1>1, <1>2, FS_EmptySet
<1>3. CASE Cardinality(face[n]) = 1
  <2>1. PICK q : Sent(n, from, q) = {}
    BY <1>3 DEF RouteFaceBegin
  <2> QED
    BY <1>3, <2>1, NothingSent
<1>4. CASE Cardinality(face[n]) # 0 /\ Cardinality(face[n]) # 1
  <2>1. face[n] # {}
    BY <1>4, FS_EmptySet
  <2>2. Destination[p.id] \in Node
    BY TrafficAssumption DEF Packet
  <2>3. PICK direction \in Nat : direction = Heading[n, Destination[p.id]]
    BY <2>2, GeometryAssumption, NetworkAssumption
  <2> DEFINE befores == {e \in face[n] : InRange(e, Successor(face[n], e), direction)}
  <2>4. PICK q : RouteFaceBegin(n, from, p) =
             Sent(n, Successor(face[n], CHOOSE e \in befores :
                                          \A f \in befores : e.heading <= f.heading).iface, q)
    BY <1>4, <2>3, Zenon DEF RouteFaceBegin
  <2>5. PICK before \in face[n] :
             before = CHOOSE e \in befores : \A f \in befores : e.heading <= f.heading
    <3>1. befores \subseteq face[n] /\ befores # {}
      BY <1>1, <2>1, SomeRange
    <3>2. \E e \in befores : \A f \in befores : e.heading <= f.heading
      <4> HIDE DEF befores
      <4> QED
        BY <1>1, <3>1, FirstDirection
    <3> HIDE DEF befores
    <3> QED
      BY <3>1, <3>2
  <2> HIDE DEF befores
  <2>6. Successor(face[n], before) \in face[n]
    BY <1>1, SuccessorIs
  <2>7. Sent(n, Successor(face[n], before).iface, q) = {}
    BY <2>4, <2>5
  <2> QED
    BY <2>6, <2>7, NothingSent DEF RoutesInv, RoutesExist
<1> QED
  BY <1>2, <1>3, <1>4

\* A packet with an entry on its way goes there, one without begins face routing.
LEMMA GreedyStuck ==
    ASSUME IInv, RoutesInv, NEW n \in Node, NEW p \in Packet,
           NEW from \in ifaces[n] \cup {LocalHost}, RouteGreedy(n, from, p) = {}
    PROVE  /\ GreedyEntries(greedy[n], Destination[p.id], Distance[Destination[p.id], n]) = {}
           /\ face[n] = {} \/ (from = LocalHost /\ Cardinality(face[n]) = 1)
<1> DEFINE entries ==
      GreedyEntries(greedy[n], Destination[p.id], Distance[Destination[p.id], n])
<1>1. RouteGreedy(n, from, p) = IF entries # {}
                                THEN UNION {Sent(n, e.iface, p) : e \in entries}
                                ELSE RouteFaceBegin(n, from, p)
  BY Zenon DEF RouteGreedy
<1>2. entries \subseteq greedy[n]
  BY DEF GreedyEntries, ClosestEntries
<1> HIDE DEF entries
<1>3. entries = {}
  <2> SUFFICES ASSUME NEW e \in entries PROVE FALSE
    OBVIOUS
  <2>1. Sent(n, e.iface, p) = {}
    BY <1>1
  <2>2. e.iface \in ifaces[n]
    BY <1>2 DEF RoutesInv, RoutesExist
  <2> QED
    BY <2>1, <2>2, NothingSent
<1> QED
  BY <1>1, <1>3, FaceStuck DEF entries

\* A packet that follows a face goes on to the next neighbour of the one it comes from.
LEMMA RelayStuck ==
    ASSUME IInv, RoutesInv, NEW n \in Node, NEW p \in Packet, NEW from \in ifaces[n],
           RouteFaceRelay(n, from, p) = {}
    PROVE  ~ \E e \in face[n] : e.iface = from
<1> SUFFICES ASSUME NEW e0 \in face[n], e0.iface = from PROVE FALSE
  OBVIOUS
<1>1. IsFiniteSet(face[n]) /\ face[n] \subseteq DirectionalEntry
  BY FaceFinite
<1>2. PICK entry \in face[n] : entry = CHOOSE e \in face[n] : e.iface = from
  OBVIOUS
<1>3. \/ \E q : Sent(n, from, q) = {}
      \/ Sent(n, Successor(face[n], entry).iface, p) = {}
      \/ Sent(n, Predecessor(face[n], entry).iface, p) = {}
  BY <1>2 DEF RouteFaceRelay
<1>4. Successor(face[n], entry) \in face[n]
  BY <1>1, SuccessorIs
<1>5. Predecessor(face[n], entry) \in face[n]
  <2>1. \A f, g \in face[n] : f.heading = g.heading => f = g
    BY DEF IInv, FaceKnowsNeighbours
  <2> QED
    BY <1>1, <2>1, PredecessorIs
<1> QED
  BY <1>3, <1>4, <1>5, NothingSent DEF RoutesInv, RoutesExist

\* forwardPacket finds no way on at a dead end only.
LEMMA StuckAtDeadEnd ==
    ASSUME IInv, RoutesInv, NEW n \in Node, NEW p \in Packet,
           NEW from \in ifaces[n] \cup {LocalHost},
           from = LocalHost =>
               RoutingMode(p) \notin {ROUTING_FACE_LEFT, ROUTING_FACE_RIGHT},
           ForwardPacket(n, from, p) = {}
    PROVE  DeadEnd(n, from, p)
<1> DEFINE out == local[n][Destination[p.id]]
<1>1. out \in ifaces[n] \cup {NoIface}
  BY TrafficAssumption DEF RoutesInv, RoutesExist, Packet
<1>2. out \notin ifaces[n] /\ out = NoIface
  <2>1. out \in ifaces[n] => Sent(n, out, p) = {}
    BY DEF ForwardPacket
  <2> QED
    BY <1>1, <2>1, NothingSent
<1>3. CASE RoutingMode(p) = ROUTING_GREEDY
  <2>1. RouteGreedy(n, from, p) = {}
    BY <1>2, <1>3 DEF ForwardPacket, ROUTING_GREEDY, ROUTING_FACE_LEFT, ROUTING_FACE_RIGHT
  <2> QED
    BY <1>2, <1>3, <2>1, GreedyStuck, Zenon DEF DeadEnd
<1>4. CASE RoutingMode(p) \in {ROUTING_FACE_LEFT, ROUTING_FACE_RIGHT}
  <2>1. \/ RouteGreedy(n, from, SetRoutingMode(p, ROUTING_GREEDY)) = {}
        \/ RouteFaceRelay(n, from, p) = {}
    BY <1>2, <1>4 DEF ForwardPacket, ROUTING_GREEDY, ROUTING_FACE_LEFT, ROUTING_FACE_RIGHT
  <2>2. PICK q : q = SetRoutingMode(p, ROUTING_GREEDY) /\ q \in Packet /\ q.id = p.id
    BY ModeSet DEF Octet, ROUTING_GREEDY
  <2>3. CASE RouteGreedy(n, from, q) = {}
    <3>1. /\ GreedyEntries(greedy[n], Destination[q.id], Distance[Destination[q.id], n]) = {}
          /\ face[n] = {} \/ (from = LocalHost /\ Cardinality(face[n]) = 1)
      BY <2>2, <2>3, GreedyStuck, Zenon
    <3> QED
      BY <1>2, <1>4, <2>2, <3>1, Zenon DEF DeadEnd
  <2>4. CASE RouteFaceRelay(n, from, p) = {}
    <3>1. ~ \E e \in face[n] : e.iface = from
      BY <1>4, <2>4, RelayStuck
    <3> QED
      BY <1>2, <1>4, <3>1, Zenon DEF DeadEnd
  <2> QED
    BY <2>1, <2>2, <2>3, <2>4
<1>5. CASE RoutingMode(p) \notin {ROUTING_GREEDY, ROUTING_FACE_LEFT, ROUTING_FACE_RIGHT}
  BY <1>2, <1>5, Zenon DEF DeadEnd
<1> QED
  BY <1>3, <1>4, <1>5

\* A packet of the node's own host is not in face routing.
LEMMA NewPacketIs ==
    ASSUME NEW t \in Traffic, NEW p, p = NewPacket(t)
    PROVE  /\ p \in Packet /\ p.id = t
           /\ RoutingMode(p) \notin {ROUTING_FACE_LEFT, ROUTING_FACE_RIGHT}
<1>1. Type[t] \in Octet /\ Type[t] \in {MSGTYPE_IPv6, MSGTYPE_DHT_FIND_CLOSEST}
  BY TrafficAssumption DEF Octet, MSGTYPE_IPv6, MSGTYPE_DHT_FIND_CLOSEST
<1>2. ROUTING_GREEDY \in Octet
  BY DEF ROUTING_GREEDY, Octet
<1>3. p \in Packet /\ p.id = t
  BY <1>1, <1>2 DEF NewPacket, Packet
<1>4. ModeOctet \in {HEADER_MESSAGE_TYPE, HEADER_ROUTING_MODE}
  BY TrafficAssumption
<1>5. RoutingMode(p) \in {Type[t], ROUTING_GREEDY}
  BY <1>4 DEF RoutingMode, NewPacket
<1> QED
  BY <1>1, <1>3, <1>5 DEF MSGTYPE_IPv6, MSGTYPE_DHT_FIND_CLOSEST, ROUTING_GREEDY,
       ROUTING_FACE_LEFT, ROUTING_FACE_RIGHT

\* Router::handleMessage drops the packet it handles, and that at a dead end.
LEMMA HandleDrops ==
    ASSUME RouterInv, RoutesInv, NEW n \in Node, NEW p \in Packet, NEW rest,
           NEW from \in ifaces[n] \cup {LocalHost},
           from = LocalHost =>
               RoutingMode(p) \notin {ROUTING_FACE_LEFT, ROUTING_FACE_RIGHT},
           HandleMessage(n, from, p, rest),
           NEW t \in Traffic, fate[t] # "dropped", fate'[t] = "dropped"
    PROVE  p.id = t /\ DeadEnd(n, from, p)
<1>1. p.id \in Traffic /\ fate \in [Traffic -> Fate]
  BY DEF Packet, RouterInv
<1>2. p.id = t
  BY <1>1 DEF HandleMessage
<1>3. ForwardPacket(n, from, p) = {}
  BY <1>1, <1>2 DEF HandleMessage
<1> QED
  BY <1>2, <1>3, StuckAtDeadEnd DEF RouterInv

\* No router drops a packet that it could send on: in every network, with either octet for
\* the routing mode, and while the flood changes the tables.
THEOREM DropsAreExplained == RouterSpec => DropsExplained
<1>1. RouterInv /\ RoutesInv /\ [Connect \/ RouterNext]_routerVars =>
        [\A t \in Traffic : fate[t] # "dropped" /\ fate'[t] = "dropped" =>
             \E e \in Arriving : e.pkt.id = t /\ DeadEnd(e.to, e.from, e.pkt)]_routerVars
  <2> SUFFICES ASSUME RouterInv, RoutesInv, Connect \/ RouterNext,
                      NEW t \in Traffic, fate[t] # "dropped", fate'[t] = "dropped"
               PROVE  \E e \in Arriving : e.pkt.id = t /\ DeadEnd(e.to, e.from, e.pkt)
    OBVIOUS
  <2>1. CASE Connect \/ FloodStep
    BY <2>1 DEF Connect, FloodStep
  <2>2. ASSUME NEW u \in Traffic, SendFromLocal(u)
        PROVE  \E e \in Arriving : e.pkt.id = t /\ DeadEnd(e.to, e.from, e.pkt)
    <3>1. PICK p : p = NewPacket(u)
      OBVIOUS
    <3>2. Source[u] \in Node /\ HandleMessage(Source[u], LocalHost, p, flight)
      BY <2>2, <3>1, TrafficAssumption DEF SendFromLocal
    <3>3. p \in Packet /\ RoutingMode(p) \notin {ROUTING_FACE_LEFT, ROUTING_FACE_RIGHT}
      BY <3>1, NewPacketIs
    <3>4. p.id = t /\ DeadEnd(Source[u], LocalHost, p)
      BY <3>2, <3>3, HandleDrops
    <3>5. PICK e : e = [from |-> LocalHost, to |-> Source[u], pkt |-> p]
      OBVIOUS
    <3>6. e \in Arriving
      BY <3>1, <3>5 DEF Arriving
    <3>7. e.pkt = p /\ e.to = Source[u] /\ e.from = LocalHost
      BY <3>5
    <3> QED
      BY <3>4, <3>6, <3>7
  <2>3. ASSUME NEW e \in flight, ReceiveData(e)
        PROVE  \E g \in Arriving : g.pkt.id = t /\ DeadEnd(g.to, g.from, g.pkt)
    <3>1. e \in [from : Node, to : Node, pkt : Packet]
      BY DEF RouterInv
    <3>2. e.from \in ifaces[e.to] /\ HandleMessage(e.to, e.from, e.pkt, flight \ {e})
      BY <2>3 DEF ReceiveData
    <3>3. e.from # LocalHost /\ e.to \in Node /\ e.pkt \in Packet
      BY <3>1, TrafficAssumption
    <3>4. e.pkt.id = t /\ DeadEnd(e.to, e.from, e.pkt)
      BY <3>2, <3>3, HandleDrops
    <3> QED
      BY <3>4 DEF Arriving
  <2> QED
    BY <2>1, <2>2, <2>3 DEF RouterNext
<1> QED
  BY <1>1, RouterInvCorrect, RoutesInvCorrect, PTL DEF RouterSpec, DropsExplained
------------------------------------------------------------------------------
(* Packets that the local tables send on.                                  *)

\* A packet that leaves by the local table goes to its destination, or to a neighbour whose
\* local table names the destination as the next hop: two hops, then it is there.
LocalHops ==
    [][TriangleFree =>
         \A e \in flight' \ flight :
             local[e.from][Destination[e.pkt.id]] # NoIface =>
                 \/ e.to = Destination[e.pkt.id]
                 \/ local'[e.to][Destination[e.pkt.id]] = Destination[e.pkt.id]]_routerVars

LEMMA LocalHop ==
    ASSUME TypeOK, RoutesExist, LocalRoutesLead, TriangleFree,
           NEW n \in Node, NEW from, NEW p \in Packet, NEW hop \in ForwardPacket(n, from, p),
           local[n][Destination[p.id]] # NoIface
    PROVE  \/ hop.to = Destination[p.id]
           \/ local[hop.to][Destination[p.id]] = Destination[p.id]
<1>1. Destination[p.id] \in Node
  BY TrafficAssumption DEF Packet
<1>2. PICK out : out = local[n][Destination[p.id]]
  OBVIOUS
<1>3. out \in ifaces[n] /\ out \in Node
  BY <1>1, <1>2 DEF RoutesExist, TypeOK
<1>4. hop \in Sent(n, out, p)
  BY <1>2, <1>3 DEF ForwardPacket
<1>5. hop.to = out
  BY <1>4, SentIs
<1> QED
  BY <1>1, <1>2, <1>3, <1>5 DEF LocalRoutesLead

\* In a network without triangles a packet whose destination is in the local table is on its
\* way for two hops at most, even while the flood changes the tables: the safety half of
\* LocalTrafficArrives.
THEOREM LocalPacketsLead == RouterSpec => LocalHops
<1>1. RouterInv /\ RoutesExist /\ LocalRoutesLead /\ [Connect \/ RouterNext]_routerVars =>
        [TriangleFree =>
           \A e \in flight' \ flight :
               local[e.from][Destination[e.pkt.id]] # NoIface =>
                   \/ e.to = Destination[e.pkt.id]
                   \/ local'[e.to][Destination[e.pkt.id]] = Destination[e.pkt.id]]_routerVars
  <2> SUFFICES ASSUME RouterInv, RoutesExist, LocalRoutesLead, TriangleFree,
                      Connect \/ RouterNext, NEW e \in flight' \ flight,
                      local[e.from][Destination[e.pkt.id]] # NoIface
               PROVE  \/ e.to = Destination[e.pkt.id]
                      \/ local'[e.to][Destination[e.pkt.id]] = Destination[e.pkt.id]
    OBVIOUS
  <2>1. ASSUME UNCHANGED vars, NEW n \in Node, NEW from, NEW p \in Packet, NEW rest,
               rest \subseteq flight, HandleMessage(n, from, p, rest)
        PROVE  \/ e.to = Destination[e.pkt.id]
               \/ local'[e.to][Destination[e.pkt.id]] = Destination[e.pkt.id]
    <3>1. e \in ForwardPacket(n, from, p)
      BY <2>1 DEF HandleMessage
    <3>2. TypeOK /\ local' = local
      BY <2>1 DEF RouterInv, IInv, vars
    <3>3. e.from = n /\ e.pkt.id = p.id
      BY <3>1, <3>2, Forwarded DEF HopOf
    <3> QED
      BY <3>1, <3>2, <3>3, LocalHop
  <2>2. CASE Connect \/ FloodStep
    BY <2>2 DEF Connect, FloodStep
  <2>3. ASSUME NEW t \in Traffic, SendFromLocal(t)
        PROVE  \/ e.to = Destination[e.pkt.id]
               \/ local'[e.to][Destination[e.pkt.id]] = Destination[e.pkt.id]
    <3>1. PICK p : p = NewPacket(t) /\ p \in Packet
      BY NewPacketIs
    <3>2. Source[t] \in Node
      BY TrafficAssumption
    <3> QED
      BY <2>1, <2>3, <3>1, <3>2 DEF SendFromLocal
  <2>4. ASSUME NEW g \in flight, ReceiveData(g)
        PROVE  \/ e.to = Destination[e.pkt.id]
               \/ local'[e.to][Destination[e.pkt.id]] = Destination[e.pkt.id]
    <3>1. g.to \in Node /\ g.pkt \in Packet
      BY DEF RouterInv
    <3> QED
      BY <2>1, <2>4, <3>1 DEF ReceiveData
  <2> QED
    BY <2>2, <2>3, <2>4 DEF RouterNext
<1> QED
  BY <1>1, RouterInvCorrect, RoutesAreConnected, LocalRoutesUnderTraffic, PTL
  DEF RouterSpec, LocalHops

================================================================================
