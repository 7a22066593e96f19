-------------------------- MODULE LocationLookupProofs --------------------------
(***************************************************************************)
(* For every set of addresses with a distance, every set of nodes, every   *)
(* way in which adverts get through, and packets that are lost, repeated   *)
(* and reordered: what the queue of the local interface, the pending       *)
(* lookups and the contacts have to do with each other.                    *)
(***************************************************************************)
EXTENDS LocationLookup, WellFoundedInduction, TLAPS

\* The datagrams that a node queues are those of its own host.
WaitAtOrigin ==
    \A n \in Node : \A g \in waitingForLocationLookup[n] : n = Origin[g]

\* Who answers has recorded the requester first.
ResponderKnows ==
    \A m \in net : m.type = "find response" => m.to \in contacts[m.from]

IInv ==
    /\ TypeOK
    /\ WaitAtOrigin
    /\ ResponderKnows
    /\ NothingForgotten
    /\ SentToContact
    /\ KnowsSymmetric

------------------------------------------------------------------------------
(* Helpers.                                                                *)

\* A set of numbers has a least element.
LEMMA LeastNumber ==
    ASSUME NEW S \in SUBSET Nat, S # {}
    PROVE  \E x \in S : \A y \in S : x <= y
<1>1. PICK x \in S : \A y \in S : ~(<<y, x>> \in OpToRel(<, Nat))
    BY NatLessThanWellFounded, WFMin
<1>2. \A y \in S : ~(y < x)
    BY <1>1 DEF OpToRel
<1>3. \A y \in S : x <= y
    BY <1>2
<1> QED
    BY <1>3

LEMMA AtMostThenLess == \A x, y, z \in Nat : x <= y /\ y < z => x < z
    OBVIOUS

LEMMA DistanceIsNumber == \A x \in Node : \A q \in Address : XorDistance[x][q] \in Nat
    BY LookupAssumption

\* A table that is not empty has a closest entry.
LEMMA ClosestIsContact ==
    ASSUME TypeOK, NEW n \in Node, contacts[n] # {}, NEW q \in Address
    PROVE  /\ ClosestEntry(n, q) \in contacts[n]
           /\ \A o \in contacts[n] :
                 XorDistance[ClosestEntry(n, q)][q] <= XorDistance[o][q]
<1>1. contacts[n] \subseteq Address
    BY LookupAssumption DEF TypeOK
<1>2. \A p \in contacts[n] : XorDistance[p][q] \in Nat
    BY <1>1, LookupAssumption
<1> DEFINE Distances == {XorDistance[p][q] : p \in contacts[n]}
<1>3. Distances \in SUBSET Nat /\ Distances # {}
    BY <1>2
<1>4. PICK x \in Distances : \A y \in Distances : x <= y
    BY <1>3, LeastNumber
<1>5. PICK p \in contacts[n] : x = XorDistance[p][q]
    BY <1>4
<1>6. \A o \in contacts[n] : XorDistance[p][q] <= XorDistance[o][q]
    BY <1>4, <1>5
<1> QED
    BY <1>6 DEF ClosestEntry

\* Requests go to contacts.
LEMMA RequestsAre ==
    ASSUME TypeOK, NEW n \in Node, NEW queries \in SUBSET Address
    PROVE  Requests(n, queries) \subseteq FindClosest
<1>1. CASE contacts[n] = {}
    BY <1>1 DEF Requests
<1>2. CASE contacts[n] # {}
  <2>1. \A q \in queries : ClosestEntry(n, q) \in Node
      BY <1>2, ClosestIsContact DEF TypeOK
  <2>2. \A q \in queries :
           [type |-> "find closest", to |-> ClosestEntry(n, q), query |-> q,
            requester |-> n] \in FindClosest
      BY <2>1 DEF FindClosest
  <2> QED
      BY <1>2, <2>2 DEF Requests
<1> QED
    BY <1>1, <1>2

\* What processEntrySuggestion does to the tables of node n.
LEMMA Suggestion ==
    ASSUME IInv, NEW n \in Node, NEW p \in Node, NEW calls \in {1, 2},
           ProcessEntrySuggestion(n, p, calls),
           UNCHANGED waitingForLocationLookup
    PROVE  /\ contacts' \in [Node -> SUBSET Node]
           /\ \A k \in Node : k \notin contacts'[k]
           /\ \A k \in Node : contacts[k] \subseteq contacts'[k]
           /\ p # n => p \in contacts'[n]
           /\ \A k \in Node : \A o \in contacts'[k] \ contacts[k] : k = n /\ o = p
           /\ waitingForLookup' \in [Node -> SUBSET Address]
           /\ times' \in [Datagram -> 0 .. 2]
           /\ NothingForgotten'
           /\ SentToContact'
<1> USE DEF IInv, TypeOK, ProcessEntrySuggestion
<1>1. /\ contacts' \in [Node -> SUBSET Node]
      /\ waitingForLookup' \in [Node -> SUBSET Address]
    OBVIOUS
<1>2. \A k \in Node : contacts'[k] = IF k = n THEN contacts[k] \cup ({p} \ {n})
                                     ELSE contacts[k]
    OBVIOUS
<1>3. \A k \in Node : waitingForLookup'[k] = IF k = n THEN waitingForLookup[k] \ {p}
                                             ELSE waitingForLookup[k]
    OBVIOUS
<1>4. /\ times' \in [Datagram -> 0 .. 2]
      /\ \A g \in Datagram :
            IF g \in waitingForLocationLookup[n] /\ Dest[g] = p
            THEN times'[g] > 0 ELSE times'[g] = times[g]
    BY DEF LocationLookupCompleted
<1>5. NothingForgotten'
  <2> SUFFICES ASSUME NEW g \in Datagram, times'[g] = 0,
                      g \in waitingForLocationLookup[Origin[g]]
               PROVE  Dest[g] \in waitingForLookup'[Origin[g]] \ contacts'[Origin[g]]
      BY DEF NothingForgotten
  <2>1. Origin[g] \in Node
      BY LookupAssumption
  <2>2. ~(Origin[g] = n /\ Dest[g] = p)
      BY <1>4
  <2>3. times[g] = 0
      BY <1>4, <2>2
  <2>4. Dest[g] \in waitingForLookup[Origin[g]] \ contacts[Origin[g]]
      BY <2>3 DEF NothingForgotten
  <2> QED
      BY <1>2, <1>3, <2>1, <2>2, <2>4
<1>6. SentToContact'
  <2> SUFFICES ASSUME NEW g \in Datagram, times'[g] > 0
               PROVE  Dest[g] \in contacts'[Origin[g]]
      BY DEF SentToContact
  <2>1. Origin[g] \in Node /\ Origin[g] # Dest[g]
      BY LookupAssumption
  <2>2. CASE g \in waitingForLocationLookup[n] /\ Dest[g] = p
    <3>1. Origin[g] = n
        BY <2>2 DEF WaitAtOrigin
    <3> QED
        BY <1>2, <2>1, <2>2, <3>1
  <2>3. CASE ~(g \in waitingForLocationLookup[n] /\ Dest[g] = p)
    <3>1. Dest[g] \in contacts[Origin[g]]
        BY <1>4, <2>3 DEF SentToContact
    <3> QED
        BY <1>2, <2>1, <3>1
  <2> QED
      BY <2>2, <2>3
<1>7. \A k \in Node : k \notin contacts'[k]
    BY <1>2
<1> QED
    BY <1>1, <1>2, <1>4, <1>5, <1>6, <1>7

------------------------------------------------------------------------------
(* Steps.                                                                  *)

LEMMA InitIInv == Init => IInv
<1> SUFFICES ASSUME Init PROVE IInv
    OBVIOUS
<1>1. TypeOK
    BY DEF Init, TypeOK
<1>2. WaitAtOrigin /\ ResponderKnows /\ KnowsSymmetric
    BY DEF Init, WaitAtOrigin, ResponderKnows, KnowsSymmetric
<1>3. NothingForgotten /\ SentToContact
  <2>1. \A g \in Datagram :
           times[g] = 0 /\ waitingForLocationLookup[Origin[g]] = {}
      BY LookupAssumption DEF Init
  <2> QED
      BY <2>1 DEF NothingForgotten, SentToContact
<1> QED
    BY <1>1, <1>2, <1>3 DEF IInv

LEMMA StepSend ==
    ASSUME IInv, NEW g \in Datagram, SendIPv6Message(g)
    PROVE  IInv'
<1> DEFINE n == Origin[g]
<1> USE DEF IInv
<1>1. n \in Node /\ Dest[g] \in Address
    BY LookupAssumption
<1>2. times[g] = 0 /\ g \notin waitingForLocationLookup[n]
    BY DEF SendIPv6Message
<1>3. UNCHANGED <<reliable, contacts, refreshed>>
    BY DEF SendIPv6Message
<1>4. CASE /\ Dest[g] \in contacts[n]
           /\ times' = [times EXCEPT ![g] = 1]
           /\ UNCHANGED <<waitingForLookup, waitingForLocationLookup, net>>
  <2>1. TypeOK'
      BY <1>3, <1>4 DEF TypeOK
  <2>2. \A h \in Datagram : times'[h] = IF h = g THEN 1 ELSE times[h]
      BY <1>4 DEF TypeOK
  <2>3. NothingForgotten'
      BY <1>2, <1>3, <1>4, <2>2 DEF NothingForgotten
  <2>4. SentToContact'
      BY <1>3, <1>4, <2>2 DEF SentToContact
  <2>5. (WaitAtOrigin /\ ResponderKnows /\ KnowsSymmetric)'
      BY <1>3, <1>4 DEF WaitAtOrigin, ResponderKnows, KnowsSymmetric
  <2> QED
      BY <2>1, <2>3, <2>4, <2>5
<1>5. CASE /\ Dest[g] \notin contacts[n]
           /\ waitingForLocationLookup' =
                 [waitingForLocationLookup EXCEPT ![n] = @ \cup {g}]
           /\ waitingForLookup' = [waitingForLookup EXCEPT ![n] = @ \cup {Dest[g]}]
           /\ net' = net \cup Requests(n, {Dest[g]})
           /\ UNCHANGED times
  <2>1. Requests(n, {Dest[g]}) \subseteq FindClosest
      BY <1>1, RequestsAre
  <2>2. TypeOK'
      BY <1>1, <1>3, <1>5, <2>1 DEF TypeOK
  <2>3. \A k \in Node :
           /\ waitingForLocationLookup'[k] = IF k = n THEN waitingForLocationLookup[k] \cup {g}
                                             ELSE waitingForLocationLookup[k]
           /\ waitingForLookup'[k] = IF k = n THEN waitingForLookup[k] \cup {Dest[g]}
                                     ELSE waitingForLookup[k]
      BY <1>1, <1>5 DEF TypeOK
  <2>4. WaitAtOrigin'
    <3> SUFFICES ASSUME NEW k \in Node, NEW h \in waitingForLocationLookup'[k]
                 PROVE  k = Origin[h]
        BY DEF WaitAtOrigin
    <3>1. h \in waitingForLocationLookup[k] \/ (k = n /\ h = g)
        BY <2>3
    <3> QED
        BY <3>1 DEF WaitAtOrigin
  <2>5. NothingForgotten'
    <3> SUFFICES ASSUME NEW h \in Datagram, times[h] = 0,
                        h \in waitingForLocationLookup'[Origin[h]]
                 PROVE  Dest[h] \in waitingForLookup'[Origin[h]] \ contacts[Origin[h]]
        BY <1>3, <1>5 DEF NothingForgotten
    <3>1. Origin[h] \in Node
        BY LookupAssumption
    <3>2. CASE h = g
        BY <1>5, <2>3, <3>1, <3>2
    <3>3. CASE h # g
      <4>1. h \in waitingForLocationLookup[Origin[h]]
          BY <2>3, <3>1, <3>3
      <4>2. Dest[h] \in waitingForLookup[Origin[h]] \ contacts[Origin[h]]
          BY <4>1 DEF NothingForgotten
      <4> QED
          BY <2>3, <3>1, <4>2
    <3> QED
        BY <3>2, <3>3
  <2>6. SentToContact'
      BY <1>3, <1>5 DEF SentToContact
  <2>7. ResponderKnows' /\ KnowsSymmetric'
      BY <1>3, <1>5, <2>1 DEF ResponderKnows, KnowsSymmetric, FindClosest
  <2> QED
      BY <2>2, <2>4, <2>5, <2>6, <2>7
<1> QED
    BY <1>4, <1>5 DEF SendIPv6Message

LEMMA StepRefresh ==
    ASSUME IInv, NEW n \in Node, RefreshRoutingTable(n)
    PROVE  IInv'
<1> USE DEF IInv, RefreshRoutingTable
<1>1. Variations[n] \in SUBSET Address
    BY LookupAssumption
<1>2. Requests(n, Variations[n]) \subseteq FindClosest
    BY <1>1, RequestsAre
<1>3. TypeOK'
    BY <1>1, <1>2 DEF TypeOK
<1>4. \A k \in Node : waitingForLookup[k] \subseteq waitingForLookup'[k]
    BY DEF TypeOK
<1>5. NothingForgotten'
    BY <1>4, LookupAssumption DEF NothingForgotten
<1>6. WaitAtOrigin' /\ SentToContact'
    BY DEF WaitAtOrigin, SentToContact
<1>7. ResponderKnows' /\ KnowsSymmetric'
    BY <1>2 DEF ResponderKnows, KnowsSymmetric, FindClosest
<1> QED
    BY <1>3, <1>5, <1>6, <1>7

LEMMA StepAdvert ==
    ASSUME IInv, NEW n \in Node, NEW p \in Node, HandleLocationInfo(n, p)
    PROVE  IInv'
<1> USE DEF HandleLocationInfo
<1>1. /\ contacts' \in [Node -> SUBSET Node]
      /\ \A k \in Node : k \notin contacts'[k]
      /\ \A k \in Node : contacts[k] \subseteq contacts'[k]
      /\ \A k \in Node : \A o \in contacts'[k] \ contacts[k] : k = n /\ o = p
      /\ waitingForLookup' \in [Node -> SUBSET Address]
      /\ times' \in [Datagram -> 0 .. 2]
      /\ NothingForgotten'
      /\ SentToContact'
    BY Suggestion
<1>2. TypeOK'
    BY <1>1 DEF IInv, TypeOK
<1>3. WaitAtOrigin'
    BY DEF IInv, WaitAtOrigin
<1>4. ResponderKnows'
  <2> SUFFICES ASSUME NEW a \in net', a.type = "find response"
               PROVE  a.to \in contacts'[a.from]
      BY DEF ResponderKnows
  <2>1. a \in FindResponse /\ a.to \in contacts[a.from]
      BY DEF IInv, ResponderKnows, TypeOK, FindClosest
  <2>2. a.from \in Node
      BY <2>1 DEF FindResponse
  <2> QED
      BY <1>1, <2>1, <2>2
<1>5. KnowsSymmetric'
  <2> SUFFICES ASSUME reliable, NEW k \in Node, NEW o \in Node, o \in contacts'[k]
               PROVE  \/ <<k, o>> \in Heard
                      \/ k \in contacts'[o]
                      \/ [type |-> "find response", to |-> o, from |-> k] \in net
      BY DEF KnowsSymmetric
  <2>1. CASE o \in contacts[k]
      BY <1>1, <2>1 DEF IInv, KnowsSymmetric
  <2>2. CASE o \notin contacts[k]
      BY <1>1, <2>2
  <2> QED
      BY <2>1, <2>2
<1> QED
    BY <1>1, <1>2, <1>3, <1>4, <1>5 DEF IInv

\* A query that is passed on changes nothing but the network.
LEMMA StepPassOn ==
    ASSUME IInv, NEW m \in net, m.type = "find closest", SomeoneCloser(m.to, m.query),
           NEW rest \in SUBSET net, net \subseteq rest \cup {m},
           net' = rest \cup {[m EXCEPT !.to = ClosestEntry(m.to, m.query)]},
           UNCHANGED <<reliable, contacts, waitingForLookup, waitingForLocationLookup,
                       times, refreshed>>
    PROVE  IInv'
<1> USE DEF IInv
<1>1. m \in FindClosest
    BY DEF TypeOK, FindResponse
<1>2. m.to \in Node /\ m.query \in Address
    BY <1>1 DEF FindClosest
<1>3. contacts[m.to] # {}
    BY DEF SomeoneCloser
<1>4. ClosestEntry(m.to, m.query) \in Node
    BY <1>2, <1>3, ClosestIsContact DEF TypeOK
<1>5. [m EXCEPT !.to = ClosestEntry(m.to, m.query)] \in FindClosest
    BY <1>1, <1>4 DEF FindClosest
<1>6. TypeOK'
    BY <1>5 DEF TypeOK
<1>7. ResponderKnows'
    BY <1>5 DEF ResponderKnows, FindClosest
<1>8. KnowsSymmetric'
  <2>1. \A r \in net : r.type = "find response" => r \in rest
      OBVIOUS
  <2> QED
      BY <2>1 DEF KnowsSymmetric
<1>9. (WaitAtOrigin /\ NothingForgotten /\ SentToContact)'
    BY DEF WaitAtOrigin, NothingForgotten, SentToContact
<1> QED
    BY <1>6, <1>7, <1>8, <1>9

\* A query that is answered.
LEMMA StepAnswer ==
    ASSUME IInv, NEW m \in net, m.type = "find closest",
           NEW rest \in SUBSET net, net \subseteq rest \cup {m},
           net' = rest \cup (IF m.requester = m.to THEN {}
                             ELSE {[type |-> "find response", to |-> m.requester,
                                    from |-> m.to]}),
           ProcessEntrySuggestion(m.to, m.requester, 1),
           UNCHANGED <<reliable, waitingForLocationLookup, refreshed>>
    PROVE  IInv'
<1> DEFINE n == m.to
           r == m.requester
           response == [type |-> "find response", to |-> r, from |-> n]
<1>1. m \in FindClosest
    BY DEF IInv, TypeOK, FindResponse
<1>2. n \in Node /\ r \in Node
    BY <1>1 DEF FindClosest
<1>3. /\ contacts' \in [Node -> SUBSET Node]
      /\ \A k \in Node : k \notin contacts'[k]
      /\ \A k \in Node : contacts[k] \subseteq contacts'[k]
      /\ r # n => r \in contacts'[n]
      /\ \A k \in Node : \A o \in contacts'[k] \ contacts[k] : k = n /\ o = r
      /\ waitingForLookup' \in [Node -> SUBSET Address]
      /\ times' \in [Datagram -> 0 .. 2]
      /\ NothingForgotten'
      /\ SentToContact'
    BY <1>2, Suggestion
<1>4. response \in FindResponse
    BY <1>2 DEF FindResponse
<1>5. TypeOK'
    BY <1>3, <1>4 DEF IInv, TypeOK
<1>6. WaitAtOrigin'
    BY DEF IInv, WaitAtOrigin
<1>7. ResponderKnows'
  <2> SUFFICES ASSUME NEW a \in net', a.type = "find response"
               PROVE  a.to \in contacts'[a.from]
      BY DEF ResponderKnows
  <2>1. CASE a \in net
    <3>1. a \in FindResponse /\ a.to \in contacts[a.from]
        BY <2>1 DEF IInv, ResponderKnows, TypeOK, FindClosest
    <3>2. a.from \in Node
        BY <3>1 DEF FindResponse
    <3> QED
        BY <1>3, <3>1, <3>2
  <2>2. CASE a \notin net
    <3>1. r # n /\ a = response
        BY <2>2
    <3>2. r \in contacts'[n]
        BY <1>3, <3>1
    <3> QED
        BY <3>1, <3>2
  <2> QED
      BY <2>1, <2>2
<1>8. KnowsSymmetric'
  <2> SUFFICES ASSUME reliable, NEW k \in Node, NEW o \in Node, o \in contacts'[k]
               PROVE  \/ <<k, o>> \in Heard
                      \/ k \in contacts'[o]
                      \/ [type |-> "find response", to |-> o, from |-> k] \in net'
      BY DEF KnowsSymmetric
  <2>1. CASE o \in contacts[k]
    <3>1. \A a \in net : a.type = "find response" => a \in net'
        OBVIOUS
    <3> QED
        BY <1>3, <2>1, <3>1 DEF IInv, KnowsSymmetric
  <2>2. CASE o \notin contacts[k]
    <3>1. k = n /\ o = r
        BY <1>3, <2>2
    <3>2. r # n
        BY <1>2, <1>3, <3>1
    <3> QED
        BY <3>1, <3>2
  <2> QED
      BY <2>1, <2>2
<1> QED
    BY <1>3, <1>5, <1>6, <1>7, <1>8 DEF IInv

\* An answer that arrives: who gets it records who gave it, who knew it already.
LEMMA StepResponse ==
    ASSUME IInv, NEW m \in net,
           NEW rest \in SUBSET net, net \subseteq rest \cup {m},
           HandleFindResponse(m, rest)
    PROVE  IInv'
<1> USE DEF HandleFindResponse
<1>1. m \in FindResponse
    BY DEF IInv, TypeOK, FindClosest
<1>2. m.to \in Node /\ m.from \in Node
    BY <1>1 DEF FindResponse
<1>3. m.to \in contacts[m.from] /\ m.to # m.from
    BY <1>2 DEF IInv, ResponderKnows, TypeOK
<1>4. /\ contacts' \in [Node -> SUBSET Node]
      /\ \A k \in Node : k \notin contacts'[k]
      /\ \A k \in Node : contacts[k] \subseteq contacts'[k]
      /\ m.from # m.to => m.from \in contacts'[m.to]
      /\ \A k \in Node : \A o \in contacts'[k] \ contacts[k] : k = m.to /\ o = m.from
      /\ waitingForLookup' \in [Node -> SUBSET Address]
      /\ times' \in [Datagram -> 0 .. 2]
      /\ NothingForgotten'
      /\ SentToContact'
  <2> DEFINE calls == IF m.from \in waitingForLookup[m.to] THEN 2 ELSE 1
  <2>1. calls \in {1, 2}
      OBVIOUS
  <2>2. ProcessEntrySuggestion(m.to, m.from, calls)
      OBVIOUS
  <2> HIDE DEF calls
  <2> QED
      BY <1>2, <2>1, <2>2, Suggestion
<1>5. TypeOK'
    BY <1>4 DEF IInv, TypeOK
<1>6. WaitAtOrigin'
    BY DEF IInv, WaitAtOrigin
<1>7. ResponderKnows'
  <2> SUFFICES ASSUME NEW a \in net', a.type = "find response"
               PROVE  a.to \in contacts'[a.from]
      BY DEF ResponderKnows
  <2>1. a \in FindResponse /\ a.to \in contacts[a.from]
      BY DEF IInv, ResponderKnows, TypeOK, FindClosest
  <2>2. a.from \in Node
      BY <2>1 DEF FindResponse
  <2> QED
      BY <1>4, <2>1, <2>2
<1>8. KnowsSymmetric'
  <2> SUFFICES ASSUME reliable, NEW k \in Node, NEW o \in Node, o \in contacts'[k]
               PROVE  \/ <<k, o>> \in Heard
                      \/ k \in contacts'[o]
                      \/ [type |-> "find response", to |-> o, from |-> k] \in net'
      BY DEF KnowsSymmetric
  <2>1. CASE k = m.to /\ o = m.from
      BY <1>2, <1>3, <1>4, <2>1
  <2>2. CASE k = m.from /\ o = m.to
      BY <1>3, <1>4, <2>2
  <2>3. CASE ~(k = m.to /\ o = m.from) /\ ~(k = m.from /\ o = m.to)
    <3> DEFINE response == [type |-> "find response", to |-> o, from |-> k]
    <3>1. o \in contacts[k]
        BY <1>4, <2>3
    <3>2. response # m
      <4>1. response.to = o /\ response.from = k
          OBVIOUS
      <4> HIDE DEF response
      <4> QED
          BY <2>3, <4>1
    <3>3. response \in net => response \in net'
        BY <3>2
    <3> QED
        BY <1>4, <3>1, <3>3 DEF IInv, KnowsSymmetric
  <2> QED
      BY <2>1, <2>2, <2>3
<1> QED
    BY <1>4, <1>5, <1>6, <1>7, <1>8 DEF IInv

LEMMA StepHandle ==
    ASSUME IInv, NEW m \in net, NEW rest \in SUBSET net, net \subseteq rest \cup {m},
           HandleDHTPacket(m, rest)
    PROVE  IInv'
<1>1. CASE HandleFindClosest(m, rest)
  <2>1. CASE SomeoneCloser(m.to, m.query)
      BY <1>1, <2>1, StepPassOn DEF HandleFindClosest
  <2>2. CASE ~SomeoneCloser(m.to, m.query)
      BY <1>1, <2>2, StepAnswer DEF HandleFindClosest
  <2> QED
      BY <2>1, <2>2
<1>2. CASE HandleFindResponse(m, rest)
    BY <1>2, StepResponse
<1> QED
    BY <1>1, <1>2 DEF HandleDHTPacket

LEMMA StepLose ==
    ASSUME IInv, NEW m \in net, Lose(m)
    PROVE  IInv'
    BY DEF Lose, IInv, TypeOK, WaitAtOrigin, ResponderKnows, NothingForgotten,
           SentToContact, KnowsSymmetric

\* IInv is an invariant: each step of a handler relates the three tables anew.
THEOREM IInvCorrect == Spec => []IInv
<1>1. IInv /\ [Next]_vars => IInv'
  <2> SUFFICES ASSUME IInv, [Next]_vars PROVE IInv'
      OBVIOUS
  <2>1. CASE \E g \in Datagram : SendIPv6Message(g)
      BY <2>1, StepSend
  <2>2. CASE \E n \in Node : RefreshRoutingTable(n)
      BY <2>2, StepRefresh
  <2>3. CASE \E n, p \in Node : HandleLocationInfo(n, p)
      BY <2>3, StepAdvert
  <2>4. CASE \E m \in net : Deliver(m) \/ Duplicate(m)
      BY <2>4, StepHandle DEF Deliver, Duplicate
  <2>5. CASE \E m \in net : Lose(m)
      BY <2>5, StepLose
  <2>6. CASE UNCHANGED vars
      BY <2>6 DEF vars, IInv, TypeOK, WaitAtOrigin, ResponderKnows, NothingForgotten,
                  SentToContact, KnowsSymmetric
  <2> QED
      BY <2>1, <2>2, <2>3, <2>4, <2>5, <2>6 DEF Next
<1> QED
    BY InitIInv, <1>1, PTL DEF Spec

------------------------------------------------------------------------------
(* Results.                                                                *)

\* No node becomes its own contact, queries and answers go to nodes.
THEOREM TypeCorrect == Spec => []TypeOK
<1>1. IInv => TypeOK
    BY DEF IInv
<1> QED
    BY IInvCorrect, <1>1, PTL

\* LocalInterface and LocationLookupManager never leave a datagram behind whose
\* destination is known.
THEOREM QueueLookedAfter == Spec => []NothingForgotten
<1>1. IInv => NothingForgotten
    BY DEF IInv
<1> QED
    BY IInvCorrect, <1>1, PTL

\* LocalInterface sends datagrams only to contacts.
THEOREM KnownBeforeSent == Spec => []SentToContact
<1>1. IInv => SentToContact
    BY DEF IInv
<1> QED
    BY IInvCorrect, <1>1, PTL

\* If no packet is lost, the contacts that come from lookups are mutual.
THEOREM ContactsMutual == Spec => []KnowsSymmetric
<1>1. IInv => KnowsSymmetric
    BY DEF IInv
<1> QED
    BY IInvCorrect, <1>1, PTL

\* A query that handleDHTPacket passes on gets to a node strictly closer to the queried
\* address: the measure by which every query ends, although it has no time to live.
THEOREM QueriesGetCloser ==
    ASSUME TypeOK, NEW m \in net, m.type = "find closest",
           SomeoneCloser(m.to, m.query)
    PROVE  /\ XorDistance[ClosestEntry(m.to, m.query)][m.query] \in Nat
           /\ XorDistance[ClosestEntry(m.to, m.query)][m.query]
                 < XorDistance[m.to][m.query]
<1>1. m.to \in Node /\ m.query \in Address
    BY DEF TypeOK, FindClosest, FindResponse
<1>2. PICK p \in contacts[m.to] : XorDistance[p][m.query] < XorDistance[m.to][m.query]
    BY DEF SomeoneCloser
<1> DEFINE c == ClosestEntry(m.to, m.query)
<1>3. c \in contacts[m.to] /\ XorDistance[c][m.query] <= XorDistance[p][m.query]
    BY <1>1, <1>2, ClosestIsContact
<1> HIDE DEF c
<1>4. \A x \in Node : XorDistance[x][m.query] \in Nat
    BY <1>1, DistanceIsNumber
<1>5. c \in Node /\ p \in Node
    BY <1>1, <1>3 DEF TypeOK
<1> DEFINE closest == XorDistance[c][m.query]
           some == XorDistance[p][m.query]
           own == XorDistance[m.to][m.query]
<1>6. closest \in Nat /\ some \in Nat /\ own \in Nat
    BY <1>1, <1>4, <1>5
<1>7. closest <= some /\ some < own
    BY <1>2, <1>3
<1> HIDE DEF closest, some, own
<1>8. closest < own
    BY <1>6, <1>7, AtMostThenLess, Zenon
<1> QED
    BY <1>6, <1>8, Zenon DEF closest, own, c

==============================================================================
