---------------------------- MODULE LocationLookup ----------------------------
(***************************************************************************)
(* LocationLookupManager and LocalInterface of every node: the datagrams   *)
(* of a host wait until the location of their destination is known, which  *)
(* is looked up in a distributed table.  A query goes from contact to      *)
(* contact, each closer to the queried address by xor, and the node that   *)
(* knows of none closer answers it.                                        *)
(*                                                                         *)
(* A node's location never changes and is named by its address.  Contacts  *)
(* are a set here; module ContactsSet checks that the sorted vector of the *)
(* code finds the closest one.  Handlers run in one thread, the one that   *)
(* calls FDNotifier::waitForFD: each is one step, with all that it calls.  *)
(***************************************************************************)
EXTENDS Naturals, FiniteSets

CONSTANTS
    Address,
    Node,          \* the addresses of the nodes
    XorDistance,   \* XorDistance[x][y], as a number
    Variations,    \* Variations[x]: the addresses that differ from x in one bit
    Heard,         \* <<n, p>>: adverts of p get as far as n (module LocationFlood)
    Datagram, Origin, Dest,   \* what hosts send, from which node, to which address
    Refreshing     \* bound: the nodes that refresh their contacts, once each

ASSUME LookupAssumption ==
    /\ Node \subseteq Address
    /\ IsFiniteSet(Address)
    /\ XorDistance \in [Address -> [Address -> Nat]]
    /\ \A x, y \in Address : XorDistance[x][y] = XorDistance[y][x]
    /\ \A x, y, q \in Address : XorDistance[x][q] = XorDistance[y][q] => x = y
    /\ Variations \in [Address -> SUBSET Address]
    /\ \A n \in Node : n \notin Variations[n]
    /\ Heard \subseteq Node \X Node
    /\ \A n \in Node : <<n, n>> \notin Heard
    /\ Origin \in [Datagram -> Node]
    /\ Dest \in [Datagram -> Address]
    /\ \A g \in Datagram : Origin[g] # Dest[g]
    /\ Refreshing \subseteq Node

VARIABLES
    reliable,                  \* never changes: whether packets are lost or repeated
    contacts,                  \* ContactsSet
    waitingForLookup,          \* the addresses that the lookup manager waits for
    waitingForLocationLookup,  \* the datagrams that the local interface has queued
    net,                       \* FIND_CLOSEST and FIND_RESPONSE packets under way
    times,                     \* how often each datagram was sent; 2 is twice or more
    refreshed                  \* the nodes that have refreshed their contacts

vars == <<reliable, contacts, waitingForLookup, waitingForLocationLookup, net, times,
          refreshed>>

FindClosest == [type : {"find closest"}, to : Node, query : Address, requester : Node]
FindResponse == [type : {"find response"}, to : Node, from : Node]

TypeOK ==
    /\ reliable \in BOOLEAN
    /\ contacts \in [Node -> SUBSET Node]
    /\ \A n \in Node : n \notin contacts[n]
    /\ waitingForLookup \in [Node -> SUBSET Address]
    /\ waitingForLocationLookup \in [Node -> SUBSET Datagram]
    /\ net \subseteq FindClosest \cup FindResponse
    /\ times \in [Datagram -> 0 .. 2]
    /\ refreshed \subseteq Refreshing

Init ==
    /\ reliable \in BOOLEAN
    /\ contacts = [n \in Node |-> {}]
    /\ waitingForLookup = [n \in Node |-> {}]
    /\ waitingForLocationLookup = [n \in Node |-> {}]
    /\ net = {}
    /\ times = [g \in Datagram |-> 0]
    /\ refreshed = {}

------------------------------------------------------------------------------

\* findClosestEntry, of a table that is not empty.
ClosestEntry(n, q) ==
    CHOOSE p \in contacts[n] :
        \A o \in contacts[n] : XorDistance[p][q] <= XorDistance[o][q]

SomeoneCloser(n, q) == \E p \in contacts[n] : XorDistance[p][q] < XorDistance[n][q]

\* The packets of requestLocationLookup by node n, none when it has no contacts.
Requests(n, queries) ==
    IF contacts[n] = {} THEN {}
    ELSE {[type |-> "find closest", to |-> ClosestEntry(n, q), query |-> q,
           requester |-> n] : q \in queries}

\* locationLookupCompleted for address p at node n, called `calls' times: every queued
\* datagram for p is sent and stays in the queue.
LocationLookupCompleted(n, p, calls) ==
    times' = [g \in Datagram |->
                IF g \in waitingForLocationLookup[n] /\ Dest[g] = p
                THEN IF times[g] + calls > 2 THEN 2 ELSE times[g] + calls
                ELSE times[g]]

\* Mutation of ProcessEntrySuggestion: the node becomes its own contact.
ProcessSuggestionOfSelf(n, p, calls) ==
    /\ contacts' = [contacts EXCEPT ![n] = @ \cup {p}]
    /\ waitingForLookup' = [waitingForLookup EXCEPT ![n] = @ \ {p}]
    /\ LocationLookupCompleted(n, p, calls)

\* Mutation of ProcessEntrySuggestion: the contact takes the place of the others.
ProcessSuggestionOverwriting(n, p, calls) ==
    /\ contacts' = [contacts EXCEPT ![n] = {p} \ {n}]
    /\ waitingForLookup' = [waitingForLookup EXCEPT ![n] = @ \ {p}]
    /\ LocationLookupCompleted(n, p, calls)

\* Mutation of ProcessEntrySuggestion: the listeners are not called.
ProcessSuggestionQuietly(n, p, calls) ==
    /\ contacts' = [contacts EXCEPT ![n] = @ \cup ({p} \ {n})]
    /\ waitingForLookup' = [waitingForLookup EXCEPT ![n] = @ \ {p}]
    /\ times' = times

\* processEntrySuggestion, with the `calls' of the listeners it or its caller makes.
ProcessEntrySuggestion(n, p, calls) ==
    /\ contacts' = [contacts EXCEPT ![n] = @ \cup ({p} \ {n})]
    /\ waitingForLookup' = [waitingForLookup EXCEPT ![n] = @ \ {p}]
    /\ LocationLookupCompleted(n, p, calls)

------------------------------------------------------------------------------

\* LocalInterface::sendIPv6Message, once for each datagram of the host.
SendIPv6Message(g) ==
    LET n == Origin[g]
    IN  /\ times[g] = 0
        /\ g \notin waitingForLocationLookup[n]
        /\ \/ /\ Dest[g] \in contacts[n]
              /\ times' = [times EXCEPT ![g] = 1]
              /\ UNCHANGED <<waitingForLookup, waitingForLocationLookup, net>>
           \/ /\ Dest[g] \notin contacts[n]
              /\ waitingForLocationLookup' =
                    [waitingForLocationLookup EXCEPT ![n] = @ \cup {g}]
              /\ waitingForLookup' = [waitingForLookup EXCEPT ![n] = @ \cup {Dest[g]}]
              /\ net' = net \cup Requests(n, {Dest[g]})
              /\ UNCHANGED times
        /\ UNCHANGED <<reliable, contacts, refreshed>>

RefreshRoutingTable(n) ==
    /\ n \in Refreshing \ refreshed
    /\ refreshed' = refreshed \cup {n}
    /\ waitingForLookup' = [waitingForLookup EXCEPT ![n] = @ \cup Variations[n]]
    /\ net' = net \cup Requests(n, Variations[n])
    /\ UNCHANGED <<reliable, contacts, waitingForLocationLookup, times>>

\* An advert of p arrives at n, whenever the router gets one.
HandleLocationInfo(n, p) ==
    /\ <<n, p>> \in Heard
    /\ ProcessEntrySuggestion(n, p, 1)
    /\ UNCHANGED <<reliable, waitingForLocationLookup, net, refreshed>>

\* Mutation of HandleFindClosest: the contact need not be closer than the node.
HandlePassingOnAlways(m, rest) ==
    LET n == m.to
        response == [type |-> "find response", to |-> m.requester, from |-> n]
    IN  /\ m.type = "find closest"
        /\ \/ /\ contacts[n] # {}
              /\ net' = rest \cup {[m EXCEPT !.to = ClosestEntry(n, m.query)]}
              /\ UNCHANGED <<contacts, waitingForLookup, times>>
           \/ /\ contacts[n] = {}
              /\ net' = rest \cup (IF m.requester = n THEN {} ELSE {response})
              /\ ProcessEntrySuggestion(n, m.requester, 1)
        /\ UNCHANGED <<reliable, waitingForLocationLookup, refreshed>>

\* Mutation of HandleFindClosest: the requester is not recorded.
HandleWithoutRequester(m, rest) ==
    LET n == m.to
        response == [type |-> "find response", to |-> m.requester, from |-> n]
    IN  /\ m.type = "find closest"
        /\ \/ /\ SomeoneCloser(n, m.query)
              /\ net' = rest \cup {[m EXCEPT !.to = ClosestEntry(n, m.query)]}
           \/ /\ ~SomeoneCloser(n, m.query)
              /\ net' = rest \cup (IF m.requester = n THEN {} ELSE {response})
        /\ UNCHANGED <<reliable, contacts, waitingForLookup, waitingForLocationLookup,
                       times, refreshed>>

\* handleDHTPacket of a query: it is passed on to a closer contact or answered.  A node
\* that gets its own query back answers itself, which changes nothing.
HandleFindClosest(m, rest) ==
    LET n == m.to
        response == [type |-> "find response", to |-> m.requester, from |-> n]
    IN  /\ m.type = "find closest"
        /\ \/ /\ SomeoneCloser(n, m.query)
              /\ net' = rest \cup {[m EXCEPT !.to = ClosestEntry(n, m.query)]}
              /\ UNCHANGED <<contacts, waitingForLookup, times>>
           \/ /\ ~SomeoneCloser(n, m.query)
              /\ net' = rest \cup (IF m.requester = n THEN {} ELSE {response})
              /\ ProcessEntrySuggestion(n, m.requester, 1)
        /\ UNCHANGED <<reliable, waitingForLocationLookup, refreshed>>

\* handleDHTPacket of an answer: an awaited one calls the listeners twice.
HandleFindResponse(m, rest) ==
    /\ m.type = "find response"
    /\ net' = rest
    /\ ProcessEntrySuggestion(m.to, m.from,
                              IF m.from \in waitingForLookup[m.to] THEN 2 ELSE 1)
    /\ UNCHANGED <<reliable, waitingForLocationLookup, refreshed>>

HandleDHTPacket(m, rest) == HandleFindClosest(m, rest) \/ HandleFindResponse(m, rest)

Deliver(m) == m \in net /\ HandleDHTPacket(m, net \ {m})

Duplicate(m) == ~reliable /\ m \in net /\ HandleDHTPacket(m, net)

Lose(m) ==
    /\ ~reliable
    /\ net' = net \ {m}
    /\ UNCHANGED <<reliable, contacts, waitingForLookup, waitingForLocationLookup, times,
                   refreshed>>

Next ==
    \/ \E g \in Datagram : SendIPv6Message(g)
    \/ \E n \in Node : RefreshRoutingTable(n)
    \/ \E n, p \in Node : HandleLocationInfo(n, p)
    \/ \E m \in net : Deliver(m) \/ Duplicate(m) \/ Lose(m)

Spec == Init /\ [][Next]_vars

\* A packet that is not lost arrives.
FairSpec == Spec /\ WF_vars(\E m \in net : Deliver(m))

------------------------------------------------------------------------------
(* Properties.                                                             *)

\* A datagram that was queued and never sent is still looked for, and its location is not
\* known: LocalInterface's queue and the two tables of LocationLookupManager, which
\* change in different calls, never leave a datagram behind that could be sent.
NothingForgotten ==
    \A g \in Datagram :
        times[g] = 0 /\ g \in waitingForLocationLookup[Origin[g]]
            => Dest[g] \in waitingForLookup[Origin[g]] \ contacts[Origin[g]]

\* A datagram is sent to where its destination is: its location is that of a contact.
SentToContact ==
    \A g \in Datagram : times[g] > 0 => Dest[g] \in contacts[Origin[g]]

\* "knows is [...] symmetric (a knows b iff b knows a)" (location_lookup_proof.md:14),
\* if no packet is lost: a contact that n did not hear of by an advert has n as a contact,
\* or will when the answer to its query gets there.
KnowsSymmetric ==
    reliable =>
        \A n, p \in Node :
            p \in contacts[n] =>
                \/ <<n, p>> \in Heard
                \/ n \in contacts[p]
                \/ [type |-> "find response", to |-> p, from |-> n] \in net

\* Queries and answers come to an end on a network that repeats none of them, although
\* contacts change under way and packets carry no time to live.
LookupsEnd == reliable => <>[](net = {})

\* "once the location lookup contacts table has converged (it stops changing), location
\* lookups are guaranteed to succeed given that messages arrive properly if sent"
\* (location_lookup_proof.md:3-4).  Answerer(q)[n] is the node that answers a query
\* that n has to handle.
Answerer(q) ==
    LET answerer[n \in Node] ==
            IF SomeoneCloser(n, q) THEN answerer[ClosestEntry(n, q)] ELSE n
    IN  answerer

Asked(n, q) == Answerer(q)[ClosestEntry(n, q)]

Converged ==
    /\ \A l \in Heard : l[2] \in contacts[l[1]]
    /\ net = {}
    /\ \A n \in Node : \A q \in Variations[n] : contacts[n] # {} =>
          \/ Asked(n, q) = n
          \/ Asked(n, q) \in contacts[n] /\ n \in contacts[Asked(n, q)]

LookupsSucceed ==
    Converged => \A n \in Node : \A q \in Node \ {n} :
        contacts[n] # {} => q \in contacts[n] \/ Asked(n, q) = q

==============================================================================
