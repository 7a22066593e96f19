------------------------------ MODULE UDPBridge ------------------------------
(***************************************************************************)
(* UDPManager: processes that open links to each other over UDP.  A client *)
(* says Hello with the id of an interface it has made; the server makes an *)
(* interface of its own and answers Established with both ids; from then   *)
(* on each side sends fragments to the id of the other.  Nothing is sent   *)
(* again, no sender is checked, and a process that restarts counts its     *)
(* interfaces from 1 once more, while datagrams to its predecessor are     *)
(* still under way and its peers keep their interfaces.                    *)
(*                                                                         *)
(* The network is the set of datagrams that may still arrive.  None is ever *)
(* taken out by arriving: a datagram may come again, late, or never, which *)
(* is what UDP promises.                                                   *)
(*                                                                         *)
(* Epochs are history: they number the lives of a process and are not in   *)
(* the datagrams of the code.  No handler depends on them.                 *)
(***************************************************************************)
EXTENDS Integers, Sequences

CONSTANTS
    Node,            \* processes, which are their own UDP addresses
    UdpPeers,        \* udp_peers: the peers that each process connects to, in order
    IfaceModulus,    \* 2^16: interface ids are 16-bit
    MaxEpoch         \* bound: lives of each process

ASSUME BridgeAssumption ==
    /\ UdpPeers \in [Node -> Seq(Node)]
    /\ IfaceModulus \in Nat \ {0, 1}
    /\ MaxEpoch \in [Node -> Nat]

VARIABLES
    up,                  \* is the process running?
    epoch,               \* how often it has started
    todo,                \* the peers that main has yet to connect to
    nextIfaceID,
    connectingLinks,     \* interface id -> address, for those waiting for Established
    establishedLinks,    \* interface id -> Endpoint, for those connected to the router
    net                  \* the datagrams that may arrive

process == <<up, epoch, todo, nextIfaceID, connectingLinks, establishedLinks>>
vars == <<up, epoch, todo, nextIfaceID, connectingLinks, establishedLinks, net>>

Iface == 1 .. IfaceModulus - 1
\* The interfaces that n makes for its udp_peers, before it takes any datagram.
ClientIface(n) == 1 .. Len(UdpPeers[n])

Epoch == UNION {0 .. MaxEpoch[n] : n \in Node}

\* source and target are the interface ids that a datagram carries, of the sender and of
\* the receiver; a Hello has no target.  `life' is the life of the receiver to which the
\* target belongs.
Datagram == [type : {"Hello", "Established", "Fragment"},
             from : Node, source : Iface, epoch : Epoch,
             to : Node, target : 0 .. IfaceModulus - 1, life : Epoch]

\* addr and mRemoteIface of an established interface; `life' is the life of the peer that
\* it was agreed with.
Endpoint == [addr : Node, remote : Iface, life : Epoch]

Hello(n, id, peer) ==
    [type |-> "Hello", from |-> n, source |-> id, epoch |-> epoch[n],
     to |-> peer, target |-> 0, life |-> 0]

Established(n, id, hello) ==
    [type |-> "Established", from |-> n, source |-> id, epoch |-> epoch[n],
     to |-> hello.from, target |-> hello.source, life |-> hello.epoch]

\* A fragment of a packet that interface id of n sends to its endpoint e at the peer.
Fragment(n, id, e) ==
    [type |-> "Fragment", from |-> n, source |-> id, epoch |-> epoch[n],
     to |-> e.addr, target |-> e.remote, life |-> e.life]

Empty == [id \in {} |-> {}]

\* f with value at id: std::map::insert, for a key that is not there.
With(f, id, value) == [i \in DOMAIN f \cup {id} |-> IF i = id THEN value ELSE f[i]]

Values(f) == {f[i] : i \in DOMAIN f}

Without(f, id) == [i \in DOMAIN f \ {id} |-> f[i]]

Init ==
    /\ up = [n \in Node |-> FALSE]
    /\ epoch = [n \in Node |-> 0]
    /\ todo = [n \in Node |-> <<>>]
    /\ nextIfaceID = [n \in Node |-> 1]
    /\ connectingLinks = [n \in Node |-> Empty]
    /\ establishedLinks = [n \in Node |-> Empty]
    /\ net = {}

------------------------------------------------------------------------------

\* Datagrams sent before to this address come late, or went where nobody listened.
Start(n) ==
    /\ ~up[n]
    /\ epoch[n] < MaxEpoch[n]
    /\ up' = [up EXCEPT ![n] = TRUE]
    /\ epoch' = [epoch EXCEPT ![n] = @ + 1]
    /\ todo' = [todo EXCEPT ![n] = UdpPeers[n]]
    /\ net' \in {net, {d \in net : d.to # n}}
    /\ UNCHANGED <<nextIfaceID, connectingLinks, establishedLinks>>

\* The process ends and its memory is gone.
End(n) ==
    /\ up' = [up EXCEPT ![n] = FALSE]
    /\ todo' = [todo EXCEPT ![n] = <<>>]
    /\ nextIfaceID' = [nextIfaceID EXCEPT ![n] = 1]
    /\ connectingLinks' = [connectingLinks EXCEPT ![n] = Empty]
    /\ establishedLinks' = [establishedLinks EXCEPT ![n] = Empty]
    /\ UNCHANGED epoch

Crash(n) == up[n] /\ End(n) /\ UNCHANGED net

\* Mutation of NextIface: past the end, ids are used again.
NextIfaceAgain(id) == IF id = IfaceModulus - 1 THEN 1 ELSE id + 1

\* Mutation of NextIface: a counter wider than the field.
NextIfaceUnwrapped(id) == id + 1

\* nextIfaceID++, which wraps around.
NextIface(id) == IF id = IfaceModulus - 1 THEN 0 ELSE id + 1

\* The assertion of AbstractLinkEndpoint's constructor; when it fails the process ends.
CanAllocate(n) == nextIfaceID[n] # 0

ConnectTo(n) ==
    /\ up[n]
    /\ todo[n] # <<>>
    /\ IF CanAllocate(n)
       THEN LET id == nextIfaceID[n]
                peer == Head(todo[n])
            IN  /\ nextIfaceID' = [nextIfaceID EXCEPT ![n] = NextIface(id)]
                /\ todo' = [todo EXCEPT ![n] = Tail(@)]
                /\ connectingLinks' = [connectingLinks EXCEPT ![n] = With(@, id, peer)]
                /\ net' = net \cup {Hello(n, id, peer)}
                /\ UNCHANGED <<up, epoch, establishedLinks>>
       ELSE End(n) /\ UNCHANGED net

------------------------------------------------------------------------------
(* Handlers: process n takes datagram d.  The router sends an advert over  *)
(* a new interface as soon as it is connected (LocationFlood).             *)

\* Mutation of HandleHello: Established is sent for an interface that is not filed.
HandleHelloUnfiled(n, d) ==
    LET id == nextIfaceID[n]
        e == [addr |-> d.from, remote |-> d.source, life |-> d.epoch]
    IN  IF CanAllocate(n)
        THEN /\ nextIfaceID' = [nextIfaceID EXCEPT ![n] = NextIface(id)]
             /\ net' = net \cup {Established(n, id, d), Fragment(n, id, e)}
             /\ UNCHANGED <<up, epoch, todo, connectingLinks, establishedLinks>>
        ELSE End(n) /\ UNCHANGED net

\* Mutation of HandleHello: no answer.
HandleHelloSilently(n, d) ==
    LET id == nextIfaceID[n]
        e == [addr |-> d.from, remote |-> d.source, life |-> d.epoch]
    IN  IF CanAllocate(n)
        THEN /\ nextIfaceID' = [nextIfaceID EXCEPT ![n] = NextIface(id)]
             /\ establishedLinks' = [establishedLinks EXCEPT ![n] = With(@, id, e)]
             /\ net' = net \cup {Fragment(n, id, e)}
             /\ UNCHANGED <<up, epoch, todo, connectingLinks>>
        ELSE End(n) /\ UNCHANGED net

\* Mutation of HandleHello: an endpoint that has the client's id is used again, whoever
\* the client was.
HandleHelloReusing(n, d) ==
    LET known == {i \in DOMAIN establishedLinks[n] : establishedLinks[n][i].remote = d.source}
        id == IF known = {} THEN nextIfaceID[n] ELSE CHOOSE i \in known : TRUE
        e == [addr |-> d.from, remote |-> d.source, life |-> d.epoch]
    IN  IF CanAllocate(n)
        THEN /\ nextIfaceID' = [nextIfaceID EXCEPT ![n] = IF known = {} THEN NextIface(id) ELSE @]
             /\ establishedLinks' =
                  [establishedLinks EXCEPT ![n] = IF known = {} THEN With(@, id, e) ELSE @]
             /\ net' = net \cup {Established(n, id, d)}
             /\ UNCHANGED <<up, epoch, todo, connectingLinks>>
        ELSE End(n) /\ UNCHANGED net

\* processBridgeControlMessage, GeoMesh_UDP_Bridge_Hello: whether or not this Hello came
\* before, a new interface.
HandleHello(n, d) ==
    LET id == nextIfaceID[n]
        e == [addr |-> d.from, remote |-> d.source, life |-> d.epoch]
    IN  IF CanAllocate(n)
        THEN /\ nextIfaceID' = [nextIfaceID EXCEPT ![n] = NextIface(id)]
             /\ establishedLinks' = [establishedLinks EXCEPT ![n] = With(@, id, e)]
             /\ net' = net \cup {Established(n, id, d), Fragment(n, id, e)}
             /\ UNCHANGED <<up, epoch, todo, connectingLinks>>
        ELSE End(n) /\ UNCHANGED net

\* Mutation of HandleEstablished: the interface is taken from the waiting ones and not
\* filed with the established.
HandleEstablishedUnfiled(n, d) ==
    LET id == d.target
        e == [addr |-> connectingLinks[n][id], remote |-> d.source, life |-> d.epoch]
    IN  IF id \in DOMAIN connectingLinks[n]
        THEN /\ connectingLinks' = [connectingLinks EXCEPT ![n] = Without(@, id)]
             /\ net' = net \cup {Fragment(n, id, e)}
             /\ UNCHANGED <<up, epoch, todo, nextIfaceID, establishedLinks>>
        ELSE UNCHANGED vars

\* GeoMesh_UDP_Bridge_Established: only an interface that waits for it.
HandleEstablished(n, d) ==
    LET id == d.target
        e == [addr |-> connectingLinks[n][id], remote |-> d.source, life |-> d.epoch]
    IN  IF id \in DOMAIN connectingLinks[n]
        THEN /\ establishedLinks' = [establishedLinks EXCEPT ![n] = With(@, id, e)]
             /\ connectingLinks' = [connectingLinks EXCEPT ![n] = Without(@, id)]
             /\ net' = net \cup {Fragment(n, id, e)}
             /\ UNCHANGED <<up, epoch, todo, nextIfaceID>>
        ELSE UNCHANGED vars

\* Does n have an endpoint that takes the fragment?  It does not ask who sent it.
Accepts(n, d) == d.target \in DOMAIN establishedLinks[n]

\* processNormalPacketFragment: handed to the endpoint (FragmentingLink) or dropped.
HandleFragment(n, d) == UNCHANGED vars

\* main polls when it has connected to all its peers.
HandleIncoming(n, d) ==
    /\ up[n]
    /\ todo[n] = <<>>
    /\ \/ d.type = "Hello" /\ HandleHello(n, d)
       \/ d.type = "Established" /\ HandleEstablished(n, d)
       \/ d.type = "Fragment" /\ HandleFragment(n, d)

\* The router sends over an interface that it was told of.
SendFragment(n, id) ==
    /\ id \in DOMAIN establishedLinks[n]
    /\ net' = net \cup {Fragment(n, id, establishedLinks[n][id])}
    /\ UNCHANGED process

Arrive(d) == HandleIncoming(d.to, d)

Next ==
    \/ \E n \in Node :
        \/ Start(n) \/ Crash(n) \/ ConnectTo(n)
        \/ \E id \in Iface : SendFragment(n, id)
    \/ \E d \in net : Arrive(d)

\* n's Hello for its interface id, as long as the peer has no interface for it.
ArriveHello(n, id) ==
    \E d \in net :
        /\ d.type = "Hello" /\ d.from = n /\ d.source = id /\ d.epoch = epoch[n]
        /\ [addr |-> n, remote |-> id, life |-> epoch[n]] \notin Values(establishedLinks[d.to])
        /\ Arrive(d)

ArriveEstablished(n, id) ==
    \E d \in net : d.type = "Established" /\ d.to = n /\ d.target = id /\ Arrive(d)

\* A network that loses no Hello and no Established sent to a running process.
Fairness ==
    \A n \in Node :
        /\ WF_vars(ConnectTo(n))
        /\ \A id \in ClientIface(n) : WF_vars(ArriveHello(n, id)) /\ WF_vars(ArriveEstablished(n, id))

Spec == Init /\ [][Next]_vars /\ Fairness

------------------------------------------------------------------------------
(* Properties.                                                             *)

\* t is a partial function from interface ids to S.
IsTable(t, S) == DOMAIN t \subseteq Iface /\ t \in [DOMAIN t -> S]

TypeOK ==
    /\ up \in [Node -> BOOLEAN]
    /\ epoch \in [Node -> Epoch]
    /\ todo \in [Node -> Seq(Node)]
    /\ nextIfaceID \in [Node -> 0 .. IfaceModulus - 1]
    /\ DOMAIN connectingLinks = Node
    /\ DOMAIN establishedLinks = Node
    /\ \A n \in Node : IsTable(connectingLinks[n], Node) /\ IsTable(establishedLinks[n], Endpoint)
    /\ net \subseteq Datagram

\* "Every interface has an ID that is unique throughout the lifetime of the program"
\* (AbstractLinkEndpoint.hpp:38-39): the next id is above all those in use, or the
\* counter is exhausted, and no interface waits and is established at once.
IdsUnique ==
    \A n \in Node :
        /\ DOMAIN connectingLinks[n] \cap DOMAIN establishedLinks[n] = {}
        /\ nextIfaceID[n] # 0 =>
             \A id \in DOMAIN connectingLinks[n] \cup DOMAIN establishedLinks[n] :
                id < nextIfaceID[n]

\* An interface that connectTo made and Established confirmed sends to an interface that
\* the peer made for it and that sends back to it, unless the peer has ended since.
LinkedBothWays ==
    \A n \in Node : \A id \in DOMAIN establishedLinks[n] \cap ClientIface(n) :
        LET e == establishedLinks[n][id]
        IN  up[e.addr] /\ epoch[e.addr] = e.life =>
              /\ e.remote \in DOMAIN establishedLinks[e.addr]
              /\ establishedLinks[e.addr][e.remote].addr = n
              /\ establishedLinks[e.addr][e.remote].remote = id

\* The fragments that were sent to the present life of n, which no handler can tell.
FragmentsFor(n) == {f \in net : f.type = "Fragment" /\ f.to = n /\ f.life = epoch[n]}

\* A fragment is dropped only by a process that has yet to handle the Established for its
\* interface (UDPManager.cpp:234-237): afterwards none is.
DroppedOnlyEarly ==
    \A n \in Node : up[n] =>
        \A f \in FragmentsFor(n) : Accepts(n, f) \/ f.target \in DOMAIN connectingLinks[n]

\* The fragments that interfaces of n take, of whatever life and from whomever: the code
\* looks at the target alone (UDPManager.cpp:183-195).
Taken(n) == {f \in net : f.type = "Fragment" /\ f.to = n /\ Accepts(n, f)}

\* The interface that sent f, of one life of its process: with the life, its packet numbers
\* begin again.
Sender(f) == [addr |-> f.from, iface |-> f.source, life |-> f.epoch]

\* The sender of f answered a Hello of the interface that f is for.
Answered(f) == f.target \in ClientIface(f.to) /\ [f EXCEPT !.type = "Established"] \in net

\* Nobody checks senders, so that an interface may put together what several have sent.
\* This is how far that can go.  A fragment of another process than the peer was sent to
\* a former life of n, to the number of an interface that a Hello has since been given.
\* Two senders are heard by one interface only if n or the peer has started again since,
\* or if the interface is a client's whose Hello came twice: the server made an
\* interface for each, and sends from both.
MixedSenders ==
    \A n \in Node : \A f \in Taken(n) :
        /\ \/ f.from = establishedLinks[n][f.target].addr
           \/ f.life < epoch[n] /\ f.target \notin ClientIface(n)
        /\ \A g \in Taken(n) : g.target = f.target /\ Sender(g) # Sender(f) =>
             \/ f.life < epoch[n] \/ g.life < epoch[n]
             \/ f.epoch # g.epoch
             \/ Answered(f) /\ Answered(g)

\* When no Hello or Established is lost, every interface that waits is established, unless
\* its process or the peer ends.
HandshakeCompletes ==
    \A n \in Node : \A id \in ClientIface(n) :
        LET peer == UdpPeers[n][id]
        IN  up[n] /\ up[peer] /\ id \in DOMAIN connectingLinks[n]
              /\ (\E d \in net : d = Hello(n, id, peer))
            ~> ~up[n] \/ ~up[peer] \/ id \in DOMAIN establishedLinks[n]

==============================================================================
