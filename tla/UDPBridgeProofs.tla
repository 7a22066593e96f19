--------------------------- MODULE UDPBridgeProofs ---------------------------
(***************************************************************************)
(* Proofs about UDPBridge, for any processes, peers and numbers of ids and *)
(* lives.  A datagram or an endpoint names an interface of another process *)
(* in a certain life; what it says of it holds as long as that life lasts, *)
(* which is what the invariants state.                                     *)
(***************************************************************************)
EXTENDS UDPBridge, TLAPS

\* n is in the life e.
Lives(n, e) == up[n] /\ epoch[n] = e

\* Interface id of n was made by connectTo for peer.
IsClient(n, id, peer) == id \in ClientIface(n) /\ UdpPeers[n][id] = peer

\* n has made interface id, and waits or is established.
Open(n, id) == id \in DOMAIN connectingLinks[n] \/ id \in DOMAIN establishedLinks[n]

\* Interface id of n, made for a Hello, sends to interface `remote' of peer.
ServerEndpoint(n, id, peer, remote) ==
    /\ id \in DOMAIN establishedLinks[n]
    /\ id \notin ClientIface(n)
    /\ establishedLinks[n][id].addr = peer
    /\ establishedLinks[n][id].remote = remote

\* A process that does not run has nothing; one that runs has its client interfaces in
\* the order of udp_peers, and the server interfaces above them.
ProcessInv(n) ==
    /\ ~up[n] => /\ todo[n] = <<>>
                 /\ nextIfaceID[n] = 1
                 /\ connectingLinks[n] = Empty
                 /\ establishedLinks[n] = Empty
    /\ up[n] => \E k \in 0 .. Len(UdpPeers[n]) :
                  /\ Len(todo[n]) = Len(UdpPeers[n]) - k
                  /\ \A i \in 1 .. Len(todo[n]) : todo[n][i] = UdpPeers[n][k + i]
                  /\ nextIfaceID[n] = 0 \/ nextIfaceID[n] > k
                  /\ k < Len(UdpPeers[n]) =>
                       /\ nextIfaceID[n] \in {0, k + 1}
                       /\ establishedLinks[n] = Empty
    /\ \A id \in DOMAIN connectingLinks[n] : IsClient(n, id, connectingLinks[n][id])

\* What an endpoint says of its peer.
EndpointInv(n, id, e) ==
    /\ e.life <= epoch[e.addr]
    /\ id \in ClientIface(n) =>
         /\ UdpPeers[n][id] = e.addr
         /\ e.remote \notin ClientIface(e.addr)
         /\ Lives(e.addr, e.life) => ServerEndpoint(e.addr, e.remote, n, id)
    /\ id \notin ClientIface(n) =>
         /\ IsClient(e.addr, e.remote, n)
         /\ Lives(e.addr, e.life) => Open(e.addr, e.remote)

HelloInv(d) ==
    /\ IsClient(d.from, d.source, d.to)
    /\ d.epoch <= epoch[d.from]
    /\ Lives(d.from, d.epoch) => Open(d.from, d.source)

EstablishedInv(d) ==
    /\ IsClient(d.to, d.target, d.from)
    /\ d.source \notin ClientIface(d.from)
    /\ d.epoch <= epoch[d.from]
    /\ d.life <= epoch[d.to]
    /\ Lives(d.from, d.epoch) => ServerEndpoint(d.from, d.source, d.to, d.target)
    /\ Lives(d.to, d.life) => Open(d.to, d.target)

FragmentInv(d) ==
    EndpointInv(d.from, d.source, [addr |-> d.to, remote |-> d.target, life |-> d.life])

\* The ids of process n, see IdsUnique.
IdsInv(n) ==
    /\ DOMAIN connectingLinks[n] \cap DOMAIN establishedLinks[n] = {}
    /\ nextIfaceID[n] # 0 =>
         \A id \in DOMAIN connectingLinks[n] \cup DOMAIN establishedLinks[n] : id < nextIfaceID[n]

ProcessesInv == \A n \in Node : ProcessInv(n) /\ IdsInv(n)

EndpointsInv ==
    \A n \in Node : \A id \in DOMAIN establishedLinks[n] :
        EndpointInv(n, id, establishedLinks[n][id])

DatagramInv(d) ==
    /\ d.type = "Hello" => HelloInv(d)
    /\ d.type = "Established" => EstablishedInv(d)
    /\ d.type = "Fragment" => FragmentInv(d)

IInv ==
    /\ TypeOK
    /\ ProcessesInv
    /\ EndpointsInv
    /\ \A d \in net : DatagramInv(d)

------------------------------------------------------------------------------
(* Facts about the operators and the constants.                            *)

LEMMA Lengths == \A n \in Node : Len(UdpPeers[n]) \in Nat
BY BridgeAssumption

LEMMA EpochsAreNumbers == Epoch \subseteq Nat
BY BridgeAssumption DEF Epoch

LEMMA NextIfaceRange ==
    ASSUME NEW id \in 0 .. IfaceModulus - 1
    PROVE  /\ NextIface(id) \in 0 .. IfaceModulus - 1
           /\ NextIface(id) \in {0, id + 1}
BY BridgeAssumption DEF NextIface

LEMMA WithTable ==
    ASSUME NEW S, NEW t, IsTable(t, S), NEW id \in Iface, NEW v \in S
    PROVE  /\ IsTable(With(t, id, v), S)
           /\ DOMAIN With(t, id, v) = DOMAIN t \cup {id}
           /\ With(t, id, v)[id] = v
           /\ \A i \in DOMAIN t \ {id} : With(t, id, v)[i] = t[i]
BY DEF IsTable, With

LEMMA WithoutTable ==
    ASSUME NEW S, NEW t, IsTable(t, S), NEW id
    PROVE  /\ IsTable(Without(t, id), S)
           /\ DOMAIN Without(t, id) = DOMAIN t \ {id}
           /\ \A i \in DOMAIN t \ {id} : Without(t, id)[i] = t[i]
BY DEF IsTable, Without

LEMMA EmptyTable == \A S : IsTable(Empty, S) /\ DOMAIN Empty = {}
BY DEF IsTable, Empty

------------------------------------------------------------------------------
(* What is said of a process in one of its lives stays true while that     *)
(* life lasts and nothing is taken from its interfaces.                    *)

Frame ==
    \A m \in Node :
        /\ epoch[m] <= epoch'[m]
        /\ \A e \in Nat : Lives(m, e)' /\ e <= epoch[m] =>
             /\ Lives(m, e)
             /\ \A id : Open(m, id) => Open(m, id)'
             /\ \A id, p, r : ServerEndpoint(m, id, p, r) => ServerEndpoint(m, id, p, r)'

LEMMA FrameKeepsEndpoint ==
    ASSUME TypeOK, TypeOK', Frame, NEW n \in Node, NEW id, NEW e, e.addr \in Node, e.life \in Nat,
           EndpointInv(n, id, e)
    PROVE  EndpointInv(n, id, e)'
<1>1. epoch[e.addr] \in Nat /\ epoch'[e.addr] \in Nat
  BY EpochsAreNumbers DEF TypeOK
<1>2. e.life <= epoch'[e.addr]
  BY <1>1 DEF Frame, EndpointInv
<1> QED
  BY <1>1, <1>2 DEF Frame, EndpointInv

LEMMA FrameKeepsHello ==
    ASSUME TypeOK, TypeOK', Frame, NEW d, d.from \in Node, d.epoch \in Nat, HelloInv(d)
    PROVE  HelloInv(d)'
<1>1. epoch[d.from] \in Nat /\ epoch'[d.from] \in Nat
  BY EpochsAreNumbers DEF TypeOK
<1>2. d.epoch <= epoch'[d.from]
  BY <1>1 DEF Frame, HelloInv
<1> QED
  BY <1>1, <1>2 DEF Frame, HelloInv

LEMMA FrameKeepsEstablished ==
    ASSUME TypeOK, TypeOK', Frame, NEW d, d.from \in Node, d.to \in Node,
           d.epoch \in Nat, d.life \in Nat, EstablishedInv(d)
    PROVE  EstablishedInv(d)'
<1>1. epoch[d.from] \in Nat /\ epoch'[d.from] \in Nat
  BY EpochsAreNumbers DEF TypeOK
<1>2. epoch[d.to] \in Nat /\ epoch'[d.to] \in Nat
  BY EpochsAreNumbers DEF TypeOK
<1>3. d.epoch <= epoch'[d.from] /\ d.life <= epoch'[d.to]
  BY <1>1, <1>2 DEF Frame, EstablishedInv
<1> QED
  BY <1>1, <1>2, <1>3 DEF Frame, EstablishedInv

LEMMA FrameKeepsFragment ==
    ASSUME TypeOK, TypeOK', Frame, NEW d \in Datagram, FragmentInv(d)
    PROVE  FragmentInv(d)'
<1> DEFINE e == [addr |-> d.to, remote |-> d.target, life |-> d.life]
<1>1. d.from \in Node /\ e.addr \in Node /\ e.life \in Nat
  BY EpochsAreNumbers DEF Datagram
<1>2. EndpointInv(d.from, d.source, e)
  BY DEF FragmentInv
<1> HIDE DEF e
<1>3. EndpointInv(d.from, d.source, e)'
  BY <1>1, <1>2, FrameKeepsEndpoint
<1> QED
  BY <1>3 DEF FragmentInv, e

------------------------------------------------------------------------------
(* Type correctness.                                                       *)

LEMMA DatagramTypes ==
    ASSUME TypeOK, NEW n \in Node, NEW id \in Iface
    PROVE  /\ \A peer \in Node : Hello(n, id, peer) \in Datagram
           /\ \A d \in Datagram : Established(n, id, d) \in Datagram
           /\ \A e \in Endpoint : Fragment(n, id, e) \in Datagram
<1>1. epoch[n] \in Epoch
  BY DEF TypeOK
<1>2. Iface \subseteq 0 .. IfaceModulus - 1 /\ 0 \in 0 .. IfaceModulus - 1
  BY BridgeAssumption DEF Iface
<1>3. 0 \in Epoch
  BY BridgeAssumption DEF Epoch
<1>4. ASSUME NEW peer \in Node
      PROVE  Hello(n, id, peer) \in Datagram
  BY <1>1, <1>2, <1>3 DEF Hello, Datagram
<1>5. ASSUME NEW d \in Datagram
      PROVE  Established(n, id, d) \in Datagram
  BY <1>1, <1>2 DEF Established, Datagram
<1>6. ASSUME NEW e \in Endpoint
      PROVE  Fragment(n, id, e) \in Datagram
  BY <1>1, <1>2 DEF Fragment, Datagram, Endpoint
<1> QED
  BY <1>4, <1>5, <1>6

\* A Hello and an Established name an interface of their sender, and an Established one of
\* its receiver.
LEMMA EndpointTypes ==
    ASSUME NEW d \in Datagram
    PROVE  [addr |-> d.from, remote |-> d.source, life |-> d.epoch] \in Endpoint
BY DEF Datagram, Endpoint

LEMMA InitTypeOK == Init => TypeOK
<1> SUFFICES ASSUME Init PROVE TypeOK
  OBVIOUS
<1>1. 0 \in Epoch \/ Node = {}
  BY BridgeAssumption DEF Epoch
<1>2. epoch \in [Node -> Epoch]
  BY <1>1 DEF Init
<1>3. 1 \in 0 .. IfaceModulus - 1
  BY BridgeAssumption
<1> QED
  BY <1>2, <1>3, EmptyTable DEF Init, TypeOK

LEMMA EndTypeOK ==
    ASSUME TypeOK, NEW n \in Node, End(n), UNCHANGED net
    PROVE  TypeOK'
<1>1. 1 \in 0 .. IfaceModulus - 1
  BY BridgeAssumption
<1> QED
  BY <1>1, EmptyTable DEF TypeOK, End

LEMMA StartTypeOK ==
    ASSUME TypeOK, NEW n \in Node, Start(n)
    PROVE  TypeOK'
<1>1. epoch[n] + 1 \in Epoch
  <2>1. epoch[n] \in Nat /\ MaxEpoch[n] \in Nat
    BY EpochsAreNumbers, BridgeAssumption DEF TypeOK
  <2>2. epoch[n] + 1 \in 0 .. MaxEpoch[n]
    BY <2>1 DEF Start
  <2> QED
    BY <2>2 DEF Epoch
<1>2. UdpPeers[n] \in Seq(Node)
  BY BridgeAssumption
<1>3. net' \subseteq Datagram
  BY DEF Start, TypeOK
<1> QED
  BY <1>1, <1>2, <1>3 DEF TypeOK, Start

LEMMA Allocated ==
    ASSUME TypeOK, NEW n \in Node, CanAllocate(n)
    PROVE  /\ nextIfaceID[n] \in Iface
           /\ NextIface(nextIfaceID[n]) \in 0 .. IfaceModulus - 1
<1>1. nextIfaceID[n] \in 0 .. IfaceModulus - 1
  BY DEF TypeOK
<1> QED
  BY <1>1, NextIfaceRange, BridgeAssumption DEF Iface, CanAllocate

LEMMA ConnectToTypeOK ==
    ASSUME TypeOK, NEW n \in Node, ConnectTo(n)
    PROVE  TypeOK'
<1>1. CASE CanAllocate(n)
  <2> DEFINE id == nextIfaceID[n]
             peer == Head(todo[n])
  <2>1. todo[n] \in Seq(Node) /\ todo[n] # <<>>
    BY DEF TypeOK, ConnectTo
  <2>2. peer \in Node /\ Tail(todo[n]) \in Seq(Node)
    BY <2>1
  <2>3. id \in Iface /\ NextIface(id) \in 0 .. IfaceModulus - 1
    BY <1>1, Allocated
  <2>4. IsTable(With(connectingLinks[n], id, peer), Node)
    BY <2>2, <2>3, WithTable DEF TypeOK
  <2>5. Hello(n, id, peer) \in Datagram
    BY <2>2, <2>3, DatagramTypes
  <2> QED
    BY <1>1, <2>2, <2>3, <2>4, <2>5 DEF TypeOK, ConnectTo
<1>2. CASE ~CanAllocate(n)
  BY <1>2, EndTypeOK DEF ConnectTo
<1> QED
  BY <1>1, <1>2

LEMMA HandleHelloTypeOK ==
    ASSUME TypeOK, NEW d \in net, NEW n \in Node, HandleHello(n, d)
    PROVE  TypeOK'
<1>1. CASE CanAllocate(n)
  <2> DEFINE id == nextIfaceID[n]
             e == [addr |-> d.from, remote |-> d.source, life |-> d.epoch]
  <2>1. d \in Datagram
    BY DEF TypeOK
  <2>2. e \in Endpoint
    BY <2>1, EndpointTypes
  <2>3. id \in Iface /\ NextIface(id) \in 0 .. IfaceModulus - 1
    BY <1>1, Allocated
  <2>4. IsTable(With(establishedLinks[n], id, e), Endpoint)
    BY <2>2, <2>3, WithTable DEF TypeOK
  <2>5. Established(n, id, d) \in Datagram /\ Fragment(n, id, e) \in Datagram
    BY <2>1, <2>2, <2>3, DatagramTypes
  <2> HIDE DEF e
  <2> QED
    BY <1>1, <2>3, <2>4, <2>5 DEF TypeOK, HandleHello, e
<1>2. CASE ~CanAllocate(n)
  BY <1>2, EndTypeOK DEF HandleHello
<1> QED
  BY <1>1, <1>2

LEMMA HandleEstablishedTypeOK ==
    ASSUME TypeOK, NEW d \in net, NEW n \in Node, HandleEstablished(n, d)
    PROVE  TypeOK'
<1>1. CASE d.target \in DOMAIN connectingLinks[n]
  <2> DEFINE id == d.target
             e == [addr |-> connectingLinks[n][id], remote |-> d.source, life |-> d.epoch]
  <2>1. d \in Datagram
    BY DEF TypeOK
  <2>2. id \in Iface /\ connectingLinks[n][id] \in Node
    BY <1>1 DEF TypeOK, IsTable
  <2>3. e \in Endpoint
    BY <2>1, <2>2 DEF Datagram, Endpoint
  <2>4. IsTable(With(establishedLinks[n], id, e), Endpoint)
    BY <2>2, <2>3, WithTable DEF TypeOK
  <2>5. IsTable(Without(connectingLinks[n], id), Node)
    BY WithoutTable DEF TypeOK
  <2>6. Fragment(n, id, e) \in Datagram
    BY <2>2, <2>3, DatagramTypes
  <2> HIDE DEF e
  <2> QED
    BY <1>1, <2>4, <2>5, <2>6 DEF TypeOK, HandleEstablished, e
<1>2. CASE d.target \notin DOMAIN connectingLinks[n]
  BY <1>2 DEF HandleEstablished, TypeOK, vars
<1> QED
  BY <1>1, <1>2

LEMMA SendFragmentTypeOK ==
    ASSUME TypeOK, NEW n \in Node, NEW id \in Iface, SendFragment(n, id)
    PROVE  TypeOK'
<1>1. establishedLinks[n][id] \in Endpoint
  BY DEF TypeOK, IsTable, SendFragment
<1>2. Fragment(n, id, establishedLinks[n][id]) \in Datagram
  BY <1>1, DatagramTypes
<1> QED
  BY <1>2 DEF TypeOK, SendFragment, process

LEMMA NextTypeOK == TypeOK /\ [Next]_vars => TypeOK'
<1> SUFFICES ASSUME TypeOK, [Next]_vars PROVE TypeOK'
  OBVIOUS
<1>1. CASE UNCHANGED vars
  BY <1>1 DEF TypeOK, vars
<1>2. ASSUME NEW n \in Node, Start(n) PROVE TypeOK'
  BY <1>2, StartTypeOK
<1>3. ASSUME NEW n \in Node, Crash(n) PROVE TypeOK'
  BY <1>3, EndTypeOK DEF Crash
<1>4. ASSUME NEW n \in Node, ConnectTo(n) PROVE TypeOK'
  BY <1>4, ConnectToTypeOK
<1>5. ASSUME NEW n \in Node, NEW id \in Iface, SendFragment(n, id) PROVE TypeOK'
  BY <1>5, SendFragmentTypeOK
<1>6. ASSUME NEW d \in net, Arrive(d) PROVE TypeOK'
  <2>1. d.to \in Node
    BY DEF TypeOK, Datagram
  <2> QED
    BY <1>1, <1>6, <2>1, HandleHelloTypeOK, HandleEstablishedTypeOK
      DEF Arrive, HandleIncoming, HandleFragment
<1> QED
  BY <1>1, <1>2, <1>3, <1>4, <1>5, <1>6 DEF Next

\* Type correctness: ids stay in 16 bits, endpoints and datagrams name processes and
\* interfaces, however often processes end and start again.
THEOREM TypeCorrect == Spec => []TypeOK
<1>1. Init => TypeOK
  BY InitTypeOK
<1>2. TypeOK /\ [Next]_vars => TypeOK'
  BY NextTypeOK
<1> QED
  BY <1>1, <1>2, PTL DEF Spec

------------------------------------------------------------------------------
(* The inductive invariant.  Every action leaves the other processes       *)
(* alone, and frames what is said of this one.                             *)

LEMMA Framed ==
    ASSUME TypeOK, TypeOK', Frame
    PROVE  /\ \A n \in Node, id \in Iface, e \in Endpoint :
                EndpointInv(n, id, e) => EndpointInv(n, id, e)'
           /\ \A d \in Datagram : DatagramInv(d) => DatagramInv(d)'
<1>1. ASSUME NEW n \in Node, NEW id \in Iface, NEW e \in Endpoint, EndpointInv(n, id, e)
      PROVE  EndpointInv(n, id, e)'
  <2>1. e.addr \in Node /\ e.life \in Nat
    BY EpochsAreNumbers DEF Endpoint
  <2> QED
    BY <1>1, <2>1, FrameKeepsEndpoint
<1>2. ASSUME NEW d \in Datagram, DatagramInv(d)
      PROVE  DatagramInv(d)'
  <2>1. d.from \in Node /\ d.to \in Node /\ d.epoch \in Nat /\ d.life \in Nat
    BY EpochsAreNumbers DEF Datagram
  <2>2. HelloInv(d) => HelloInv(d)'
    BY <2>1, FrameKeepsHello
  <2>3. EstablishedInv(d) => EstablishedInv(d)'
    BY <2>1, FrameKeepsEstablished
  <2>4. FragmentInv(d) => FragmentInv(d)'
    BY FrameKeepsFragment
  <2> QED
    BY <1>2, <2>2, <2>3, <2>4 DEF DatagramInv
<1> QED
  BY <1>1, <1>2

\* Nothing is taken from any process.
Grows ==
    /\ UNCHANGED <<up, epoch>>
    /\ \A m \in Node :
         /\ \A id \in DOMAIN connectingLinks[m] :
              id \in DOMAIN connectingLinks'[m] \/ id \in DOMAIN establishedLinks'[m]
         /\ \A id \in DOMAIN establishedLinks[m] :
              id \in DOMAIN establishedLinks'[m]
                /\ establishedLinks'[m][id] = establishedLinks[m][id]

LEMMA GrowsFrame ==
    ASSUME TypeOK, Grows
    PROVE  Frame
<1> SUFFICES ASSUME NEW m \in Node
             PROVE  /\ epoch[m] <= epoch'[m]
                    /\ \A e \in Nat : Lives(m, e)' /\ e <= epoch[m] =>
                         /\ Lives(m, e)
                         /\ \A id : Open(m, id) => Open(m, id)'
                         /\ \A id, p, r : ServerEndpoint(m, id, p, r) => ServerEndpoint(m, id, p, r)'
  BY DEF Frame
<1>1. epoch[m] \in Nat
  BY EpochsAreNumbers DEF TypeOK
<1>2. \A id : Open(m, id) => Open(m, id)'
  BY DEF Grows, Open
<1>3. \A id, p, r : ServerEndpoint(m, id, p, r) => ServerEndpoint(m, id, p, r)'
  BY DEF Grows, ServerEndpoint
<1> QED
  BY <1>1, <1>2, <1>3 DEF Grows, Lives

LEMMA EndFrame ==
    ASSUME TypeOK, NEW n \in Node, End(n)
    PROVE  Frame
<1> SUFFICES ASSUME NEW m \in Node
             PROVE  /\ epoch[m] <= epoch'[m]
                    /\ \A e \in Nat : Lives(m, e)' /\ e <= epoch[m] =>
                         /\ Lives(m, e)
                         /\ \A id : Open(m, id) => Open(m, id)'
                         /\ \A id, p, r : ServerEndpoint(m, id, p, r) => ServerEndpoint(m, id, p, r)'
  BY DEF Frame
<1>1. epoch[m] \in Nat /\ epoch'[m] = epoch[m]
  BY EpochsAreNumbers DEF TypeOK, End
<1>2. CASE m = n
  BY <1>1, <1>2 DEF End, Lives, TypeOK
<1>3. CASE m # n
  <2>1. /\ up'[m] = up[m]
        /\ connectingLinks'[m] = connectingLinks[m]
        /\ establishedLinks'[m] = establishedLinks[m]
    BY <1>3 DEF End, TypeOK
  <2> QED
    BY <1>1, <2>1 DEF Lives, Open, ServerEndpoint
<1> QED
  BY <1>2, <1>3

LEMMA StartFrame ==
    ASSUME TypeOK, NEW n \in Node, Start(n)
    PROVE  Frame
<1> SUFFICES ASSUME NEW m \in Node
             PROVE  /\ epoch[m] <= epoch'[m]
                    /\ \A e \in Nat : Lives(m, e)' /\ e <= epoch[m] =>
                         /\ Lives(m, e)
                         /\ \A id : Open(m, id) => Open(m, id)'
                         /\ \A id, p, r : ServerEndpoint(m, id, p, r) => ServerEndpoint(m, id, p, r)'
  BY DEF Frame
<1>1. epoch[m] \in Nat
  BY EpochsAreNumbers DEF TypeOK
<1>2. CASE m = n
  <2>1. epoch'[m] = epoch[m] + 1
    BY <1>2 DEF Start, TypeOK
  <2> QED
    BY <1>1, <2>1 DEF Lives
<1>3. CASE m # n
  <2>1. /\ up'[m] = up[m]
        /\ epoch'[m] = epoch[m]
        /\ connectingLinks'[m] = connectingLinks[m]
        /\ establishedLinks'[m] = establishedLinks[m]
    BY <1>3 DEF Start, TypeOK
  <2> QED
    BY <1>1, <2>1 DEF Lives, Open, ServerEndpoint
<1> QED
  BY <1>2, <1>3

\* Process m does not take part in the step.
Still(m) ==
    /\ up'[m] = up[m]
    /\ todo'[m] = todo[m]
    /\ nextIfaceID'[m] = nextIfaceID[m]
    /\ connectingLinks'[m] = connectingLinks[m]
    /\ establishedLinks'[m] = establishedLinks[m]

LEMMA StillProcess ==
    ASSUME NEW m \in Node, Still(m), ProcessInv(m), IdsInv(m)
    PROVE  ProcessInv(m)' /\ IdsInv(m)'
BY DEF Still, ProcessInv, IdsInv

\* The step of process n: what remains to be shown of it.
LEMMA StepOf ==
    ASSUME IInv, TypeOK', Frame, NEW n \in Node,
           \A m \in Node \ {n} : Still(m),
           ProcessInv(n)' /\ IdsInv(n)',
           \A id \in DOMAIN establishedLinks'[n] :
               \/ /\ id \in DOMAIN establishedLinks[n]
                  /\ establishedLinks'[n][id] = establishedLinks[n][id]
               \/ EndpointInv(n, id, establishedLinks[n][id])',
           \A d \in net' : d \in net \/ DatagramInv(d)'
    PROVE  IInv'
<1>1. ProcessesInv'
  BY StillProcess DEF IInv, ProcessesInv
<1>2. EndpointsInv'
  <2> SUFFICES ASSUME NEW m \in Node, NEW id \in DOMAIN establishedLinks'[m]
               PROVE  EndpointInv(m, id, establishedLinks[m][id])'
    BY DEF EndpointsInv
  <2>1. CASE /\ id \in DOMAIN establishedLinks[m]
             /\ establishedLinks'[m][id] = establishedLinks[m][id]
    <3> DEFINE e == establishedLinks[m][id]
    <3>1. EndpointInv(m, id, e)
      BY <2>1 DEF IInv, EndpointsInv
    <3>2. e \in Endpoint /\ id \in Iface
      BY <2>1 DEF IInv, TypeOK, IsTable
    <3>3. PICK x \in Endpoint : x = e
      BY <3>2
    <3>4. EndpointInv(m, id, x)'
      BY <3>1, <3>2, <3>3, Framed DEF IInv
    <3> QED
      BY <2>1, <3>3, <3>4
  <2>2. CASE m = n
    BY <2>1, <2>2
  <2>3. CASE m # n
    BY <2>1, <2>3 DEF Still
  <2> QED
    BY <2>2, <2>3
<1>3. \A d \in net' : DatagramInv(d)'
  <2> SUFFICES ASSUME NEW d \in net', d \in net
               PROVE  DatagramInv(d)'
    OBVIOUS
  <2>1. d \in Datagram /\ DatagramInv(d)
    BY DEF IInv, TypeOK
  <2> QED
    BY <2>1, Framed DEF IInv
<1> QED
  BY <1>1, <1>2, <1>3 DEF IInv

LEMMA EndStep ==
    ASSUME IInv, NEW n \in Node, End(n), UNCHANGED net
    PROVE  IInv'
<1>1. TypeOK'
  BY EndTypeOK DEF IInv
<1>2. Frame
  BY EndFrame DEF IInv
<1>3. \A m \in Node \ {n} : Still(m)
  BY DEF IInv, TypeOK, End, Still
<1>4. /\ ~up'[n]
      /\ todo'[n] = <<>>
      /\ nextIfaceID'[n] = 1
      /\ connectingLinks'[n] = Empty
      /\ establishedLinks'[n] = Empty
  BY DEF IInv, TypeOK, End
<1>5. ProcessInv(n)' /\ IdsInv(n)'
  BY <1>4, EmptyTable DEF ProcessInv, IdsInv
<1> QED
  BY <1>1, <1>2, <1>3, <1>4, <1>5, EmptyTable, StepOf

LEMMA StartStep ==
    ASSUME IInv, NEW n \in Node, Start(n)
    PROVE  IInv'
<1>1. TypeOK'
  BY StartTypeOK DEF IInv
<1>2. Frame
  BY StartFrame DEF IInv
<1>3. \A m \in Node \ {n} : Still(m)
  BY DEF IInv, TypeOK, Start, Still
<1>4. /\ up'[n]
      /\ todo'[n] = UdpPeers[n]
      /\ nextIfaceID'[n] = 1
      /\ connectingLinks'[n] = Empty
      /\ establishedLinks'[n] = Empty
  BY DEF IInv, ProcessesInv, ProcessInv, TypeOK, Start
<1>5. ProcessInv(n)' /\ IdsInv(n)'
  <2>1. 0 \in 0 .. Len(UdpPeers[n])
    BY Lengths
  <2>2. /\ Len(todo'[n]) = Len(UdpPeers[n]) - 0
        /\ \A i \in 1 .. Len(todo'[n]) : todo'[n][i] = UdpPeers[n][0 + i]
    BY <1>4, Lengths
  <2> QED
    BY <1>4, <2>1, <2>2, EmptyTable DEF ProcessInv, IdsInv
<1>6. net' \subseteq net
  BY DEF Start
<1> QED
  BY <1>1, <1>2, <1>3, <1>4, <1>5, <1>6, EmptyTable, StepOf

\* The tail of what follows the first k elements of s follows its first k + 1.
LEMMA TailOfSuffix ==
    ASSUME NEW s, NEW t \in Seq(Node), t # <<>>, NEW k \in Nat,
           \A i \in 1 .. Len(t) : t[i] = s[k + i]
    PROVE  /\ Len(Tail(t)) = Len(t) - 1
           /\ \A i \in 1 .. Len(Tail(t)) : Tail(t)[i] = s[(k + 1) + i]
<1>1. Len(Tail(t)) = Len(t) - 1 /\ Len(t) \in Nat
  OBVIOUS
<1>2. ASSUME NEW i \in 1 .. Len(Tail(t))
      PROVE  Tail(t)[i] = s[(k + 1) + i]
  <2>1. Tail(t)[i] = t[i + 1]
    OBVIOUS
  <2>2. i + 1 \in 1 .. Len(t)
    BY <1>1
  <2>3. t[i + 1] = s[k + (i + 1)]
    BY <2>2
  <2>4. k + (i + 1) = (k + 1) + i
    BY <1>1
  <2> QED
    BY <2>1, <2>3, <2>4
<1> QED
  BY <1>1, <1>2

LEMMA ConnectToStep ==
    ASSUME IInv, NEW n \in Node, ConnectTo(n)
    PROVE  IInv'
<1>1. TypeOK /\ TypeOK'
  BY ConnectToTypeOK DEF IInv
<1>2. CASE ~CanAllocate(n)
  BY <1>2, EndStep DEF ConnectTo
<1>3. CASE CanAllocate(n)
  <2>1. todo[n] \in Seq(Node) /\ todo[n] # <<>> /\ up[n]
    BY <1>1 DEF TypeOK, ConnectTo
  <2>2. PICK id \in Iface, peer \in Node : id = nextIfaceID[n] /\ peer = Head(todo[n])
    BY <1>1, <1>3, <2>1, Allocated
  <2>3. PICK k \in 0 .. Len(UdpPeers[n]) :
          /\ Len(todo[n]) = Len(UdpPeers[n]) - k
          /\ \A i \in 1 .. Len(todo[n]) : todo[n][i] = UdpPeers[n][k + i]
          /\ id = 0 \/ id > k
          /\ k < Len(UdpPeers[n]) => id \in {0, k + 1} /\ establishedLinks[n] = Empty
    BY <2>1, <2>2 DEF IInv, ProcessesInv, ProcessInv
  <2>4. k + 1 \in 0 .. Len(UdpPeers[n]) /\ k < Len(UdpPeers[n])
    BY <2>1, <2>3, Lengths
  <2>5. id = k + 1 /\ establishedLinks[n] = Empty
    BY <1>3, <2>2, <2>3, <2>4 DEF CanAllocate
  <2>6. IsClient(n, id, peer)
    BY <2>1, <2>2, <2>3, <2>4, <2>5, Lengths DEF ClientIface, IsClient
  <2>7. NextIface(id) \in {0, id + 1}
    BY NextIfaceRange DEF Iface
  <2>8. PICK h \in Datagram : h = Hello(n, id, peer)
    BY <1>1, DatagramTypes
  <2>9. /\ up'[n] = up[n]
        /\ todo'[n] = Tail(todo[n])
        /\ nextIfaceID'[n] = NextIface(id)
        /\ connectingLinks'[n] = With(connectingLinks[n], id, peer)
        /\ establishedLinks' = establishedLinks
        /\ net' = net \cup {h}
        /\ UNCHANGED <<up, epoch>>
    BY <1>1, <1>3, <2>2, <2>8 DEF ConnectTo, TypeOK
  <2>10. /\ DOMAIN connectingLinks'[n] = DOMAIN connectingLinks[n] \cup {id}
         /\ connectingLinks'[n][id] = peer
         /\ \A i \in DOMAIN connectingLinks[n] \ {id} :
              connectingLinks'[n][i] = connectingLinks[n][i]
    <3> DEFINE t == With(connectingLinks[n], id, peer)
    <3>1. /\ DOMAIN t = DOMAIN connectingLinks[n] \cup {id}
          /\ t[id] = peer
          /\ \A i \in DOMAIN connectingLinks[n] \ {id} : t[i] = connectingLinks[n][i]
      BY DEF With
    <3>2. connectingLinks'[n] = t
      BY <2>9
    <3> QED
      BY <3>1, <3>2
  <2>11. \A m \in Node \ {n} : Still(m)
    BY <1>1, <1>3 DEF TypeOK, ConnectTo, Still
  <2>12. Frame
    <3>1. Grows
      BY <2>9, <2>10, <2>11 DEF Grows, Still
    <3> QED
      BY <1>1, <3>1, GrowsFrame
  <2>13. ProcessInv(n)'
    <3>1. /\ Len(todo'[n]) = Len(UdpPeers[n]) - (k + 1)
          /\ \A i \in 1 .. Len(todo'[n]) : todo'[n][i] = UdpPeers[n][(k + 1) + i]
      <4>1. /\ Len(Tail(todo[n])) = Len(todo[n]) - 1
            /\ \A i \in 1 .. Len(Tail(todo[n])) : Tail(todo[n])[i] = UdpPeers[n][(k + 1) + i]
        BY <2>1, <2>3, Lengths, TailOfSuffix
      <4>2. todo'[n] = Tail(todo[n])
        BY <2>9
      <4>3. Len(Tail(todo[n])) = Len(UdpPeers[n]) - (k + 1)
        BY <2>3, <4>1, Lengths
      <4> QED
        BY <4>1, <4>2, <4>3
    <3>2. /\ nextIfaceID'[n] = 0 \/ nextIfaceID'[n] > k + 1
          /\ nextIfaceID'[n] \in {0, (k + 1) + 1}
      BY <2>5, <2>7, <2>9, Lengths
    <3>3. \A i \in DOMAIN connectingLinks'[n] : IsClient(n, i, connectingLinks'[n][i])
      BY <2>6, <2>10 DEF IInv, ProcessesInv, ProcessInv
    <3> QED
      BY <2>1, <2>4, <2>5, <2>9, <3>1, <3>2, <3>3 DEF ProcessInv, IsClient
  <2>14. IdsInv(n)'
    <3>1. \A i \in DOMAIN connectingLinks[n] : i < id /\ i \in Nat
      BY <1>1, <1>3, <2>2 DEF IInv, ProcessesInv, IdsInv, CanAllocate, TypeOK, IsTable, Iface
    <3>2. DOMAIN establishedLinks'[n] = {}
      BY <2>5, <2>9, EmptyTable
    <3> QED
      BY <2>7, <2>9, <2>10, <3>1, <3>2 DEF IdsInv, Iface
  <2>15. DatagramInv(h)'
    <3>1. h.type = "Hello" /\ h.from = n /\ h.source = id /\ h.to = peer /\ h.epoch = epoch[n]
      BY <2>8 DEF Hello
    <3>2. epoch'[n] = epoch[n] /\ epoch[n] \in Nat
      BY <1>1, <2>9, EpochsAreNumbers DEF TypeOK
    <3>3. Open(n, id)'
      BY <2>10 DEF Open
    <3> QED
      BY <2>6, <3>1, <3>2, <3>3 DEF DatagramInv, HelloInv, IsClient
  <2> QED
    BY <1>1, <2>9, <2>11, <2>12, <2>13, <2>14, <2>15, StepOf
<1> QED
  BY <1>2, <1>3

\* A process that polls has made all its client interfaces.
LEMMA ServerIds ==
    ASSUME IInv, NEW n \in Node, up[n], todo[n] = <<>>
    PROVE  nextIfaceID[n] = 0 \/ nextIfaceID[n] > Len(UdpPeers[n])
<1>1. PICK k \in 0 .. Len(UdpPeers[n]) :
        /\ Len(todo[n]) = Len(UdpPeers[n]) - k
        /\ nextIfaceID[n] = 0 \/ nextIfaceID[n] > k
  BY DEF IInv, ProcessesInv, ProcessInv
<1> QED
  BY <1>1, Lengths

\* Without the list of peers to connect to, less is to be shown of a process.
LEMMA PollingProcess ==
    ASSUME NEW n \in Node, up'[n], todo'[n] = <<>>,
           nextIfaceID'[n] = 0 \/ nextIfaceID'[n] > Len(UdpPeers[n]),
           \A id \in DOMAIN connectingLinks'[n] : IsClient(n, id, connectingLinks'[n][id])
    PROVE  ProcessInv(n)'
<1>1. Len(UdpPeers[n]) \in 0 .. Len(UdpPeers[n])
  BY Lengths
<1>2. /\ Len(todo'[n]) = Len(UdpPeers[n]) - Len(UdpPeers[n])
      /\ \A i \in 1 .. Len(todo'[n]) : todo'[n][i] = UdpPeers[n][Len(UdpPeers[n]) + i]
      /\ ~(Len(UdpPeers[n]) < Len(UdpPeers[n]))
  BY Lengths
<1> QED
  BY <1>1, <1>2 DEF ProcessInv, IsClient

LEMMA HandleHelloStep ==
    ASSUME IInv, NEW d \in net, NEW n \in Node, d.to = n, d.type = "Hello",
           up[n], todo[n] = <<>>, HandleHello(n, d)
    PROVE  IInv'
<1>1. TypeOK /\ TypeOK' /\ d \in Datagram
  BY HandleHelloTypeOK DEF IInv, TypeOK
<1>2. CASE ~CanAllocate(n)
  BY <1>2, EndStep DEF HandleHello
<1>3. CASE CanAllocate(n)
  <2>1. PICK id \in Iface : id = nextIfaceID[n]
    BY <1>1, <1>3, Allocated
  <2>2. NextIface(id) \in {0, id + 1}
    BY NextIfaceRange DEF Iface
  <2>3. id \notin ClientIface(n) /\ id > Len(UdpPeers[n])
    BY <1>3, <2>1, ServerIds, Lengths DEF ClientIface, CanAllocate
  <2>4. /\ \A i \in DOMAIN connectingLinks[n] \cup DOMAIN establishedLinks[n] : i < id /\ i \in Nat
        /\ DOMAIN connectingLinks[n] \cap DOMAIN establishedLinks[n] = {}
    BY <1>1, <1>3, <2>1 DEF IInv, ProcessesInv, IdsInv, CanAllocate, TypeOK, IsTable, Iface
  <2>5. id \notin DOMAIN connectingLinks[n] /\ id \notin DOMAIN establishedLinks[n]
    BY <2>4 DEF Iface
  <2>6. PICK e \in Endpoint : e = [addr |-> d.from, remote |-> d.source, life |-> d.epoch]
    BY <1>1, EndpointTypes
  <2>7. PICK x \in Datagram, f \in Datagram :
          x = Established(n, id, d) /\ f = Fragment(n, id, e)
    BY <1>1, DatagramTypes
  <2>8. /\ nextIfaceID'[n] = NextIface(id)
        /\ establishedLinks'[n] = With(establishedLinks[n], id, e)
        /\ net' = net \cup {x, f}
        /\ UNCHANGED <<up, epoch, todo, connectingLinks>>
    BY <1>1, <1>3, <2>1, <2>6, <2>7 DEF HandleHello, TypeOK
  <2>9. /\ DOMAIN establishedLinks'[n] = DOMAIN establishedLinks[n] \cup {id}
        /\ establishedLinks'[n][id] = e
        /\ \A i \in DOMAIN establishedLinks[n] \ {id} :
             establishedLinks'[n][i] = establishedLinks[n][i]
    <3> DEFINE t == With(establishedLinks[n], id, e)
    <3>1. /\ DOMAIN t = DOMAIN establishedLinks[n] \cup {id}
          /\ t[id] = e
          /\ \A i \in DOMAIN establishedLinks[n] \ {id} : t[i] = establishedLinks[n][i]
      BY DEF With
    <3>2. establishedLinks'[n] = t
      BY <2>8
    <3> QED
      BY <3>1, <3>2
  <2>10. \A m \in Node \ {n} : Still(m)
    BY <1>1, <1>3 DEF TypeOK, HandleHello, Still
  <2>11. Frame
    <3>1. Grows
      BY <2>5, <2>8, <2>9, <2>10 DEF Grows, Still
    <3> QED
      BY <1>1, <3>1, GrowsFrame
  <2>12. ProcessInv(n)'
    <3>1. nextIfaceID'[n] = 0 \/ nextIfaceID'[n] > Len(UdpPeers[n])
      BY <2>2, <2>3, <2>8, Lengths DEF Iface
    <3>2. \A i \in DOMAIN connectingLinks'[n] : IsClient(n, i, connectingLinks'[n][i])
      BY <2>8 DEF IInv, ProcessesInv, ProcessInv
    <3> QED
      BY <2>8, <3>1, <3>2, PollingProcess
  <2>13. IdsInv(n)'
    BY <2>2, <2>4, <2>5, <2>8, <2>9 DEF IdsInv, Iface
  <2>14. HelloInv(d)'
    <3>1. HelloInv(d)
      BY DEF IInv, DatagramInv
    <3>2. d.from \in Node /\ d.epoch \in Nat
      BY <1>1, EpochsAreNumbers DEF Datagram
    <3> QED
      BY <1>1, <2>11, <3>1, <3>2, FrameKeepsHello
  <2>15. EndpointInv(n, id, e)'
    <3>1. e.addr = d.from /\ e.remote = d.source /\ e.life = d.epoch
      BY <2>6
    <3> QED
      BY <2>3, <2>14, <3>1 DEF HelloInv, EndpointInv
  <2>16. DatagramInv(x)'
    <3>1. /\ x.type = "Established" /\ x.from = n /\ x.source = id /\ x.epoch = epoch[n]
          /\ x.to = d.from /\ x.target = d.source /\ x.life = d.epoch
      BY <2>7 DEF Established
    <3>2. epoch'[n] = epoch[n] /\ epoch[n] \in Nat
      BY <1>1, <2>8, EpochsAreNumbers DEF TypeOK
    <3>3. ServerEndpoint(n, id, d.from, d.source)'
      BY <2>3, <2>6, <2>9 DEF ServerEndpoint
    <3> QED
      BY <2>3, <2>14, <3>1, <3>2, <3>3 DEF DatagramInv, EstablishedInv, HelloInv
  <2>17. DatagramInv(f)'
    <3>1. /\ f.type = "Fragment" /\ f.from = n /\ f.source = id
          /\ f.to = e.addr /\ f.target = e.remote /\ f.life = e.life
      BY <2>7 DEF Fragment
    <3> QED
      BY <2>15, <3>1 DEF DatagramInv, FragmentInv, EndpointInv
  <2>18. \A i \in DOMAIN establishedLinks'[n] :
           \/ /\ i \in DOMAIN establishedLinks[n]
              /\ establishedLinks'[n][i] = establishedLinks[n][i]
           \/ EndpointInv(n, i, establishedLinks[n][i])'
    BY <2>5, <2>9, <2>15
  <2> QED
    BY <1>1, <2>8, <2>10, <2>11, <2>12, <2>13, <2>16, <2>17, <2>18, StepOf
<1> QED
  BY <1>2, <1>3

LEMMA HandleEstablishedStep ==
    ASSUME IInv, NEW d \in net, NEW n \in Node, d.to = n, d.type = "Established",
           up[n], todo[n] = <<>>, HandleEstablished(n, d), d.target \in DOMAIN connectingLinks[n]
    PROVE  IInv'
<1>1. TypeOK /\ TypeOK' /\ d \in Datagram
  BY HandleEstablishedTypeOK DEF IInv, TypeOK
<1>2. PICK id \in Iface : id = d.target
  BY <1>1 DEF TypeOK, IsTable
<1>3. EstablishedInv(d)
  BY DEF IInv, DatagramInv
<1>4. connectingLinks[n][id] = d.from
  BY <1>2, <1>3 DEF IInv, ProcessesInv, ProcessInv, IsClient, EstablishedInv
<1>5. PICK e \in Endpoint : e = [addr |-> d.from, remote |-> d.source, life |-> d.epoch]
  BY <1>1, EndpointTypes
<1>6. PICK f \in Datagram : f = Fragment(n, id, e)
  BY <1>1, DatagramTypes
<1>7. /\ establishedLinks'[n] = With(establishedLinks[n], id, e)
      /\ connectingLinks'[n] = Without(connectingLinks[n], id)
      /\ net' = net \cup {f}
      /\ UNCHANGED <<up, epoch, todo, nextIfaceID>>
  BY <1>1, <1>2, <1>4, <1>5, <1>6 DEF HandleEstablished, TypeOK
<1>8. id \notin DOMAIN establishedLinks[n]
  BY <1>2 DEF IInv, ProcessesInv, IdsInv
<1>9. /\ DOMAIN establishedLinks'[n] = DOMAIN establishedLinks[n] \cup {id}
      /\ establishedLinks'[n][id] = e
      /\ \A i \in DOMAIN establishedLinks[n] \ {id} :
           establishedLinks'[n][i] = establishedLinks[n][i]
  <2> DEFINE t == With(establishedLinks[n], id, e)
  <2>1. /\ DOMAIN t = DOMAIN establishedLinks[n] \cup {id}
        /\ t[id] = e
        /\ \A i \in DOMAIN establishedLinks[n] \ {id} : t[i] = establishedLinks[n][i]
    BY DEF With
  <2>2. establishedLinks'[n] = t
    BY <1>7
  <2> QED
    BY <2>1, <2>2
<1>10. /\ DOMAIN connectingLinks'[n] = DOMAIN connectingLinks[n] \ {id}
       /\ \A i \in DOMAIN connectingLinks'[n] : connectingLinks'[n][i] = connectingLinks[n][i]
  <2> DEFINE t == Without(connectingLinks[n], id)
  <2>1. /\ DOMAIN t = DOMAIN connectingLinks[n] \ {id}
        /\ \A i \in DOMAIN t : t[i] = connectingLinks[n][i]
    BY DEF Without
  <2>2. connectingLinks'[n] = t
    BY <1>7
  <2> QED
    BY <2>1, <2>2
<1>11. \A m \in Node \ {n} : Still(m)
  BY <1>1, <1>2 DEF TypeOK, HandleEstablished, Still
<1>12. Frame
  <2>1. Grows
    BY <1>7, <1>8, <1>9, <1>10, <1>11 DEF Grows, Still
  <2> QED
    BY <1>1, <2>1, GrowsFrame
<1>13. ProcessInv(n)'
  <2>1. \A i \in DOMAIN connectingLinks'[n] : IsClient(n, i, connectingLinks'[n][i])
    BY <1>10 DEF IInv, ProcessesInv, ProcessInv
  <2> QED
    BY <1>7, <2>1, ServerIds, PollingProcess
<1>14. IdsInv(n)'
  BY <1>2, <1>7, <1>9, <1>10 DEF IInv, ProcessesInv, IdsInv
<1>15. EstablishedInv(d)'
  <2>1. d.from \in Node /\ d.to \in Node /\ d.epoch \in Nat /\ d.life \in Nat
    BY <1>1, EpochsAreNumbers DEF Datagram
  <2> QED
    BY <1>1, <1>3, <1>12, <2>1, FrameKeepsEstablished
<1>16. EndpointInv(n, id, e)'
  <2>1. e.addr = d.from /\ e.remote = d.source /\ e.life = d.epoch
    BY <1>5
  <2> QED
    BY <1>2, <1>15, <2>1 DEF EstablishedInv, EndpointInv, IsClient
<1>17. DatagramInv(f)'
  <2>1. /\ f.type = "Fragment" /\ f.from = n /\ f.source = id
        /\ f.to = e.addr /\ f.target = e.remote /\ f.life = e.life
    BY <1>6 DEF Fragment
  <2> QED
    BY <1>16, <2>1 DEF DatagramInv, FragmentInv, EndpointInv
<1>18. \A i \in DOMAIN establishedLinks'[n] :
         \/ /\ i \in DOMAIN establishedLinks[n]
            /\ establishedLinks'[n][i] = establishedLinks[n][i]
         \/ EndpointInv(n, i, establishedLinks[n][i])'
  BY <1>8, <1>9, <1>16
<1> QED
  BY <1>1, <1>7, <1>11, <1>12, <1>13, <1>14, <1>17, <1>18, StepOf

LEMMA SendFragmentStep ==
    ASSUME IInv, NEW n \in Node, NEW id \in Iface, SendFragment(n, id)
    PROVE  IInv'
<1>1. TypeOK /\ TypeOK'
  BY SendFragmentTypeOK DEF IInv
<1>2. PICK e \in Endpoint : e = establishedLinks[n][id]
  BY <1>1 DEF TypeOK, IsTable, SendFragment
<1>3. PICK f \in Datagram : f = Fragment(n, id, e)
  BY <1>1, DatagramTypes
<1>4. UNCHANGED process /\ net' = net \cup {f}
  BY <1>2, <1>3 DEF SendFragment
<1>5. \A m \in Node : Still(m)
  BY <1>4 DEF Still, process
<1>6. Frame
  <2>1. Grows
    BY <1>4 DEF Grows, process
  <2> QED
    BY <1>1, <2>1, GrowsFrame
<1>7. ProcessInv(n)' /\ IdsInv(n)'
  BY <1>5, StillProcess DEF IInv, ProcessesInv
<1>8. EndpointInv(n, id, e)'
  <2>1. EndpointInv(n, id, e)
    BY <1>2 DEF IInv, EndpointsInv, SendFragment
  <2> QED
    BY <1>1, <1>6, <2>1, Framed
<1>9. DatagramInv(f)'
  <2>1. /\ f.type = "Fragment" /\ f.from = n /\ f.source = id
        /\ f.to = e.addr /\ f.target = e.remote /\ f.life = e.life
    BY <1>3 DEF Fragment
  <2> QED
    BY <1>8, <2>1 DEF DatagramInv, FragmentInv, EndpointInv
<1>10. \A i \in DOMAIN establishedLinks'[n] :
         i \in DOMAIN establishedLinks[n] /\ establishedLinks'[n][i] = establishedLinks[n][i]
  BY <1>4 DEF process
<1> QED
  BY <1>1, <1>4, <1>5, <1>6, <1>7, <1>9, <1>10, StepOf

LEMMA UnchangedStep ==
    ASSUME IInv, UNCHANGED vars
    PROVE  IInv'
<1>1. TypeOK'
  BY DEF IInv, vars, TypeOK
<1>2. ProcessesInv'
  BY DEF IInv, vars, ProcessesInv, ProcessInv, IdsInv
<1>3. EndpointsInv'
  BY DEF IInv, vars, EndpointsInv, EndpointInv, Lives, Open, ServerEndpoint
<1>4. \A d \in net' : DatagramInv(d)'
  <2> SUFFICES ASSUME NEW d \in net PROVE DatagramInv(d)'
    BY DEF vars
  <2>1. DatagramInv(d)
    BY DEF IInv
  <2>2. HelloInv(d)' = HelloInv(d)
    BY DEF vars, HelloInv, Lives, Open, ServerEndpoint
  <2>3. EstablishedInv(d)' = EstablishedInv(d)
    BY DEF vars, EstablishedInv, Lives, Open, ServerEndpoint
  <2>4. FragmentInv(d)' = FragmentInv(d)
    BY DEF vars, FragmentInv, EndpointInv, Lives, Open, ServerEndpoint
  <2> QED
    BY <2>1, <2>2, <2>3, <2>4 DEF DatagramInv
<1> QED
  BY <1>1, <1>2, <1>3, <1>4 DEF IInv

LEMMA InitIInv == Init => IInv
<1> SUFFICES ASSUME Init PROVE IInv
  OBVIOUS
<1>1. TypeOK
  BY InitTypeOK
<1>2. ASSUME NEW n \in Node PROVE ProcessInv(n) /\ IdsInv(n)
  BY EmptyTable DEF Init, ProcessInv, IdsInv
<1>3. EndpointsInv
  BY EmptyTable DEF Init, EndpointsInv
<1> QED
  BY <1>1, <1>2, <1>3 DEF Init, IInv, ProcessesInv

LEMMA NextIInv == IInv /\ [Next]_vars => IInv'
<1> SUFFICES ASSUME IInv, [Next]_vars PROVE IInv'
  OBVIOUS
<1>1. CASE UNCHANGED vars
  BY <1>1, UnchangedStep
<1>2. ASSUME NEW n \in Node, Start(n) PROVE IInv'
  BY <1>2, StartStep
<1>3. ASSUME NEW n \in Node, Crash(n) PROVE IInv'
  BY <1>3, EndStep DEF Crash
<1>4. ASSUME NEW n \in Node, ConnectTo(n) PROVE IInv'
  BY <1>4, ConnectToStep
<1>5. ASSUME NEW n \in Node, NEW id \in Iface, SendFragment(n, id) PROVE IInv'
  BY <1>5, SendFragmentStep
<1>6. ASSUME NEW d \in net, Arrive(d) PROVE IInv'
  <2>1. PICK n \in Node : n = d.to
    BY DEF IInv, TypeOK, Datagram
  <2>2. up[n] /\ todo[n] = <<>>
    BY <1>6, <2>1 DEF Arrive, HandleIncoming
  <2>3. CASE d.type = "Hello" /\ HandleHello(n, d)
    BY <2>1, <2>2, <2>3, HandleHelloStep
  <2>4. CASE d.type = "Established" /\ HandleEstablished(n, d)
    <3>1. CASE d.target \in DOMAIN connectingLinks[n]
      BY <2>1, <2>2, <2>4, <3>1, HandleEstablishedStep
    <3>2. CASE d.target \notin DOMAIN connectingLinks[n]
      BY <2>4, <3>2, <1>1, UnchangedStep DEF HandleEstablished
    <3> QED
      BY <3>1, <3>2
  <2>5. CASE HandleFragment(n, d)
    BY <2>5, UnchangedStep DEF HandleFragment
  <2> QED
    BY <1>6, <2>1, <2>3, <2>4, <2>5 DEF Arrive, HandleIncoming
<1> QED
  BY <1>1, <1>2, <1>3, <1>4, <1>5, <1>6 DEF Next

LEMMA Invariance == Spec => []IInv
<1>1. Init => IInv
  BY InitIInv
<1>2. IInv /\ [Next]_vars => IInv'
  BY NextIInv
<1> QED
  BY <1>1, <1>2, PTL DEF Spec

------------------------------------------------------------------------------
(* The properties.                                                         *)

\* No two interfaces of a process ever have one id: the next id is above all those in use
\* until the counter is exhausted, and then the process ends rather than use one again.
THEOREM UniqueIds == Spec => []IdsUnique
<1>1. IInv => IdsUnique
  BY DEF IInv, ProcessesInv, IdsInv, IdsUnique
<1> QED
  BY <1>1, Invariance, PTL

\* An interface that both sides agreed on sends to one that sends back to it, whatever
\* datagrams were lost, repeated or late, as long as the peer lives.
THEOREM BothWays == Spec => []LinkedBothWays
<1>1. IInv => LinkedBothWays
  <2> SUFFICES ASSUME IInv,
                      NEW n \in Node, NEW id \in DOMAIN establishedLinks[n] \cap ClientIface(n),
                      up[establishedLinks[n][id].addr],
                      epoch[establishedLinks[n][id].addr] = establishedLinks[n][id].life
               PROVE  LET e == establishedLinks[n][id]
                      IN  /\ e.remote \in DOMAIN establishedLinks[e.addr]
                          /\ establishedLinks[e.addr][e.remote].addr = n
                          /\ establishedLinks[e.addr][e.remote].remote = id
    BY DEF LinkedBothWays
  <2>1. EndpointInv(n, id, establishedLinks[n][id])
    BY DEF IInv, EndpointsInv
  <2> QED
    BY <2>1 DEF EndpointInv, Lives, ServerEndpoint
<1> QED
  BY <1>1, Invariance, PTL

\* A fragment for a process that has not ended since finds its interface, or the interface
\* waits for its Established: nothing is dropped after the handshake.
THEOREM OnlyEarlyDrops == Spec => []DroppedOnlyEarly
<1>1. IInv => DroppedOnlyEarly
  <2> SUFFICES ASSUME IInv, NEW n \in Node, up[n], NEW f \in FragmentsFor(n)
               PROVE  Accepts(n, f) \/ f.target \in DOMAIN connectingLinks[n]
    BY DEF DroppedOnlyEarly
  <2>1. f \in net /\ f.to = n /\ f.life = epoch[n] /\ FragmentInv(f)
    BY DEF IInv, DatagramInv, FragmentsFor
  <2>2. Lives(f.to, f.life)
    BY <2>1 DEF Lives
  <2>3. Open(n, f.target)
    BY <2>1, <2>2 DEF FragmentInv, EndpointInv, ServerEndpoint, Open
  <2> QED
    BY <2>3 DEF Open, Accepts
<1> QED
  BY <1>1, Invariance, PTL

------------------------------------------------------------------------------
(* Who a fragment comes from.  Nobody asks, and the interfaces of a server *)
(* that send to one client interface are as many as the Hellos it has      *)
(* taken; each of them has sent its Established before.                    *)

\* A fragment for an interface that its receiver, in its present life, made for a peer
\* comes from an interface that answered the Hello.
FragmentAnswered(f) ==
    f.target \in ClientIface(f.to) /\ f.life = epoch[f.to] => Answered(f)

\* All that is sent, and all that will be.
AnswersInv ==
    /\ \A f \in net : f.type = "Fragment" => FragmentAnswered(f)
    /\ \A n \in Node : \A id \in DOMAIN establishedLinks[n] :
         FragmentAnswered(Fragment(n, id, establishedLinks[n][id]))

\* Where no process starts and nothing is lost, only what is new has to be shown.
LEMMA AnswersKept ==
    ASSUME AnswersInv, UNCHANGED epoch, net \subseteq net',
           \A f \in net' : f \in net \/ (f.type = "Fragment" => FragmentAnswered(f)'),
           \A m \in Node : \A id \in DOMAIN establishedLinks'[m] :
               \/ /\ id \in DOMAIN establishedLinks[m]
                  /\ establishedLinks'[m][id] = establishedLinks[m][id]
               \/ FragmentAnswered(Fragment(m, id, establishedLinks[m][id]))'
    PROVE  AnswersInv'
<1>1. ASSUME NEW f, FragmentAnswered(f) PROVE FragmentAnswered(f)'
  BY <1>1 DEF FragmentAnswered, Answered
<1>2. ASSUME NEW f \in net', f.type = "Fragment" PROVE FragmentAnswered(f)'
  BY <1>1, <1>2 DEF AnswersInv
<1>3. ASSUME NEW m \in Node, NEW id \in DOMAIN establishedLinks'[m]
      PROVE  FragmentAnswered(Fragment(m, id, establishedLinks[m][id]))'
  <2>1. CASE /\ id \in DOMAIN establishedLinks[m]
             /\ establishedLinks'[m][id] = establishedLinks[m][id]
    <3>1. FragmentAnswered(Fragment(m, id, establishedLinks[m][id]))
      BY <2>1 DEF AnswersInv
    <3>2. Fragment(m, id, establishedLinks[m][id])' = Fragment(m, id, establishedLinks[m][id])
      BY <2>1 DEF Fragment
    <3> QED
      BY <1>1, <3>1, <3>2
  <2> QED
    BY <2>1
<1> QED
  BY <1>2, <1>3 DEF AnswersInv

LEMMA EndAnswers ==
    ASSUME IInv, AnswersInv, NEW n \in Node, End(n), UNCHANGED net
    PROVE  AnswersInv'
<1>1. \A m \in Node : establishedLinks'[m] = Empty \/ establishedLinks'[m] = establishedLinks[m]
  BY DEF End, IInv, TypeOK
<1>2. UNCHANGED epoch
  BY DEF End
<1> QED
  BY <1>1, <1>2, EmptyTable, AnswersKept

\* What a start takes off the network was for an earlier life.
LEMMA StartAnswers ==
    ASSUME IInv, AnswersInv, NEW n \in Node, Start(n)
    PROVE  AnswersInv'
<1>1. TypeOK /\ epoch[n] \in Nat /\ epoch'[n] = epoch[n] + 1
  BY EpochsAreNumbers DEF IInv, TypeOK, Start
<1>2. ASSUME NEW f, f.to \in Node, f.life \in Nat, f.life <= epoch[f.to], FragmentAnswered(f)
      PROVE  FragmentAnswered(f)'
  <2>1. CASE f.to = n
    BY <1>1, <1>2, <2>1 DEF FragmentAnswered
  <2>2. CASE f.to # n
    <3>1. epoch'[f.to] = epoch[f.to]
      BY <1>1, <1>2, <2>2 DEF Start, TypeOK
    <3> DEFINE a == [f EXCEPT !.type = "Established"]
    <3>2. ASSUME a \in net PROVE a \in net'
      <4>1. a \in Datagram
        BY <1>1, <3>2 DEF TypeOK
      <4>2. a.to = f.to
        <5>1. "to" \in DOMAIN a
          BY <4>1 DEF Datagram
        <5> QED
          BY <5>1
      <4> QED
        BY <2>2, <3>2, <4>2 DEF Start
    <3> QED
      BY <1>2, <3>1, <3>2 DEF FragmentAnswered, Answered
  <2> QED
    BY <2>1, <2>2
<1>3. ASSUME NEW f \in net', f.type = "Fragment" PROVE FragmentAnswered(f)'
  <2>1. f \in net
    BY DEF Start
  <2>2. f \in Datagram /\ FragmentInv(f) /\ FragmentAnswered(f)
    BY <1>1, <1>3, <2>1 DEF IInv, TypeOK, DatagramInv, AnswersInv
  <2>3. f.to \in Node /\ f.life \in Nat
    BY <2>2, EpochsAreNumbers DEF Datagram
  <2>4. f.life <= epoch[f.to]
    BY <2>2 DEF FragmentInv, EndpointInv
  <2> QED
    BY <1>2, <2>2, <2>3, <2>4
<1>4. ASSUME NEW m \in Node, NEW id \in DOMAIN establishedLinks'[m]
      PROVE  FragmentAnswered(Fragment(m, id, establishedLinks[m][id]))'
  <2>1. /\ establishedLinks' = establishedLinks
        /\ id \in DOMAIN establishedLinks[m]
    BY <1>4 DEF Start
  <2>2. m # n
    BY <2>1, EmptyTable DEF Start, IInv, ProcessesInv, ProcessInv
  <2>3. PICK e \in Endpoint : e = establishedLinks[m][id]
    BY <1>1, <2>1 DEF TypeOK, IsTable
  <2>4. e.addr \in Node /\ e.life \in Nat
    BY EpochsAreNumbers DEF Endpoint
  <2>5. e.life <= epoch[e.addr]
    BY <2>1, <2>3 DEF IInv, EndpointsInv, EndpointInv
  <2>6. epoch'[m] = epoch[m]
    BY <1>1, <2>2 DEF Start, TypeOK
  <2>7. PICK f : f = Fragment(m, id, e)
    OBVIOUS
  <2>8. f.to = e.addr /\ f.life = e.life
    BY <2>7 DEF Fragment
  <2>9. FragmentAnswered(f)
    BY <2>1, <2>3, <2>7 DEF AnswersInv
  <2>10. FragmentAnswered(f)'
    BY <1>2, <2>4, <2>5, <2>8, <2>9
  <2>11. Fragment(m, id, establishedLinks[m][id])' = f
    BY <2>1, <2>3, <2>6, <2>7 DEF Fragment
  <2> QED
    BY <2>10, <2>11
<1> QED
  BY <1>3, <1>4 DEF AnswersInv

LEMMA ConnectToAnswers ==
    ASSUME IInv, AnswersInv, NEW n \in Node, ConnectTo(n)
    PROVE  AnswersInv'
<1>1. CASE ~CanAllocate(n)
  BY <1>1, EndAnswers DEF ConnectTo
<1>2. CASE CanAllocate(n)
  <2>1. PICK h : /\ h.type = "Hello"
                 /\ net' = net \cup {h}
                 /\ UNCHANGED <<epoch, establishedLinks>>
    <3>1. Hello(n, nextIfaceID[n], Head(todo[n])).type = "Hello"
      BY DEF Hello
    <3> QED
      BY <1>2, <3>1 DEF ConnectTo
  <2> QED
    BY <2>1, AnswersKept
<1> QED
  BY <1>1, <1>2

\* The fragment goes out together with the answer.
LEMMA HandleHelloAnswers ==
    ASSUME IInv, AnswersInv, NEW d \in net, NEW n \in Node, d.to = n, d.type = "Hello",
           HandleHello(n, d)
    PROVE  AnswersInv'
<1>1. CASE ~CanAllocate(n)
  BY <1>1, EndAnswers DEF HandleHello
<1>2. CASE CanAllocate(n)
  <2>1. TypeOK /\ d \in Datagram
    BY DEF IInv, TypeOK
  <2>2. PICK id \in Iface : id = nextIfaceID[n]
    BY <1>2, <2>1, Allocated
  <2>3. PICK e \in Endpoint : e = [addr |-> d.from, remote |-> d.source, life |-> d.epoch]
    BY <2>1, EndpointTypes
  <2>4. PICK x, f : x = Established(n, id, d) /\ f = Fragment(n, id, e)
    OBVIOUS
  <2>5. /\ establishedLinks' = [establishedLinks EXCEPT ![n] = With(@, id, e)]
        /\ net' = net \cup {x, f}
        /\ UNCHANGED epoch
    BY <1>2, <2>2, <2>3, <2>4 DEF HandleHello
  <2>6. /\ establishedLinks'[n] = With(establishedLinks[n], id, e)
        /\ \A m \in Node \ {n} : establishedLinks'[m] = establishedLinks[m]
    BY <2>1, <2>5 DEF TypeOK
  <2>7. /\ DOMAIN With(establishedLinks[n], id, e) = DOMAIN establishedLinks[n] \cup {id}
        /\ With(establishedLinks[n], id, e)[id] = e
        /\ \A i \in DOMAIN establishedLinks[n] \ {id} :
             With(establishedLinks[n], id, e)[i] = establishedLinks[n][i]
    BY DEF With
  <2>8. IsClient(d.from, d.source, n)
    BY DEF IInv, DatagramInv, HelloInv
  <2>9. FragmentAnswered(f)'
    <3>1. [f EXCEPT !.type = "Established"] = x
      BY <2>3, <2>4 DEF Fragment, Established
    <3>2. f.target \in ClientIface(f.to)
      BY <2>3, <2>4, <2>8 DEF Fragment, IsClient
    <3> QED
      BY <2>5, <3>1, <3>2 DEF FragmentAnswered, Answered
  <2>10. x.type # "Fragment"
    BY <2>4 DEF Established
  <2>11. Fragment(n, id, establishedLinks[n][id])' = f
    BY <2>4, <2>5, <2>6, <2>7 DEF Fragment
  <2>12. \A m \in Node : \A i \in DOMAIN establishedLinks'[m] :
           \/ /\ i \in DOMAIN establishedLinks[m]
              /\ establishedLinks'[m][i] = establishedLinks[m][i]
           \/ FragmentAnswered(Fragment(m, i, establishedLinks[m][i]))'
    <3> SUFFICES ASSUME NEW m \in Node, NEW i \in DOMAIN establishedLinks'[m],
                        ~(/\ i \in DOMAIN establishedLinks[m]
                          /\ establishedLinks'[m][i] = establishedLinks[m][i])
                 PROVE  FragmentAnswered(Fragment(m, i, establishedLinks[m][i]))'
      OBVIOUS
    <3>1. m = n /\ i = id
      BY <2>6, <2>7
    <3> QED
      BY <2>9, <2>11, <3>1
  <2> QED
    BY <2>5, <2>9, <2>10, <2>12, AnswersKept
<1> QED
  BY <1>1, <1>2

\* A client sends to an interface that the server made for it.
LEMMA HandleEstablishedAnswers ==
    ASSUME IInv, AnswersInv, NEW d \in net, NEW n \in Node, d.to = n, d.type = "Established",
           HandleEstablished(n, d), d.target \in DOMAIN connectingLinks[n]
    PROVE  AnswersInv'
<1>1. TypeOK /\ d \in Datagram
  BY DEF IInv, TypeOK
<1>2. PICK id \in Iface : id = d.target
  BY <1>1 DEF TypeOK, IsTable
<1>3. EstablishedInv(d)
  BY DEF IInv, DatagramInv
<1>4. connectingLinks[n][id] = d.from
  BY <1>2, <1>3 DEF IInv, ProcessesInv, ProcessInv, IsClient, EstablishedInv
<1>5. PICK e \in Endpoint : e = [addr |-> d.from, remote |-> d.source, life |-> d.epoch]
  BY <1>1, EndpointTypes
<1>6. PICK f : f = Fragment(n, id, e)
  OBVIOUS
<1>7. /\ establishedLinks' = [establishedLinks EXCEPT ![n] = With(@, id, e)]
      /\ net' = net \cup {f}
      /\ UNCHANGED epoch
  BY <1>2, <1>4, <1>5, <1>6 DEF HandleEstablished
<1>8. /\ establishedLinks'[n] = With(establishedLinks[n], id, e)
      /\ \A m \in Node \ {n} : establishedLinks'[m] = establishedLinks[m]
  BY <1>1, <1>7 DEF TypeOK
<1>9. /\ DOMAIN With(establishedLinks[n], id, e) = DOMAIN establishedLinks[n] \cup {id}
      /\ With(establishedLinks[n], id, e)[id] = e
      /\ \A i \in DOMAIN establishedLinks[n] \ {id} :
           With(establishedLinks[n], id, e)[i] = establishedLinks[n][i]
  BY DEF With
<1>10. FragmentAnswered(f)'
  BY <1>3, <1>5, <1>6 DEF FragmentAnswered, Fragment, EstablishedInv
<1>11. Fragment(n, id, establishedLinks[n][id])' = f
  BY <1>6, <1>7, <1>8, <1>9 DEF Fragment
<1>12. \A m \in Node : \A i \in DOMAIN establishedLinks'[m] :
         \/ /\ i \in DOMAIN establishedLinks[m]
            /\ establishedLinks'[m][i] = establishedLinks[m][i]
         \/ FragmentAnswered(Fragment(m, i, establishedLinks[m][i]))'
  <2> SUFFICES ASSUME NEW m \in Node, NEW i \in DOMAIN establishedLinks'[m],
                      ~(/\ i \in DOMAIN establishedLinks[m]
                        /\ establishedLinks'[m][i] = establishedLinks[m][i])
               PROVE  FragmentAnswered(Fragment(m, i, establishedLinks[m][i]))'
    OBVIOUS
  <2>1. m = n /\ i = id
    BY <1>8, <1>9
  <2> QED
    BY <1>10, <1>11, <2>1
<1> QED
  BY <1>7, <1>10, <1>12, AnswersKept

LEMMA SendFragmentAnswers ==
    ASSUME AnswersInv, NEW n \in Node, NEW id \in Iface, SendFragment(n, id)
    PROVE  AnswersInv'
<1>1. PICK f : f = Fragment(n, id, establishedLinks[n][id])
  OBVIOUS
<1>2. net' = net \cup {f} /\ UNCHANGED <<epoch, establishedLinks>>
  BY <1>1 DEF SendFragment, process
<1>3. FragmentAnswered(f)
  BY <1>1 DEF AnswersInv, SendFragment
<1>4. FragmentAnswered(f)'
  BY <1>2, <1>3 DEF FragmentAnswered, Answered
<1> QED
  BY <1>2, <1>4, AnswersKept

LEMMA NextAnswers == IInv /\ AnswersInv /\ [Next]_vars => AnswersInv'
<1> SUFFICES ASSUME IInv, AnswersInv, [Next]_vars PROVE AnswersInv'
  OBVIOUS
<1>1. ASSUME UNCHANGED vars PROVE AnswersInv'
  BY <1>1, AnswersKept DEF vars
<1>2. ASSUME NEW n \in Node, Start(n) PROVE AnswersInv'
  BY <1>2, StartAnswers
<1>3. ASSUME NEW n \in Node, Crash(n) PROVE AnswersInv'
  BY <1>3, EndAnswers DEF Crash
<1>4. ASSUME NEW n \in Node, ConnectTo(n) PROVE AnswersInv'
  BY <1>4, ConnectToAnswers
<1>5. ASSUME NEW n \in Node, NEW id \in Iface, SendFragment(n, id) PROVE AnswersInv'
  BY <1>5, SendFragmentAnswers
<1>6. ASSUME NEW d \in net, Arrive(d) PROVE AnswersInv'
  <2>1. PICK n \in Node : n = d.to
    BY DEF IInv, TypeOK, Datagram
  <2>2. CASE d.type = "Hello" /\ HandleHello(n, d)
    BY <2>1, <2>2, HandleHelloAnswers
  <2>3. CASE d.type = "Established" /\ HandleEstablished(n, d)
    <3>1. CASE d.target \in DOMAIN connectingLinks[n]
      BY <2>1, <2>3, <3>1, HandleEstablishedAnswers
    <3>2. CASE d.target \notin DOMAIN connectingLinks[n]
      BY <2>3, <3>2, <1>1 DEF HandleEstablished
    <3> QED
      BY <3>1, <3>2
  <2>4. CASE HandleFragment(n, d)
    BY <1>1, <2>4 DEF HandleFragment
  <2> QED
    BY <1>6, <2>1, <2>2, <2>3, <2>4 DEF Arrive, HandleIncoming
<1> QED
  BY <1>1, <1>2, <1>3, <1>4, <1>5, <1>6 DEF Next

\* What an interface of n knows of the fragments it takes: at a client, the process they
\* come from, for good; at a server, the process and its interface, in n's present life.
LEMMA SenderOf ==
    ASSUME IInv, NEW n \in Node, NEW f \in Taken(n)
    PROVE  /\ \/ f.from = establishedLinks[n][f.target].addr
              \/ f.life < epoch[n] /\ f.target \notin ClientIface(n)
           /\ f.life < epoch[n] \/ f.life = epoch[n]
           /\ f.life = epoch[n] =>
                /\ f.from = establishedLinks[n][f.target].addr
                /\ f.target \notin ClientIface(n) => f.source = establishedLinks[n][f.target].remote
<1>1. f \in net /\ f.to = n /\ FragmentInv(f)
  BY DEF IInv, DatagramInv, Taken
<1>2. epoch[n] \in Nat /\ f.life \in Nat /\ f.life <= epoch[n]
  BY <1>1, EpochsAreNumbers DEF IInv, TypeOK, Datagram, FragmentInv, EndpointInv
<1>3. up[n]
  BY <1>1, EmptyTable DEF Taken, Accepts, IInv, ProcessesInv, ProcessInv
<1>4. EndpointInv(n, f.target, establishedLinks[n][f.target])
  BY DEF Taken, Accepts, IInv, EndpointsInv
<1>5. CASE f.source \notin ClientIface(f.from)
  <2>1. IsClient(n, f.target, f.from)
    BY <1>1, <1>5 DEF FragmentInv, EndpointInv
  <2> QED
    BY <1>2, <1>4, <2>1 DEF IsClient, EndpointInv
<1>6. CASE f.source \in ClientIface(f.from)
  <2>1. f.target \notin ClientIface(n)
    BY <1>1, <1>6 DEF FragmentInv, EndpointInv
  <2>2. f.life = epoch[n] => ServerEndpoint(n, f.target, f.from, f.source)
    BY <1>1, <1>3, <1>6 DEF FragmentInv, EndpointInv, Lives
  <2> QED
    BY <1>2, <2>1, <2>2 DEF ServerEndpoint
<1> QED
  BY <1>5, <1>6

\* An interface puts together fragments of another process than its peer, or of two
\* senders, in these cases and no others: they were sent to a former life of the process,
\* one of the two was sent in a former life of the peer, or they are of two interfaces
\* that the peer made for one Hello.
THEOREM SendersMixOnlyThen == Spec => []MixedSenders
<1>1. Init => AnswersInv
  BY EmptyTable DEF Init, AnswersInv
<1>2. IInv /\ AnswersInv => MixedSenders
  <2> SUFFICES ASSUME IInv, AnswersInv, NEW n \in Node, NEW f \in Taken(n)
               PROVE  /\ \/ f.from = establishedLinks[n][f.target].addr
                         \/ f.life < epoch[n] /\ f.target \notin ClientIface(n)
                      /\ \A g \in Taken(n) : g.target = f.target /\ Sender(g) # Sender(f) =>
                           \/ f.life < epoch[n] \/ g.life < epoch[n]
                           \/ f.epoch # g.epoch
                           \/ Answered(f) /\ Answered(g)
    BY DEF MixedSenders
  <2>1. ASSUME NEW g \in Taken(n), g.target = f.target, Sender(g) # Sender(f),
               ~(f.life < epoch[n]), ~(g.life < epoch[n]), f.epoch = g.epoch
        PROVE  Answered(f) /\ Answered(g)
    <3>1. f.life = epoch[n] /\ g.life = epoch[n]
      BY <2>1, SenderOf
    <3>2. f.from = g.from
      BY <2>1, <3>1, SenderOf
    <3>3. f.target \in ClientIface(n)
      <4> SUFFICES ASSUME f.target \notin ClientIface(n) PROVE f.source = g.source
        BY <2>1, <3>2 DEF Sender
      <4> QED
        BY <2>1, <3>1, SenderOf
    <3>4. \A h \in Taken(n) : h \in net /\ h.to = n /\ h.type = "Fragment"
      BY DEF Taken
    <3> QED
      BY <2>1, <3>1, <3>3, <3>4 DEF AnswersInv, FragmentAnswered
  <2> QED
    BY <2>1, SenderOf
<1>3. IInv /\ AnswersInv /\ [Next]_vars => AnswersInv'
  BY NextAnswers
<1> QED
  BY <1>1, <1>2, <1>3, Invariance, PTL DEF Spec

==============================================================================
