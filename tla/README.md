# Verification of GeoMesh

TLA+ models of the GeoMesh mesh router (`src/src/`), TLC configurations that
check them on small instances, and theorems proved with TLAPS for every
instance. Paths below are relative to the repository.

## 1. The system

A GeoMesh node is one process. It owns a *router*, which knows direct peers
through *links* and forwards packets by the location of their destination; a
*lookup manager*, which finds the location of an address in a distributed hash
table spread over all nodes; and a *local interface*, which turns the IPv6
datagrams of the host into packets. Packets travel over UDP *bridges*, cut into
fragments. A *scheduler* thread runs timed work.

| part | source (in `src/src/`) | state | operations | what is hard |
|---|---|---|---|---|
| Router: advert flood | `Router.cpp` (`handleMessage`, `processRoutingSuggestion`, `sendLocationInfo`), `GeographicRoutingTable.*` | greedy, local and face tables | a link comes up; an advert arrives | no time to live: why does the flood end; adverts out of order, duplicated, damaged; cycles of links |
| Router: forwarding | `Router.cpp` (`forwardPacket`, `routeGreedy`, `routeFace*`) | fields of the packet header | a packet arrives from a link or from the host | loops; tables changing under a packet; the header fields shared between meanings |
| Link manager | `LinkManager.*`, `AbstractLinkEndpoint.*` | interfaces by id, listeners | connect, send, broadcast | 16-bit interface ids |
| Fragmenting link | `FragmentingLinkEndpoint.*`, `PacketDefragmenter.*`, `PacketFragment.*` | next packet number, two reassembly buffers | send a packet, receive a fragment | loss, duplication, reordering, numbers that wrap |
| UDP bridge | `geomeshd/UDPManager.*` | next interface id, connecting and established links | connect, Hello, Established, fragment | handshake without retries, crossing handshakes, restarts, ids that run out |
| Scheduler | `Scheduler.*` | task queue, mutex, condition variable, stop flag | schedule, call as soon as possible, run, destroy | two threads and a lock |
| Contacts set | `ContactsSet.*` | vector sorted by address | insert, closest entry by xor | binary search by bits |
| Location lookup | `LocationLookupManager.*`, `SendFromLocalFunction.hpp` | contacts, pending lookups, listeners | look up, refresh, handle a DHT packet | routed through other nodes; answers late, twice or never |
| Local interface | `LocalInterface.*`, `LocalPacketHandler.*` | datagrams waiting for a location | host sends, lookup completes, packet arrives | retry of what was already sent |
| File descriptor notifier | `geomeshd/FileDescriptorNotifier.*` | descriptors, handlers, thread, stop flag | add, remove, wait, destroy | handlers that add, close and remove under a lock; numbers of closed files that come again |
| REST / HTTP server | `geomeshd/http/*`, `geomeshd/REST*` | connections | accept, read, close | its connections are handlers of the notifier |
| Tunnel | `geomeshd/TunnelDeliveryInterface_*` | a descriptor | read from and write to the host | a handler of the notifier |
| Daemon | `geomeshd/GeoMeshd_main.cpp` | all of the above | main loop: `scheduler.update()` every 10 ms | the loop does not poll sockets, see 1.2 |
| Simulator | `simulator/*` | many routers in one process | step, draw | none: a development tool |

### 1.1 How the parts interact

Everything happens by synchronous calls and callbacks, in two kinds of threads.

* A datagram arrives: `FDNotifier::waitForFD` calls the UDP manager, which finds
  the bridge of the sender and calls `FragmentingLinkEndpoint::fragmentReceived`.
  A complete packet goes to `Router::handleMessage`, through the data handler
  that `LinkManager::connectInterface` installed. The router updates its tables,
  forwards the packet through `LinkManager::sendPacket`, or hands it to the local
  packet handler, which gives IPv6 datagrams to `LocalInterface` and the rest to
  `LocationLookupManager`.
* A datagram of the host arrives: `LocalInterface::sendIPv6Message` looks the
  destination up in the contacts. If it is not there the datagram is queued and
  a query is sent; `locationLookupCompleted` sends it later.
* A bridge gets established: `connectInterface` calls the router's listener,
  which advertises the node's location on the new interface.
* Another thread calls `Scheduler::update` (or is the scheduler's own
  background thread); other threads schedule tasks and wait for calls.

The first three run in one thread, so that a handler with everything it calls is
one step of the models. Concurrency lies between nodes, whose messages may be
lost, repeated and overtaken, and between the threads around the scheduler,
where a step is what a thread does between two operations on a lock.

### 1.2 Which thread reads the sockets

`FDNotifier` has an own thread only when it is made with `async = true`. The
daemon makes it with `false` (`GeoMeshd_main.cpp`), nothing in the daemon calls
`waitForFD`, and the comment over its main loop ("poll for messages and handle
time-related things") describes more than the loop does. At this commit the
daemon therefore never reads a socket. The models of the router, the link, the
bridge and the lookup describe the components under what they are written for: *some one
thread calls `waitForFD` again and again*. Safety properties hold without that;
liveness properties assume it (section 5). `FDNotifier` models the notifier as
it is with `async = true`, where its own thread does so.

The HTTP server files a connection under the descriptor it listens on and looks
it up by the connection's own (`HTTPServer.cpp:70`), so that the first data of a
connection end the process with an exception. The notifier's model has that
step (`HandlerThrows`), and beside it what the handler does with a connection
that it finds.

### 1.3 What makes each part correct

| part | properties |
|---|---|
| advert flood | it ends; the hop count does not wrap; tables that speak of the neighbourhood are right; a greedy entry leads to a node that knows better |
| forwarding | a packet with a route arrives while tables change; none travels for ever; headers survive |
| fragmenting link | what is handed on is a packet that was sent; two buffers are enough |
| UDP bridge | ids are not used twice; the two ends of a link belong together; fragments come from the peer and are dropped only early; handshakes complete |
| notifier | a handler hears only of its own file; readable files are handled; the destructor returns |
| scheduler | nothing taken early; no drift; waiting calls return after their call is made; every task is run; the queue has one user at a time |
| contacts set | sorted; the search finds the closest contact and ends; an insert loses nothing |
| lookup and local interface | queue, pending lookups and contacts agree; datagrams go to contacts; contacts are mutual; queries end |

## 2. The modules

```
GeographicRoutingTable <- LocationFlood <- Router     <- MCRouter  (+ MCGeography)
                               ^            ^---- RouterProofs
                               '----------------- MCLocationFlood  (+ MCGeography)
PacketDefragmenter <- PacketDefragmenterProofs    PacketDefragmenter => ReceptionBuffer
FragmentingLink  <- FragmentingLinkProofs         FragmentingLink => PacketLink, ReceptionBuffer
UDPBridge        <- MCUDPBridge
UDPBridge        <- UDPBridgeProofs
ContactsSet      <- ContactsSetProofs             ContactsSet => ContactsTable
LocationLookup   <- MCLocationLookup
LocationLookup   <- LocationLookupProofs
Scheduler        <- SchedulerAsync
Scheduler        <- SchedulerProofs
FDNotifier       <- FDNotifierProofs
```

(`A <- B`: B extends A. `A => B`: A implements the abstract specification B, of which
it has an INSTANCE.)

**GeographicRoutingTable.** `insertIfUseful` and `getGreedyInterface` as operators
on a set of entries. The vector's order does not matter to either: equal
distances are the only ties, and a tie is a nondeterministic choice. Distances
are a constant table of natural numbers; `PRUNING_COEFFICIENT` is
`1 / PruningDivisor`.

**LocationFlood.** The state of every router: connected interfaces, greedy, local
and face tables; and the adverts on the links. An advert is the fields of a
`LOCATION_INFO` packet that decisions read: source, advertised location, hop
count, whether its check sum is right. Links are UDP: `net` is a set, `Receive`
leaves a copy that may arrive again, `Lose` removes one, and order is free.
`DamageSpec` also damages adverts in what the check sum covers (`Packet.cpp:69-97`): source,
location, hop count, or the sum alone. A damaged advert is refused, but while it claims to be
young it is passed on, one hop older and with a new check sum, which the next router
believes. With its hop count damaged to 0 it so makes a neighbour of somebody who is none; the
code has nothing against this, and the properties say how far it goes. Damage that happens to
keep the check sum is not modelled.
An interface is named by the peer behind it (at most one link between
two nodes), and locations are named by nodes, because no part of the code moves a
node.

**Router.** Data packets on top of the flood: `HandleMessage` is the other half of
`Router::handleMessage`, and `ForwardPacket` its `forwardPacket` with the local
table, the greedy table and the two face routing procedures. The two header
octets that meet in one place in the code, message type and routing mode, are an
array of octets; `ModeOctet` is the octet that `setRoutingMode` writes: 2, as in
`Packet.hpp`. `fate` is not state of the program but a record of
what became of each packet.

**PacketDefragmenter.** One reception buffer with its sorted vector of byte ranges. A
call of `receive` is a run of steps: the insertion of the range (`Receive`), the turns of the
loop of `removeOverlappingRanges` (merge and stay, or go on), and the answer (`Return`);
`index` is the loop's, from 1, and 0 between calls. Nothing else runs in between: the steps
are there because the loop, which shortens the vector that it walks, is what can be wrong. A fragment may be
empty, and so may a packet, as the checks of `PacketFragment` allow it.

**ReceptionBuffer.** What the link relies on: a buffer collects the bytes of one packet, and
every fragment is answered with whether they are all there. PacketDefragmenter implements it with
`bytes` read off from the ranges (`Covered`), each buffer of FragmentingLink with blocks for bytes.
So the two modules, one with byte ranges and no network, one with a network and no ranges, meet here.

**FragmentingLink.** `sendData`, `fragmentReceived`, the two buffers, packet numbers
modulo `NumberModulus`, and a network in between. It works with the *set* of
received blocks, as ReceptionBuffer does with bytes: that the vector of ranges is such a set is proved. `reliable` is chosen at the start: on a
reliable network a fragment is overtaken at most by those of the next packet; on
the other one anything is lost, repeated and reordered.

**PacketLink.** What the router relies on, as `AbstractLinkEndpoint.hpp` has it:
packets given to `sendData` are handed on as they were, late, out of order, again or never.
`FragmentingLink!ImplementsLink` is this specification with `sent` and
`delivered` read off from the fragments: a packet handed on that is made of two would be no
step of it.

**UDPBridge.** `UDPManager` in several processes: `ConnectTo` for each configured peer,
then `HandleIncoming` with the three kinds of datagrams. A process may `Crash` and `Start`
again, with ids from 1, while datagrams to its former life are under way and its peers keep
their interfaces. The network is a set that datagrams never leave: loss,
repetition and any order are the behaviours in which one is not taken, taken twice
or taken late. `epoch` and `life` number the lives of processes; they are history, in
no datagram of the code, and no handler looks at them. The fragments of the model are those
that FragmentingLink takes. FragmentingLink has one sender at the other end;
`MixedSenders` says in which cases the code does not see to that. An interface hears two senders
after a restart of its own process (fragments to the former life, to an id that has been given to
another peer since), after a restart of the peer, and at a client whose Hello the server took
twice. All of them happen, in the run too: without any one of the cases the property is
violated. What the link then puts together is not modelled, and `ImplementsLink` does not
speak of it. `life` occurs in the property to tell the cases apart, not to leave fragments out: `Taken` are
all those that the code hands to an endpoint. The router's advert over a new interface is the fragment that
`HandleHello` and `HandleEstablished` send.

**Scheduler, SchedulerAsync.** One program counter per thread. `Scheduler` is the
synchronous mode (the daemon's): clients in `scheduleTask` and `callAsap`, and
the thread that calls `update`. `SchedulerAsync` adds the background thread,
the condition variable with time-outs and spurious wake-ups, and the destructor.
The `std::unique_lock` of `runAsync` unlocks a mutex that was unlocked directly
before; the model does with it what the pthread mutex does: it comes free.

**ContactsSet.** `insert` and `findClosestEntry` of the sorted vector; a step is one
turn of a loop, and the local variables of the running call are state, so that the type
invariant says that iterators stay within the vector.

**ContactsTable.** The table behind it: a function from addresses to locations in which
a call files one contact or finds the closest one, at some moment until it returns.
`ContactsSet!ImplementsTable` maps the vector to that function (`Contacts`) and a
running call to the call without its iterators (`VisibleCall`).

**LocationLookup.** `LocationLookupManager` and `LocalInterface` of every node, and
the `FIND_CLOSEST` and `FIND_RESPONSE` packets between them. Contacts are a set, `ClosestEntry` is what
ContactsTable promises of `findClosestEntry`. How packets get from node to node is
abstracted to: they may, or may not. `Heard` says whose adverts get how far.
`times` counts how often a datagram was sent; 2 stands for twice or more.

**FDNotifier.** The thread of the notifier with a program counter through
`startListening` and `waitForFD`, the kernel's table of descriptors, which gives the lowest free number
to a new file, and a main thread that opens, adds and destroys. What is done between lock and
unlock is one step, except for the dispatch: handlers run one by one, and the
main thread may open files (but not add them) meanwhile. Handlers do what those of the UDP
manager, the tunnel and the HTTP server do. `stop` is
uninitialised in the code and arbitrary in `Init`.

In every module, definitions that begin with "Mutation of ..." in their comment
are deliberately wrong versions of the next definition. No specification uses
them; putting one in the place of the right one must break the property it is
paired with in `PROJECT.json`, which shows that the property depends on that code.

## 3. The runs

| run | instance | shows |
|---|---|---|
| `flood_boot` | four routers in a line, one foreign location, boot in any order, one advert damaged in any field | the local table holds nodes at most two hops away and the face table only neighbours that are there, except for what a damaged advert said that got a new check sum while it claimed to be young; greedy tables never lose an entry |
| `route_square` | four routers in a ring, two of them advertise, two packets are sent at any time | the flood ends and its hop counts are bounded; greedy entries lead on; the local tables have no loop; packets with a local route arrive, none travels for ever, and none is dropped where a way on was left |
| `route_triangle` | triangle, one packet sent after the flood has ended, nothing lost | *violation*: `DeliversInPlanarGraph` |
| `defrag_ranges` | two packet numbers, lengths of 0, 5 and 7 bytes, all fragments | the vector of ranges implements a set of bytes (ReceptionBuffer); between calls its ranges are sorted and apart; the loop that merges them ends |
| `link` | numbers modulo 4, packets of one and two blocks, 6 packets | the link implements PacketLink; on the reliable network no packet is lost |
| `bridge` | two processes that connect to each other and a third that connects to one of them, which may restart; ids modulo 4 | the UDP bridge's properties above |
| `notifier` | a set of three descriptors, five files | the notifier's properties above |
| `sched_sync` | two clients, two tasks, three instants, all kinds of calls | the scheduler's properties above |
| `sched_lock` | one client and the background thread | *violation*: `QueueExclusive` |
| `contacts` | addresses of three bits (all eight contacts), two locations | sorted, iterators within the vector, and the vector implements ContactsTable |
| `lookup` | three nodes in a chain, a host at each end sends to the other, one refresh | the lookup's properties above, with and without losses and repetitions |
| `lookup_converged` | four nodes in a chain, addresses of two bits | *violation*: `LookupsSucceed` |

The three violations are disagreements between the code and what the repository
says of it (`findings` in `PROJECT.json` quotes both):

* `route_triangle`. The relayed advert of a neighbour (two hops) arrives after its
  direct one and overwrites the direct route in the local table. In a triangle
  this happens at two nodes with each other, and they send packets for the
  third to and fro. `readme.md` promises delivery in planar graphs.
* `sched_lock`. The background thread's second unlock frees the mutex that a client
  has locked meanwhile; both are then in the queue.
* `lookup_converged`. A chain of contacts in which nothing changes any more, and the
  lookup of one node by another ends at the one that asked.
  `location_lookup_proof.md` says lookups then succeed.

Two more things show in the models and are stated by no run. `getRoutingMode` and
`setRoutingMode` use octet 2, which is the message type (`Packet.hpp:188` and `:202`;
`formal_packet_definition.md:23-24` gives the mode octet 3). Router does the same with
`ModeOctet` = 2, and two consequences are theorems of RouterProofs. A packet that enters face
routing (mode 1) becomes a `LOCATION_INFO` packet (type 1), which the next router takes for an
advert, with the address of the destination (first octet `0xfc`) as its hop count, and refuses: no
packet goes further in face routing than one hop. And a query of the location lookup
(type 10) is in no known routing mode, so that `forwardPacket` drops it unless the local table
knows its destination: queries reach nodes at most two hops away, and LocationLookup, whose packets
may be lost, describes larger networks as they would be with octet 3. With octet 3
all packets keep their type (`OctetsApart`). The other thing: datagrams that were sent stay in the queue
(`LocalInterface.cpp:53`), so that a later answer sends them again, which `times` of LocationLookup
counts.

### 3.1 Bounds

* *Networks.* A line of four has a node three hops away, the first that must not get
  into the local table, and adverts that are passed on for being young (hops < 3)
  and for being useful. A ring of four is the smallest network with a cycle and
  without a triangle (the triangle has a run of its own); each advert meets itself
  again. Coordinates are chosen so that two nodes are close enough for pruning
  and two are not. `HopModulus` 16 is above the bound that theorem
  `FloodBounded` needs; the theorem covers 2^16.
* *Damage.* In `flood_boot` one advert is damaged (`DamageBound` 1), to the source at either end of
  the line, a location of nobody or of the far end, and a hop count of 0 to 2. The three hop counts
  are those that are passed on; one advert suffices for each of the excuses in the two properties
  to be needed. The proof has any number of damaged adverts and any fields.
* *`route_square`* begins when all interfaces are connected and the adverts of `a` and `c` are
  still to be sent; the others count as lost. So `b` has two neighbours in its face table, and a
  packet for `d`, of which nobody has heard, begins face routing there; at the others it meets dead ends.
  `flood_boot` covers the start.
* *Link.* With numbers modulo 4 and 6 packets every number that wraps meets a buffer
  that has held the packet with the same number before.
* *Bridge.* `a` and `b` connect to each other, so that handshakes cross; `b` is at the
  same time the server of `c`, whose interface has the same id as that of `a`. `b` has two
  lives: its second one gets datagrams for the first, and numbers its interfaces
  alike. Three ids (`IfaceModulus` 4, 0 is none) run out when a Hello is repeated, and the
  assertion ends the process.
* *Notifier.* Three descriptors fit into the set and a fourth does not; five files make numbers
  come again while select's result is looked at.
* *Ranges.* Lengths 5 and 7 (beside 0) leave room for three ranges that contain, touch and
  overlap each other.
* *Scheduler.* Two tasks in two clients and an interval of one instant: a task is
  pushed between the look at the queue and the taking from it, repeated tasks
  come due together with one-time tasks, and the runner is late by several intervals.
* *Contacts.* Every set of three-bit addresses; the search goes through all bits, and
  splits ranges of up to eight entries.
* *Lookup.* Three nodes that cannot all hear each other are the least with a
  query that is passed on; `Refreshing` bounds the refreshes.

## 4. Which steps a network or thread may take

| component | environment |
|---|---|
| LocationFlood | adverts lost, repeated, reordered; one damaged in source, location, hop count or check sum; interfaces connected in any order |
| Router | the flood goes on under the packets; a link keeps the packet it carries (its loss adds only stops) |
| FragmentingLink | unreliable: fragments lost, repeated, reordered. Reliable: reordered within two packets |
| UDPBridge | datagrams lost, repeated, reordered, late by a restart of the receiver; processes end at any time and start again; ids run out |
| FDNotifier | files become readable at any time; handlers read, accept, close, remove or throw; the main thread adds and destroys at any time; select fails while a closed descriptor is in its set |
| ContactsSet | calls in any order |
| Scheduler | threads interleave at every lock operation; time passes whenever it likes |
| LocationLookup | packets lost, repeated, reordered; adverts at any time |

## 5. Fairness

* `FloodFairness`, `TrafficFairness`, and the fairness of `LocationLookup!FairSpec`: a packet
  under way that is not lost is handled in the end. This is `select` in `waitForFD`
  returning every readable socket, and a thread that calls it again (1.2).
  Nothing assumes that any packet is handled *before* another, that hosts send,
  or that losses stop: `FloodQuiesces` holds with adverts lost at will.
* `Scheduler!FairSpec`: threads that hold or can get the lock go on; `update` is
  called again and again, as the main loop does; time passes. Clients need not
  call.
* `UDPBridge!Fairness`: a process connects to all its peers, and the Hello and the
  Established of an interface are taken by a process that goes on running, as one that
  calls `waitForFD` again and again does when the network does not lose them. Neither is sent
  again by the code; after a loss the model, like the code, stays half open, and
  `HandshakeCompletes` says nothing.
* `ContactsSet!FairSpec`: a call that runs goes on. `ImplementsTable` needs it for the
  fairness of ContactsTable: calls return.
* `FDNotifier!FairSpec`: the notifier's thread does what it can do, and `join` returns
  when the thread has ended. Nothing is assumed of files or of the handlers.

`KnowsSymmetric` and `LookupsEnd` speak of networks that lose and repeat
nothing, as `location_lookup_proof.md` does.

## 6. Proofs

All are proved for every value of the constants that the named assumptions
allow. Each rests on an inductive invariant `IInv` (or one per part), proved for
the initial states and each action.

**RouterProofs, the flood** (any finite symmetric network without loops at a node, fewer
than `HopModulus - 4` nodes, any distances that are a distance, no damage).
`IInv` adds to the type invariant what an advert on a link says about the tables
behind it (`AdvertOK`): its sender knows better, its age of 1 or 2 tells how far
its source is, and its hops are at most 3 more than the nodes that accepted it. The last
gives `FloodBounded`: every hop beyond the third is paid for by
a node that entered the location for the first time. `GreedyEntryLeadsOn` and `NeighbourhoodCorrect` are
conjuncts; `LocalRoutingLeads` adds that in a network without triangles a direct
route is never overwritten. The steps are those of any flood that may lose adverts
(`LossyNext`).

Under damage (`DamageSpec`, any number of adverts in any fields) `DamageInv` is what is left: an
intact advert of one hop comes from the source it names, or its sender was sent a damaged one of
hop count 0 with that source, likewise for its location, and for two hops one step further
(`AdvertSound`). Damaged adverts stay in `net`, so that they are the record of what happened. Hence `LocalDespiteDamage` and
`FaceDespiteDamage`: a wrong entry of either table is one that a damaged advert had which claimed to be that
young. They do not say that the tables stay right, which is false of the code; without damage
they are right (`NeighbourhoodCorrect`). Adverts with a right check sum have a bounded number of
hops (`FloodBoundedDamaged`); `TablesKept` is the action property of `flood_boot`.
`NextHopKnowsBetter` does not hold under damage: greedy tables take a damaged location once it
has a new check sum.

**RouterProofs, data packets** (the same networks, any traffic, either octet; interfaces are connected and
adverts lost while packets travel, none is damaged). The tables change only as the flood
changes them (`FloodGoesOn`), so that the theorems on the flood hold under traffic. `RouterInv`
adds that a packet is in one place and what its type octet may have become (`TypeOctet`): with the
shared octet a packet that is forwarded has its own type, hence its mode is greedy or
none, so that face routing is never gone on with and queries leave by the local table alone.

`DropsAreExplained` says that a packet is dropped at a `DeadEnd` only. It needs, besides
`RouterInv`, `RoutesInv`: the interfaces in the tables are connected, so that `sendPacket` finds them, and a
direction in the face table is that of its location, so that a node has one for each
neighbour and the ring is finite. The rest is geometry of the ring, which
`routeFaceBegin` and `routeFaceRelay` walk: some range between neighbours holds any given direction
(`SomeRange`: take the last direction that is not later than it), and every entry has
a neighbour before it (`PredecessorIs`: headings differ, as `std::set` keeps one entry of a
heading). `LocalPacketsLead` is the safety half of `LocalTrafficArrives`: two hops of a
packet that leaves by a local table, with `LocalRoutesLead` for tables that change meanwhile.

**PacketDefragmenterProofs** (any packet numbers and lengths). `IInv` is the loop
invariant: the ranges are sorted by where they begin (`Sorted`), lie within the packet
(`Fit`), and those that the loop has passed are apart (`Separated`); `valid` means that no
call runs and the bytes covered are the packet (`ValidInv`). It is needed because between
calls `RangesSeparated` is what the loop leaves behind, and inside the loop it does not hold. The lemmas are about the
operators: an insertion adds the range's bytes and keeps the order (`InsertedKeeps`); a merge
keeps the bytes, since the second of two ranges that overlap begins within or right behind the first
(`MergedKeeps`, with `RangesUnited`); ranges that are apart are the whole packet only if there is one
(`FullIsWhole`). `DefragmenterImplementsBuffer` maps the insertion to `Receive`, a turn of the loop
and the end of the call to a stutter: the answer that the call then gives is the one that the
bytes demanded since the insertion. `LoopEnds` is the loop's measure,
and `RangesAreFew` bounds the vector by the length of the packet plus one (empty ranges count).

**FragmentingLinkProofs** (even modulus of at least 4, any packet sizes, any number
of packets). `PacketsIntact` has two arguments. On an unreliable network, while no
packet number is used twice, a number determines its packet (`IntegrityInv`).
On a reliable one, `WindowInv` says that fragments under way belong to the last two packets,
buffers to the last four, so that packets in one buffer have different numbers
(`NumbersApart`) although numbers wrap; `TwoBuffersSuffice` follows from its
`NoneMissing`: every packet was handed on or has all its blocks under way or in its buffer.
`LinkImplemented` is the refinement: sending is `SendData`, a fragment that completes a
packet is `Deliver` of the packet that `LinkInv` says it is, and all else a stutter.
`BuffersImplementReception` is the other refinement, for both buffers, any modulus and any
network: it needs only that fragments lie within their packets (`FragmentsFit`).

**UDPBridgeProofs** (any processes, peers, numbers of ids and lives). What a datagram
or an endpoint says of an interface of another process holds as long as that process is in the
life it speaks of. `DatagramInv` and `EndpointInv` say this for each kind; `ProcessInv`
says that a process that runs makes its client interfaces first, in order, and
all server interfaces above them, which is why an id tells a client interface
from a server interface even across restarts. `IdsUnique`, `LinkedBothWays` and `DroppedOnlyEarly`
follow, and `SendersMixOnlyThen` says in which cases, exactly, the missing check of senders lets an
interface take fragments of several. It needs `AnswersInv` besides: an interface that sends to a client in
its present life has answered a Hello of it, so that two of them are two answers to one Hello.

**SchedulerProofs** (any number of clients and tasks, synchronous mode). `LockInv`
relates the mutex to the program counters; with `DueInv`, which says that a task
seen to be due stays in the queue until it is taken, `TakesDueTask` is inductive.
`TaskInv` adds that each task is in one place at a time: unborn, in one client's hand, in the
queue once, in the runner's hand, or done. `NoDrift` follows from what each place says of the
next time and the number of runs, and `WaitingCallMade` from where the task of a waiting
call can be. `TypeInv`, for the bounds in `TypeOK`, adds that a task in hand is an entry and one in the
runner's hand is due: a task is planned at most one interval ahead.

**ContactsSetProofs** (any width of addresses, any contacts). `IInv` holds the loop invariants of
both searches, those of `doc/algorithms.md`: of `insert`, that everything before `first`
is less and everything behind `last` greater; of `findClosestEntry`, that `a .. b` agree in
the bits looked at and are closer to the query than all others (`FindInv`), with the
bit 0 up to `c` and 1 from `d` on (`SplitInv`). Two lemmas on addresses carry them: among addresses that
agree so far the next bit grows with the order (`NextBitGrows`), and it decides which is
closer (`BitDecides`). That the search stops at the last bit is `BitLeft`: two entries
that agree in all bits are one. `TableImplemented` is the safety part of `ImplementsTable`.

**FDNotifierProofs** (any `FD_SETSIZE`, any number of files). `FilesInv`: a file has one
descriptor, and numbers of files are not used again. `ListenersInv`: open files are heard of or
about to be added, and a handler whose file is closed is about to be removed, in the
same dispatch. `ReadyInv`: what select found stays open and readable until its turn has come, since only a handler closes
its own descriptor. Hence `HandlersOfTheirFiles`.

**LocationLookupProofs** (any set of addresses with a distance that is symmetric and
has no ties, any nodes, any way in which adverts get through, losses and repetitions
included). `IInv` adds `WaitAtOrigin` and `ResponderKnows`: who sent an answer had
recorded the requester before, which is what makes `KnowsSymmetric` inductive.
`QueriesGetCloser` is the step of the termination argument behind `LookupsEnd`: a
query that is passed on gets strictly closer to the queried address. `NothingForgotten` speaks of membership in
the pending set: nothing in the code looks into the set to ask again.

Every invariant and action property that the passing runs check is stated by a theorem.
Only model-checked: all liveness (temporal fairness is out of the prover's reach), with the
fairness of ContactsTable in `ImplementsTable`. The three violations are runs alone.

## 7. What is not modelled

* *Vendored code*: the JSON and XML parsers, more than half of all lines of the repository, and
  third-party. No part of what is modelled calls them while it runs.
* *HTTP and REST*: parsing and formatting of requests and resources. Their state is the
  connections, which are in FDNotifier.
* *Tunnels*: set-up of the operating system's devices; the handler that reads them is in FDNotifier.
* *Simulator*: a development tool around the same router, with virtual locations as an
  experiment that the daemon does not have. It does not compile at this commit.
* *Logging, cryptography, encoding*: no state that another part reads.
* *UDPManager*: datagrams of another protocol version, and socket calls that fail; both
  change nothing.
* Fields of a packet that no decision reads, floating point (distances and headings are tables),
  expiry times (always 0), the order of equally distant entries.
* Objects' lifetimes (the stack variables that `callAsap` captures); `routeFaceRelay` reading past the
  end of the face table, which the model treats as the test after it does.

`PROJECT.json` gives the reason for each component. As most lines of the repository are vendored
or formatting, the definitions map a small share of all lines, and most of those
of the daemon's own logic.

## 8. Plan

Done: sections 2 to 6. Left, in this order:

1. Face routing with `ModeOctet` = 3, as the document has it: does a packet leave its face?
2. SchedulerAsync: does the destructor return? Its steps (`SetStop`, `NotifyAll`, `Join`) are
   modelled; a wake-up between the thread's test and its wait is lost.
3. FragmentingLink with two senders of one packet number: what its buffers put together in the
   cases that `MixedSenders` leaves.
4. Simulator: virtual locations, if it is brought to compile.
5. Proofs: measures of the flood and of the scheduler's queue, as far as liveness can be
   brought to action properties.
