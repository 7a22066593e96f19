---------------------------- MODULE FragmentingLink ----------------------------
(***************************************************************************)
(* One direction of a FragmentingLinkEndpoint pair: sendData cuts a packet *)
(* into fragments, the network carries them, fragmentReceived puts them    *)
(* together in one of two reception buffers, chosen by packet number.  A   *)
(* block is what one fragment carries (500 bytes); a buffer is modelled by *)
(* the blocks it holds, as in ReceptionBuffer, which PacketDefragmenter    *)
(* with its vector of ranges implements.                                   *)
(*                                                                         *)
(* The bytes of the n-th packet are modelled by n itself, from 0, so that  *)
(* a packet made of parts of two packets is told from both.                *)
(***************************************************************************)
EXTENDS Integers, Sequences

CONSTANTS
    NumberModulus,   \* 2^16: packet numbers are 16-bit
    MaxSize,         \* the longest packet, in blocks
    MaxSent          \* bound: packets sent

UDP_RECEPTION_BUFFER_COUNT == 2

ASSUME LinkAssumption ==
    /\ NumberModulus \in Nat \ {0}
    /\ MaxSize \in Nat \ {0}
    /\ MaxSent \in Nat

VARIABLES
    reliable,    \* never changes: what kind of network this is, see Next
    sent,        \* the sizes of the packets sent, in order
    net,         \* the fragments under way
    buffers,     \* receptionBuffers
    delivered    \* the packets handed to dataArrivedCallback

vars == <<reliable, sent, net, buffers, delivered>>

Buffer == 0 .. UDP_RECEPTION_BUFFER_COUNT - 1

\* Mutation of PacketNumber: a counter wider than the field.
PacketNumberUnwrapped(n) == n

\* nextPacketNumber when n packets have been sent.
PacketNumber(n) == n % NumberModulus

\* Mutation of BufferOf: one reception buffer.
BufferOfOne(number) == 0

BufferOf(number) == number % UDP_RECEPTION_BUFFER_COUNT

Fragment == [number : 0 .. NumberModulus - 1, size : 1 .. MaxSize,
             block : 1 .. MaxSize, content : 0 .. MaxSent - 1]

Content == UNION {[blocks -> 0 .. MaxSent - 1] : blocks \in SUBSET (1 .. MaxSize)}

TypeOK ==
    /\ reliable \in BOOLEAN
    /\ sent \in Seq(1 .. MaxSize)
    /\ net \subseteq Fragment
    /\ buffers \in [Buffer -> [number : 0 .. NumberModulus - 1, size : 0 .. MaxSize,
                               blocks : Content]]
    /\ delivered \subseteq Content

Init ==
    /\ reliable \in BOOLEAN
    /\ sent = <<>>
    /\ net = {}
    /\ buffers = [b \in Buffer |-> [number |-> 0, size |-> 0, blocks |-> <<>>]]
    /\ delivered = {}

------------------------------------------------------------------------------

Fragments(n, size) ==
    {[number |-> PacketNumber(n), size |-> size, block |-> b, content |-> n] :
        b \in 1 .. size}

\* A fragment is overtaken at most by those of the next packet: the disorder that two
\* buffers are meant for.
InWindow == \A f \in net : f.content >= Len(sent) - 1

\* On an unreliable network, until packet numbers are used again.
SendData(size) ==
    /\ Len(sent) < MaxSent
    /\ IF reliable THEN InWindow ELSE Len(sent) < NumberModulus
    /\ sent' = Append(sent, size)
    /\ net' = net \cup Fragments(Len(sent), size)
    /\ UNCHANGED <<reliable, buffers, delivered>>

\* Mutation of Continues: only the length of the packet is compared.
ContinuesSameSize(buffer, f) == buffer.size = f.size

\* f belongs to the packet that the buffer was receiving.
Continues(buffer, f) == buffer.number = f.number /\ buffer.size = f.size

\* PacketDefragmenter::receive.
Received(buffer, f) ==
    LET old == IF Continues(buffer, f) THEN DOMAIN buffer.blocks ELSE {}
    IN  [number |-> f.number, size |-> f.size,
         blocks |-> [b \in old \cup {f.block} |->
                       IF b = f.block THEN f.content ELSE buffer.blocks[b]]]

IsFullPacketAvailable(buffer) == DOMAIN buffer.blocks = 1 .. buffer.size

FragmentReceived(f) ==
    LET b == BufferOf(f.number)
        reception == Received(buffers[b], f)
    IN  /\ buffers' = [buffers EXCEPT ![b] = reception]
        /\ delivered' = IF IsFullPacketAvailable(reception)
                        THEN delivered \cup {reception.blocks} ELSE delivered
        /\ UNCHANGED <<reliable, sent>>

Arrive(f) == f \in net /\ net' = net \ {f} /\ FragmentReceived(f)

Duplicate(f) == f \in net /\ net' = net /\ FragmentReceived(f)

Lose(f) ==
    /\ f \in net
    /\ net' = net \ {f}
    /\ UNCHANGED <<reliable, sent, buffers, delivered>>

\* UDP promises nothing: fragments overtake each other, arrive again or never.  A
\* reliable network is one that behaves as well as the code hopes for.
Next ==
    \/ \E size \in 1 .. MaxSize : SendData(size)
    \/ \E f \in net : Arrive(f) \/ (~reliable /\ (Duplicate(f) \/ Lose(f)))

Spec == Init /\ [][Next]_vars

------------------------------------------------------------------------------
(* Properties.                                                             *)

PacketSent(n) == [b \in 1 .. sent[n + 1] |-> n]

\* Integrity: sendData and fragmentReceived never make a packet of parts of
\* several packets, whatever the network does until packet numbers are used again.
NoMixedPacket ==
    \A d \in delivered : \E n \in 0 .. Len(sent) - 1 : d = PacketSent(n)

\* The packets that were given to sendData.
PacketsSent == [i \in 1 .. Len(sent) |-> PacketSent(i - 1)]

Packet == {[b \in 1 .. size |-> n] : n \in 0 .. MaxSent - 1, size \in 1 .. MaxSize}

Link == INSTANCE PacketLink WITH sent <- PacketsSent

\* Cutting packets up and putting them together again is a link that hands on packets as
\* they were sent: the fragments, the buffers and the numbers are hidden.
ImplementsLink == Link!Spec

\* Two reception buffers suffice for the disorder of a reliable network: every packet
\* whose fragments have all arrived was handed on, while numbers wrap around.
NothingStranded ==
    reliable /\ net = {} => \A n \in 0 .. Len(sent) - 1 : PacketSent(n) \in delivered

==============================================================================
