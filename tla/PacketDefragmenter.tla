------------------------- MODULE PacketDefragmenter --------------------------
(***************************************************************************)
(* One reception buffer of a fragmenting link, with the sorted vector of   *)
(* received byte ranges that PacketDefragmenter keeps.  A step is the part *)
(* of `receive' up to the loop of removeOverlappingRanges, one turn of     *)
(* that loop, or the part behind it.                                       *)
(***************************************************************************)
EXTENDS Integers, Sequences, SequencesExt

CONSTANTS
    Number,    \* packet numbers
    Length     \* packet lengths, in bytes

ASSUME DefragmenterAssumption ==
    /\ Number \subseteq Nat
    /\ Length \subseteq Nat

VARIABLES
    packetNumber,      \* the packet that the last fragment was part of
    expectedSize,      \* its length
    valid,             \* the cached answer of isFullPacketAvailable
    receivedRanges,    \* pairs <<begin, end>>, end exclusive
    index              \* of removeOverlappingRanges, from 1; 0 when no call runs

vars == <<packetNumber, expectedSize, valid, receivedRanges, index>>

\* In particular the loop stays within the vector.
TypeOK ==
    /\ packetNumber \in Number \cup {0}
    /\ expectedSize \in Length \cup {0}
    /\ valid \in BOOLEAN
    /\ receivedRanges \in Seq(Nat \X Nat)
    /\ index \in 0 .. Len(receivedRanges)

Init ==
    /\ packetNumber = 0
    /\ expectedSize = 0
    /\ valid = FALSE
    /\ receivedRanges = <<>>
    /\ index = 0

------------------------------------------------------------------------------

\* Before the first range that begins later.
Inserted(ranges, range) ==
    LET later == {i \in DOMAIN ranges : range[1] < ranges[i][1]}
        at == IF later = {} THEN Len(ranges) + 1
              ELSE CHOOSE i \in later : \A j \in later : i <= j
    IN  InsertAt(ranges, at, range)

\* A fragment with bytes begin .. end - 1 of a packet arrives; the range is inserted.
Receive(number, length, begin, end) ==
    LET other == packetNumber # number \/ expectedSize # length
    IN  /\ index = 0
        /\ packetNumber' = number
        /\ expectedSize' = length
        /\ valid' = FALSE
        /\ receivedRanges' =
             Inserted(IF other THEN <<>> ELSE receivedRanges, <<begin, end>>)
        /\ index' = 1

Larger(x, y) == IF x >= y THEN x ELSE y

\* Mutation of Merged: a range that lies within the one before it shortens it.
MergedToLater(ranges, i) ==
    RemoveAt([ranges EXCEPT ![i] = <<ranges[i][1], ranges[i + 1][2]>>], i + 1)

\* Mutation of Merged: range i + 1 is not erased.
MergedInPlace(ranges, i) ==
    [ranges EXCEPT ![i] = <<ranges[i][1], Larger(ranges[i][2], ranges[i + 1][2])>>]

\* Ranges i and i + 1 become one.
Merged(ranges, i) ==
    RemoveAt([ranges EXCEPT ![i] = <<ranges[i][1], Larger(ranges[i][2], ranges[i + 1][2])>>],
             i + 1)

\* Mutation of RemoveOverlappingRanges: after a merge, on to the next index.
RemoveOverlapsOnce ==
    /\ index # 0
    /\ index < Len(receivedRanges)
    /\ receivedRanges' = IF receivedRanges[index][2] >= receivedRanges[index + 1][1]
                         THEN Merged(receivedRanges, index) ELSE receivedRanges
    /\ index' = index + 1
    /\ UNCHANGED <<packetNumber, expectedSize, valid>>

\* A turn of the loop: merge two ranges and stay, or go on.
RemoveOverlappingRanges ==
    /\ index # 0
    /\ index < Len(receivedRanges)
    /\ \/ /\ receivedRanges[index][2] >= receivedRanges[index + 1][1]
          /\ receivedRanges' = Merged(receivedRanges, index)
          /\ UNCHANGED index
       \/ /\ receivedRanges[index][2] < receivedRanges[index + 1][1]
          /\ index' = index + 1
          /\ UNCHANGED receivedRanges
    /\ UNCHANGED <<packetNumber, expectedSize, valid>>

\* isFullPacketAvailable without its cache, which `receive' has just invalidated.
IsFull(ranges, size) ==
    /\ ranges # <<>>
    /\ ranges[Len(ranges)][2] = size
    /\ ranges[1][1] = 0
    /\ \A i \in 1 .. Len(ranges) - 1 : ranges[i + 1][1] <= ranges[i][2]

\* Behind the loop: the caller is told whether the packet is complete.
Return ==
    /\ index # 0
    /\ index >= Len(receivedRanges)
    /\ valid' = IsFull(receivedRanges, expectedSize)
    /\ index' = 0
    /\ UNCHANGED <<packetNumber, expectedSize, receivedRanges>>

\* PacketFragment's constructor only lets fragments pass that fit their packet.
Next ==
    \/ \E number \in Number, length \in Length :
         \E begin \in 0 .. length :
           \E end \in begin .. length : Receive(number, length, begin, end)
    \/ RemoveOverlappingRanges
    \/ Return

Spec == Init /\ [][Next]_vars

------------------------------------------------------------------------------
(* Properties.                                                             *)

\* The ranges are sorted and do not touch when a call has returned, so that their number
\* stays small.
RangesSeparated ==
    index = 0 => \A i \in 1 .. Len(receivedRanges) - 1 :
                    receivedRanges[i][2] < receivedRanges[i + 1][1]

\* The bytes that ranges stand for.
Covered(ranges) == UNION {ranges[i][1] .. ranges[i][2] - 1 : i \in DOMAIN ranges}

\* While a call runs the answer is the one that it has to give.
Buffer == INSTANCE ReceptionBuffer WITH
    bytes <- Covered(receivedRanges),
    complete <- IF index = 0 THEN valid ELSE Covered(receivedRanges) = 0 .. expectedSize - 1

\* The vector of ranges, inserted into, merged and shortened, is a set of bytes: whatever
\* the order and overlap of the fragments, it loses and invents none, and a packet is
\* reported complete exactly when every byte of it has arrived.
ImplementsBuffer == Buffer!Spec

\* removeOverlappingRanges ends, although it stays at its index after a merge: every turn
\* leaves less of the vector in front of it.
LoopAdvances ==
    [][index # 0 /\ index' # 0 =>
          Len(receivedRanges') - index' < Len(receivedRanges) - index]_vars

==============================================================================
