---------------------------- MODULE ReceptionBuffer ----------------------------
(***************************************************************************)
(* What a fragmenting link relies on in a reception buffer: it collects    *)
(* the bytes of one packet at a time, and its answer to every fragment is  *)
(* whether the bytes collected are the whole packet.  PacketDefragmenter   *)
(* implements it with ranges of bytes; each of the two buffers that        *)
(* FragmentingLink has implements it with blocks in the place of bytes.    *)
(***************************************************************************)
EXTENDS Integers

CONSTANTS
    Number,          \* packet numbers
    Length           \* packet lengths

VARIABLES
    packetNumber,    \* the packet that is collected
    expectedSize,    \* its length
    bytes,           \* the positions of the bytes collected
    complete         \* the answer to the last fragment

vars == <<packetNumber, expectedSize, bytes, complete>>

Init ==
    /\ packetNumber = 0
    /\ expectedSize = 0
    /\ bytes = {}
    /\ complete = FALSE

Continues(number, length) == packetNumber = number /\ expectedSize = length

\* A fragment of another packet ends the collection of the one before it.
Receive(number, length, begin, end) ==
    /\ packetNumber' = number
    /\ expectedSize' = length
    /\ bytes' = (IF Continues(number, length) THEN bytes ELSE {}) \cup begin .. end - 1
    /\ complete' = (bytes' = 0 .. length - 1)

Next ==
    \E number \in Number, length \in Length :
        \E begin \in 0 .. length :
            \E end \in begin .. length : Receive(number, length, begin, end)

Spec == Init /\ [][Next]_vars

================================================================================
