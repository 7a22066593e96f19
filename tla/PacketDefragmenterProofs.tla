----------------------- MODULE PacketDefragmenterProofs -----------------------
(***************************************************************************)
(* Proofs about PacketDefragmenter, for packets of any length: its sorted  *)
(* vector of ranges is the set of bytes of a ReceptionBuffer.              *)
(***************************************************************************)
EXTENDS PacketDefragmenter, SequenceTheorems, FiniteSetTheorems,
        WellFoundedInduction, TLAPS

ByteRange == Nat \X Nat

\* The ranges lie within a packet of that size.
Fit(ranges, size) ==
    \A i \in 1 .. Len(ranges) : ranges[i][1] <= ranges[i][2] /\ ranges[i][2] <= size

\* "receivedRanges is sorted by starting index of the range" (removeOverlappingRanges).
Sorted(ranges) ==
    \A i, j \in 1 .. Len(ranges) : i < j => ranges[i][1] <= ranges[j][1]

\* No two neighbours of the first k ranges overlap or touch.
Separated(ranges, k) ==
    \A i \in 1 .. Len(ranges) - 1 : i < k => ranges[i][2] < ranges[i + 1][1]

\* The ranges that the loop has passed are separated, all of them behind the loop.
RangesInv ==
    /\ Fit(receivedRanges, expectedSize)
    /\ Sorted(receivedRanges)
    /\ Separated(receivedRanges, IF index = 0 THEN Len(receivedRanges) ELSE index)

\* A packet is reported complete exactly when every byte of it has arrived, and, if it has
\* none, at least a fragment of it.
ValidInv ==
    valid <=> /\ index = 0
              /\ receivedRanges # <<>>
              /\ Covered(receivedRanges) = 0 .. expectedSize - 1

IInv == TypeOK /\ RangesInv /\ ValidInv

------------------------------------------------------------------------------
(* Sequences.                                                              *)

LEMMA RemovedAt ==
    ASSUME NEW S, NEW s \in Seq(S), NEW p \in 1 .. Len(s)
    PROVE  /\ RemoveAt(s, p) \in Seq(S)
           /\ Len(RemoveAt(s, p)) = Len(s) - 1
           /\ \A j \in 1 .. Len(s) - 1 :
                RemoveAt(s, p)[j] = IF j < p THEN s[j] ELSE s[j + 1]
<1> DEFINE before == SubSeq(s, 1, p - 1)
           behind == SubSeq(s, p + 1, Len(s))
<1>0. p \in Int /\ Len(s) \in Nat /\ p >= 1 /\ p <= Len(s)
  OBVIOUS
<1>1. /\ before \in Seq(S) /\ Len(before) = p - 1
      /\ \A j \in 1 .. p - 1 : before[j] = s[j]
  <2>1. \A j \in 1 .. p - 1 : s[j] \in S
    BY <1>0
  <2>2. /\ before \in Seq(S)
        /\ Len(before) = IF 1 <= p - 1 THEN p - 1 - 1 + 1 ELSE 0
        /\ \A j \in 1 .. p - 1 - 1 + 1 : before[j] = s[1 + j - 1]
    BY <1>0, <2>1, SubSeqProperties
  <2> HIDE DEF before
  <2> QED
    BY <1>0, <2>2
<1>2. /\ behind \in Seq(S) /\ Len(behind) = Len(s) - p
      /\ \A j \in 1 .. Len(s) - p : behind[j] = s[p + j]
  <2>1. \A j \in p + 1 .. Len(s) : s[j] \in S
    BY <1>0
  <2>2. /\ behind \in Seq(S)
        /\ Len(behind) = IF p + 1 <= Len(s) THEN Len(s) - (p + 1) + 1 ELSE 0
        /\ \A j \in 1 .. Len(s) - (p + 1) + 1 : behind[j] = s[p + 1 + j - 1]
    BY <1>0, <2>1, SubSeqProperties
  <2> HIDE DEF behind
  <2> QED
    BY <1>0, <2>2
<1> HIDE DEF before, behind
<1>3. /\ before \o behind \in Seq(S) /\ Len(before \o behind) = Len(before) + Len(behind)
      /\ \A j \in 1 .. Len(before) + Len(behind) :
            (before \o behind)[j] =
                IF j <= Len(before) THEN before[j] ELSE behind[j - Len(before)]
  BY <1>1, <1>2, ConcatProperties
<1>4. RemoveAt(s, p) = before \o behind
  BY DEF RemoveAt, before, behind
<1>5. ASSUME NEW j \in 1 .. Len(s) - 1
      PROVE  (before \o behind)[j] = IF j < p THEN s[j] ELSE s[j + 1]
  <2>1. CASE j < p
    BY <1>0, <1>1, <1>2, <1>3, <2>1
  <2>2. CASE j >= p
    <3>1. (before \o behind)[j] = behind[j - (p - 1)]
      BY <1>0, <1>1, <1>2, <1>3, <2>2
    <3>2. j - (p - 1) \in 1 .. Len(s) - p /\ p + (j - (p - 1)) = j + 1
      BY <1>0, <2>2
    <3>3. behind[j - (p - 1)] = s[p + (j - (p - 1))]
      BY <1>2, <3>2
    <3> QED
      BY <1>0, <2>2, <3>1, <3>2, <3>3
  <2>3. j < p \/ j >= p
    BY <1>0
  <2> QED
    BY <2>1, <2>2, <2>3
<1> QED
  BY <1>0, <1>1, <1>2, <1>3, <1>4, <1>5

LEMMA InsertedAt ==
    ASSUME NEW S, NEW s \in Seq(S), NEW p \in 1 .. Len(s) + 1, NEW e \in S
    PROVE  /\ InsertAt(s, p, e) \in Seq(S)
           /\ Len(InsertAt(s, p, e)) = Len(s) + 1
           /\ \A j \in 1 .. Len(s) + 1 :
                InsertAt(s, p, e)[j] =
                    IF j < p THEN s[j] ELSE IF j = p THEN e ELSE s[j - 1]
<1> DEFINE before == SubSeq(s, 1, p - 1)
           behind == SubSeq(s, p, Len(s))
           upto == before \o <<e>>
<1>0. p \in Int /\ Len(s) \in Nat /\ p >= 1 /\ p <= Len(s) + 1
  OBVIOUS
<1>1. /\ before \in Seq(S) /\ Len(before) = p - 1
      /\ \A j \in 1 .. p - 1 : before[j] = s[j]
  <2>1. \A j \in 1 .. p - 1 : s[j] \in S
    BY <1>0
  <2>2. /\ before \in Seq(S)
        /\ Len(before) = IF 1 <= p - 1 THEN p - 1 - 1 + 1 ELSE 0
        /\ \A j \in 1 .. p - 1 - 1 + 1 : before[j] = s[1 + j - 1]
    BY <1>0, <2>1, SubSeqProperties
  <2> HIDE DEF before
  <2> QED
    BY <1>0, <2>2
<1>2. /\ behind \in Seq(S) /\ Len(behind) = Len(s) - p + 1
      /\ \A j \in 1 .. Len(s) - p + 1 : behind[j] = s[p + j - 1]
  <2>1. \A j \in p .. Len(s) : s[j] \in S
    BY <1>0
  <2>2. /\ behind \in Seq(S)
        /\ Len(behind) = IF p <= Len(s) THEN Len(s) - p + 1 ELSE 0
        /\ \A j \in 1 .. Len(s) - p + 1 : behind[j] = s[p + j - 1]
    BY <1>0, <2>1, SubSeqProperties
  <2> HIDE DEF behind
  <2> QED
    BY <1>0, <2>2
<1>3. <<e>> \in Seq(S) /\ Len(<<e>>) = 1 /\ <<e>>[1] = e
  OBVIOUS
<1> HIDE DEF before, behind
<1>4. /\ upto \in Seq(S) /\ Len(upto) = p
      /\ \A j \in 1 .. p : upto[j] = IF j < p THEN s[j] ELSE e
  <2>1. /\ upto \in Seq(S) /\ Len(upto) = Len(before) + Len(<<e>>)
        /\ \A j \in 1 .. Len(before) + Len(<<e>>) :
              upto[j] = IF j <= Len(before) THEN before[j] ELSE <<e>>[j - Len(before)]
    BY <1>1, <1>3, ConcatProperties
  <2> HIDE DEF upto
  <2> QED
    BY <1>0, <1>1, <1>3, <2>1
<1> HIDE DEF upto
<1>5. /\ upto \o behind \in Seq(S) /\ Len(upto \o behind) = Len(upto) + Len(behind)
      /\ \A j \in 1 .. Len(upto) + Len(behind) :
            (upto \o behind)[j] = IF j <= Len(upto) THEN upto[j] ELSE behind[j - Len(upto)]
  BY <1>2, <1>4, ConcatProperties
<1>6. InsertAt(s, p, e) = upto \o behind
  BY DEF InsertAt, upto, before, behind
<1>7. ASSUME NEW j \in 1 .. Len(s) + 1
      PROVE  (upto \o behind)[j] = IF j < p THEN s[j] ELSE IF j = p THEN e ELSE s[j - 1]
  <2>1. CASE j <= p
    BY <1>0, <1>2, <1>4, <1>5, <2>1
  <2>2. CASE j > p
    <3>1. (upto \o behind)[j] = behind[j - p]
      BY <1>0, <1>2, <1>4, <1>5, <2>2
    <3>2. j - p \in 1 .. Len(s) - p + 1 /\ p + (j - p) - 1 = j - 1
      BY <1>0, <2>2
    <3>3. behind[j - p] = s[p + (j - p) - 1]
      BY <1>2, <3>2
    <3> QED
      BY <1>0, <2>2, <3>1, <3>2, <3>3
  <2>3. j <= p \/ j > p
    BY <1>0
  <2> QED
    BY <2>1, <2>2, <2>3
<1> QED
  BY <1>0, <1>2, <1>4, <1>5, <1>6, <1>7

------------------------------------------------------------------------------
(* Byte ranges.                                                            *)

\* The parts of a range are numbers.
LEMMA Ends ==
    ASSUME NEW ranges \in Seq(ByteRange), NEW i \in 1 .. Len(ranges)
    PROVE  ranges[i][1] \in Nat /\ ranges[i][2] \in Nat
<1>1. ranges[i] \in Nat \X Nat
  BY DEF ByteRange
<1> QED
  BY <1>1

\* A byte is covered if it lies in a range.
LEMMA InCovered ==
    ASSUME NEW ranges \in Seq(ByteRange), NEW n
    PROVE  n \in Covered(ranges) <=>
             \E i \in 1 .. Len(ranges) : n \in ranges[i][1] .. ranges[i][2] - 1
<1>1. DOMAIN ranges = 1 .. Len(ranges)
  OBVIOUS
<1> QED
  BY <1>1, Zenon DEF Covered

\* A set of numbers that is not empty has a least one.
LEMMA LeastNumber ==
    ASSUME NEW T, T \subseteq Nat, T # {}
    PROVE  \E i \in T : \A j \in T : i <= j
<1>1. PICK i \in T : \A j \in T : <<j, i>> \notin OpToRel(<, Nat)
  BY WFMin, NatLessThanWellFounded, Zenon
<1>2. \A j \in T : ~(j < i)
  BY <1>1, Zenon DEF OpToRel
<1> QED
  BY <1>2

\* The new range goes before all that begin later and behind all others.
LEMMA InsertPlace ==
    ASSUME NEW ranges \in Seq(ByteRange), NEW range \in ByteRange, Sorted(ranges)
    PROVE  \E at \in 1 .. Len(ranges) + 1 :
             /\ Inserted(ranges, range) = InsertAt(ranges, at, range)
             /\ \A i \in 1 .. Len(ranges) :
                  /\ i < at => ranges[i][1] <= range[1]
                  /\ i >= at => range[1] <= ranges[i][1]
<1> DEFINE later == {i \in DOMAIN ranges : range[1] < ranges[i][1]}
<1>0. /\ DOMAIN ranges = 1 .. Len(ranges) /\ Len(ranges) \in Nat
      /\ range[1] \in Nat
  BY DEF ByteRange
<1>n. \A i \in 1 .. Len(ranges) : ranges[i][1] \in Nat
  BY Ends
<1>1. CASE later = {}
  <2>1. Inserted(ranges, range) = InsertAt(ranges, Len(ranges) + 1, range)
    BY <1>1 DEF Inserted
  <2>2. \A i \in 1 .. Len(ranges) : ranges[i][1] <= range[1]
    BY <1>0, <1>n, <1>1
  <2>3. /\ Len(ranges) + 1 \in 1 .. Len(ranges) + 1
        /\ \A i \in 1 .. Len(ranges) :
             /\ i < Len(ranges) + 1 => ranges[i][1] <= range[1]
             /\ i >= Len(ranges) + 1 => range[1] <= ranges[i][1]
    BY <1>0, <2>2
  <2> QED
    BY <2>1, <2>3, Zenon
<1>2. CASE later # {}
  <2> DEFINE at == CHOOSE i \in later : \A j \in later : i <= j
  <2>1. \E i \in later : \A j \in later : i <= j
    <3>1. later \subseteq Nat
      BY <1>0
    <3> HIDE DEF later
    <3> QED
      BY <1>2, <3>1, LeastNumber, Zenon
  <2>2. at \in later /\ \A j \in later : at <= j
    BY <2>1
  <2>3. Inserted(ranges, range) = InsertAt(ranges, at, range)
    BY <1>2 DEF Inserted
  <2> HIDE DEF at
  <2>4. at \in 1 .. Len(ranges) /\ range[1] < ranges[at][1]
    BY <1>0, <2>2
  <2>5. ASSUME NEW i \in 1 .. Len(ranges), i < at
        PROVE  ranges[i][1] <= range[1]
    <3>1. i \notin later
      BY <1>0, <2>2, <2>4, <2>5
    <3> QED
      BY <1>0, <1>n, <3>1
  <2>6. ASSUME NEW i \in 1 .. Len(ranges), i >= at
        PROVE  range[1] <= ranges[i][1]
    <3>1. ranges[at][1] <= ranges[i][1]
      BY <1>n, <2>4, <2>6 DEF Sorted
    <3> QED
      BY <1>0, <1>n, <2>4, <3>1
  <2>7. at \in 1 .. Len(ranges) + 1
    BY <1>0, <2>4
  <2> QED
    BY <2>3, <2>5, <2>6, <2>7
<1> QED
  BY <1>1, <1>2

\* An insertion adds the bytes of the new range and leaves the ranges sorted.
LEMMA InsertedKeeps ==
    ASSUME NEW ranges \in Seq(ByteRange), NEW range \in ByteRange, NEW size \in Nat,
           Sorted(ranges), Fit(ranges, size), range[1] <= range[2], range[2] <= size
    PROVE  LET new == Inserted(ranges, range)
           IN  /\ new \in Seq(ByteRange)
               /\ Len(new) = Len(ranges) + 1
               /\ Sorted(new)
               /\ Fit(new, size)
               /\ Covered(new) = Covered(ranges) \cup range[1] .. range[2] - 1
<1>1. PICK at \in 1 .. Len(ranges) + 1 :
             /\ Inserted(ranges, range) = InsertAt(ranges, at, range)
             /\ \A i \in 1 .. Len(ranges) :
                  /\ i < at => ranges[i][1] <= range[1]
                  /\ i >= at => range[1] <= ranges[i][1]
  BY InsertPlace
<1>2. PICK new \in Seq(ByteRange) :
             /\ new = Inserted(ranges, range)
             /\ Len(new) = Len(ranges) + 1
             /\ \A j \in 1 .. Len(ranges) + 1 :
                  new[j] = IF j < at THEN ranges[j]
                           ELSE IF j = at THEN range ELSE ranges[j - 1]
  <2> DEFINE new == InsertAt(ranges, at, range)
  <2>1. /\ new \in Seq(ByteRange)
        /\ Len(new) = Len(ranges) + 1
        /\ \A j \in 1 .. Len(ranges) + 1 :
             new[j] = IF j < at THEN ranges[j] ELSE IF j = at THEN range ELSE ranges[j - 1]
    BY InsertedAt
  <2>2. new = Inserted(ranges, range)
    BY <1>1
  <2> HIDE DEF new
  <2> QED
    BY <2>1, <2>2
<1>0. Len(ranges) \in Nat /\ at \in Int /\ at >= 1 /\ at <= Len(ranges) + 1
  OBVIOUS
<1>3. \A j \in 1 .. Len(new) :
        /\ j < at => new[j] = ranges[j] /\ j \in 1 .. Len(ranges)
        /\ j = at => new[j] = range
        /\ j > at => new[j] = ranges[j - 1] /\ j - 1 \in 1 .. Len(ranges) /\ j - 1 >= at
  BY <1>0, <1>2
<1>4. \A i \in 1 .. Len(ranges) :
        /\ i < at => ranges[i] = new[i] /\ i \in 1 .. Len(new)
        /\ i >= at => ranges[i] = new[i + 1] /\ i + 1 \in 1 .. Len(new)
  <2>1. \A i \in 1 .. Len(ranges) : i >= at => i + 1 - 1 = i /\ i + 1 > at
    BY <1>0
  <2> QED
    BY <1>0, <1>2, <2>1
<1>5. new[at] = range /\ at \in 1 .. Len(new)
  BY <1>0, <1>2
<1>6. ASSUME NEW i \in 1 .. Len(new), NEW j \in 1 .. Len(new), i < j
      PROVE  new[i][1] <= new[j][1]
  <2>0. i \in Int /\ j \in Int
    OBVIOUS
  <2>1. CASE j < at
    <3>1. i < at
      BY <1>0, <1>6, <2>0, <2>1
    <3> QED
      BY <1>3, <1>6, <2>1, <3>1 DEF Sorted
  <2>2. CASE j = at
    BY <1>1, <1>3, <1>6, <2>2
  <2>3. CASE j > at
    <3>1. CASE i > at
      <4>1. i - 1 < j - 1
        BY <1>6, <2>0
      <4> QED
        BY <1>3, <2>3, <3>1, <4>1 DEF Sorted
    <3>2. CASE i = at
      BY <1>1, <1>3, <2>3, <3>2
    <3>3. CASE i < at
      <4>1. i < j - 1
        BY <1>0, <2>0, <2>3, <3>3
      <4> QED
        BY <1>3, <2>3, <3>3, <4>1 DEF Sorted
    <3>4. i > at \/ i = at \/ i < at
      BY <1>0, <2>0
    <3> QED
      BY <3>1, <3>2, <3>3, <3>4
  <2>4. j < at \/ j = at \/ j > at
    BY <1>0, <2>0
  <2> QED
    BY <2>1, <2>2, <2>3, <2>4
<1>7. ASSUME NEW i \in 1 .. Len(new)
      PROVE  new[i][1] <= new[i][2] /\ new[i][2] <= size
  <2>1. i < at \/ i = at \/ i > at
    BY <1>0
  <2> QED
    BY <1>3, <2>1 DEF Fit
<1>8. ASSUME NEW n
      PROVE  n \in Covered(new) <=> n \in Covered(ranges) \/ n \in range[1] .. range[2] - 1
  <2>1. ASSUME NEW j \in 1 .. Len(new), n \in new[j][1] .. new[j][2] - 1
        PROVE  \/ \E i \in 1 .. Len(ranges) : n \in ranges[i][1] .. ranges[i][2] - 1
               \/ n \in range[1] .. range[2] - 1
    <3>1. j < at \/ j = at \/ j > at
      BY <1>0
    <3> QED
      BY <1>3, <2>1, <3>1, Zenon
  <2>2. ASSUME NEW i \in 1 .. Len(ranges), n \in ranges[i][1] .. ranges[i][2] - 1
        PROVE  \E j \in 1 .. Len(new) : n \in new[j][1] .. new[j][2] - 1
    <3>1. i < at \/ i >= at
      BY <1>0
    <3> QED
      BY <1>4, <2>2, <3>1, Zenon
  <2>3. n \in range[1] .. range[2] - 1 =>
          \E j \in 1 .. Len(new) : n \in new[j][1] .. new[j][2] - 1
    BY <1>5, Zenon
  <2> QED
    BY <2>1, <2>2, <2>3, InCovered, Zenon
<1>9. Covered(new) = Covered(ranges) \cup range[1] .. range[2] - 1
  BY <1>8
<1>10. Sorted(new) /\ Fit(new, size)
  BY <1>6, <1>7 DEF Sorted, Fit
<1> QED
  BY <1>2, <1>9, <1>10, Zenon

\* Two ranges that overlap or touch are one.
LEMMA RangesUnited ==
    ASSUME NEW a \in Nat, NEW b \in Nat, NEW c \in Nat, NEW d \in Nat, NEW end \in Nat,
           a <= c, b >= c, end >= b, end >= d, end = b \/ end = d
    PROVE  \A n : n \in a .. end - 1 <=> n \in a .. b - 1 \/ n \in c .. d - 1
OBVIOUS

\* A merge covers the same bytes and keeps the order and the separation before it.
LEMMA MergedKeeps ==
    ASSUME NEW ranges \in Seq(ByteRange), NEW k \in 1 .. Len(ranges) - 1, NEW size \in Nat,
           Sorted(ranges), Fit(ranges, size), Separated(ranges, k),
           ranges[k][2] >= ranges[k + 1][1]
    PROVE  LET new == Merged(ranges, k)
           IN  /\ new \in Seq(ByteRange)
               /\ Len(new) = Len(ranges) - 1
               /\ Sorted(new)
               /\ Fit(new, size)
               /\ Separated(new, k)
               /\ Covered(new) = Covered(ranges)
<1>0. /\ Len(ranges) \in Nat /\ k \in Int /\ k >= 1 /\ k + 1 <= Len(ranges)
      /\ k \in 1 .. Len(ranges) /\ k + 1 \in 1 .. Len(ranges)
  OBVIOUS
<1>n. \A i \in 1 .. Len(ranges) : ranges[i][1] \in Nat /\ ranges[i][2] \in Nat
  BY Ends
<1>1. PICK end \in Nat :
        /\ end = Larger(ranges[k][2], ranges[k + 1][2])
        /\ end >= ranges[k][2] /\ end >= ranges[k + 1][2]
        /\ end = ranges[k][2] \/ end = ranges[k + 1][2]
  <2>1. ranges[k][2] \in Nat /\ ranges[k + 1][2] \in Nat
    BY <1>0, <1>n
  <2> QED
    BY <2>1 DEF Larger
<1>2. PICK long \in Seq(ByteRange) :
        /\ Merged(ranges, k) = RemoveAt(long, k + 1)
        /\ Len(long) = Len(ranges)
        /\ long[k] = <<ranges[k][1], end>>
        /\ \A i \in 1 .. Len(ranges) : i # k => long[i] = ranges[i]
  <2> DEFINE long == [ranges EXCEPT ![k] = <<ranges[k][1], end>>]
  <2>1. <<ranges[k][1], end>> \in ByteRange
    BY <1>0, <1>n, <1>1 DEF ByteRange
  <2>2. /\ long \in Seq(ByteRange)
        /\ Len(long) = Len(ranges)
        /\ long[k] = <<ranges[k][1], end>>
        /\ \A i \in 1 .. Len(ranges) : i # k => long[i] = ranges[i]
    BY <1>0, <2>1
  <2>3. Merged(ranges, k) = RemoveAt(long, k + 1)
    BY <1>1 DEF Merged
  <2> HIDE DEF long
  <2> QED
    BY <2>2, <2>3
<1>3. PICK new \in Seq(ByteRange) :
        /\ new = Merged(ranges, k)
        /\ Len(new) = Len(ranges) - 1
        /\ \A j \in 1 .. Len(ranges) - 1 :
             new[j] = IF j < k + 1 THEN long[j] ELSE long[j + 1]
  <2> DEFINE new == RemoveAt(long, k + 1)
  <2>1. k + 1 \in 1 .. Len(long)
    BY <1>0, <1>2
  <2>2. /\ new \in Seq(ByteRange)
        /\ Len(new) = Len(long) - 1
        /\ \A j \in 1 .. Len(long) - 1 : new[j] = IF j < k + 1 THEN long[j] ELSE long[j + 1]
    BY <2>1, RemovedAt
  <2>3. new = Merged(ranges, k)
    BY <1>2
  <2> HIDE DEF new
  <2> QED
    BY <1>2, <2>2, <2>3
<1>4. \A j \in 1 .. Len(new) :
        /\ j < k => new[j] = ranges[j] /\ j \in 1 .. Len(ranges)
        /\ j = k => new[j] = <<ranges[k][1], end>>
        /\ j > k => new[j] = ranges[j + 1] /\ j + 1 \in 1 .. Len(ranges) /\ j + 1 > k + 1
  BY <1>0, <1>2, <1>3
<1>5. \A i \in 1 .. Len(ranges) :
        /\ i < k => ranges[i] = new[i] /\ i \in 1 .. Len(new)
        /\ i > k + 1 => ranges[i] = new[i - 1] /\ i - 1 \in 1 .. Len(new)
  <2>1. \A i \in 1 .. Len(ranges) : i > k + 1 => i - 1 + 1 = i /\ i - 1 > k
    BY <1>0
  <2> QED
    BY <1>0, <1>2, <1>3, <2>1
<1>6. new[k][1] = ranges[k][1] /\ new[k][2] = end /\ k \in 1 .. Len(new)
  BY <1>0, <1>3, <1>4
<1>7. \A j \in 1 .. Len(new) :
        /\ j <= k => new[j][1] = ranges[j][1]
        /\ j > k => new[j][1] = ranges[j + 1][1]
  <2>1. \A j \in 1 .. Len(new) : j <= k => j < k \/ j = k
    BY <1>0
  <2> QED
    BY <1>4, <1>6, <2>1, Zenon
<1>8. ASSUME NEW i \in 1 .. Len(new), NEW j \in 1 .. Len(new), i < j
      PROVE  new[i][1] <= new[j][1]
  <2>1. /\ i \in 1 .. Len(ranges) /\ i + 1 \in 1 .. Len(ranges)
        /\ j \in 1 .. Len(ranges) /\ j + 1 \in 1 .. Len(ranges)
        /\ i < j + 1 /\ i + 1 < j + 1
    BY <1>0, <1>3, <1>8
  <2>2. /\ ranges[i][1] <= ranges[j][1] /\ ranges[i][1] <= ranges[j + 1][1]
        /\ ranges[i + 1][1] <= ranges[j + 1][1]
    BY <1>8, <2>1 DEF Sorted
  <2>3. \/ i <= k /\ j <= k
        \/ i <= k /\ j > k
        \/ i > k /\ j > k
    BY <1>0, <1>8
  <2> QED
    BY <1>7, <2>2, <2>3, Zenon
<1>9. ASSUME NEW i \in 1 .. Len(new)
      PROVE  new[i][1] <= new[i][2] /\ new[i][2] <= size
  <2>1. CASE i = k
    <3>1. ranges[k][1] <= ranges[k][2] /\ ranges[k][2] <= size /\ ranges[k + 1][2] <= size
      BY <1>0 DEF Fit
    <3> QED
      BY <1>0, <1>n, <1>1, <1>6, <2>1, <3>1
  <2>2. i < k \/ i = k \/ i > k
    BY <1>0
  <2> QED
    BY <1>4, <2>1, <2>2 DEF Fit
<1>10. ASSUME NEW i \in 1 .. Len(new) - 1, i < k
       PROVE  new[i][2] < new[i + 1][1]
  <2>1. i \in 1 .. Len(new) /\ i + 1 \in 1 .. Len(new) /\ i + 1 <= k
    BY <1>0, <1>3, <1>10
  <2>2. i \in 1 .. Len(ranges) - 1
    BY <1>0, <1>3
  <2>3. new[i] = ranges[i] /\ new[i + 1][1] = ranges[i + 1][1]
    BY <1>4, <1>7, <1>10, <2>1
  <2> QED
    BY <1>10, <2>2, <2>3 DEF Separated
<1>11. \A n : n \in ranges[k][1] .. end - 1 <=>
                \/ n \in ranges[k][1] .. ranges[k][2] - 1
                \/ n \in ranges[k + 1][1] .. ranges[k + 1][2] - 1
  <2>1. ranges[k][1] <= ranges[k + 1][1]
    BY <1>0 DEF Sorted
  <2>2. /\ ranges[k][1] \in Nat /\ ranges[k + 1][1] \in Nat
        /\ ranges[k][2] \in Nat /\ ranges[k + 1][2] \in Nat
    BY <1>0, <1>n
  <2>3. PICK a \in Nat, b \in Nat, c \in Nat, d \in Nat :
          /\ a = ranges[k][1] /\ b = ranges[k][2]
          /\ c = ranges[k + 1][1] /\ d = ranges[k + 1][2]
    BY <2>2
  <2>4. a <= c /\ b >= c /\ end >= b /\ end >= d /\ (end = b \/ end = d)
    BY <1>1, <2>1, <2>3
  <2>5. \A n : n \in a .. end - 1 <=> n \in a .. b - 1 \/ n \in c .. d - 1
    BY <2>4, RangesUnited
  <2> QED
    BY <2>3, <2>5
<1>12. ASSUME NEW n
       PROVE  n \in Covered(new) <=> n \in Covered(ranges)
  <2>1. ASSUME NEW j \in 1 .. Len(new), n \in new[j][1] .. new[j][2] - 1
        PROVE  \E i \in 1 .. Len(ranges) : n \in ranges[i][1] .. ranges[i][2] - 1
    <3>1. CASE j = k
      <4>1. n \in ranges[k][1] .. end - 1
        BY <1>6, <2>1, <3>1
      <4> QED
        BY <1>0, <1>11, <4>1, Zenon
    <3>2. j < k \/ j = k \/ j > k
      BY <1>0
    <3> QED
      BY <1>4, <2>1, <3>1, <3>2, Zenon
  <2>2. ASSUME NEW i \in 1 .. Len(ranges), n \in ranges[i][1] .. ranges[i][2] - 1
        PROVE  \E j \in 1 .. Len(new) : n \in new[j][1] .. new[j][2] - 1
    <3>1. CASE i = k \/ i = k + 1
      <4>1. n \in ranges[k][1] .. end - 1
        BY <1>11, <2>2, <3>1, Zenon
      <4> QED
        BY <1>6, <4>1
    <3>2. i < k \/ i = k \/ i = k + 1 \/ i > k + 1
      BY <1>0
    <3> QED
      BY <1>5, <2>2, <3>1, <3>2, Zenon
  <2> QED
    BY <2>1, <2>2, InCovered, Zenon
<1>13. Covered(new) = Covered(ranges)
  BY <1>12
<1>14. Sorted(new) /\ Fit(new, size) /\ Separated(new, k)
  BY <1>8, <1>9, <1>10 DEF Sorted, Fit, Separated
<1> QED
  BY <1>3, <1>13, <1>14, Zenon

\* What isFullPacketAvailable looks for is that every byte is there: of separated ranges,
\* only a single one can pass.
LEMMA FullIsWhole ==
    ASSUME NEW ranges \in Seq(ByteRange), NEW size \in Nat, ranges # <<>>, Fit(ranges, size),
           Sorted(ranges), Separated(ranges, Len(ranges))
    PROVE  IsFull(ranges, size) <=> Covered(ranges) = 0 .. size - 1
<1>0. Len(ranges) \in Nat
  OBVIOUS
<1>n. \A i \in 1 .. Len(ranges) :
        /\ ranges[i][1] \in Nat /\ ranges[i][2] \in Nat
        /\ ranges[i][1] <= ranges[i][2] /\ ranges[i][2] <= size
  BY Ends DEF Fit
<1>2. CASE Len(ranges) = 1
  <2>1. ranges # <<>> /\ 1 \in 1 .. Len(ranges)
    <3>1. Len(<<>>) # 1 /\ 1 \in 1 .. 1
      OBVIOUS
    <3> QED
      BY <1>2, <3>1, Zenon
  <2>2. Covered(ranges) = ranges[1][1] .. ranges[1][2] - 1
    <3>1. \A n : n \in Covered(ranges) <=> n \in ranges[1][1] .. ranges[1][2] - 1
      BY <1>2, InCovered
    <3> QED
      BY <3>1
  <2>3. PICK a \in Nat, b \in Nat : a = ranges[1][1] /\ b = ranges[1][2] /\ a <= b /\ b <= size
    BY <1>n, <2>1
  <2>4. IsFull(ranges, size) <=> b = size /\ a = 0
    <3>1. \A i \in 1 .. Len(ranges) - 1 : ranges[i + 1][1] <= ranges[i][2]
      BY <1>2
    <3> QED
      BY <1>2, <2>1, <2>3, <3>1 DEF IsFull
  <2>5. a .. b - 1 = 0 .. size - 1 => b = size /\ a = 0
    <3>1. CASE size = 0
      BY <2>3, <3>1
    <3>2. CASE size # 0
      <4>1. 0 \in 0 .. size - 1 /\ size - 1 \in 0 .. size - 1
        BY <3>2
      <4>2. 0 \in a .. b - 1 /\ size - 1 \in a .. b - 1 => b = size /\ a = 0
        BY <2>3
      <4> QED
        BY <4>1, <4>2
    <3> QED
      BY <3>1, <3>2
  <2> QED
    BY <2>2, <2>3, <2>4, <2>5
<1>3. CASE Len(ranges) > 1
  <2>1. /\ 1 \in 1 .. Len(ranges) /\ 2 \in 1 .. Len(ranges)
        /\ 1 \in 1 .. Len(ranges) - 1 /\ 1 < Len(ranges)
    BY <1>0, <1>3
  <2>2. ranges[1][2] < ranges[2][1]
    <3>1. ranges[1][2] < ranges[1 + 1][1]
      BY <2>1 DEF Separated
    <3> QED
      BY <3>1
  <2>3. ranges[1][2] \in 0 .. size - 1
    BY <1>n, <2>1, <2>2
  <2>4. ASSUME NEW i \in 1 .. Len(ranges)
        PROVE  ranges[1][2] \notin ranges[i][1] .. ranges[i][2] - 1
    <3>1. CASE i = 1
      BY <1>n, <2>1, <3>1
    <3>2. CASE i > 1
      <4>1. ranges[2][1] <= ranges[i][1]
        <5>1. i = 2 \/ 2 < i
          BY <3>2
        <5> QED
          BY <1>n, <2>1, <5>1 DEF Sorted
      <4> QED
        BY <1>n, <2>1, <2>2, <4>1
    <3> QED
      BY <3>1, <3>2
  <2>5. ranges[1][2] \notin Covered(ranges)
    BY <2>4, InCovered, Zenon
  <2>6. ~IsFull(ranges, size)
    <3>1. IsFull(ranges, size) => ranges[1 + 1][1] <= ranges[1][2]
      BY <2>1, Zenon DEF IsFull
    <3> QED
      BY <1>n, <2>1, <2>2, <3>1
  <2>7. Covered(ranges) # 0 .. size - 1
    BY <2>3, <2>5
  <2> QED
    BY <2>6, <2>7
<1>4. Len(ranges) = 1 \/ Len(ranges) > 1
  <2>1. Len(ranges) # 0
    OBVIOUS
  <2>2. \A n \in Nat : n = 0 \/ n = 1 \/ n > 1
    OBVIOUS
  <2> QED
    BY <1>0, <2>1, <2>2
<1> QED
  BY <1>2, <1>3, <1>4

\* Separated ranges begin at different bytes.
LEMMA SeparatedAreFew ==
    ASSUME NEW ranges \in Seq(ByteRange), NEW size \in Nat, Fit(ranges, size),
           Sorted(ranges), Separated(ranges, Len(ranges))
    PROVE  Len(ranges) <= size + 1
<1>0. Len(ranges) \in Nat
  OBVIOUS
<1>n. \A i \in 1 .. Len(ranges) :
        /\ ranges[i][1] \in Nat /\ ranges[i][2] \in Nat
        /\ ranges[i][1] <= ranges[i][2] /\ ranges[i][2] <= size
  BY Ends DEF Fit
<1>1. ASSUME NEW i \in 1 .. Len(ranges), NEW j \in 1 .. Len(ranges), i < j
      PROVE  ranges[i][1] < ranges[j][1]
  <2>1. i \in 1 .. Len(ranges) - 1 /\ i < Len(ranges) /\ i + 1 \in 1 .. Len(ranges)
    BY <1>0, <1>1
  <2>2. ranges[i][2] < ranges[i + 1][1]
    BY <2>1 DEF Separated
  <2>3. ranges[i + 1][1] <= ranges[j][1]
    <3>1. i + 1 = j \/ i + 1 < j
      BY <1>1
    <3> QED
      BY <1>n, <2>1, <3>1 DEF Sorted
  <2> QED
    BY <1>n, <2>1, <2>2, <2>3
<1> DEFINE begin == [i \in 1 .. Len(ranges) |-> ranges[i][1]]
<1>2. begin \in [1 .. Len(ranges) -> 0 .. size]
  BY <1>n
<1>3. begin \in Injection(1 .. Len(ranges), 0 .. size)
  <2>1. ASSUME NEW i \in 1 .. Len(ranges), NEW j \in 1 .. Len(ranges), begin[i] = begin[j]
        PROVE  i = j
    <3>1. i < j \/ i = j \/ j < i
      OBVIOUS
    <3> QED
      BY <1>n, <1>1, <2>1, <3>1
  <2> HIDE DEF begin
  <2> QED
    BY <1>2, <2>1 DEF Injection, IsInjective
<1>4. /\ IsFiniteSet(0 .. size) /\ Cardinality(0 .. size) = size + 1
      /\ Cardinality(1 .. Len(ranges)) = Len(ranges)
  <2>1. 0 \in Int /\ 1 \in Int /\ size \in Int /\ Len(ranges) \in Int
    BY <1>0
  <2>2. /\ IsFiniteSet(0 .. size)
        /\ Cardinality(0 .. size) = IF 0 > size THEN 0 ELSE size - 0 + 1
    BY <2>1, FS_Interval
  <2>3. Cardinality(1 .. Len(ranges)) = IF 1 > Len(ranges) THEN 0 ELSE Len(ranges) - 1 + 1
    BY <2>1, FS_Interval
  <2> QED
    BY <1>0, <2>2, <2>3
<1>5. Cardinality(1 .. Len(ranges)) <= Cardinality(0 .. size)
  BY <1>3, <1>4, FS_Injection
<1> QED
  BY <1>4, <1>5

------------------------------------------------------------------------------
(* The invariant.                                                          *)

LEMMA Numbers ==
    ASSUME TypeOK
    PROVE  /\ expectedSize \in Nat
           /\ receivedRanges \in Seq(ByteRange)
           /\ index \in Nat /\ Len(receivedRanges) \in Nat
BY DefragmenterAssumption DEF TypeOK, ByteRange

LEMMA InitInv == Init => IInv
<1> SUFFICES ASSUME Init PROVE IInv
  OBVIOUS
<1>1. TypeOK
  <2>1. <<>> \in Seq(Nat \X Nat) /\ 0 \in 0 .. Len(<<>>)
    OBVIOUS
  <2> QED
    BY <2>1 DEF Init, TypeOK
<1>2. RangesInv
  BY DEF Init, RangesInv, Fit, Sorted, Separated
<1> QED
  BY <1>1, <1>2 DEF Init, IInv, ValidInv

\* What Receive does to the vector of ranges.
LEMMA ReceiveRanges ==
    ASSUME IInv, NEW number \in Number, NEW length \in Length, NEW begin \in 0 .. length,
           NEW end \in begin .. length, Receive(number, length, begin, end)
    PROVE  /\ receivedRanges' \in Seq(ByteRange)
           /\ Len(receivedRanges') >= 1
           /\ Sorted(receivedRanges')
           /\ Fit(receivedRanges', length)
           /\ Covered(receivedRanges') =
                (IF packetNumber = number /\ expectedSize = length
                 THEN Covered(receivedRanges) ELSE {}) \cup begin .. end - 1
<1>0. length \in Nat
  BY DefragmenterAssumption
<1>1. begin \in Nat /\ end \in Nat /\ begin <= end /\ end <= length
  BY <1>0
<1>2. PICK range \in ByteRange : range = <<begin, end>> /\ range[1] = begin /\ range[2] = end
  <2>1. <<begin, end>> \in ByteRange
    BY <1>1 DEF ByteRange
  <2> QED
    BY <2>1
<1>3. CASE packetNumber = number /\ expectedSize = length
  <2>1. receivedRanges' = Inserted(receivedRanges, range)
    BY <1>2, <1>3 DEF Receive
  <2>2. receivedRanges \in Seq(ByteRange) /\ Sorted(receivedRanges) /\ Fit(receivedRanges, length)
    BY <1>3, Numbers DEF IInv, RangesInv
  <2>3. /\ receivedRanges' \in Seq(ByteRange)
        /\ Len(receivedRanges') = Len(receivedRanges) + 1
        /\ Sorted(receivedRanges')
        /\ Fit(receivedRanges', length)
        /\ Covered(receivedRanges') = Covered(receivedRanges) \cup range[1] .. range[2] - 1
    BY <1>0, <1>1, <1>2, <2>1, <2>2, InsertedKeeps, Zenon
  <2> QED
    BY <1>2, <1>3, <2>2, <2>3
<1>4. CASE ~(packetNumber = number /\ expectedSize = length)
  <2>1. receivedRanges' = Inserted(<<>>, range)
    BY <1>2, <1>4 DEF Receive
  <2>2. <<>> \in Seq(ByteRange) /\ Sorted(<<>>) /\ Fit(<<>>, length) /\ Covered(<<>>) = {}
    BY DEF Sorted, Fit, Covered
  <2>3. /\ receivedRanges' \in Seq(ByteRange)
        /\ Len(receivedRanges') = Len(<<>>) + 1
        /\ Sorted(receivedRanges')
        /\ Fit(receivedRanges', length)
        /\ Covered(receivedRanges') = Covered(<<>>) \cup range[1] .. range[2] - 1
    BY <1>0, <1>1, <1>2, <2>1, <2>2, InsertedKeeps, Zenon
  <2>4. Len(receivedRanges') >= 1
    BY <2>3
  <2> QED
    BY <1>2, <1>4, <2>2, <2>3, <2>4, Zenon
<1> QED
  BY <1>3, <1>4

\* What a merge does to it.
LEMMA MergeRanges ==
    ASSUME IInv, index # 0, index < Len(receivedRanges),
           receivedRanges[index][2] >= receivedRanges[index + 1][1],
           receivedRanges' = Merged(receivedRanges, index)
    PROVE  /\ receivedRanges' \in Seq(ByteRange)
           /\ Len(receivedRanges') = Len(receivedRanges) - 1
           /\ Sorted(receivedRanges')
           /\ Fit(receivedRanges', expectedSize)
           /\ Separated(receivedRanges', index)
           /\ Covered(receivedRanges') = Covered(receivedRanges)
<1>1. /\ index \in 1 .. Len(receivedRanges) - 1
      /\ receivedRanges \in Seq(ByteRange)
      /\ expectedSize \in Nat
  BY Numbers DEF IInv
<1>2. /\ Sorted(receivedRanges)
      /\ Fit(receivedRanges, expectedSize)
      /\ Separated(receivedRanges, index)
  BY DEF IInv, RangesInv
<1> QED
  BY <1>1, <1>2, MergedKeeps, Zenon

LEMMA ReceiveInv ==
    ASSUME IInv, NEW number \in Number, NEW length \in Length, NEW begin \in 0 .. length,
           NEW end \in begin .. length, Receive(number, length, begin, end)
    PROVE  IInv'
<1>1. /\ packetNumber' = number /\ expectedSize' = length /\ valid' = FALSE
      /\ index' = 1
  BY DEF Receive
<1>2. /\ receivedRanges' \in Seq(ByteRange) /\ Len(receivedRanges') >= 1
      /\ Sorted(receivedRanges') /\ Fit(receivedRanges', length)
  BY ReceiveRanges
<1>3. TypeOK'
  <2>1. 1 \in 0 .. Len(receivedRanges')
    BY <1>2
  <2> QED
    BY <1>1, <1>2, <2>1 DEF TypeOK, ByteRange
<1>4. Separated(receivedRanges', 1)
  BY DEF Separated
<1>5. RangesInv'
  BY <1>1, <1>2, <1>4 DEF RangesInv
<1> QED
  BY <1>1, <1>3, <1>5 DEF IInv, ValidInv

LEMMA RemoveInv == IInv /\ RemoveOverlappingRanges => IInv'
<1> SUFFICES ASSUME IInv, RemoveOverlappingRanges PROVE IInv'
  OBVIOUS
<1>0. /\ index # 0 /\ index < Len(receivedRanges)
      /\ packetNumber' = packetNumber /\ expectedSize' = expectedSize /\ valid' = valid
  BY DEF RemoveOverlappingRanges
<1>1. /\ receivedRanges \in Seq(ByteRange) /\ Len(receivedRanges) \in Nat /\ index \in Nat
      /\ Sorted(receivedRanges) /\ Fit(receivedRanges, expectedSize)
      /\ Separated(receivedRanges, index)
      /\ valid = FALSE
  BY <1>0, Numbers DEF IInv, RangesInv, ValidInv, TypeOK
<1>2. CASE /\ receivedRanges[index][2] >= receivedRanges[index + 1][1]
           /\ receivedRanges' = Merged(receivedRanges, index)
           /\ index' = index
  <2>1. /\ receivedRanges' \in Seq(ByteRange)
        /\ Len(receivedRanges') = Len(receivedRanges) - 1
        /\ Sorted(receivedRanges') /\ Fit(receivedRanges', expectedSize)
        /\ Separated(receivedRanges', index)
    BY <1>0, <1>2, MergeRanges
  <2>2. index' \in 0 .. Len(receivedRanges')
    BY <1>0, <1>1, <1>2, <2>1
  <2>3. TypeOK'
    BY <1>0, <2>1, <2>2 DEF IInv, TypeOK, ByteRange
  <2>4. RangesInv'
    BY <1>0, <1>2, <2>1 DEF RangesInv
  <2> QED
    BY <1>0, <1>1, <1>2, <2>3, <2>4 DEF IInv, ValidInv
<1>3. CASE /\ receivedRanges[index][2] < receivedRanges[index + 1][1]
           /\ receivedRanges' = receivedRanges
           /\ index' = index + 1
  <2>1. index' # 0 /\ index' \in 0 .. Len(receivedRanges')
    BY <1>0, <1>1, <1>3
  <2>2. TypeOK'
    BY <1>0, <1>3, <2>1 DEF IInv, TypeOK
  <2>3. Separated(receivedRanges', index')
    <3>1. ASSUME NEW i \in 1 .. Len(receivedRanges) - 1, i < index + 1
          PROVE  receivedRanges[i][2] < receivedRanges[i + 1][1]
      <4>1. i < index \/ i = index
        BY <1>1, <3>1
      <4> QED
        BY <1>1, <1>3, <4>1 DEF Separated
    <3> QED
      BY <1>3, <3>1 DEF Separated
  <2>4. RangesInv'
    BY <1>0, <1>1, <1>3, <2>1, <2>3 DEF RangesInv
  <2> QED
    BY <1>0, <1>1, <2>1, <2>2, <2>4 DEF IInv, ValidInv
<1> QED
  BY <1>2, <1>3 DEF RemoveOverlappingRanges

\* The answer of a call.
LEMMA ReturnAnswer ==
    ASSUME IInv, Return
    PROVE  /\ receivedRanges # <<>>
           /\ Separated(receivedRanges, Len(receivedRanges))
           /\ valid' = (Covered(receivedRanges) = 0 .. expectedSize - 1)
<1>1. /\ receivedRanges \in Seq(ByteRange) /\ expectedSize \in Nat
      /\ Len(receivedRanges) \in Nat /\ index \in Nat
      /\ Sorted(receivedRanges) /\ Fit(receivedRanges, expectedSize)
      /\ index # 0 /\ index >= Len(receivedRanges) /\ index <= Len(receivedRanges)
  BY Numbers DEF IInv, RangesInv, TypeOK, Return
<1>2. Separated(receivedRanges, index)
  BY <1>1 DEF IInv, RangesInv
<1>3. Separated(receivedRanges, Len(receivedRanges)) /\ receivedRanges # <<>>
  <2>1. Len(receivedRanges) # 0
    BY <1>1
  <2> QED
    BY <1>1, <1>2, <2>1 DEF Separated
<1>4. IsFull(receivedRanges, expectedSize) <=> Covered(receivedRanges) = 0 .. expectedSize - 1
  BY <1>1, <1>3, FullIsWhole, Zenon
<1>5. valid' = IsFull(receivedRanges, expectedSize) /\ IsFull(receivedRanges, expectedSize) \in BOOLEAN
  BY DEF Return, IsFull
<1> QED
  BY <1>1, <1>3, <1>4, <1>5

LEMMA ReturnInv == IInv /\ Return => IInv'
<1> SUFFICES ASSUME IInv, Return PROVE IInv'
  OBVIOUS
<1>1. /\ packetNumber' = packetNumber /\ expectedSize' = expectedSize
      /\ receivedRanges' = receivedRanges /\ index' = 0
  BY DEF Return
<1>2. /\ receivedRanges # <<>>
      /\ Separated(receivedRanges, Len(receivedRanges))
      /\ valid' = (Covered(receivedRanges) = 0 .. expectedSize - 1)
  BY ReturnAnswer
<1>3. TypeOK'
  <2>1. 0 \in 0 .. Len(receivedRanges) /\ valid' \in BOOLEAN
    BY <1>2, Numbers DEF IInv
  <2> QED
    BY <1>1, <2>1 DEF IInv, TypeOK
<1>4. RangesInv'
  BY <1>1, <1>2 DEF IInv, RangesInv
<1> QED
  BY <1>1, <1>2, <1>3, <1>4 DEF IInv, ValidInv

LEMMA NextInv == IInv /\ [Next]_vars => IInv'
<1> SUFFICES ASSUME IInv, [Next]_vars PROVE IInv'
  OBVIOUS
<1>1. CASE \E number \in Number, length \in Length : \E begin \in 0 .. length :
             \E end \in begin .. length : Receive(number, length, begin, end)
  BY <1>1, ReceiveInv
<1>2. CASE RemoveOverlappingRanges
  BY <1>2, RemoveInv
<1>3. CASE Return
  BY <1>3, ReturnInv
<1>4. CASE UNCHANGED vars
  BY <1>4 DEF vars, IInv, TypeOK, RangesInv, ValidInv
<1> QED
  BY <1>1, <1>2, <1>3, <1>4 DEF Next

\* The invariant of the loop holds at every turn.
THEOREM DefragmenterInvariant == Spec => []IInv
BY InitInv, NextInv, PTL DEF Spec

------------------------------------------------------------------------------
(* The theorems.                                                           *)

\* Type correctness; in particular removeOverlappingRanges never leaves the vector.
THEOREM DefragmenterTypeCorrect == Spec => []TypeOK
<1>1. IInv => TypeOK
  BY DEF IInv
<1> QED
  BY <1>1, DefragmenterInvariant, PTL

\* When receive has returned, the ranges in the vector neither overlap nor touch.
THEOREM RangesStaySeparated == Spec => []RangesSeparated
<1>1. IInv => RangesSeparated
  BY Numbers DEF IInv, RangesInv, Separated, RangesSeparated
<1> QED
  BY <1>1, DefragmenterInvariant, PTL

\* The vector of ranges does not grow with the number of fragments, only with the length
\* of the packet.
FewRanges == index = 0 => Len(receivedRanges) <= expectedSize + 1

\* Fragments that overlap or come again do not make the vector grow without bound.
THEOREM RangesAreFew == Spec => []FewRanges
<1>1. IInv => FewRanges
  <2> SUFFICES ASSUME IInv, index = 0 PROVE Len(receivedRanges) <= expectedSize + 1
    BY DEF FewRanges
  <2>1. /\ receivedRanges \in Seq(ByteRange) /\ expectedSize \in Nat
        /\ Sorted(receivedRanges) /\ Fit(receivedRanges, expectedSize)
        /\ Separated(receivedRanges, Len(receivedRanges))
    BY Numbers DEF IInv, RangesInv
  <2> QED
    BY <2>1, SeparatedAreFew
<1> QED
  BY <1>1, DefragmenterInvariant, PTL

\* The loop of removeOverlappingRanges ends: each turn has less of the vector before it.
THEOREM LoopEnds == Spec => LoopAdvances
<1>1. IInv /\ [Next]_vars =>
        [index # 0 /\ index' # 0 =>
            Len(receivedRanges') - index' < Len(receivedRanges) - index]_vars
  <2> SUFFICES ASSUME IInv, Next, index # 0, index' # 0
               PROVE  Len(receivedRanges') - index' < Len(receivedRanges) - index
    OBVIOUS
  <2>1. RemoveOverlappingRanges
    BY DEF Next, Receive, Return
  <2>2. Len(receivedRanges) \in Nat /\ index \in Nat
    BY Numbers DEF IInv
  <2>3. CASE /\ receivedRanges[index][2] >= receivedRanges[index + 1][1]
             /\ receivedRanges' = Merged(receivedRanges, index)
             /\ index' = index
    <3>1. Len(receivedRanges') = Len(receivedRanges) - 1
      BY <2>1, <2>3, MergeRanges DEF RemoveOverlappingRanges
    <3> QED
      BY <2>2, <2>3, <3>1
  <2>4. CASE index' = index + 1 /\ receivedRanges' = receivedRanges
    BY <2>2, <2>4
  <2> QED
    BY <2>1, <2>3, <2>4 DEF RemoveOverlappingRanges
<1> QED
  BY <1>1, DefragmenterInvariant, PTL DEF Spec, LoopAdvances

\* A step of the defragmenter is a step of the reception buffer: the insertion collects
\* the bytes, the turns of the loop change nothing, the end of the call gives the right answer.
LEMMA BufferStep == IInv /\ [Next]_vars => [Buffer!Next]_(Buffer!vars)
<1> SUFFICES ASSUME IInv, [Next]_vars PROVE [Buffer!Next]_(Buffer!vars)
  OBVIOUS
<1>1. CASE \E number \in Number, length \in Length : \E begin \in 0 .. length :
             \E end \in begin .. length : Receive(number, length, begin, end)
  <2>1. PICK number \in Number, length \in Length :
               \E begin \in 0 .. length :
                 \E end \in begin .. length : Receive(number, length, begin, end)
    BY <1>1
  <2>2. PICK begin \in 0 .. length :
               \E end \in begin .. length : Receive(number, length, begin, end)
    BY <2>1
  <2>3. PICK end \in begin .. length : Receive(number, length, begin, end)
    BY <2>2
  <2>4. Covered(receivedRanges') =
          (IF packetNumber = number /\ expectedSize = length
           THEN Covered(receivedRanges) ELSE {}) \cup begin .. end - 1
    BY <2>3, ReceiveRanges
  <2>5. index' # 0 /\ packetNumber' = number /\ expectedSize' = length
    BY <2>3 DEF Receive
  <2>6. (IF index = 0 THEN valid ELSE Covered(receivedRanges) = 0 .. expectedSize - 1)' =
          (Covered(receivedRanges') = 0 .. length - 1)
    BY <2>5
  <2>7. Buffer!Receive(number, length, begin, end)
    BY <2>4, <2>5, <2>6 DEF Buffer!Receive, Buffer!Continues
  <2> QED
    BY <2>7 DEF Buffer!Next
<1>2. CASE RemoveOverlappingRanges
  <2>1. Covered(receivedRanges') = Covered(receivedRanges)
    BY <1>2, MergeRanges DEF RemoveOverlappingRanges
  <2>2. index # 0 /\ index' # 0
    BY <1>2, Numbers DEF RemoveOverlappingRanges, IInv
  <2>3. packetNumber' = packetNumber /\ expectedSize' = expectedSize
    BY <1>2 DEF RemoveOverlappingRanges
  <2> QED
    BY <2>1, <2>2, <2>3 DEF Buffer!vars
<1>3. CASE Return
  <2>1. valid' = (Covered(receivedRanges) = 0 .. expectedSize - 1)
    BY <1>3, ReturnAnswer
  <2>2. /\ index # 0 /\ index' = 0 /\ packetNumber' = packetNumber
        /\ expectedSize' = expectedSize /\ receivedRanges' = receivedRanges
    BY <1>3 DEF Return
  <2> QED
    BY <2>1, <2>2 DEF Buffer!vars
<1>4. CASE UNCHANGED vars
  BY <1>4 DEF vars, Buffer!vars
<1> QED
  BY <1>1, <1>2, <1>3, <1>4 DEF Next

\* The sorted vector with its insertion and its loop implements a set of bytes.
THEOREM DefragmenterImplementsBuffer == Spec => ImplementsBuffer
<1>1. Init => Buffer!Init
  BY DEF Init, Buffer!Init, Covered
<1> QED
  BY <1>1, BufferStep, DefragmenterInvariant, PTL DEF Spec, ImplementsBuffer, Buffer!Spec

================================================================================
