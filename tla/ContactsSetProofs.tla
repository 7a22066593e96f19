-------------------------- MODULE ContactsSetProofs --------------------------
(***************************************************************************)
(* Proofs about ContactsSet, for addresses of any width: the loop          *)
(* invariants of insert and findClosestEntry (doc/algorithms.md).          *)
(***************************************************************************)
EXTENDS ContactsSet, SequenceTheorems, TLAPS

Index == 1 .. Len(entries)

AddressAt(i) == entries[i].address

\* x and y have the same first m bits.
Agree(x, y, m) == \A i \in Bit : i < m => x[i] = y[i]

\* Everything before first .. last is less than the new address, everything behind greater.
InsertInv ==
    call.op = "insert" =>
        /\ call.first <= call.last + 1
        /\ \A i \in Index : i < call.first => Less(AddressAt(i), call.entry.address)
        /\ \A i \in Index : i > call.last => Less(call.entry.address, AddressAt(i))

\* a .. b agree in the bits looked at, and are closer to the query than all others.
FindInv ==
    call.op \in {"find", "split", "found"} =>
        /\ call.a <= call.b
        /\ \A i \in call.a .. call.b : Agree(AddressAt(i), AddressAt(call.a), call.match)
        /\ \A i \in Index : \A k \in call.a .. call.b :
              i \notin call.a .. call.b => Closer(AddressAt(k), AddressAt(i), call.query)

FoundInv == call.op = "found" => call.a = call.b

\* The split is between c and d.
SplitInv ==
    call.op = "split" =>
        /\ call.a <= call.c /\ call.c < call.d /\ call.d <= call.b
        /\ \A i \in call.a .. call.c : BitAt(i) = 0
        /\ \A i \in call.d .. call.b : BitAt(i) = 1

IInv == TypeOK /\ Sorted /\ InsertInv /\ FindInv /\ FoundInv /\ SplitInv

------------------------------------------------------------------------------
(* Sequences.                                                              *)

LEMMA InsertedAt ==
    ASSUME NEW S, NEW s \in Seq(S), NEW p \in 1 .. Len(s) + 1, NEW e \in S
    PROVE  /\ InsertAt(s, p, e) \in Seq(S)
           /\ Len(InsertAt(s, p, e)) = Len(s) + 1
           /\ \A j \in 1 .. Len(s) + 1 :
                InsertAt(s, p, e)[j] =
                    IF j < p THEN s[j] ELSE IF j = p THEN e ELSE s[j - 1]
<1> DEFINE before == SubSeq(s, 1, p - 1)
           behind == SubSeq(s, p, Len(s))
           upto == before \o <<e>>
<1>0. p \in Int /\ Len(s) \in Nat /\ p >= 1 /\ p <= Len(s) + 1
  OBVIOUS
<1>1. /\ before \in Seq(S) /\ Len(before) = p - 1
      /\ \A j \in 1 .. p - 1 : before[j] = s[j]
  <2>1. \A j \in 1 .. p - 1 : s[j] \in S
    BY <1>0
  <2>2. /\ before \in Seq(S)
        /\ Len(before) = IF 1 <= p - 1 THEN p - 1 - 1 + 1 ELSE 0
        /\ \A j \in 1 .. p - 1 - 1 + 1 : before[j] = s[1 + j - 1]
    BY <1>0, <2>1, SubSeqProperties
  <2> HIDE DEF before
  <2> QED
    BY <1>0, <2>2
<1>2. /\ behind \in Seq(S) /\ Len(behind) = Len(s) - p + 1
      /\ \A j \in 1 .. Len(s) - p + 1 : behind[j] = s[p + j - 1]
  <2>1. \A j \in p .. Len(s) : s[j] \in S
    BY <1>0
  <2>2. /\ behind \in Seq(S)
        /\ Len(behind) = IF p <= Len(s) THEN Len(s) - p + 1 ELSE 0
        /\ \A j \in 1 .. Len(s) - p + 1 : behind[j] = s[p + j - 1]
    BY <1>0, <2>1, SubSeqProperties
  <2> HIDE DEF behind
  <2> QED
    BY <1>0, <2>2
<1>3. <<e>> \in Seq(S) /\ Len(<<e>>) = 1 /\ <<e>>[1] = e
  OBVIOUS
<1> HIDE DEF before, behind
<1>4. /\ upto \in Seq(S) /\ Len(upto) = p
      /\ \A j \in 1 .. p : upto[j] = IF j < p THEN s[j] ELSE e
  <2>1. /\ upto \in Seq(S) /\ Len(upto) = Len(before) + Len(<<e>>)
        /\ \A j \in 1 .. Len(before) + Len(<<e>>) :
              upto[j] = IF j <= Len(before) THEN before[j] ELSE <<e>>[j - Len(before)]
    BY <1>1, <1>3, ConcatProperties
  <2> HIDE DEF upto
  <2> QED
    BY <1>0, <1>1, <1>3, <2>1
<1> HIDE DEF upto
<1>5. /\ upto \o behind \in Seq(S) /\ Len(upto \o behind) = Len(upto) + Len(behind)
      /\ \A j \in 1 .. Len(upto) + Len(behind) :
            (upto \o behind)[j] = IF j <= Len(upto) THEN upto[j] ELSE behind[j - Len(upto)]
  BY <1>2, <1>4, ConcatProperties
<1>6. InsertAt(s, p, e) = upto \o behind
  BY DEF InsertAt, upto, before, behind
<1>7. ASSUME NEW j \in 1 .. Len(s) + 1
      PROVE  (upto \o behind)[j] = IF j < p THEN s[j] ELSE IF j = p THEN e ELSE s[j - 1]
  <2>1. CASE j <= p
    BY <1>0, <1>2, <1>4, <1>5, <2>1
  <2>2. CASE j > p
    <3>1. (upto \o behind)[j] = behind[j - p]
      BY <1>0, <1>2, <1>4, <1>5, <2>2
    <3>2. j - p \in 1 .. Len(s) - p + 1 /\ p + (j - p) - 1 = j - 1
      BY <1>0, <2>2
    <3>3. behind[j - p] = s[p + (j - p) - 1]
      BY <1>2, <3>2
    <3> QED
      BY <1>0, <2>2, <3>1, <3>2, <3>3
  <2>3. j <= p \/ j > p
    BY <1>0
  <2> QED
    BY <2>1, <2>2, <2>3
<1> QED
  BY <1>0, <1>2, <1>4, <1>5, <1>6, <1>7

------------------------------------------------------------------------------
(* Addresses.                                                              *)

LEMMA LessTransitive ==
    ASSUME NEW x \in Address, NEW y \in Address, NEW z \in Address, Less(x, y), Less(y, z)
    PROVE  Less(x, z)
<1> USE ContactsAssumption DEF Address, Bit
<1>1. PICK i \in Bit : x[i] < y[i] /\ \A j \in Bit : j < i => x[j] = y[j]
  BY DEF Less
<1>2. PICK k \in Bit : y[k] < z[k] /\ \A j \in Bit : j < k => y[j] = z[j]
  BY DEF Less
<1>3. CASE i <= k
  <2>1. x[i] < z[i]
    BY <1>1, <1>2, <1>3
  <2>2. \A j \in Bit : j < i => x[j] = z[j]
    BY <1>1, <1>2, <1>3
  <2> QED
    BY <2>1, <2>2 DEF Less
<1>4. CASE k < i
  <2>1. x[k] < z[k]
    BY <1>1, <1>2, <1>4
  <2>2. \A j \in Bit : j < k => x[j] = z[j]
    BY <1>1, <1>2, <1>4
  <2> QED
    BY <2>1, <2>2 DEF Less
<1> QED
  BY <1>3, <1>4

LEMMA LessDiffers ==
    ASSUME NEW x \in Address, NEW y \in Address, Less(x, y)
    PROVE  x # y /\ ~Less(y, x) /\ ~Agree(x, y, Width)
<1> USE ContactsAssumption DEF Address, Bit
<1>1. PICK i \in Bit : x[i] < y[i] /\ \A j \in Bit : j < i => x[j] = y[j]
  BY DEF Less
<1>2. x # y /\ ~Agree(x, y, Width)
  BY <1>1 DEF Agree
<1>3. ~Less(y, x)
  BY <1>1 DEF Less
<1> QED
  BY <1>2, <1>3

\* Among addresses that agree so far, the next bit grows with the order.
LEMMA NextBitGrows ==
    ASSUME NEW x \in Address, NEW y \in Address, NEW m \in Bit, Agree(x, y, m), Less(x, y)
    PROVE  x[m] <= y[m]
<1> USE ContactsAssumption DEF Address, Bit
<1>1. PICK i \in Bit : x[i] < y[i] /\ \A j \in Bit : j < i => x[j] = y[j]
  BY DEF Less
<1>2. i >= m
  BY <1>1 DEF Agree
<1> QED
  BY <1>1, <1>2

\* Of two addresses that agree so far, the one that has the query's next bit is closer.
LEMMA BitDecides ==
    ASSUME NEW x \in Address, NEW y \in Address, NEW q \in Address, NEW m \in Bit,
           Agree(x, y, m), x[m] = q[m], y[m] # q[m]
    PROVE  Closer(x, y, q)
<1>1. XorDistance(x, q)[m] < XorDistance(y, q)[m]
  BY DEF XorDistance
<1>2. \A j \in Bit : j < m => XorDistance(x, q)[j] = XorDistance(y, q)[j]
  BY DEF XorDistance, Agree
<1> QED
  BY <1>1, <1>2 DEF Closer, Less

LEMMA Entries ==
    ASSUME TypeOK
    PROVE  /\ Len(entries) \in Nat
           /\ \A i \in Index : entries[i] \in Entry /\ AddressAt(i) \in Address
<1>1. entries \in Seq(Entry)
  BY DEF TypeOK
<1>2. Len(entries) \in Nat /\ \A i \in 1 .. Len(entries) : entries[i] \in Entry
  BY <1>1
<1>3. \A x \in Entry : x.address \in Address
  BY DEF Entry
<1> QED
  BY <1>2, <1>3 DEF Index, AddressAt

------------------------------------------------------------------------------
(* insert.                                                                 *)

\* An entry that is inserted between the smaller and the greater ones.
LEMMA InsertedInPlace ==
    ASSUME TypeOK, Sorted, NEW e \in Entry, NEW p \in 1 .. Len(entries) + 1,
           \A i \in Index : i < p => Less(AddressAt(i), e.address),
           \A i \in Index : i >= p => Less(e.address, AddressAt(i)),
           entries' = InsertAt(entries, p, e)
    PROVE  entries' \in Seq(Entry) /\ Sorted'
<1> USE Entries
<1>0. PICK s \in Seq(Entry) : s = entries
  BY DEF TypeOK
<1>1. /\ entries' \in Seq(Entry) /\ Len(entries') = Len(entries) + 1
      /\ \A j \in 1 .. Len(entries) + 1 :
            entries'[j] = IF j < p THEN entries[j] ELSE IF j = p THEN e ELSE entries[j - 1]
  <2>1. p \in 1 .. Len(s) + 1 /\ entries' = InsertAt(s, p, e)
    BY <1>0
  <2>2. /\ InsertAt(s, p, e) \in Seq(Entry)
        /\ Len(InsertAt(s, p, e)) = Len(s) + 1
        /\ \A j \in 1 .. Len(s) + 1 :
              InsertAt(s, p, e)[j] =
                  IF j < p THEN s[j] ELSE IF j = p THEN e ELSE s[j - 1]
    BY <2>1, InsertedAt
  <2> QED
    BY <1>0, <2>1, <2>2
<1>2. ASSUME NEW i \in 1 .. Len(entries'), NEW j \in 1 .. Len(entries'), i < j
      PROVE  Less(entries'[i].address, entries'[j].address)
  <2>1. i \in 1 .. Len(entries) + 1 /\ j \in 1 .. Len(entries) + 1
    BY <1>1
  <2>2. CASE j < p
    <3>1. entries'[i] = entries[i] /\ entries'[j] = entries[j]
      BY <1>1, <1>2, <2>1, <2>2
    <3> QED
      BY <1>2, <2>1, <2>2, <3>1 DEF Sorted
  <2>3. CASE j = p
    <3>1. entries'[i] = entries[i] /\ entries'[j] = e /\ i \in Index /\ i < p
      BY <1>1, <1>2, <2>1, <2>3 DEF Index
    <3> QED
      BY <3>1 DEF AddressAt
  <2>4. CASE j > p /\ i = p
    <3>1. entries'[i] = e /\ entries'[j] = entries[j - 1] /\ j - 1 \in Index /\ j - 1 >= p
      BY <1>1, <1>2, <2>1, <2>4 DEF Index
    <3> QED
      BY <3>1 DEF AddressAt
  <2>5. CASE j > p /\ i < p
    <3>1. entries'[i] = entries[i] /\ entries'[j] = entries[j - 1]
      BY <1>1, <1>2, <2>1, <2>5
    <3>2. i \in 1 .. Len(entries) /\ j - 1 \in 1 .. Len(entries) /\ i < j - 1
      BY <1>2, <2>1, <2>5
    <3> QED
      BY <3>1, <3>2 DEF Sorted
  <2>6. CASE j > p /\ i > p
    <3>1. entries'[i] = entries[i - 1] /\ entries'[j] = entries[j - 1]
      BY <1>1, <1>2, <2>1, <2>6
    <3>2. i - 1 \in 1 .. Len(entries) /\ j - 1 \in 1 .. Len(entries) /\ i - 1 < j - 1
      BY <1>2, <2>1, <2>6
    <3> QED
      BY <3>1, <3>2 DEF Sorted
  <2> QED
    BY <2>1, <2>2, <2>3, <2>4, <2>5, <2>6
<1> QED
  BY <1>1, <1>2 DEF Sorted

LEMMA ReplacedInPlace ==
    ASSUME TypeOK, Sorted, NEW e \in Entry, NEW p \in Index, AddressAt(p) = e.address,
           entries' = ReplaceAt(entries, p, e)
    PROVE  /\ entries' \in Seq(Entry) /\ Sorted' /\ Len(entries') = Len(entries)
           /\ \A i \in Index : entries'[i] = IF i = p THEN e ELSE entries[i]
<1>1. /\ entries' \in Seq(Entry) /\ Len(entries') = Len(entries)
      /\ \A i \in Index : entries'[i] = IF i = p THEN e ELSE entries[i]
  BY DEF ReplaceAt, Index, TypeOK
<1>2. \A i \in Index : entries'[i].address = AddressAt(i)
  BY <1>1 DEF AddressAt
<1>3. Sorted'
  BY <1>1, <1>2 DEF Sorted, Index, AddressAt
<1> QED
  BY <1>1, <1>3

LEMMA ReturnsIdle ==
    ASSUME entries' \in Seq(Entry), Sorted', Return
    PROVE  IInv'
BY DEF Return, IInv, TypeOK, Idle, InsertInv, FindInv, FoundInv, SplitInv

LEMMA InsertStep ==
    ASSUME IInv, NEW e \in Entry, Insert(e)
    PROVE  IInv'
<1> USE DEF IInv
<1>1. CASE entries = <<>>
  <2>1. entries' = <<e>> /\ Return
    BY <1>1 DEF Insert
  <2>2. entries' \in Seq(Entry) /\ Len(entries') = 1
    BY <2>1
  <2>3. Sorted'
    BY <2>2 DEF Sorted
  <2> QED
    BY <2>1, <2>2, <2>3, ReturnsIdle
<1>2. CASE entries # <<>>
  <2>1. /\ call' = [op |-> "insert", entry |-> e, first |-> 1, last |-> Len(entries)]
        /\ UNCHANGED entries
    BY <1>2 DEF Insert
  <2>2. Len(entries) \in Nat /\ Len(entries) # 0
    BY <1>2 DEF TypeOK
  <2>3. call' \in InsertCall'
    BY <2>1, <2>2 DEF InsertCall
  <2>4. TypeOK'
    BY <2>1, <2>3 DEF TypeOK
  <2>5. InsertInv'
    BY <2>1, <2>2 DEF InsertInv, Index
  <2>6. Sorted' /\ FindInv' /\ FoundInv' /\ SplitInv'
    BY <2>1 DEF Sorted, FindInv, FoundInv, SplitInv
  <2> QED
    BY <2>4, <2>5, <2>6
<1> QED
  BY <1>1, <1>2

\* What is known of a call of insert.
LEMMA Inserting ==
    ASSUME IInv, call.op = "insert"
    PROVE  /\ call = [op |-> "insert", entry |-> call.entry, first |-> call.first,
                      last |-> call.last]
           /\ call.entry \in Entry /\ call.entry.address \in Address
           /\ call.first \in Index /\ call.last \in 0 .. Len(entries)
           /\ call.first <= call.last + 1
           /\ \A i \in Index : i < call.first => Less(AddressAt(i), call.entry.address)
           /\ \A i \in Index : i > call.last => Less(call.entry.address, AddressAt(i))
<1>1. call \in InsertCall
  BY DEF IInv, TypeOK, Idle, FindCall, SplitCall
<1> QED
  BY <1>1 DEF InsertCall, Entry, Index, IInv, InsertInv

LEMMA SearchStep ==
    ASSUME IInv, InsertSearch
    PROVE  IInv'
<1>0. PICK mid : mid = call.first + (call.last - call.first) \div 2
  OBVIOUS
<1>1. call.op = "insert" /\ call.first < call.last
  BY DEF InsertSearch
<1>2. /\ call = [op |-> "insert", entry |-> call.entry, first |-> call.first, last |-> call.last]
      /\ call.entry \in Entry /\ call.entry.address \in Address
      /\ call.first \in Index /\ call.last \in 0 .. Len(entries)
      /\ \A i \in Index : i < call.first => Less(AddressAt(i), call.entry.address)
      /\ \A i \in Index : i > call.last => Less(call.entry.address, AddressAt(i))
  BY <1>1, Inserting
<1>3. TypeOK /\ Sorted /\ Len(entries) \in Nat
      /\ \A i \in Index : entries[i] \in Entry /\ AddressAt(i) \in Address
  BY Entries DEF IInv
<1>4. mid \in Int /\ call.first <= mid /\ mid < call.last /\ mid \in Index
  BY <1>0, <1>1, <1>2, <1>3 DEF Index
<1>5. \/ /\ AddressAt(mid) = call.entry.address
         /\ entries' = ReplaceAt(entries, mid, call.entry)
         /\ Return
      \/ /\ Less(call.entry.address, AddressAt(mid))
         /\ call' = [call EXCEPT !.last = mid - 1]
         /\ UNCHANGED entries
      \/ /\ Less(AddressAt(mid), call.entry.address)
         /\ call' = [call EXCEPT !.first = mid + 1]
         /\ UNCHANGED entries
  BY <1>0 DEF InsertSearch, AddressAt
<1>6. CASE AddressAt(mid) = call.entry.address /\ Return
           /\ entries' = ReplaceAt(entries, mid, call.entry)
  BY <1>2, <1>3, <1>4, <1>6, ReplacedInPlace, ReturnsIdle
<1>7. ASSUME UNCHANGED entries,
             NEW f \in Index, NEW l \in 0 .. Len(entries), f <= l + 1,
             call' = [op |-> "insert", entry |-> call.entry, first |-> f, last |-> l],
             \A i \in Index : i < f => Less(AddressAt(i), call.entry.address),
             \A i \in Index : i > l => Less(call.entry.address, AddressAt(i))
      PROVE  IInv'
  <2>1. call' \in InsertCall'
    BY <1>2, <1>7 DEF InsertCall, Index
  <2>2. TypeOK' /\ Sorted'
    BY <1>3, <1>7, <2>1 DEF TypeOK, Sorted
  <2>3. InsertInv'
    BY <1>7 DEF InsertInv, Index, AddressAt
  <2>4. FindInv' /\ FoundInv' /\ SplitInv'
    BY <1>7 DEF FindInv, FoundInv, SplitInv
  <2> QED
    BY <2>2, <2>3, <2>4 DEF IInv
<1>8. CASE Less(call.entry.address, AddressAt(mid)) /\ call' = [call EXCEPT !.last = mid - 1]
           /\ UNCHANGED entries
  <2>1. mid - 1 \in 0 .. Len(entries) /\ call.first <= (mid - 1) + 1
    BY <1>3, <1>4 DEF Index
  <2>2. call' = [op |-> "insert", entry |-> call.entry, first |-> call.first, last |-> mid - 1]
    BY <1>2, <1>8
  <2>3. ASSUME NEW i \in Index, i > mid - 1
        PROVE  Less(call.entry.address, AddressAt(i))
    <3>1. CASE i = mid
      BY <1>8, <3>1
    <3>2. CASE i > mid
      <4>1. Less(AddressAt(mid), AddressAt(i))
        BY <1>3, <1>4, <3>2 DEF Sorted, Index, AddressAt
      <4> QED
        BY <1>2, <1>3, <1>4, <1>8, <4>1, LessTransitive
    <3> QED
      BY <1>3, <1>4, <2>3, <3>1, <3>2 DEF Index
  <2> QED
    BY <1>2, <1>7, <1>8, <2>1, <2>2, <2>3
<1>9. CASE Less(AddressAt(mid), call.entry.address) /\ call' = [call EXCEPT !.first = mid + 1]
           /\ UNCHANGED entries
  <2>1. mid + 1 \in Index /\ mid + 1 <= call.last + 1
    BY <1>2, <1>3, <1>4 DEF Index
  <2>2. call' = [op |-> "insert", entry |-> call.entry, first |-> mid + 1, last |-> call.last]
    BY <1>2, <1>9
  <2>3. ASSUME NEW i \in Index, i < mid + 1
        PROVE  Less(AddressAt(i), call.entry.address)
    <3>1. CASE i = mid
      BY <1>9, <3>1
    <3>2. CASE i < mid
      <4>1. Less(AddressAt(i), AddressAt(mid))
        BY <1>3, <1>4, <3>2 DEF Sorted, Index, AddressAt
      <4> QED
        BY <1>2, <1>3, <1>4, <1>9, <4>1, LessTransitive
    <3> QED
      BY <1>3, <1>4, <2>3, <3>1, <3>2 DEF Index
  <2> QED
    BY <1>2, <1>7, <1>9, <2>1, <2>2, <2>3
<1> QED
  BY <1>5, <1>6, <1>8, <1>9

\* Where the loop has left off, the entry goes before, behind or over its first.
LEMMA HereStep ==
    ASSUME IInv, InsertHere
    PROVE  IInv'
<1>1. call.op = "insert" /\ call.first >= call.last /\ Return
  BY DEF InsertHere
<1>2. /\ call.entry \in Entry /\ call.entry.address \in Address
      /\ call.first \in Index /\ call.last \in 0 .. Len(entries)
      /\ call.first <= call.last + 1
      /\ \A i \in Index : i < call.first => Less(AddressAt(i), call.entry.address)
      /\ \A i \in Index : i > call.last => Less(call.entry.address, AddressAt(i))
  BY <1>1, Inserting
<1>3. TypeOK /\ Sorted /\ Len(entries) \in Nat
      /\ \A i \in Index : entries[i] \in Entry /\ AddressAt(i) \in Address
  BY Entries DEF IInv
<1>4. \/ /\ Less(call.entry.address, AddressAt(call.first))
         /\ entries' = InsertAt(entries, call.first, call.entry)
      \/ /\ AddressAt(call.first) = call.entry.address
         /\ entries' = ReplaceAt(entries, call.first, call.entry)
      \/ /\ Less(AddressAt(call.first), call.entry.address)
         /\ entries' = InsertAt(entries, call.first + 1, call.entry)
  BY DEF InsertHere, AddressAt
<1>5. CASE Less(call.entry.address, AddressAt(call.first))
           /\ entries' = InsertAt(entries, call.first, call.entry)
  <2>1. call.first \in 1 .. Len(entries) + 1
    BY <1>2, <1>3 DEF Index
  <2>2. \A i \in Index : i >= call.first => i = call.first \/ i > call.last
    BY <1>1, <1>2, <1>3 DEF Index
  <2> QED
    BY <1>1, <1>2, <1>3, <1>5, <2>1, <2>2, InsertedInPlace, ReturnsIdle
<1>6. CASE AddressAt(call.first) = call.entry.address
           /\ entries' = ReplaceAt(entries, call.first, call.entry)
  BY <1>1, <1>2, <1>3, <1>6, ReplacedInPlace, ReturnsIdle
<1>7. CASE Less(AddressAt(call.first), call.entry.address)
           /\ entries' = InsertAt(entries, call.first + 1, call.entry)
  <2>1. call.first + 1 \in 1 .. Len(entries) + 1
    BY <1>2, <1>3 DEF Index
  <2>2. \A i \in Index : i < call.first + 1 => i = call.first \/ i < call.first
    BY <1>2, <1>3 DEF Index
  <2>3. \A i \in Index : i >= call.first + 1 => i > call.last
    BY <1>1, <1>2, <1>3 DEF Index
  <2> QED
    BY <1>1, <1>2, <1>3, <1>7, <2>1, <2>2, <2>3, InsertedInPlace, ReturnsIdle
<1> QED
  BY <1>4, <1>5, <1>6, <1>7

------------------------------------------------------------------------------
(* findClosestEntry.                                                       *)

\* What is known of a search that is still going on, or has ended.
LEMMA Finding ==
    ASSUME IInv, call.op \in {"find", "split", "found"}
    PROVE  /\ call.query \in Address /\ call.match \in 0 .. Width
           /\ call.a \in Index /\ call.b \in Index /\ call.a <= call.b
           /\ \A i \in call.a .. call.b : i \in Index
           /\ call.op # "split" =>
                call = [op |-> call.op, query |-> call.query, a |-> call.a, b |-> call.b,
                        match |-> call.match]
           /\ call.op = "split" =>
                /\ call = [op |-> "split", query |-> call.query, a |-> call.a, b |-> call.b,
                           match |-> call.match, c |-> call.c, d |-> call.d]
                /\ call.match \in Bit /\ call.c \in Index /\ call.d \in Index
<1> USE ContactsAssumption
<1>0. Len(entries) \in Nat
  BY Entries DEF IInv
<1>1. call \in FindCall \/ call \in SplitCall
  BY DEF IInv, TypeOK, Idle, InsertCall
<1>2. call.a <= call.b
  BY DEF IInv, FindInv
<1>3. CASE call \in FindCall
  BY <1>0, <1>2, <1>3 DEF FindCall, Index
<1>4. CASE call \in SplitCall
  BY <1>0, <1>2, <1>4 DEF SplitCall, Index, Bit
<1> QED
  BY <1>1, <1>3, <1>4

\* Two entries of a .. b agree in the bits looked at.
LEMMA RangeAgrees ==
    ASSUME IInv, call.op \in {"find", "split", "found"},
           NEW i \in call.a .. call.b, NEW k \in call.a .. call.b
    PROVE  Agree(AddressAt(i), AddressAt(k), call.match)
<1>1. /\ Agree(AddressAt(i), AddressAt(call.a), call.match)
      /\ Agree(AddressAt(k), AddressAt(call.a), call.match)
  BY DEF IInv, FindInv
<1> QED
  BY <1>1 DEF Agree

\* In a .. b, the bit that is looked at grows with the position.
LEMMA RangeBitGrows ==
    ASSUME IInv, call.op \in {"find", "split"}, call.match \in Bit,
           NEW i \in call.a .. call.b, NEW k \in call.a .. call.b, i <= k
    PROVE  BitAt(i) \in {0, 1} /\ BitAt(k) \in {0, 1} /\ BitAt(i) <= BitAt(k)
<1>1. i \in Index /\ k \in Index
  BY Finding
<1>2. AddressAt(i) \in Address /\ AddressAt(k) \in Address
  BY <1>1, Entries DEF IInv
<1>3. BitAt(i) = AddressAt(i)[call.match] /\ BitAt(k) = AddressAt(k)[call.match]
  BY DEF BitAt, AddressAt
<1>4. BitAt(i) \in {0, 1} /\ BitAt(k) \in {0, 1}
  BY <1>2, <1>3 DEF Address
<1>5. CASE i = k
  BY <1>4, <1>5
<1>6. CASE i < k
  <2>1. Less(AddressAt(i), AddressAt(k))
    BY <1>1, <1>6 DEF IInv, Sorted, Index, AddressAt
  <2>2. Agree(AddressAt(i), AddressAt(k), call.match)
    BY RangeAgrees
  <2> QED
    BY <1>2, <1>3, <1>4, <2>1, <2>2, NextBitGrows
<1>7. i = k \/ i < k
  BY <1>1, Entries DEF IInv, Index
<1> QED
  BY <1>5, <1>6, <1>7

\* As long as more than one entry is left, there is a bit to look at.
LEMMA BitLeft ==
    ASSUME IInv, call.op = "find", call.a < call.b
    PROVE  call.match \in Bit
<1>1. /\ call.match \in 0 .. Width /\ call.a \in Index /\ call.b \in Index
  BY Finding
<1>2. Less(AddressAt(call.a), AddressAt(call.b))
  BY <1>1 DEF IInv, Sorted, Index, AddressAt
<1>3. AddressAt(call.a) \in Address /\ AddressAt(call.b) \in Address
  BY <1>1, Entries DEF IInv
<1>4. ~Agree(AddressAt(call.a), AddressAt(call.b), Width)
  BY <1>2, <1>3, LessDiffers
<1>5. call.a \in call.a .. call.b /\ call.b \in call.a .. call.b
  BY <1>1, Entries DEF IInv, Index
<1>6. call.match # Width
  BY <1>4, <1>5, RangeAgrees
<1> QED
  BY <1>1, <1>6, ContactsAssumption DEF Bit

\* The search goes on with the range a .. b.
LEMMA GoesOn ==
    ASSUME IInv, UNCHANGED entries,
           NEW q \in Address, NEW a \in Index, NEW b \in Index, NEW m \in 0 .. Width,
           a <= b, call' = [op |-> "find", query |-> q, a |-> a, b |-> b, match |-> m],
           \A i \in a .. b : Agree(AddressAt(i), AddressAt(a), m),
           \A i \in Index : \A k \in a .. b :
               i \notin a .. b => Closer(AddressAt(k), AddressAt(i), q)
    PROVE  IInv'
<1>1. call' \in FindCall'
  BY DEF FindCall, Index
<1>2. TypeOK' /\ Sorted'
  BY <1>1 DEF IInv, TypeOK, Sorted
<1>3. FindInv'
  BY DEF FindInv, Index, AddressAt
<1>4. InsertInv' /\ FoundInv' /\ SplitInv'
  BY DEF InsertInv, FoundInv, SplitInv
<1> QED
  BY <1>2, <1>3, <1>4 DEF IInv

\* The search for the split of a .. b goes on, or begins, between c and d.
LEMMA Splits ==
    ASSUME IInv, call.op \in {"find", "split"}, call.match \in Bit, UNCHANGED entries,
           NEW c \in Index, NEW d \in Index, call.a <= c, c < d, d <= call.b,
           call' = [op |-> "split", query |-> call.query, a |-> call.a, b |-> call.b,
                    match |-> call.match, c |-> c, d |-> d],
           BitAt(c) = 0, BitAt(d) = 1
    PROVE  IInv'
<1>0. /\ call.query \in Address /\ call.a \in Index /\ call.b \in Index
      /\ Len(entries) \in Nat
  BY Finding, Entries DEF IInv
<1>1. call' \in SplitCall'
  BY <1>0 DEF SplitCall, Index
<1>2. TypeOK' /\ Sorted'
  BY <1>1 DEF IInv, TypeOK, Sorted
<1>3. FindInv'
  BY DEF IInv, FindInv, Index, AddressAt
<1>4. \A i \in call.a .. c : BitAt(i) = 0
  <2> TAKE i \in call.a .. c
  <2>1. i \in call.a .. call.b /\ c \in call.a .. call.b /\ i <= c
    BY <1>0 DEF Index
  <2> QED
    BY <2>1, RangeBitGrows
<1>5. \A i \in d .. call.b : BitAt(i) = 1
  <2> TAKE i \in d .. call.b
  <2>1. i \in call.a .. call.b /\ d \in call.a .. call.b /\ d <= i
    BY <1>0 DEF Index
  <2> QED
    BY <2>1, RangeBitGrows
<1>6. SplitInv'
  BY <1>0, <1>4, <1>5 DEF SplitInv, BitAt
<1>7. InsertInv' /\ FoundInv'
  BY DEF InsertInv, FoundInv
<1> QED
  BY <1>2, <1>3, <1>6, <1>7 DEF IInv

LEMMA FindStep ==
    ASSUME IInv, NEW q \in Address, FindClosestEntry(q)
    PROVE  IInv'
<1>1. /\ UNCHANGED entries /\ entries # <<>>
      /\ call' = [op |-> "find", query |-> q, a |-> 1, b |-> Len(entries), match |-> 0]
  BY DEF FindClosestEntry
<1>2. Len(entries) \in Nat /\ Len(entries) # 0
  BY <1>1, Entries DEF IInv, TypeOK
<1>3. 1 \in Index /\ Len(entries) \in Index /\ 0 \in 0 .. Width
  BY <1>2, ContactsAssumption DEF Index
<1>4. \A i \in 1 .. Len(entries) : Agree(AddressAt(i), AddressAt(1), 0)
  BY ContactsAssumption DEF Agree, Bit
<1>5. \A i \in Index : i \in 1 .. Len(entries)
  BY DEF Index
<1> QED
  BY <1>1, <1>2, <1>3, <1>4, <1>5, GoesOn

\* The next bit tells a from b, or all of a .. b agree in it.
LEMMA TurnStep ==
    ASSUME IInv, FindTurn
    PROVE  IInv'
<1>1. /\ call.op = "find" /\ call.a < call.b /\ UNCHANGED entries
      /\ call' = IF BitAt(call.a) = 0 /\ BitAt(call.b) = 1
                 THEN [op |-> "split", query |-> call.query, a |-> call.a, b |-> call.b,
                       match |-> call.match, c |-> call.a, d |-> call.b]
                 ELSE [call EXCEPT !.match = @ + 1]
  BY DEF FindTurn
<1>2. call.match \in Bit
  BY <1>1, BitLeft
<1>3. /\ call.query \in Address
      /\ call.a \in Index /\ call.b \in Index /\ Len(entries) \in Nat
      /\ call = [op |-> "find", query |-> call.query, a |-> call.a, b |-> call.b,
                 match |-> call.match]
  BY <1>1, Finding, Entries DEF IInv
<1>4. call.a <= call.a /\ call.b <= call.b
  BY <1>3 DEF Index
<1>5. CASE BitAt(call.a) = 0 /\ BitAt(call.b) = 1
  BY <1>1, <1>2, <1>3, <1>4, <1>5, Splits
<1>6. CASE ~(BitAt(call.a) = 0 /\ BitAt(call.b) = 1)
  <2>1. call' = [op |-> "find", query |-> call.query, a |-> call.a, b |-> call.b,
                 match |-> call.match + 1]
    BY <1>1, <1>3, <1>6
  <2>2. call.match + 1 \in 0 .. Width
    BY <1>2, ContactsAssumption DEF Bit
  <2>3. ASSUME NEW i \in call.a .. call.b
        PROVE  Agree(AddressAt(i), AddressAt(call.a), call.match + 1)
    <3>1. /\ call.a \in call.a .. call.b /\ call.b \in call.a .. call.b
          /\ call.a <= i /\ i <= call.b
      BY <1>1, <1>3 DEF Index
    <3>2. /\ BitAt(call.a) \in {0, 1} /\ BitAt(call.b) \in {0, 1} /\ BitAt(i) \in {0, 1}
          /\ BitAt(call.a) <= BitAt(i) /\ BitAt(i) <= BitAt(call.b)
      BY <1>1, <1>2, <3>1, RangeBitGrows
    <3>3. AddressAt(i)[call.match] = AddressAt(call.a)[call.match]
      BY <1>6, <3>2 DEF BitAt, AddressAt
    <3>4. Agree(AddressAt(i), AddressAt(call.a), call.match)
      BY <1>1, <3>1, RangeAgrees
    <3>5. \A j \in Bit : j < call.match + 1 => j < call.match \/ j = call.match
      BY <1>2, ContactsAssumption DEF Bit
    <3> QED
      BY <3>3, <3>4, <3>5 DEF Agree
  <2>4. \A i \in Index : \A k \in call.a .. call.b :
            i \notin call.a .. call.b => Closer(AddressAt(k), AddressAt(i), call.query)
    BY <1>1 DEF IInv, FindInv
  <2>5. call.a <= call.b
    BY <1>1, <1>3 DEF Index
  <2> QED
    BY <1>1, <1>3, <2>1, <2>2, <2>3, <2>4, <2>5, GoesOn
<1> QED
  BY <1>5, <1>6

LEMMA SplitStep ==
    ASSUME IInv, SplitTurn
    PROVE  IInv'
<1>0. PICK middle : middle = call.c + (call.d - call.c) \div 2
  OBVIOUS
<1>1. /\ call.op = "split" /\ call.d - call.c > 1 /\ UNCHANGED entries
      /\ call' = IF BitAt(middle) = 0 THEN [call EXCEPT !.c = middle]
                                      ELSE [call EXCEPT !.d = middle]
  BY <1>0 DEF SplitTurn
<1>2. /\ call = [op |-> "split", query |-> call.query, a |-> call.a, b |-> call.b,
                 match |-> call.match, c |-> call.c, d |-> call.d]
      /\ call.match \in Bit /\ call.c \in Index /\ call.d \in Index
      /\ call.a \in Index /\ call.b \in Index /\ Len(entries) \in Nat
  BY <1>1, Finding, Entries DEF IInv
<1>3. /\ call.a <= call.c /\ call.c < call.d /\ call.d <= call.b
      /\ \A i \in call.a .. call.c : BitAt(i) = 0
      /\ \A i \in call.d .. call.b : BitAt(i) = 1
  BY <1>1 DEF IInv, SplitInv
<1>4. BitAt(call.c) = 0 /\ BitAt(call.d) = 1
  <2>1. call.c \in call.a .. call.c /\ call.d \in call.d .. call.b
    BY <1>2, <1>3 DEF Index
  <2> QED
    BY <1>3, <2>1
<1>5. /\ middle \in Index /\ call.c < middle /\ middle < call.d
      /\ call.a <= middle /\ middle <= call.b
  BY <1>0, <1>1, <1>2, <1>3 DEF Index
<1>6. middle \in call.a .. call.b /\ middle <= middle
  BY <1>2, <1>5 DEF Index
<1>7. BitAt(middle) \in {0, 1}
  BY <1>1, <1>2, <1>6, RangeBitGrows
<1>8. CASE BitAt(middle) = 0
  <2>1. call' = [op |-> "split", query |-> call.query, a |-> call.a, b |-> call.b,
                 match |-> call.match, c |-> middle, d |-> call.d]
    BY <1>1, <1>2, <1>8
  <2> QED
    BY <1>1, <1>2, <1>3, <1>4, <1>5, <1>8, <2>1, Splits
<1>9. CASE BitAt(middle) = 1
  <2>1. call' = [op |-> "split", query |-> call.query, a |-> call.a, b |-> call.b,
                 match |-> call.match, c |-> call.c, d |-> middle]
    BY <1>1, <1>2, <1>9
  <2> QED
    BY <1>1, <1>2, <1>3, <1>4, <1>5, <1>9, <2>1, Splits
<1> QED
  BY <1>7, <1>8, <1>9

\* At the split, the half that has the query's bit is closer to it than the other half.
LEMMA SplitEndStep ==
    ASSUME IInv, SplitEnd
    PROVE  IInv'
<1>1. /\ call.op = "split" /\ call.d - call.c <= 1 /\ UNCHANGED entries
      /\ call' = [op |-> "find", query |-> call.query, match |-> call.match + 1,
                  a |-> IF call.query[call.match] = 0 THEN call.a ELSE call.d,
                  b |-> IF call.query[call.match] = 0 THEN call.c ELSE call.b]
  BY DEF SplitEnd
<1>2. /\ call.match \in Bit /\ call.c \in Index /\ call.d \in Index
      /\ call.a \in Index /\ call.b \in Index /\ Len(entries) \in Nat
      /\ call.query \in Address
  BY <1>1, Finding, Entries DEF IInv
<1>3. /\ call.a <= call.c /\ call.c < call.d /\ call.d <= call.b
      /\ \A i \in call.a .. call.c : BitAt(i) = 0
      /\ \A i \in call.d .. call.b : BitAt(i) = 1
  BY <1>1 DEF IInv, SplitInv
<1>4. call.d = call.c + 1 /\ call.match + 1 \in 0 .. Width
  BY <1>1, <1>2, <1>3, ContactsAssumption DEF Index, Bit
<1>5. call.query[call.match] \in {0, 1}
  BY <1>2 DEF Address
<1>6. ASSUME NEW a \in Index, NEW b \in Index, call.a <= a, a <= b, b <= call.b,
             call' = [op |-> "find", query |-> call.query, a |-> a, b |-> b,
                      match |-> call.match + 1],
             \A i \in a .. b : BitAt(i) = call.query[call.match],
             \A i \in call.a .. call.b :
                 i \notin a .. b => BitAt(i) # call.query[call.match]
      PROVE  IInv'
  <2>1. ASSUME NEW i \in a .. b
        PROVE  Agree(AddressAt(i), AddressAt(a), call.match + 1)
    <3>1. i \in call.a .. call.b /\ a \in call.a .. call.b /\ a \in a .. b
      BY <1>2, <1>6 DEF Index
    <3>2. Agree(AddressAt(i), AddressAt(a), call.match)
      BY <1>1, <3>1, RangeAgrees
    <3>3. AddressAt(i)[call.match] = AddressAt(a)[call.match]
      BY <1>6, <3>1 DEF BitAt, AddressAt
    <3>4. \A j \in Bit : j < call.match + 1 => j < call.match \/ j = call.match
      BY <1>2, ContactsAssumption DEF Bit
    <3> QED
      BY <3>2, <3>3, <3>4 DEF Agree
  <2>2. ASSUME NEW i \in Index, NEW k \in a .. b, i \notin a .. b
        PROVE  Closer(AddressAt(k), AddressAt(i), call.query)
    <3>1. k \in call.a .. call.b
      BY <1>2, <1>6 DEF Index
    <3>2. CASE i \notin call.a .. call.b
      BY <1>1, <3>1, <3>2 DEF IInv, FindInv
    <3>3. CASE i \in call.a .. call.b
      <4>1. Agree(AddressAt(k), AddressAt(i), call.match)
        BY <1>1, <3>1, <3>3, RangeAgrees
      <4>2. /\ AddressAt(k)[call.match] = call.query[call.match]
            /\ AddressAt(i)[call.match] # call.query[call.match]
        BY <1>6, <2>2, <3>3 DEF BitAt, AddressAt
      <4>3. AddressAt(k) \in Address /\ AddressAt(i) \in Address
        BY <1>1, <3>1, Finding, Entries DEF IInv
      <4> QED
        BY <1>2, <4>1, <4>2, <4>3, BitDecides
    <3> QED
      BY <3>2, <3>3
  <2> QED
    BY <1>1, <1>2, <1>4, <1>6, <2>1, <2>2, GoesOn
<1>7. CASE call.query[call.match] = 0
  <2>1. call' = [op |-> "find", query |-> call.query, a |-> call.a, b |-> call.c,
                 match |-> call.match + 1]
    BY <1>1, <1>7
  <2>2. call.a <= call.a /\ call.c <= call.b
    BY <1>2, <1>3 DEF Index
  <2>3. \A i \in call.a .. call.b : i \notin call.a .. call.c => i \in call.d .. call.b
    BY <1>2, <1>3, <1>4 DEF Index
  <2> QED
    BY <1>2, <1>3, <1>6, <1>7, <2>1, <2>2, <2>3
<1>8. CASE call.query[call.match] = 1
  <2>1. call' = [op |-> "find", query |-> call.query, a |-> call.d, b |-> call.b,
                 match |-> call.match + 1]
    BY <1>1, <1>8
  <2>2. call.a <= call.d /\ call.b <= call.b
    BY <1>2, <1>3 DEF Index
  <2>3. \A i \in call.a .. call.b : i \notin call.d .. call.b => i \in call.a .. call.c
    BY <1>2, <1>3, <1>4 DEF Index
  <2> QED
    BY <1>2, <1>3, <1>6, <1>8, <2>1, <2>2, <2>3
<1> QED
  BY <1>5, <1>7, <1>8

LEMMA FoundStep ==
    ASSUME IInv, Found
    PROVE  IInv'
<1>1. /\ call.op = "find" /\ call.a >= call.b /\ UNCHANGED entries
      /\ call' = [call EXCEPT !.op = "found"]
  BY DEF Found
<1>2. /\ call.query \in Address /\ call.match \in 0 .. Width
      /\ call.a \in Index /\ call.b \in Index /\ call.a <= call.b /\ Len(entries) \in Nat
      /\ call = [op |-> "find", query |-> call.query, a |-> call.a, b |-> call.b,
                 match |-> call.match]
  BY <1>1, Finding, Entries DEF IInv
<1>3. call' = [op |-> "found", query |-> call.query, a |-> call.a, b |-> call.b,
               match |-> call.match]
  BY <1>1, <1>2
<1>4. call' \in FindCall'
  BY <1>1, <1>2, <1>3 DEF FindCall, Index
<1>5. TypeOK' /\ Sorted'
  BY <1>1, <1>4 DEF IInv, TypeOK, Sorted
<1>6. FindInv'
  BY <1>1, <1>2, <1>3 DEF IInv, FindInv, Index, AddressAt
<1>7. FoundInv'
  BY <1>1, <1>2, <1>3 DEF FoundInv, Index
<1>8. InsertInv' /\ SplitInv'
  BY <1>3 DEF InsertInv, SplitInv
<1> QED
  BY <1>5, <1>6, <1>7, <1>8 DEF IInv

------------------------------------------------------------------------------

LEMMA InitIInv == Init => IInv
<1> SUFFICES ASSUME Init PROVE IInv
  OBVIOUS
<1>1. entries = <<>> /\ call = [op |-> "idle"]
  BY DEF Init
<1>2. entries \in Seq(Entry) /\ Len(entries) = 0
  BY <1>1
<1>3. TypeOK
  BY <1>1, <1>2 DEF TypeOK, Idle
<1>4. Sorted
  BY <1>2 DEF Sorted
<1> QED
  BY <1>1, <1>3, <1>4 DEF IInv, InsertInv, FindInv, FoundInv, SplitInv

LEMMA NextIInv == IInv /\ [Next]_vars => IInv'
<1> SUFFICES ASSUME IInv, [Next]_vars PROVE IInv'
  OBVIOUS
<1>1. CASE \E e \in Entry : Insert(e)
  BY <1>1, InsertStep
<1>2. CASE \E q \in Address : FindClosestEntry(q)
  BY <1>2, FindStep
<1>3. CASE Step
  BY <1>3, SearchStep, HereStep, TurnStep, SplitStep, SplitEndStep, FoundStep DEF Step
<1>4. CASE UNCHANGED vars
  <2>1. entries' = entries /\ call' = call
    BY <1>4 DEF vars
  <2> QED
    BY <2>1 DEF IInv, TypeOK, Idle, InsertCall, FindCall, SplitCall, Sorted, InsertInv,
                FindInv, FoundInv, SplitInv, Index, AddressAt, BitAt
<1> QED
  BY <1>1, <1>2, <1>3, <1>4 DEF Next

LEMMA AlwaysIInv == Spec => []IInv
<1> QED
  BY InitIInv, NextIInv, PTL DEF Spec

\* The iterators of both searches stay within the vector, and findClosestEntry looks at no
\* bit behind the last one of an address, for vectors and addresses of any length.
THEOREM TypeCorrect == Spec => []TypeOK
<1>1. IInv => TypeOK
  BY DEF IInv
<1> QED
  BY <1>1, AlwaysIInv, PTL

\* The rep invariant of ContactsSet.hpp: after any sequence of calls of insert, the
\* entries are sorted by address and no address has two entries.
THEOREM ContactsSorted == Spec => []Sorted
<1>1. IInv => Sorted
  BY DEF IInv
<1> QED
  BY <1>1, AlwaysIInv, PTL

\* What findClosestEntry returns is the contact of the table that is closest to the query
\* by xor distance (doc/algorithms.md).
ClosestFound ==
    call.op = "found" =>
        \A i \in 1 .. Len(entries) :
            i # call.a => Closer(entries[call.a].address, entries[i].address, call.query)

\* The bitwise search over the sorted vector finds the contact that is closest by xor
\* distance, whatever the contacts and the query.
THEOREM SearchFindsClosest == Spec => []ClosestFound
<1>1. ASSUME IInv, call.op = "found", NEW i \in 1 .. Len(entries), i # call.a
      PROVE  Closer(entries[call.a].address, entries[i].address, call.query)
  <2>1. call.a \in Index /\ call.a = call.b /\ Len(entries) \in Nat
    BY <1>1, Finding, Entries DEF IInv, FoundInv
  <2>2. call.a \in call.a .. call.b /\ i \in Index /\ i \notin call.a .. call.b
    BY <1>1, <2>1 DEF Index
  <2> QED
    BY <1>1, <2>2 DEF IInv, FindInv, AddressAt
<1>2. IInv => ClosestFound
  BY <1>1 DEF ClosestFound
<1> QED
  BY <1>2, AlwaysIInv, PTL

------------------------------------------------------------------------------
(* The vector implements the table.                                        *)

ContactsOf(s) ==
    LET at(a) == CHOOSE i \in 1 .. Len(s) : s[i].address = a
    IN  [a \in {s[i].address : i \in 1 .. Len(s)} |-> s[at(a)].location]

Distinct(s) ==
    \A i, j \in 1 .. Len(s) : s[i].address = s[j].address => i = j

LEMMA ContactsOfEntries ==
    ASSUME NEW s, Distinct(s)
    PROVE  /\ DOMAIN ContactsOf(s) = {s[i].address : i \in 1 .. Len(s)}
           /\ \A i \in 1 .. Len(s) : ContactsOf(s)[s[i].address] = s[i].location
           /\ ContactsOf(s) = [a \in DOMAIN ContactsOf(s) |-> ContactsOf(s)[a]]
<1> DEFINE at(a) == CHOOSE i \in 1 .. Len(s) : s[i].address = a
<1>1. ContactsOf(s) = [a \in {s[i].address : i \in 1 .. Len(s)} |-> s[at(a)].location]
  BY DEF ContactsOf
<1>2. ASSUME NEW i \in 1 .. Len(s)
      PROVE  at(s[i].address) = i
  <2>1. at(s[i].address) \in 1 .. Len(s) /\ s[at(s[i].address)].address = s[i].address
    OBVIOUS
  <2> QED
    BY <2>1 DEF Distinct
<1> HIDE DEF at
<1>3. \A i \in 1 .. Len(s) : ContactsOf(s)[s[i].address] = s[i].location
  BY <1>1, <1>2
<1> QED
  BY <1>1, <1>3

\* t is s with e filed: in the place of the entry with its address, or as one more.
Filed(s, t, e) ==
    /\ \E i \in 1 .. Len(t) : t[i] = e
    /\ \A i \in 1 .. Len(t) :
          t[i] # e => \E j \in 1 .. Len(s) : t[i] = s[j] /\ s[j].address # e.address
    /\ \A j \in 1 .. Len(s) :
          s[j].address # e.address => \E i \in 1 .. Len(t) : t[i] = s[j]

With(contacts, e) ==
    [a \in DOMAIN contacts \cup {e.address} |->
        IF a = e.address THEN e.location ELSE contacts[a]]

LEMMA FiledContacts ==
    ASSUME NEW s, NEW t, NEW e, Distinct(s), Distinct(t), Filed(s, t, e)
    PROVE  ContactsOf(t) = With(ContactsOf(s), e)
<1>1. /\ DOMAIN ContactsOf(s) = {s[i].address : i \in 1 .. Len(s)}
      /\ \A i \in 1 .. Len(s) : ContactsOf(s)[s[i].address] = s[i].location
  BY ContactsOfEntries
<1>2. /\ DOMAIN ContactsOf(t) = {t[i].address : i \in 1 .. Len(t)}
      /\ \A i \in 1 .. Len(t) : ContactsOf(t)[t[i].address] = t[i].location
      /\ ContactsOf(t) = [a \in DOMAIN ContactsOf(t) |-> ContactsOf(t)[a]]
  BY ContactsOfEntries
<1>3. DOMAIN ContactsOf(t) = DOMAIN ContactsOf(s) \cup {e.address}
  BY <1>1, <1>2 DEF Filed
<1>4. ASSUME NEW a \in DOMAIN ContactsOf(t)
      PROVE  ContactsOf(t)[a] = IF a = e.address THEN e.location ELSE ContactsOf(s)[a]
  <2>1. PICK i \in 1 .. Len(t) : a = t[i].address
    BY <1>2
  <2>2. ContactsOf(t)[a] = t[i].location
    BY <1>2, <2>1
  <2>3. CASE t[i] = e
    BY <2>1, <2>2, <2>3
  <2>4. CASE t[i] # e
    <3>1. PICK j \in 1 .. Len(s) : t[i] = s[j] /\ s[j].address # e.address
      BY <2>4 DEF Filed
    <3> QED
      BY <1>1, <2>1, <2>2, <3>1
  <2> QED
    BY <2>3, <2>4
<1> QED
  BY <1>2, <1>3, <1>4 DEF With

LEMMA ReplacedFiled ==
    ASSUME NEW s \in Seq(Entry), Distinct(s), NEW e \in Entry, NEW p \in 1 .. Len(s),
           s[p].address = e.address
    PROVE  Filed(s, ReplaceAt(s, p, e), e)
<1> DEFINE t == ReplaceAt(s, p, e)
<1>1. Len(t) = Len(s) /\ \A i \in 1 .. Len(s) : t[i] = IF i = p THEN e ELSE s[i]
  BY DEF ReplaceAt
<1> HIDE DEF t
<1>2. \A i \in 1 .. Len(s) : i # p => t[i] = s[i] /\ s[i].address # e.address
  BY <1>1 DEF Distinct
<1>3. t[p] = e /\ p \in 1 .. Len(t)
  BY <1>1
<1>4. \E i \in 1 .. Len(t) : t[i] = e
  BY <1>3
<1>5. \A i \in 1 .. Len(t) :
          t[i] # e => \E j \in 1 .. Len(s) : t[i] = s[j] /\ s[j].address # e.address
  BY <1>1, <1>2, <1>3
<1>6. \A j \in 1 .. Len(s) :
          s[j].address # e.address => \E i \in 1 .. Len(t) : t[i] = s[j]
  BY <1>1, <1>2
<1>7. Filed(s, t, e)
  BY <1>4, <1>5, <1>6 DEF Filed
<1> QED
  BY <1>7 DEF t

LEMMA InsertedFiled ==
    ASSUME NEW s \in Seq(Entry), NEW e \in Entry, NEW p \in 1 .. Len(s) + 1,
           \A i \in 1 .. Len(s) : s[i].address # e.address
    PROVE  Filed(s, InsertAt(s, p, e), e)
<1> DEFINE t == InsertAt(s, p, e)
<1>1. /\ Len(t) = Len(s) + 1 /\ Len(s) \in Nat
      /\ \A j \in 1 .. Len(s) + 1 :
            t[j] = IF j < p THEN s[j] ELSE IF j = p THEN e ELSE s[j - 1]
  BY InsertedAt
<1> HIDE DEF t
<1>2. t[p] = e /\ p \in 1 .. Len(t)
  BY <1>1
<1>3. ASSUME NEW i \in 1 .. Len(t), t[i] # e
      PROVE  \E j \in 1 .. Len(s) : t[i] = s[j] /\ s[j].address # e.address
  <2>1. CASE i < p
    <3>1. i \in 1 .. Len(s) /\ t[i] = s[i]
      BY <1>1, <1>3, <2>1
    <3> QED
      BY <3>1
  <2>2. CASE i > p
    <3>1. i - 1 \in 1 .. Len(s) /\ t[i] = s[i - 1]
      BY <1>1, <1>3, <2>2
    <3> QED
      BY <3>1
  <2>3. i < p \/ i > p
    BY <1>1, <1>2, <1>3
  <2> QED
    BY <2>1, <2>2, <2>3
<1>4. ASSUME NEW j \in 1 .. Len(s)
      PROVE  \E i \in 1 .. Len(t) : t[i] = s[j]
  <2>1. CASE j < p
    <3>1. j \in 1 .. Len(t) /\ t[j] = s[j]
      BY <1>1, <1>4, <2>1
    <3> QED
      BY <3>1
  <2>2. CASE j >= p
    <3>1. j + 1 \in 1 .. Len(t) /\ (j + 1) - 1 = j
      BY <1>1, <1>4, <2>2
    <3>2. t[j + 1] = s[(j + 1) - 1]
      BY <1>1, <1>4, <2>2, <3>1
    <3> QED
      BY <3>1, <3>2
  <2>3. j < p \/ j >= p
    BY <1>1
  <2> QED
    BY <2>1, <2>2, <2>3
<1>5. Filed(s, t, e)
  BY <1>2, <1>3, <1>4 DEF Filed
<1> QED
  BY <1>5 DEF t

LEMMA SortedDistinct ==
    ASSUME NEW s \in Seq(Entry),
           \A i, j \in 1 .. Len(s) : i < j => Less(s[i].address, s[j].address)
    PROVE  Distinct(s)
<1> SUFFICES ASSUME NEW i \in 1 .. Len(s), NEW j \in 1 .. Len(s),
                    s[i].address = s[j].address, i # j
             PROVE  FALSE
  BY DEF Distinct
<1>1. Len(s) \in Nat /\ s[i] \in Entry /\ s[j] \in Entry
  OBVIOUS
<1>2. s[i].address \in Address /\ s[j].address \in Address
  BY <1>1 DEF Entry
<1>3. i < j \/ j < i
  BY <1>1
<1>4. Less(s[i].address, s[j].address) \/ Less(s[j].address, s[i].address)
  BY <1>3
<1> QED
  BY <1>2, <1>4, LessDiffers

LEMMA NextDistinct ==
    ASSUME IInv, [Next]_vars
    PROVE  /\ Distinct(entries) /\ Distinct(entries')
           /\ Contacts = ContactsOf(entries) /\ Contacts' = ContactsOf(entries')
<1>1. PICK s : s = entries
  OBVIOUS
<1>2. PICK t : t = entries'
  OBVIOUS
<1>3. s \in Seq(Entry) /\ \A i, j \in 1 .. Len(s) : i < j => Less(s[i].address, s[j].address)
  BY <1>1 DEF IInv, TypeOK, Sorted
<1>4. t \in Seq(Entry) /\ \A i, j \in 1 .. Len(t) : i < j => Less(t[i].address, t[j].address)
  BY <1>2, NextIInv DEF IInv, TypeOK, Sorted
<1>5. Distinct(s) /\ Distinct(t)
  BY <1>3, <1>4, SortedDistinct
<1> QED
  BY <1>1, <1>2, <1>5 DEF Contacts, ContactsOf

\* What the steps of a call that leave the vector alone do for the table.
LEMMA SameContacts ==
    ASSUME UNCHANGED entries
    PROVE  UNCHANGED Contacts
BY DEF Contacts

LEMMA FilesContact ==
    ASSUME IInv, [Next]_vars, NEW e, Filed(entries, entries', e)
    PROVE  Contacts' = With(Contacts, e)
<1>1. PICK s : s = entries
  OBVIOUS
<1>2. PICK t : t = entries'
  OBVIOUS
<1>3. Distinct(s) /\ Distinct(t) /\ Filed(s, t, e)
  BY <1>1, <1>2, NextDistinct
<1>4. Contacts = ContactsOf(s) /\ Contacts' = ContactsOf(t)
  BY <1>1, <1>2, NextDistinct
<1>5. ContactsOf(t) = With(ContactsOf(s), e)
  BY <1>3, FiledContacts
<1> QED
  BY <1>4, <1>5

LEMMA SomeContacts ==
    ASSUME IInv, [Next]_vars, entries # <<>>
    PROVE  Contacts # Table!Empty
<1>1. Len(entries) \in Nat /\ Len(entries) # 0
  BY Entries DEF IInv, TypeOK
<1>2. AddressAt(1) \in DOMAIN Contacts
  <2>1. 1 \in 1 .. Len(entries)
    BY <1>1
  <2>2. DOMAIN Contacts = {entries[i].address : i \in 1 .. Len(entries)}
    BY NextDistinct, ContactsOfEntries
  <2> QED
    BY <2>1, <2>2 DEF AddressAt
<1>3. DOMAIN Table!Empty = {}
  BY DEF Table!Empty
<1> QED
  BY <1>2, <1>3

LEMMA SearchImplements ==
    ASSUME IInv, [Next]_vars, InsertSearch \/ InsertHere
    PROVE  Table!InsertReturns \/ UNCHANGED Table!vars
<1>1. call.op = "insert"
  BY DEF InsertSearch, InsertHere
<1>2. /\ call = [op |-> "insert", entry |-> call.entry, first |-> call.first,
                 last |-> call.last]
      /\ call.entry \in Entry /\ call.first \in Index /\ call.last \in 0 .. Len(entries)
      /\ Len(entries) \in Nat
  BY <1>1, Inserting, Entries DEF IInv
<1>3. VisibleCall = [op |-> "insert", address |-> call.entry.address,
                     location |-> call.entry.location]
  BY <1>1 DEF VisibleCall
<1>4. ASSUME Filed(entries, entries', call.entry), Return
      PROVE  Table!InsertReturns
  <2>1. VisibleCall' = [op |-> "idle"]
    BY <1>4 DEF Return, VisibleCall
  <2>2. Contacts' = [a \in DOMAIN Contacts \cup {call.entry.address} |->
                       IF a = call.entry.address THEN call.entry.location ELSE Contacts[a]]
    BY <1>4, FilesContact DEF With
  <2> QED
    BY <1>3, <2>1, <2>2 DEF Table!InsertReturns, Table!File
<1>5. ASSUME NEW p \in Index, AddressAt(p) = call.entry.address, Return,
             entries' = ReplaceAt(entries, p, call.entry)
      PROVE  Table!InsertReturns
  <2>1. PICK s \in Seq(Entry) : s = entries
    BY DEF IInv, TypeOK
  <2>2. Distinct(s) /\ p \in 1 .. Len(s) /\ s[p].address = call.entry.address
    BY <1>5, <2>1, NextDistinct DEF Index, AddressAt
  <2>3. Filed(s, ReplaceAt(s, p, call.entry), call.entry)
    BY <1>2, <2>2, ReplacedFiled
  <2> QED
    BY <1>4, <1>5, <2>1, <2>3
<1>6. CASE InsertSearch
  <2>1. PICK mid : mid = call.first + (call.last - call.first) \div 2
    OBVIOUS
  <2>2. mid \in Index
    BY <1>2, <1>6, <2>1 DEF Index, InsertSearch
  <2>3. \/ /\ AddressAt(mid) = call.entry.address
           /\ entries' = ReplaceAt(entries, mid, call.entry)
           /\ Return
        \/ call' = [call EXCEPT !.last = mid - 1] /\ UNCHANGED entries
        \/ call' = [call EXCEPT !.first = mid + 1] /\ UNCHANGED entries
    BY <1>6, <2>1 DEF InsertSearch, AddressAt
  <2>4. CASE UNCHANGED entries
             /\ \/ call' = [call EXCEPT !.last = mid - 1]
                \/ call' = [call EXCEPT !.first = mid + 1]
    <3>1. call'.op = "insert" /\ call'.entry = call.entry
      BY <1>2, <2>4
    <3>2. UNCHANGED VisibleCall
      BY <1>1, <3>1 DEF VisibleCall
    <3> QED
      BY <2>4, <3>2, SameContacts DEF Table!vars
  <2> QED
    BY <1>5, <2>2, <2>3, <2>4
<1>7. CASE InsertHere
  <2>1. /\ call.first >= call.last /\ Return
        /\ \/ /\ Less(call.entry.address, AddressAt(call.first))
              /\ entries' = InsertAt(entries, call.first, call.entry)
           \/ /\ AddressAt(call.first) = call.entry.address
              /\ entries' = ReplaceAt(entries, call.first, call.entry)
           \/ /\ Less(AddressAt(call.first), call.entry.address)
              /\ entries' = InsertAt(entries, call.first + 1, call.entry)
    BY <1>7 DEF InsertHere, AddressAt
  <2>2. CASE AddressAt(call.first) = call.entry.address
             /\ entries' = ReplaceAt(entries, call.first, call.entry)
    BY <1>2, <1>5, <2>1, <2>2
  <2>3. CASE /\ \/ Less(call.entry.address, AddressAt(call.first))
                \/ Less(AddressAt(call.first), call.entry.address)
             /\ \E p \in 1 .. Len(entries) + 1 : entries' = InsertAt(entries, p, call.entry)
    <3>1. ASSUME NEW i \in Index
          PROVE  entries[i].address # call.entry.address
      <4>1. /\ call.first <= call.last + 1
            /\ \A k \in Index : k < call.first => Less(AddressAt(k), call.entry.address)
            /\ \A k \in Index : k > call.last => Less(call.entry.address, AddressAt(k))
        BY <1>1, Inserting
      <4>2. i < call.first \/ i = call.first \/ i > call.last
        BY <1>2, <2>1, <4>1 DEF Index
      <4>3. \/ Less(AddressAt(i), call.entry.address)
            \/ Less(call.entry.address, AddressAt(i))
        BY <2>3, <4>1, <4>2
      <4>4. AddressAt(i) \in Address /\ call.entry.address \in Address
        BY <1>1, Inserting, Entries DEF IInv
      <4> QED
        BY <4>3, <4>4, LessDiffers DEF AddressAt
    <3>2. PICK s \in Seq(Entry) : s = entries
      BY DEF IInv, TypeOK
    <3>3. PICK p \in 1 .. Len(s) + 1 : entries' = InsertAt(s, p, call.entry)
      BY <2>3, <3>2
    <3>4. \A i \in 1 .. Len(s) : s[i].address # call.entry.address
      BY <3>1, <3>2 DEF Index
    <3>5. Filed(s, InsertAt(s, p, call.entry), call.entry)
      BY <1>2, <3>4, InsertedFiled
    <3> QED
      BY <1>4, <2>1, <3>2, <3>3, <3>5
  <2>4. call.first \in 1 .. Len(entries) + 1 /\ call.first + 1 \in 1 .. Len(entries) + 1
    BY <1>2 DEF Index
  <2> QED
    BY <2>1, <2>2, <2>3, <2>4
<1> QED
  BY <1>6, <1>7

LEMMA InsertImplements ==
    ASSUME IInv, [Next]_vars, NEW e \in Entry, Insert(e)
    PROVE  Table!Next
<1>1. e.address \in Address /\ e.location \in Location
  BY DEF Entry
<1>2. Table!Returned
  BY DEF Insert, Returned, Table!Returned, VisibleCall
<1>3. CASE entries = <<>>
  <2>1. entries' = <<e>> /\ call' = [op |-> "idle"]
    BY <1>3 DEF Insert, Return
  <2>2. VisibleCall' = [op |-> "idle"]
    BY <2>1 DEF VisibleCall
  <2>3. Contacts = Table!Empty
    BY <1>3 DEF Contacts, Table!Empty
  <2>4. Filed(entries, entries', e)
    BY <1>3, <2>1 DEF Filed
  <2>5. Contacts' = [a \in DOMAIN Contacts \cup {e.address} |->
                       IF a = e.address THEN e.location ELSE Contacts[a]]
    BY <2>4, FilesContact DEF With
  <2>6. Table!Insert(e.address, e.location)
    BY <1>2, <2>2, <2>3, <2>5 DEF Table!Insert, Table!File
  <2> QED
    BY <1>1, <2>6 DEF Table!Next
<1>4. CASE entries # <<>>
  <2>1. /\ call' = [op |-> "insert", entry |-> e, first |-> 1, last |-> Len(entries)]
        /\ UNCHANGED entries
    BY <1>4 DEF Insert
  <2>2. VisibleCall' = [op |-> "insert", address |-> e.address, location |-> e.location]
    BY <2>1 DEF VisibleCall
  <2>3. Contacts # Table!Empty
    BY <1>4, SomeContacts
  <2>4. Table!Insert(e.address, e.location)
    BY <1>2, <2>1, <2>2, <2>3, SameContacts DEF Table!Insert
  <2> QED
    BY <1>1, <2>4 DEF Table!Next
<1> QED
  BY <1>3, <1>4

LEMMA FindImplements ==
    ASSUME IInv, [Next]_vars, NEW q \in Address, FindClosestEntry(q)
    PROVE  Table!Next
<1>1. Table!Returned
  BY DEF FindClosestEntry, Returned, Table!Returned, VisibleCall
<1>2. /\ entries # <<>> /\ UNCHANGED entries
      /\ call' = [op |-> "find", query |-> q, a |-> 1, b |-> Len(entries), match |-> 0]
  BY DEF FindClosestEntry
<1>3. VisibleCall' = [op |-> "find", query |-> q]
  BY <1>2 DEF VisibleCall
<1>4. Contacts # Table!Empty
  BY <1>2, SomeContacts
<1>5. Table!FindClosestEntry(q)
  BY <1>1, <1>2, <1>3, <1>4, SameContacts DEF Table!FindClosestEntry
<1> QED
  BY <1>5 DEF Table!Next

\* The turns of the loops of findClosestEntry change nothing that its caller sees.
LEMMA TurnImplements ==
    ASSUME IInv, FindTurn \/ SplitTurn \/ SplitEnd
    PROVE  UNCHANGED Table!vars
<1>1. call.op \in {"find", "split"} /\ UNCHANGED entries
  BY DEF FindTurn, SplitTurn, SplitEnd
<1>2. call'.op \in {"find", "split"} /\ call'.query = call.query
  BY <1>1, Finding DEF FindTurn, SplitTurn, SplitEnd
<1>3. UNCHANGED VisibleCall
  BY <1>1, <1>2 DEF VisibleCall
<1> QED
  BY <1>1, <1>3, SameContacts DEF Table!vars

LEMMA FoundImplements ==
    ASSUME IInv, [Next]_vars, Found
    PROVE  Table!FindReturns
<1>1. /\ call.op = "find" /\ call.a >= call.b /\ UNCHANGED entries
      /\ call' = [call EXCEPT !.op = "found"]
  BY DEF Found
<1>2. /\ call.a \in Index /\ call.b \in Index /\ call.a <= call.b /\ Len(entries) \in Nat
      /\ call = [op |-> "find", query |-> call.query, a |-> call.a, b |-> call.b,
                 match |-> call.match]
  BY <1>1, Finding, Entries DEF IInv
<1>3. call'.op = "found" /\ call'.query = call.query /\ call'.a = call.a
  BY <1>1, <1>2
<1>4. VisibleCall = [op |-> "find", query |-> call.query]
  BY <1>1 DEF VisibleCall
<1>5. VisibleCall' = [op |-> "found", query |-> call.query, address |-> AddressAt(call.a)]
  BY <1>1, <1>3 DEF VisibleCall, AddressAt
<1>6. DOMAIN Contacts = {AddressAt(i) : i \in Index}
  BY NextDistinct, ContactsOfEntries DEF AddressAt, Index
<1>7. ASSUME NEW y \in DOMAIN Contacts \ {AddressAt(call.a)}
      PROVE  Closer(AddressAt(call.a), y, call.query)
  <2>1. PICK i \in Index : y = AddressAt(i)
    BY <1>6
  <2>2. i # call.a
    BY <1>7, <2>1
  <2>3. call.a \in call.a .. call.b /\ i \notin call.a .. call.b
    BY <1>1, <1>2, <2>2 DEF Index
  <2> QED
    BY <1>1, <2>1, <2>3 DEF IInv, FindInv
<1>8. AddressAt(call.a) \in DOMAIN Contacts
  BY <1>2, <1>6
<1> QED
  BY <1>1, <1>4, <1>5, <1>7, <1>8, SameContacts DEF Table!FindReturns

\* ContactsSet implements ContactsTable: a caller of insert and findClosestEntry cannot tell
\* the sorted vector and its searches from a table of contacts that is updated and searched
\* at once.
THEOREM TableImplemented == Spec => Table!Init /\ [][Table!Next]_(Table!vars)
<1>1. Init => Table!Init
  <2> SUFFICES ASSUME Init PROVE Table!Init
    OBVIOUS
  <2>1. entries = <<>> /\ call = [op |-> "idle"]
    BY DEF Init
  <2> QED
    BY <2>1 DEF Contacts, VisibleCall, Table!Init, Table!Empty
<1>2. IInv /\ [Next]_vars => [Table!Next]_(Table!vars)
  <2> SUFFICES ASSUME IInv, [Next]_vars
               PROVE  Table!Next \/ UNCHANGED Table!vars
    OBVIOUS
  <2>1. CASE \E e \in Entry : Insert(e)
    BY <2>1, InsertImplements
  <2>2. CASE \E q \in Address : FindClosestEntry(q)
    BY <2>2, FindImplements
  <2>3. CASE Step
    BY <2>3, SearchImplements, TurnImplements, FoundImplements
       DEF Step, Table!Next, Table!Returns
  <2>4. CASE UNCHANGED vars
    BY <2>4 DEF vars, Contacts, VisibleCall, Table!vars
  <2> QED
    BY <2>1, <2>2, <2>3, <2>4 DEF Next
<1> QED
  BY <1>1, <1>2, AlwaysIInv, PTL DEF Spec

==============================================================================
