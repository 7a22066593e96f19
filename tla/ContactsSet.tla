------------------------------ MODULE ContactsSet ------------------------------
(***************************************************************************)
(* The contacts of the lookup table: a vector sorted by address, searched  *)
(* for the contact that is closest to a query by xor (doc/algorithms.md).  *)
(* Both searches are modelled by their iterations: a step is one turn of a *)
(* loop of insert or findClosestEntry, and `call' holds the local          *)
(* variables of the call that runs.                                        *)
(*                                                                         *)
(* Position i of the sequence is the iterator entries.begin() + i - 1, so  *)
(* that 0 is the iterator before begin().  An address is its bits, bit 0   *)
(* first.                                                                  *)
(***************************************************************************)
EXTENDS SequencesExt

CONSTANTS
    Width,       \* 128: the bits of an address
    Location

ASSUME ContactsAssumption == Width \in Nat \ {0}

VARIABLES
    entries,
    call

vars == <<entries, call>>

Bit == 0 .. Width - 1
Address == [Bit -> {0, 1}]
Entry == [address : Address, location : Location]

\* Address::compare and AddressDistance::compare: memcmp of the octets.
Less(x, y) ==
    \E i \in Bit : x[i] < y[i] /\ \A j \in Bit : j < i => x[j] = y[j]

XorDistance(x, y) == [i \in Bit |-> IF x[i] = y[i] THEN 0 ELSE 1]

Idle == [op : {"idle"}]
InsertCall == [op : {"insert"}, entry : Entry, first : 1 .. Len(entries),
               last : 0 .. Len(entries)]
FindCall == [op : {"find", "found"}, query : Address, a : 1 .. Len(entries),
             b : 1 .. Len(entries), match : 0 .. Width]
SplitCall == [op : {"split"}, query : Address, a : 1 .. Len(entries),
              b : 1 .. Len(entries), match : Bit, c : 1 .. Len(entries),
              d : 1 .. Len(entries)]

\* In particular the iterators stay within the vector and the bit that is looked at
\* within the address.
TypeOK ==
    /\ entries \in Seq(Entry)
    /\ call \in Idle \cup InsertCall \cup FindCall \cup SplitCall

Init ==
    /\ entries = <<>>
    /\ call = [op |-> "idle"]

Returned == call.op \in {"idle", "found"}

Return == call' = [op |-> "idle"]

BitAt(i) == entries[i].address[call.match]

------------------------------------------------------------------------------
(* insert.                                                                 *)

Insert(e) ==
    /\ Returned
    /\ IF entries = <<>>
       THEN entries' = <<e>> /\ Return
       ELSE /\ call' = [op |-> "insert", entry |-> e, first |-> 1, last |-> Len(entries)]
            /\ UNCHANGED entries

\* A turn of the loop.
InsertSearch ==
    LET mid == call.first + (call.last - call.first) \div 2
        address == entries[mid].address
    IN  /\ call.op = "insert"
        /\ call.first < call.last
        /\ \/ /\ address = call.entry.address
              /\ entries' = ReplaceAt(entries, mid, call.entry)
              /\ Return
           \/ /\ Less(call.entry.address, address)
              /\ call' = [call EXCEPT !.last = mid - 1]
              /\ UNCHANGED entries
           \/ /\ Less(address, call.entry.address)
              /\ call' = [call EXCEPT !.first = mid + 1]
              /\ UNCHANGED entries

\* Mutation of InsertHere: the last comparison is forgotten.
InsertBefore ==
    /\ call.op = "insert"
    /\ call.first >= call.last
    /\ entries' = InsertAt(entries, call.first, call.entry)
    /\ Return

\* After the loop; `first' never gets to end().
InsertHere ==
    LET address == entries[call.first].address
    IN  /\ call.op = "insert"
        /\ call.first >= call.last
        /\ \/ /\ Less(call.entry.address, address)
              /\ entries' = InsertAt(entries, call.first, call.entry)
           \/ /\ address = call.entry.address
              /\ entries' = ReplaceAt(entries, call.first, call.entry)
           \/ /\ Less(address, call.entry.address)
              /\ entries' = InsertAt(entries, call.first + 1, call.entry)
        /\ Return

------------------------------------------------------------------------------
(* findClosestEntry.                                                       *)

\* Mutation of FindClosestEntry: b begins at end().
FindClosestEntryFromEnd(q) ==
    /\ Returned
    /\ entries # <<>>
    /\ call' = [op |-> "find", query |-> q, a |-> 1, b |-> Len(entries) + 1, match |-> 0]
    /\ UNCHANGED entries

\* Of an empty table, end() is returned.
FindClosestEntry(q) ==
    /\ Returned
    /\ entries # <<>>
    /\ call' = [op |-> "find", query |-> q, a |-> 1, b |-> Len(entries), match |-> 0]
    /\ UNCHANGED entries

\* A turn of the outer loop: on to the split of a .. b, or to the next bit.
FindTurn ==
    /\ call.op = "find"
    /\ call.a < call.b
    /\ call' = IF BitAt(call.a) = 0 /\ BitAt(call.b) = 1
               THEN [op |-> "split", query |-> call.query, a |-> call.a, b |-> call.b,
                     match |-> call.match, c |-> call.a, d |-> call.b]
               ELSE [call EXCEPT !.match = @ + 1]
    /\ UNCHANGED entries

\* Mutation of SplitTurn: the middle is compared with the query.
SplitTurnByQuery ==
    LET middle == call.c + (call.d - call.c) \div 2
    IN  /\ call.op = "split"
        /\ call.d - call.c > 1
        /\ call' = IF BitAt(middle) = call.query[call.match]
                   THEN [call EXCEPT !.c = middle] ELSE [call EXCEPT !.d = middle]
        /\ UNCHANGED entries

\* A turn of the inner loop.
SplitTurn ==
    LET middle == call.c + (call.d - call.c) \div 2
    IN  /\ call.op = "split"
        /\ call.d - call.c > 1
        /\ call' = IF BitAt(middle) = 0 THEN [call EXCEPT !.c = middle]
                                        ELSE [call EXCEPT !.d = middle]
        /\ UNCHANGED entries

\* The half whose bit is the query's.
SplitEnd ==
    /\ call.op = "split"
    /\ call.d - call.c <= 1
    /\ call' = [op |-> "find", query |-> call.query, match |-> call.match + 1,
                a |-> IF call.query[call.match] = 0 THEN call.a ELSE call.d,
                b |-> IF call.query[call.match] = 0 THEN call.c ELSE call.b]
    /\ UNCHANGED entries

Found ==
    /\ call.op = "find"
    /\ call.a >= call.b
    /\ call' = [call EXCEPT !.op = "found"]
    /\ UNCHANGED entries

------------------------------------------------------------------------------

Step == InsertSearch \/ InsertHere \/ FindTurn \/ SplitTurn \/ SplitEnd \/ Found

Next ==
    \/ \E e \in Entry : Insert(e)
    \/ \E q \in Address : FindClosestEntry(q)
    \/ Step

Spec == Init /\ [][Next]_vars

\* A call that runs goes on.
FairSpec == Spec /\ WF_vars(Step)

------------------------------------------------------------------------------
(* Properties.                                                             *)

\* "Rep invariant: entries must always be sorted by address" (ContactsSet.hpp), and no
\* address has two entries, after every sequence of inserts.
Sorted ==
    \A i, j \in 1 .. Len(entries) :
        i < j => Less(entries[i].address, entries[j].address)

\* x is closer to q than y.
Closer(x, y, q) == Less(XorDistance(x, q), XorDistance(y, q))

\* What is in the vector, without its order.
Contacts ==
    LET at(a) == CHOOSE i \in 1 .. Len(entries) : entries[i].address = a
    IN  [a \in {entries[i].address : i \in 1 .. Len(entries)} |-> entries[at(a)].location]

\* The call without the iterators of its loops.
VisibleCall ==
    CASE call.op = "idle" -> call
      [] call.op = "insert" -> [op |-> "insert", address |-> call.entry.address,
                                location |-> call.entry.location]
      [] call.op \in {"find", "split"} -> [op |-> "find", query |-> call.query]
      [] call.op = "found" -> [op |-> "found", query |-> call.query,
                               address |-> entries[call.a].address]

Table == INSTANCE ContactsTable WITH contacts <- Contacts, call <- VisibleCall

\* The sorted vector with its binary searches implements the table: an insert loses no
\* contact and overwrites only the one with its address, a search returns the contact
\* closest to its query by xor distance, and every call ends although the loop over the
\* bits of an address has no bound.
ImplementsTable == Table!Spec

==============================================================================
