----------------------------- MODULE ContactsTable -----------------------------
(***************************************************************************)
(* What the users of ContactsSet rely on (LocationLookup): a table from    *)
(* addresses to locations in which insert files one contact, in the place  *)
(* of the one with that address if there is one, and findClosestEntry      *)
(* finds the contact closest to a query.  Calls return.                    *)
(***************************************************************************)
CONSTANTS
    Address,
    Location,
    Closer(_, _, _)   \* Closer(x, y, q): x is closer to q than y

VARIABLES
    contacts,         \* the locations of the addresses in the table
    call              \* the call that was made, and what it found

vars == <<contacts, call>>

Empty == [address \in {} |-> {}]

Init ==
    /\ contacts = Empty
    /\ call = [op |-> "idle"]

Returned == call.op \in {"idle", "found"}

\* The contact is filed and the call returns.
File(address, location) ==
    /\ contacts' = [a \in DOMAIN contacts \cup {address} |->
                      IF a = address THEN location ELSE contacts[a]]
    /\ call' = [op |-> "idle"]

\* Into an empty table a contact is filed at once.
Insert(address, location) ==
    /\ Returned
    /\ IF contacts = Empty
       THEN File(address, location)
       ELSE /\ call' = [op |-> "insert", address |-> address, location |-> location]
            /\ UNCHANGED contacts

InsertReturns == call.op = "insert" /\ File(call.address, call.location)

FindClosestEntry(query) ==
    /\ Returned
    /\ contacts # Empty
    /\ call' = [op |-> "find", query |-> query]
    /\ UNCHANGED contacts

FindReturns ==
    /\ call.op = "find"
    /\ \E a \in DOMAIN contacts :
         /\ \A b \in DOMAIN contacts \ {a} : Closer(a, b, call.query)
         /\ call' = [op |-> "found", query |-> call.query, address |-> a]
    /\ UNCHANGED contacts

Returns == InsertReturns \/ FindReturns

Next ==
    \/ \E address \in Address, location \in Location : Insert(address, location)
    \/ \E query \in Address : FindClosestEntry(query)
    \/ Returns

Spec == Init /\ [][Next]_vars /\ WF_vars(Returns)

================================================================================
