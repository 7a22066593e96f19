--------------------------- MODULE MCLocationLookup ---------------------------
(* Instances of LocationLookup for the model checker: numbers of two bits.   *)
EXTENDS LocationLookup, Bitwise

CONSTANTS g1, g2

MCAddress == 0 .. 3

MCXorDistance == [x \in MCAddress |-> [y \in MCAddress |-> x ^^ y]]
MCVariations == [x \in MCAddress |-> {x ^^ 1, x ^^ 2}]

Both(links) == links \cup {<<l[2], l[1]>> : l \in links}

\* Node 0 knows 2, which knows 3, which knows 1.
Line == Both({<<0, 2>>, <<2, 3>>, <<3, 1>>})
ShortLine == Both({<<0, 2>>, <<2, 3>>})
Three == {0, 2, 3}

MCOrigin == [g \in Datagram |-> IF g = g1 THEN 0 ELSE 3]
MCDest == [g \in Datagram |-> IF g = g1 THEN 3 ELSE 0]

==============================================================================
