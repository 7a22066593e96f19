--------------------------- MODULE MCLocationFlood ---------------------------
(* Instances of LocationFlood for the model checker.                        *)
EXTENDS LocationFlood, MCGeography

MCDistance == GridDistance(Location)
MCHeading == GridHeading(Node, Location)

\* The addresses of the ends of the line, at the place of one of them or where nobody is,
\* with each hop count that is passed on.
MCDamages == [src : {a, d}, loc : {d, Ghost}, hops : 0 .. 2]

==============================================================================
