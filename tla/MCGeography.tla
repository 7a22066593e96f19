----------------------------- MODULE MCGeography -----------------------------
(* Small geographies for the model checker: nodes on a grid, distances in   *)
(* grid steps, headings as the pseudo-angle of the grid direction.          *)
EXTENDS Integers, TLC

CONSTANTS a, b, c, d, Ghost

\* a and b are close to each other, c and d lie further out; nobody is at Ghost.
At == (a :> <<0, 0>>) @@ (b :> <<2, 0>>) @@ (c :> <<30, 5>>)
        @@ (d :> <<3, 40>>) @@ (Ghost :> <<90, 90>>)

Abs(x) == IF x < 0 THEN -x ELSE x

GridDistance(L) == [p \in L \X L |->
    Abs(At[p[1]][1] - At[p[2]][1]) + Abs(At[p[1]][2] - At[p[2]][2])]

\* A monotone image of the angle, 0 .. 399.
Angle(x, y) ==
    CASE x = 0 /\ y = 0 -> 0
      [] x > 0 /\ y >= 0 -> (100 * y) \div (x + y)
      [] x <= 0 /\ y > 0 -> 100 + (100 * (-x)) \div (y - x)
      [] x < 0 /\ y <= 0 -> 200 + (100 * (-y)) \div (-x - y)
      [] x >= 0 /\ y < 0 -> 300 + (100 * x) \div (x - y)

GridHeading(N, L) == [p \in N \X L |->
    Angle(At[p[2]][1] - At[p[1]][1], At[p[2]][2] - At[p[1]][2])]

Both(links) == links \cup {<<l[2], l[1]>> : l \in links}

Three == {a, b, c}
Four == {a, b, c, d}
FourAndGhost == Four \cup {Ghost}
Line == Both({<<a, b>>, <<b, c>>})
Triangle == Both({<<a, b>>, <<b, c>>, <<a, c>>})
LongLine == Both({<<a, b>>, <<b, c>>, <<c, d>>})
Square == Both({<<a, b>>, <<b, c>>, <<c, d>>, <<d, a>>})

==============================================================================
