---- MODULE MCLineSearch ----
(* Eleven rows of twelve columns: junctions with upper and lower corners   *)
(* fit in.  An image has three bands, each a road of its own.              *)
EXTENDS LineSearch

From(a, b) == [c \in 0 .. 11 |-> IF c \in a .. b THEN 1 ELSE 0]

MCRoads ==
    {From(4, 6), From(0, 7), From(0, 11), From(0, 2), From(4, 11), From(12, 12),
     [c \in 0 .. 11 |-> IF c \in 3 .. 8 \ {4} THEN 1 ELSE 0],
     [c \in 0 .. 11 |-> IF c \in 3 .. 8 THEN 0 ELSE 1]}

Banded(upper, middle, lower, a, b) ==
    [r \in 0 .. 10 |-> IF r < a THEN upper ELSE IF r < b THEN middle ELSE lower]

\* the upper band of half of the images is free or empty, open to a side or speckled
MCUpper == {From(4, 6), From(0, 7), From(12, 12), [c \in 0 .. 11 |-> IF c \in 3 .. 8 \ {4} THEN 1 ELSE 0]}

MCImages ==
    {Banded(u, m, l, 3, 6) : u \in MCRoads, m \in MCRoads, l \in MCRoads}
        \cup {Banded(u, m, l, b[1], b[2]) :
                u \in MCUpper, m \in MCRoads, l \in MCRoads, b \in {<<3, 7>>, <<8, 9>>}}

(* A line across the road, below which a narrow passage is left, with what *)
(* lies behind it: the search from the bottom up does not see that.        *)
MCLine == {<<r, c>> \in (0 .. 10) \X (0 .. 11) : r < 5 \/ c > r + 1}
MCLines == {MCLine}
====
