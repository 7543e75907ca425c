----------------------------- MODULE MCSteering -----------------------------
(* Five rows, of which the rows 1 and 2 may be looked at: a road to the    *)
(* left or to the right, seen from the first row, from the second, or not  *)
(* at all; a picture in sight, one that is passed, and a ramp.             *)
EXTENDS Steering

MCFrame(first, error, p, r) ==
  [top |-> first, road |-> [i \in Rows |-> error], picture |-> p, ramp |-> r]
MCFrames == {MCFrame(0, 30, 0, 2), MCFrame(1, -20, 2, 0), MCFrame(1, 30, 3, 0),
             MCFrame(3, 30, 0, 0)}
MCEdges == {-57}
=============================================================================
