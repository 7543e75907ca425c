------------------------------- MODULE Queue -------------------------------
(***************************************************************************)
(* What zf_common_fifo promises its callers: a bounded first-in first-out  *)
(* queue.  A write appends all it is given or nothing; a read hands over   *)
(* the oldest elements in their order, and may take them out.              *)
(***************************************************************************)
EXTENDS Integers, Sequences

CONSTANTS Element, Capacity

VARIABLES
  q,      \* what is in the queue, the oldest first
  dat     \* what the last read handed over

vars == <<q, dat>>

Init == q = <<>> /\ dat = <<>>

Put ==
  /\ Len(q) < Len(q') /\ Len(q') <= Capacity
  /\ SubSeq(q', 1, Len(q)) = q
  /\ UNCHANGED dat

Read(n) == dat' = SubSeq(q, 1, n)

Peek == \E n \in 1..Len(q) : Read(n) /\ UNCHANGED q

Take == \E n \in 1..Len(q) : Read(n) /\ q' = SubSeq(q, n + 1, Len(q))

Clear == q' = <<>> /\ UNCHANGED dat

Next == Put \/ Peek \/ Take \/ Clear

Spec == Init /\ [][Next]_vars
=============================================================================
