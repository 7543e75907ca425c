------------------------------- MODULE Course -------------------------------
(***************************************************************************)
(* What the element recognition promises about one lap, without saying how *)
(* it recognises anything.  The lap advances start -> armed -> run -> line *)
(* -> crossed -> done and never back; the car is inside at most one        *)
(* roundabout; a ramp lies on the open part of the lap only; and a car     *)
(* that has been launched is stopped by the program once, because it has   *)
(* crossed the finish line, and for no other reason.                       *)
(***************************************************************************)

CONSTANT Side     \* the two kinds of roundabout

VARIABLES
  leg,            \* where the car is on the lap
  bend,           \* the roundabout it is in, or "road"
  hill,           \* on a ramp
  run             \* 0 not launched yet, 1 running, 2 stopped (run_flag)

vars == <<leg, bend, hill, run>>

Init ==
  /\ leg = "start"
  /\ bend = "road"
  /\ hill = FALSE
  /\ run = 0

(* The lap.  The finish line is not recognised on a ramp.                  *)
Advance(from, to) ==
  /\ leg = from
  /\ leg' = to
  /\ UNCHANGED <<bend, hill, run>>

Line ==
  /\ ~hill
  /\ Advance("run", "line")

(* The one automatic stop: it ends the lap.                                *)
StopAtLine ==
  /\ leg = "crossed"
  /\ leg' = "done"
  /\ run' = 2
  /\ UNCHANGED <<bend, hill>>

EnterBend(s) ==
  /\ bend = "road"
  /\ bend' = s
  /\ UNCHANGED <<leg, hill, run>>

LeaveBend ==
  /\ bend \in Side
  /\ bend' = "road"
  /\ UNCHANGED <<leg, hill, run>>

Climb ==
  /\ leg = "run"
  /\ hill' = TRUE
  /\ UNCHANGED <<leg, bend, run>>

Descend ==
  /\ hill' = FALSE
  /\ UNCHANGED <<leg, bend, run>>

(* The keys act on a car that is not running: they launch it or stop it.   *)
Key(r) ==
  /\ run # 1
  /\ run' = r
  /\ UNCHANGED <<leg, bend, hill>>

Next ==
  \/ Advance("start", "armed") \/ Advance("armed", "run")
  \/ Line \/ Advance("line", "crossed") \/ StopAtLine
  \/ \E s \in Side : EnterBend(s)
  \/ LeaveBend
  \/ Climb \/ Descend
  \/ \E r \in {1, 2} : Key(r)

Spec == Init /\ [][Next]_vars
=============================================================================
