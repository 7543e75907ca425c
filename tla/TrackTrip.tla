----------------------------- MODULE TrackTrip -----------------------------
(***************************************************************************)
(* TrackElements with a history of the distance really travelled.  The     *)
(* recognisers read one odometer, `distance`, which any of them zeroes and *)
(* which counts only while one of them asks for it; `trip` counts every    *)
(* tick of the wheels since the stage of the watched element began.  The   *)
(* question is whether an element can end before the car has come as far   *)
(* as the threshold says: when the odometer misses a reset, or is reset by *)
(* another element, or the timer thread interferes.                        *)
(***************************************************************************)
EXTENDS TrackElements

VARIABLES
  watched,  \* the element whose length is measured
  trip,     \* travel since its stage began
  own       \* of a watched roundabout: its yaw error has been measured

Element == {"line", "ramp", "gate", "bypass"}

(* A car that has been launched does not roll back.                        *)
ASSUME ForwardAssumption == Steps \subseteq Nat

tvars == <<vars, watched, trip, own>>

TInit == Init /\ watched \in Element /\ trip = 0 /\ own = FALSE

(* A roundabout measures from the moment it zeroes the odometer: with the  *)
(* new stage, except where the right handler does so just before.          *)
GateBegins ==
  \/ pend' = "Huandao_R" /\ pend # "Huandao_R"
  \/ Huandao'["L"] = 2 /\ Huandao["L"] = 1
  \/ \E s \in Side : Huandao'[s] = 3 /\ Huandao[s] = 2

Begins ==
  CASE watched = "line" -> Zebra_cross' # Zebra_cross
    [] watched = "ramp" -> ramp' # ramp
    [] watched = "gate" -> GateBegins
    [] watched = "bypass" -> picture' # picture

(* The run-out behind the line and the first part of the ramp start from   *)
(* what the odometer happens to hold: the code does not zero it there.     *)
Credit ==
  IF \/ watched = "line" /\ Zebra_cross' = 4
     \/ watched = "ramp" /\ ramp' = 2
    THEN meter["distance"] ELSE 0

Drive(d) ==
  /\ TickRead(d)
  /\ trip' = Clamp(trip + d)
  /\ UNCHANGED <<watched, own>>

(* The yaw error is measured by the handler of a roundabout from stage 2   *)
(* on; the one of a roundabout before stays until then.                    *)
Entered == \E s \in Side : Huandao[s] = 0 /\ Huandao'[s] = 1
Measured == pc = "enter" /\ pc' = "stage" /\ Huandao[side] > 1

Think ==
  /\ Frame \/ SecondWrite \/ TickWrite
  /\ trip' = IF Begins THEN Credit ELSE trip
  /\ own' = (watched = "gate" /\ ~Entered /\ (own \/ Measured))
  /\ UNCHANGED watched

TNext == Think \/ (\E d \in Steps : Drive(d))

TSpec == TInit /\ [][TNext]_tvars
-----------------------------------------------------------------------------
(* The car is stopped no sooner than StopLen past the line, less what the  *)
(* odometer held when the bars were seen; and a roundabout begun behind    *)
(* the line, which zeroes the odometer, can only put the stop off.         *)
StopsPastLine ==
  [][watched = "line" /\ Zebra_cross = 4 /\ Zebra_cross' = 5 => trip > StopLen]_tvars

(* Neither part of a ramp ends early, though roundabouts zero its odometer.*)
RampHasItsLength ==
  [][watched = "ramp" =>
       /\ ramp = 2 /\ ramp' = 3 => trip > ClimbLen
       /\ ramp = 3 /\ ramp' = 0 => trip > RampLen]_tvars

(* A side line lost in the last rows and found again three rows above them *)
(* is both the sign of the entrance and that of the mouth: the stages 1 to *)
(* 3 may pass in this one frame, if the timer thread counts GateLen while  *)
(* the handler goes from one `if` to the next.                             *)
Broken(s) == {<<s, "gone">>, <<s, "back">>, <<s, "high">>} \subseteq see

(* The upper corner counts as the mouth of the roundabout only GateLen     *)
(* past the entrance, the turn into it is over by its own yaw error, and   *)
(* the way out is taken no sooner than GateLen after that turn began;      *)
(* unless the camera shows the near mark, a broken side line or a straight *)
(* road.                                                                   *)
GatesHold ==
  [][watched = "gate" =>
       \A s \in Side :
         /\ Huandao[s] = 2 /\ Huandao'[s] = 3 =>
              trip > GateLen \/ <<"road", "near">> \in see
         /\ Huandao[s] = 3 /\ Huandao'[s] = 4 =>
              own \/ <<"road", "near">> \in see \/ Broken(s)
         /\ Huandao[s] = 6 /\ Huandao'[s] = 0 =>
              trip >= GateLen \/ StraightRoad]_tvars

(* Each part of the way round a picture is as long as it should be.        *)
BypassHasItsLength ==
  [][watched = "bypass" /\ picture # picture' /\ picture \in 3..6
       => trip > BypassLen]_tvars
=============================================================================
