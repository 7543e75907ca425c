------------------------ MODULE TrackElementsProofs ------------------------
(***************************************************************************)
(* The safety of TrackElements for every value of its constants: types, at *)
(* most one roundabout, ramps on the open lap only, no roundabout entry    *)
(* while a picture is handled, a clean picture odometer, that the          *)
(* recognisers implement Course, and that no element of TrackTrip ends     *)
(* before the car has come as far as its threshold.                        *)
(***************************************************************************)
EXTENDS TrackTrip, TLAPS

USE DEF Side, Bypass

(* Where the main thread is, and what it has seen to before it got there.  *)
PlaceOK ==
  /\ pend = "Huandao_R" => pc = "stage" /\ Huandao["R"] = 1
  /\ pc = "picture" => PictureRuns
  /\ pc = "ramp" => Zebra_cross = 3
  /\ pend = "stop" => Zebra_cross = 5
  /\ pend = "launch" => run_flag # 1
  /\ pend = "Flag.picture" => picture \in 3..6 /\ pc = "picture"

IInv == /\ TypeOK /\ PlaceOK
        /\ OneRoundabout /\ RampOnlyOnCourse /\ BypassExcludesEntry

(* Every step of the program is one of these.                              *)
LEMMA NextCases ==
  ASSUME [Next]_vars
  PROVE  \/ KeyScan \/ NoFrame \/ Capture \/ ZebraNext \/ ZebraDone
         \/ RampNext \/ RampDone
         \/ EnterHuandao \/ StageNext \/ StageOneRight \/ StageDone
         \/ RedBlockSeen \/ Classified \/ BypassNext \/ PictureDone
         \/ Launch \/ StopAtLine \/ ZeroDistance
         \/ EnterRight \/ LeaveBypass \/ ZeroPicture
         \/ (\E d \in Steps : TickRead(d)) \/ TickWrite
         \/ UNCHANGED vars
  BY DEF Next, Frame, SecondWrite

(* The yaw error is the turn since the entrance, from either end of the    *)
(* compass: -180 and 180 are one heading.                                  *)
LEMMA ErrorIsTurn ==
  ASSUME NEW entrance \in Int, -180 <= entrance, entrance <= 180,
         NEW yaw \in Int, -180 <= yaw, yaw <= 180,
         NEW turn \in Int, -180 < turn, turn < 180,
         yaw \in {entrance + turn - 360, entrance + turn, entrance + turn + 360}
  PROVE  huandao_yaw_correct(entrance, yaw) = -turn
BY DEF huandao_yaw_correct

LEMMA ErrorsAreNumbers == YawErrs \subseteq Int
<1>1. SUFFICES ASSUME NEW h \in Headings PROVE huandao_yaw_correct(h[1], h[2]) \in Int
  BY DEF YawErrs
<1>2. h[1] \in Int /\ h[2] \in Int
  BY SensorAssumption
<1> QED
  BY <1>2 DEF huandao_yaw_correct

LEMMA InitOK == Init => IInv
  BY SMT DEF Init, IInv, TypeOK, PlaceOK, OneRoundabout, RampOnlyOnCourse,
             BypassExcludesEntry, PictureRuns, PC, Pend, Mark, Meter

LEMMA StepOK == IInv /\ [Next]_vars => IInv'
<1> SUFFICES ASSUME IInv, [Next]_vars PROVE IInv'
  OBVIOUS
<1> USE DEF IInv, TypeOK, PlaceOK, OneRoundabout, RampOnlyOnCourse,
            BypassExcludesEntry, PictureRuns, PC, Pend, Here
<1>1. CASE KeyScan
  BY <1>1 DEF KeyScan, KeysScanned
<1>2. CASE NoFrame
  BY <1>2 DEF NoFrame
<1>3. CASE Capture
  BY <1>3, ScenesAssumption
  DEF Capture, Find_Guaidian, Classify, Mark, SideMark, Other
<1>4. CASE ZebraNext
  BY <1>4 DEF ZebraNext, ZebraMoves, FinishLineSeen
<1>5. CASE ZebraDone
  BY <1>5 DEF ZebraDone
<1>6. CASE RampNext
  BY <1>6 DEF RampNext, RampMoves
<1>7. CASE RampDone
  BY <1>7 DEF RampDone
<1>8. CASE EnterHuandao
  BY <1>8, SensorAssumption, ErrorsAreNumbers DEF EnterHuandao, MayEnter, NextHandler, EndFrame, Other
<1>9. CASE StageNext
  BY <1>9 DEF StageNext, StageMoves
<1>10. CASE StageOneRight
  BY <1>10 DEF StageOneRight, RightStageOne, Meter
<1>11. CASE StageDone
  BY <1>11 DEF StageDone, NextHandler, EndFrame, Other
<1>12. CASE RedBlockSeen
  BY <1>12 DEF RedBlockSeen
<1>13. CASE Classified
  BY <1>13, VerdictsAssumption DEF Classified, BypassOf
<1>14. CASE BypassNext
  BY <1>14 DEF BypassNext, BypassOver, Meter
<1>15. CASE PictureDone
  BY <1>15 DEF PictureDone, EndFrame
<1>16. CASE Launch
  BY <1>16 DEF Launch
<1>17. CASE StopAtLine
  BY <1>17 DEF StopAtLine
<1>18. CASE ZeroDistance
  BY <1>18 DEF ZeroDistance, Meter
<1>19. CASE EnterRight
  BY <1>19 DEF EnterRight
<1>20. CASE LeaveBypass
  BY <1>20 DEF LeaveBypass, EndFrame
<1>21. CASE ZeroPicture
  BY <1>21 DEF ZeroPicture, Meter
<1>22. CASE \E d \in Steps : TickRead(d)
  BY <1>22, StepsAssumption, LengthsAssumption
  DEF TickRead, main, Counting, Clamp, Meter
<1>23. CASE TickWrite
  BY <1>23 DEF TickWrite, main, Meter
<1>24. CASE UNCHANGED vars
  BY <1>24 DEF vars, main
<1> QED
  BY NextCases, <1>1, <1>2, <1>3, <1>4, <1>5, <1>6, <1>7, <1>8, <1>9, <1>10, <1>11, <1>12, <1>13, <1>14, <1>15, <1>16, <1>17, <1>18, <1>19, <1>20, <1>21, <1>22, <1>23, <1>24

LEMMA Inductive == Spec => []IInv
  BY InitOK, StepOK, PTL DEF Spec

(* Every variable of the recognisers keeps to the values of its flag.      *)
THEOREM TypesHold == Spec => []TypeOK
<1> IInv => TypeOK
  BY DEF IInv
<1> QED
  BY Inductive, PTL

(* At no time are both roundabout handlers inside a roundabout.            *)
THEOREM OneRoundaboutHolds == Spec => []OneRoundabout
<1> IInv => OneRoundabout
  BY DEF IInv
<1> QED
  BY Inductive, PTL

(* A ramp is under way on the open lap only.                               *)
THEOREM RampOnlyOnCourseHolds == Spec => []RampOnlyOnCourse
<1> IInv => RampOnlyOnCourse
  BY DEF IInv
<1> QED
  BY Inductive, PTL

(* No roundabout is being entered while a picture is handled.              *)
THEOREM BypassExcludesEntryHolds == Spec => []BypassExcludesEntry
<1> IInv => BypassExcludesEntry
  BY DEF IInv
<1> QED
  BY Inductive, PTL
-----------------------------------------------------------------------------
(* A tick under way adds to the picture odometer only while a bypass lasts.*)
LatchOK ==
  "distance_picture" \in DOMAIN latch => pit = "write" /\ picture \in 3..6

LEMMA PictureStep ==
  ASSUME RealTime, IInv, PictureMeterClean, LatchOK, [Next]_vars
  PROVE  PictureMeterClean' /\ LatchOK'
<1> USE DEF PictureMeterClean, LatchOK, Here, MainRuns
<1>1. TypeOK /\ PlaceOK
  BY DEF IInv
<1>2. CASE KeyScan
  BY <1>2, <1>1 DEF KeyScan, TypeOK, PlaceOK, Meter
<1>3. CASE NoFrame
  BY <1>3, <1>1 DEF NoFrame, TypeOK, PlaceOK, Meter
<1>4. CASE Capture
  BY <1>4, <1>1 DEF Capture, TypeOK, PlaceOK, Meter
<1>5. CASE ZebraNext
  BY <1>5, <1>1 DEF ZebraNext, TypeOK, PlaceOK, Meter
<1>6. CASE ZebraDone
  BY <1>6, <1>1 DEF ZebraDone, TypeOK, PlaceOK, Meter
<1>7. CASE RampNext
  BY <1>7, <1>1 DEF RampNext, TypeOK, PlaceOK, Meter
<1>8. CASE RampDone
  BY <1>8, <1>1 DEF RampDone, TypeOK, PlaceOK, Meter
<1>9. CASE EnterHuandao
  BY <1>9, <1>1 DEF EnterHuandao, TypeOK, PlaceOK, Meter
<1>10. CASE StageNext
  BY <1>10, <1>1 DEF StageNext, TypeOK, PlaceOK, Meter
<1>11. CASE StageOneRight
  BY <1>11, <1>1 DEF StageOneRight, TypeOK, PlaceOK, Meter
<1>12. CASE StageDone
  BY <1>12, <1>1 DEF StageDone, TypeOK, PlaceOK, Meter
<1>13. CASE RedBlockSeen
  BY <1>13, <1>1 DEF RedBlockSeen, TypeOK, PlaceOK, Meter
<1>14. CASE Classified
  BY <1>14, <1>1 DEF Classified, BypassOf, TypeOK, PlaceOK, Meter
<1>15. CASE BypassNext
  BY <1>15, <1>1 DEF BypassNext, BypassOver, Bypass, TypeOK, PlaceOK, Meter
<1>16. CASE PictureDone
  BY <1>16, <1>1 DEF PictureDone, TypeOK, PlaceOK, Meter
<1>17. CASE Launch
  BY <1>17, <1>1 DEF Launch, TypeOK, PlaceOK, Meter
<1>18. CASE StopAtLine
  BY <1>18, <1>1 DEF StopAtLine, TypeOK, PlaceOK, Meter
<1>19. CASE ZeroDistance
  BY <1>19, <1>1 DEF ZeroDistance, TypeOK, PlaceOK, Meter
<1>20. CASE EnterRight
  BY <1>20, <1>1 DEF EnterRight, TypeOK, PlaceOK, Meter
<1>21. CASE LeaveBypass
  BY <1>21, <1>1 DEF LeaveBypass, TypeOK, PlaceOK, Meter
<1>22. CASE ZeroPicture
  BY <1>22, <1>1 DEF ZeroPicture, TypeOK, PlaceOK, Meter
<1>23. CASE \E d \in Steps : TickRead(d)
  BY <1>23, <1>1 DEF TickRead, main, Counting, Bypass, TypeOK, Meter
<1>24. CASE TickWrite
  BY <1>24, <1>1 DEF TickWrite, main, TypeOK, Meter
<1>25. CASE UNCHANGED vars
  BY <1>25 DEF vars, main
<1> QED
  BY NextCases, <1>2, <1>3, <1>4, <1>5, <1>6, <1>7, <1>8, <1>9, <1>10, <1>11, <1>12, <1>13, <1>14, <1>15, <1>16, <1>17, <1>18, <1>19, <1>20, <1>21, <1>22, <1>23, <1>24, <1>25

(* With a real-time timer thread a bypass begins with its odometer at zero.*)
THEOREM PictureMeterHolds ==
  ASSUME RealTime
  PROVE  Spec => []PictureMeterClean
<1>1. Init => PictureMeterClean /\ LatchOK
  BY DEF Init, PictureMeterClean, LatchOK, Meter
<1>2. /\ IInv /\ PictureMeterClean /\ LatchOK
      /\ [Next]_vars
      => (PictureMeterClean /\ LatchOK)'
  BY PictureStep
<1> QED
  BY <1>1, <1>2, Inductive, PTL DEF Spec
-----------------------------------------------------------------------------
LEMMA InitRefines == Init => C!Init
  BY DEF Init, C!Init, leg, bend

(* Every step is a step of Course, or one it does not see.                 *)
LEMMA StepRefines ==
  ASSUME IInv, IInv', [Next]_vars
  PROVE  [C!Next]_(C!vars)
<1> USE DEF Here, C!vars
<1>1. TypeOK /\ PlaceOK /\ OneRoundabout /\ RampOnlyOnCourse
  BY DEF IInv
<1>2. Huandao \in [Side -> 0..6] /\ Huandao' \in [Side -> 0..6] /\ OneRoundabout'
  BY DEF IInv, TypeOK
<1>3. CASE KeyScan
  BY <1>3, <1>1, <1>2 DEF KeyScan, TypeOK, C!Next, C!Key, KeysScanned, leg, bend
<1>4. CASE NoFrame
  BY <1>4, <1>1, <1>2 DEF NoFrame, TypeOK, leg, bend
<1>5. CASE Capture
  BY <1>5, <1>1, <1>2 DEF Capture, TypeOK, leg, bend
<1>6. CASE ZebraNext
  BY <1>6, <1>1, <1>2 DEF ZebraNext, TypeOK, ZebraMoves, FinishLineSeen, leg, bend, C!Next, C!Advance, C!Line
<1>7. CASE ZebraDone
  BY <1>7, <1>1, <1>2 DEF ZebraDone, TypeOK, leg, bend
<1>8. CASE RampNext
  BY <1>8, <1>1, <1>2 DEF RampNext, TypeOK, RampMoves, C!Next, C!Climb, C!Descend, leg, bend, PlaceOK
<1>9. CASE RampDone
  BY <1>9, <1>1, <1>2 DEF RampDone, TypeOK, leg, bend
<1>10. CASE EnterHuandao
  BY <1>10, <1>1, <1>2 DEF EnterHuandao, TypeOK, MayEnter, OneRoundabout, bend, leg, C!Next, C!EnterBend
<1>11. CASE StageNext
  BY <1>11, <1>1, <1>2 DEF StageNext, TypeOK, StageMoves, OneRoundabout, bend, leg, C!Next, C!LeaveBend
<1>12. CASE StageOneRight
  BY <1>12, <1>1, <1>2 DEF StageOneRight, TypeOK, leg, bend
<1>13. CASE StageDone
  BY <1>13, <1>1, <1>2 DEF StageDone, TypeOK, OneRoundabout, bend, leg, C!Next, C!LeaveBend
<1>14. CASE RedBlockSeen
  BY <1>14, <1>1, <1>2 DEF RedBlockSeen, TypeOK, leg, bend
<1>15. CASE Classified
  BY <1>15, <1>1, <1>2 DEF Classified, TypeOK, leg, bend
<1>16. CASE BypassNext
  BY <1>16, <1>1, <1>2 DEF BypassNext, TypeOK, leg, bend
<1>17. CASE PictureDone
  BY <1>17, <1>1, <1>2 DEF PictureDone, TypeOK, leg, bend
<1>18. CASE Launch
  BY <1>18, <1>1, <1>2 DEF Launch, TypeOK, PlaceOK, C!Next, C!Key, leg, bend
<1>19. CASE StopAtLine
  BY <1>19, <1>1, <1>2 DEF StopAtLine, TypeOK, PlaceOK, C!Next, C!StopAtLine, leg, bend
<1>20. CASE ZeroDistance
  BY <1>20, <1>1, <1>2 DEF ZeroDistance, TypeOK, leg, bend
<1>21. CASE EnterRight
  BY <1>21, <1>1, <1>2 DEF EnterRight, TypeOK, PlaceOK, OneRoundabout, bend, leg
<1>22. CASE LeaveBypass
  BY <1>22, <1>1, <1>2 DEF LeaveBypass, TypeOK, leg, bend
<1>23. CASE ZeroPicture
  BY <1>23, <1>1, <1>2 DEF ZeroPicture, TypeOK, leg, bend
<1>24. CASE \E d \in Steps : TickRead(d)
  BY <1>24 DEF TickRead, main, leg, bend
<1>25. CASE TickWrite
  BY <1>25 DEF TickWrite, main, leg, bend
<1>26. CASE UNCHANGED vars
  BY <1>26 DEF vars, main, leg, bend
<1> QED
  BY NextCases, <1>3, <1>4, <1>5, <1>6, <1>7, <1>8, <1>9, <1>10, <1>11, <1>12, <1>13, <1>14, <1>15, <1>16, <1>17, <1>18, <1>19, <1>20, <1>21, <1>22, <1>23, <1>24, <1>25, <1>26

(* The recognisers implement the lap of Course.                            *)
THEOREM RecognisersImplementCourse == Spec => CourseSpec
<1>1. IInv /\ IInv' /\ [Next]_vars => [C!Next]_(C!vars)
  BY StepRefines
<1> QED
  BY <1>1, InitRefines, Inductive, PTL DEF Spec, CourseSpec, C!Spec
-----------------------------------------------------------------------------
(* A car that has turned `round` degrees into a roundabout since its       *)
(* entrance, to its left or to its right, whatever its heading was there:  *)
(* stage 3 ends after 105 degrees and less than half a turn, stage 4 only  *)
(* between 251 and 259 degrees, and stage 5 after 335.  (At half a turn    *)
(* the error has either sign.)                                             *)
Round(s, entrance, yaw, round) ==
  LET turn == IF s = "L" THEN round ELSE -round
  IN yaw \in {entrance + turn - 360, entrance + turn, entrance + turn + 360}

THEOREM StagesAreTurns ==
  ASSUME NEW s \in Side, NEW round \in 0..359, round # 180,
         NEW entrance \in -180..180, NEW yaw \in -180..180, Round(s, entrance, yaw, round),
         Yaw_Huandao_err = huandao_yaw_correct(entrance, yaw)
  PROVE  /\ Turned(s) > 105 <=> round \in 106..179
         /\ Turned(s) \in -109..-101 <=> round \in 251..259
         /\ Turned(s) > -25 /\ round > 180 <=> round >= 336
<1> DEFINE short == IF round < 180 THEN round ELSE round - 360
           turn == IF s = "L" THEN short ELSE -short
<1>1. turn \in Int /\ -180 < turn /\ turn < 180
  OBVIOUS
<1>2. yaw \in {entrance + turn - 360, entrance + turn, entrance + turn + 360}
  BY DEF Round
<1>3. Yaw_Huandao_err = -turn
  <2> HIDE DEF turn, short
  <2> QED BY <1>1, <1>2, ErrorIsTurn
<1>4. Turned(s) = short
  BY <1>3 DEF Turned
<1> QED
  BY <1>4
-----------------------------------------------------------------------------
(* TrackTrip.  While a watched stage lasts its odometer is never ahead of  *)
(* the travel, nor are the sums the timer thread is about to store.        *)
Zeroing == {"distance", "distance_HUAN1"}

Watching ==
  \/ watched = "line" /\ Zebra_cross = 4
  \/ watched = "ramp" /\ ramp # 0
  \/ watched = "gate" /\ (pend = "Huandao_R" \/ \E s \in Side : Huandao[s] >= 2)

NotAhead(m) == meter[m] <= trip /\ (m \in DOMAIN latch => latch[m] <= trip)

TripNumbers ==
  /\ watched \in Element /\ own \in BOOLEAN
  /\ trip \in 0..MaxMeter
  /\ \A m \in Meter : meter[m] \in 0..MaxMeter
  /\ \A m \in DOMAIN latch : latch[m] \in 0..MaxMeter
  /\ pit = "idle" => DOMAIN latch = {}

DistanceOK == Watching /\ pend \notin Zeroing => NotAhead("distance")

PictureOK ==
  watched = "bypass" =>
    /\ picture \in 3..6 /\ pend \notin {"Flag.picture", "distance_picture"}
         => NotAhead("distance_picture")
    /\ pend = "Flag.picture" => trip > BypassLen

(* In the stages 2 and 3 the yaw error is the roundabout's own, but in the *)
(* frame that has just begun it.                                           *)
OwnOK ==
  /\ pend = "Huandao_R" => side = "R" /\ <<"R", "gone">> \in see
  /\ watched = "gate" /\ pc = "stage" /\ Huandao[side] \in {2, 3} =>
       \/ own
       \/ Huandao[side] = 2 /\ <<side, "gone">> \in see
       \/ Huandao[side] = 3 /\ (<<"road", "near">> \in see \/ Broken(side))

TripInv == TripNumbers /\ DistanceOK /\ PictureOK /\ OwnOK

(* The odometer after a tick: no shorter, in the same order, in its range. *)
LEMMA ClampKeepsOrder ==
  ASSUME NEW x \in 0..MaxMeter, NEW y \in 0..MaxMeter, x <= y, NEW d \in Nat
  PROVE  /\ Clamp(x + d) \in 0..MaxMeter /\ Clamp(x + d) <= Clamp(y + d)
         /\ x <= Clamp(x + d)
BY LengthsAssumption DEF Clamp

(* A step of the main thread zeroes an odometer or leaves it; below a      *)
(* real-time timer thread it meets no tick under way.                      *)
LEMMA MainThread ==
  ASSUME TypeOK, Frame \/ SecondWrite
  PROVE  /\ RealTime => pit = "idle"
         /\ UNCHANGED <<pit, latch>>
         /\ \A m \in Meter : meter'[m] \in {0, meter[m]}
<1> USE DEF Here, MainRuns, TypeOK, Meter
<1>1. CASE KeyScan
  BY <1>1 DEF KeyScan
<1>2. CASE NoFrame
  BY <1>2 DEF NoFrame
<1>3. CASE Capture
  BY <1>3 DEF Capture
<1>4. CASE ZebraNext
  BY <1>4 DEF ZebraNext
<1>5. CASE ZebraDone
  BY <1>5 DEF ZebraDone
<1>6. CASE RampNext
  BY <1>6 DEF RampNext
<1>7. CASE RampDone
  BY <1>7 DEF RampDone
<1>8. CASE EnterHuandao
  BY <1>8 DEF EnterHuandao
<1>9. CASE StageNext
  BY <1>9 DEF StageNext
<1>10. CASE StageOneRight
  BY <1>10 DEF StageOneRight
<1>11. CASE StageDone
  BY <1>11 DEF StageDone
<1>12. CASE RedBlockSeen
  BY <1>12 DEF RedBlockSeen
<1>13. CASE Classified
  BY <1>13 DEF Classified
<1>14. CASE BypassNext
  BY <1>14 DEF BypassNext
<1>15. CASE PictureDone
  BY <1>15 DEF PictureDone
<1>16. CASE Launch
  BY <1>16 DEF Launch
<1>17. CASE StopAtLine
  BY <1>17 DEF StopAtLine
<1>18. CASE ZeroDistance
  BY <1>18 DEF ZeroDistance
<1>19. CASE EnterRight
  BY <1>19 DEF EnterRight
<1>20. CASE LeaveBypass
  BY <1>20 DEF LeaveBypass
<1>21. CASE ZeroPicture
  BY <1>21 DEF ZeroPicture
<1> QED
  BY <1>1, <1>2, <1>3, <1>4, <1>5, <1>6, <1>7, <1>8, <1>9, <1>10, <1>11, <1>12, <1>13, <1>14, <1>15, <1>16, <1>17, <1>18, <1>19, <1>20, <1>21 DEF Frame, SecondWrite

(* How the stages that read `distance` begin: by zeroing it, at once or    *)
(* with the next write, but for the run-out and the first part of a ramp.  *)
InGate == pend = "Huandao_R" \/ \E s \in Side : Huandao[s] >= 2

LEMMA DistanceSteps ==
  ASSUME IInv, Frame \/ SecondWrite
  PROVE  /\ pend \in Zeroing => meter'["distance"] = 0
         /\ pend' \in Zeroing \/ ramp' # 3 \/ ramp = 3
         /\ GateBegins => pend' \in Zeroing \/ meter'["distance"] = 0
         /\ InGate' => InGate \/ GateBegins
<1> TypeOK /\ PlaceOK /\ OneRoundabout
  BY DEF IInv
<1> USE DEF Here, TypeOK, PlaceOK, OneRoundabout, Meter, Zeroing, GateBegins, InGate
<1>1. CASE KeyScan
  BY <1>1 DEF KeyScan
<1>2. CASE NoFrame
  BY <1>2 DEF NoFrame
<1>3. CASE Capture
  BY <1>3 DEF Capture
<1>4. CASE ZebraNext
  BY <1>4 DEF ZebraNext, ZebraMoves
<1>5. CASE ZebraDone
  BY <1>5 DEF ZebraDone
<1>6. CASE RampNext
  BY <1>6 DEF RampNext, RampMoves
<1>7. CASE RampDone
  BY <1>7 DEF RampDone
<1>8. CASE EnterHuandao
  BY <1>8 DEF EnterHuandao
<1>9. CASE StageNext
  BY <1>9 DEF StageNext, StageMoves
<1>10. CASE StageOneRight
  BY <1>10 DEF StageOneRight, RightStageOne
<1>11. CASE StageDone
  BY <1>11 DEF StageDone
<1>12. CASE RedBlockSeen
  BY <1>12 DEF RedBlockSeen
<1>13. CASE Classified
  BY <1>13 DEF Classified
<1>14. CASE BypassNext
  BY <1>14 DEF BypassNext
<1>15. CASE PictureDone
  BY <1>15 DEF PictureDone
<1>16. CASE Launch
  BY <1>16 DEF Launch
<1>17. CASE StopAtLine
  BY <1>17 DEF StopAtLine
<1>18. CASE ZeroDistance
  BY <1>18 DEF ZeroDistance
<1>19. CASE EnterRight
  BY <1>19 DEF EnterRight
<1>20. CASE LeaveBypass
  BY <1>20 DEF LeaveBypass
<1>21. CASE ZeroPicture
  BY <1>21 DEF ZeroPicture
<1> QED
  BY <1>1, <1>2, <1>3, <1>4, <1>5, <1>6, <1>7, <1>8, <1>9, <1>10, <1>11, <1>12, <1>13, <1>14, <1>15, <1>16, <1>17, <1>18, <1>19, <1>20, <1>21 DEF Frame, SecondWrite

(* How a picture's stages begin and end: past the threshold, its odometer  *)
(* zeroed before the flag changes and after.                               *)
LEMMA PictureSteps ==
  ASSUME IInv, PictureMeterClean, Frame \/ SecondWrite
  PROVE  /\ pend = "distance_picture" => meter'["distance_picture"] = 0
         /\ pend = "Flag.picture" => pend' = "distance_picture"
         /\ picture' # picture /\ picture' \in 3..6 =>
              pend' = "distance_picture" \/ meter'["distance_picture"] = 0
         /\ picture' # picture /\ picture \in 3..6 => pend = "Flag.picture"
         /\ pend' = "Flag.picture" =>
              /\ pend = "none" /\ picture \in 3..6 /\ picture' = picture
              /\ meter["distance_picture"] > BypassLen
<1> TypeOK /\ PlaceOK
  BY DEF IInv
<1> USE DEF Here, TypeOK, PlaceOK, Meter, PictureMeterClean
<1>1. CASE KeyScan
  BY <1>1 DEF KeyScan
<1>2. CASE NoFrame
  BY <1>2 DEF NoFrame
<1>3. CASE Capture
  BY <1>3 DEF Capture
<1>4. CASE ZebraNext
  BY <1>4 DEF ZebraNext, ZebraMoves
<1>5. CASE ZebraDone
  BY <1>5 DEF ZebraDone
<1>6. CASE RampNext
  BY <1>6 DEF RampNext, RampMoves
<1>7. CASE RampDone
  BY <1>7 DEF RampDone
<1>8. CASE EnterHuandao
  BY <1>8 DEF EnterHuandao
<1>9. CASE StageNext
  BY <1>9 DEF StageNext, StageMoves
<1>10. CASE StageOneRight
  BY <1>10 DEF StageOneRight
<1>11. CASE StageDone
  BY <1>11 DEF StageDone
<1>12. CASE RedBlockSeen
  BY <1>12 DEF RedBlockSeen
<1>13. CASE Classified
  BY <1>13 DEF Classified
<1>14. CASE BypassNext
  BY <1>14 DEF BypassNext, BypassOver
<1>15. CASE PictureDone
  BY <1>15 DEF PictureDone
<1>16. CASE Launch
  BY <1>16 DEF Launch
<1>17. CASE StopAtLine
  BY <1>17 DEF StopAtLine
<1>18. CASE ZeroDistance
  BY <1>18 DEF ZeroDistance
<1>19. CASE EnterRight
  BY <1>19 DEF EnterRight
<1>20. CASE LeaveBypass
  BY <1>20 DEF LeaveBypass
<1>21. CASE ZeroPicture
  BY <1>21 DEF ZeroPicture
<1> QED
  BY <1>1, <1>2, <1>3, <1>4, <1>5, <1>6, <1>7, <1>8, <1>9, <1>10, <1>11, <1>12, <1>13, <1>14, <1>15, <1>16, <1>17, <1>18, <1>19, <1>20, <1>21 DEF Frame, SecondWrite

(* The guards under which the watched stages end.                          *)
LEMMA EndsOfStages ==
  ASSUME IInv, Frame \/ SecondWrite
  PROVE  /\ Zebra_cross = 4 /\ Zebra_cross' = 5 =>
              pend = "none" /\ meter["distance"] > StopLen
         /\ ramp = 2 /\ ramp' = 3 => pend = "none" /\ meter["distance"] > ClimbLen
         /\ ramp = 3 /\ ramp' = 0 => pend = "none" /\ meter["distance"] > RampLen
         /\ \A s \in Side :
              /\ Huandao[s] = 2 /\ Huandao'[s] = 3 =>
                   /\ pend = "none"
                   /\ meter["distance"] > GateLen \/ <<"road", "near">> \in see
              /\ Huandao[s] = 3 /\ Huandao'[s] = 4 => pc = "stage" /\ side = s
              /\ Huandao[s] = 6 /\ Huandao'[s] = 0 =>
                   StraightRoad \/ (pend = "none" /\ meter["distance"] >= GateLen)
<1> TypeOK /\ PlaceOK
  BY DEF IInv
<1> USE DEF Here, TypeOK, PlaceOK, Meter
<1>1. CASE KeyScan
  BY <1>1 DEF KeyScan
<1>2. CASE NoFrame
  BY <1>2 DEF NoFrame
<1>3. CASE Capture
  BY <1>3 DEF Capture
<1>4. CASE ZebraNext
  BY <1>4 DEF ZebraNext, ZebraMoves
<1>5. CASE ZebraDone
  BY <1>5 DEF ZebraDone
<1>6. CASE RampNext
  BY <1>6 DEF RampNext, RampMoves
<1>7. CASE RampDone
  BY <1>7 DEF RampDone
<1>8. CASE EnterHuandao
  BY <1>8 DEF EnterHuandao
<1>9. CASE StageNext
  BY <1>9 DEF StageNext, StageMoves, InsideSeen, OutSeen
<1>10. CASE StageOneRight
  BY <1>10 DEF StageOneRight
<1>11. CASE StageDone
  <2>1. \/ Huandao' = Huandao
        \/ StraightRoad /\ Huandao' = [Huandao EXCEPT ![side] = 0]
    BY <1>11 DEF StageDone
  <2>2. UNCHANGED <<Zebra_cross, ramp>>
    BY <1>11 DEF StageDone
  <2>3. CASE Huandao' = Huandao
    BY <2>2, <2>3
  <2>4. CASE StraightRoad /\ Huandao' = [Huandao EXCEPT ![side] = 0]
    BY <2>2, <2>4
  <2> QED
    BY <2>1, <2>3, <2>4
<1>12. CASE RedBlockSeen
  BY <1>12 DEF RedBlockSeen
<1>13. CASE Classified
  BY <1>13 DEF Classified
<1>14. CASE BypassNext
  BY <1>14 DEF BypassNext
<1>15. CASE PictureDone
  BY <1>15 DEF PictureDone
<1>16. CASE Launch
  BY <1>16 DEF Launch
<1>17. CASE StopAtLine
  BY <1>17 DEF StopAtLine
<1>18. CASE ZeroDistance
  BY <1>18 DEF ZeroDistance
<1>19. CASE EnterRight
  BY <1>19 DEF EnterRight
<1>20. CASE LeaveBypass
  BY <1>20 DEF LeaveBypass
<1>21. CASE ZeroPicture
  BY <1>21 DEF ZeroPicture
<1> QED
  BY <1>1, <1>2, <1>3, <1>4, <1>5, <1>6, <1>7, <1>8, <1>9, <1>10, <1>11, <1>12, <1>13, <1>14, <1>15, <1>16, <1>17, <1>18, <1>19, <1>20, <1>21 DEF Frame, SecondWrite

LEMMA TripStart == TInit => TripInv
<1> SUFFICES ASSUME TInit PROVE TripInv
  OBVIOUS
<1> USE DEF TInit, Init, Meter
<1>1. DOMAIN latch = {}
  OBVIOUS
<1>2. TripNumbers
  <2>1. 0 \in 0..MaxMeter /\ trip = 0 /\ (\A m \in Meter : meter[m] = 0)
    BY LengthsAssumption
  <2>2. watched \in Element /\ own \in BOOLEAN
    OBVIOUS
  <2> QED
    BY <1>1, <2>1, <2>2, Zenon DEF TripNumbers
<1>3. DistanceOK /\ PictureOK /\ OwnOK
  BY DEF DistanceOK, Watching, PictureOK, OwnOK
<1> QED
  BY <1>2, <1>3 DEF TripInv

(* A tick under way, and its end.                                          *)
LEMMA TripTick ==
  ASSUME IInv, TripInv, NEW d \in Steps, Drive(d)
  PROVE  TripInv'
<1> d \in Nat
  BY ForwardAssumption
<1> USE DEF TripNumbers, Drive, TickRead, main
<1>1. TripNumbers /\ DistanceOK /\ PictureOK /\ OwnOK
  BY DEF TripInv
<1>2. trip' \in 0..MaxMeter /\ trip <= trip'
  BY <1>1, ClampKeepsOrder
<1>3. \A m \in DOMAIN latch' :
        /\ m \in Meter /\ latch'[m] \in 0..MaxMeter
        /\ meter[m] <= trip => latch'[m] <= trip'
  <2> TAKE m \in DOMAIN latch'
  <2>1. m \in Meter /\ latch'[m] = Clamp(meter[m] + d)
    BY DEF Counting
  <2> QED
    BY <1>1, <2>1, ClampKeepsOrder
<1>4. TripNumbers'
  BY <1>1, <1>2, <1>3
<1>5. ASSUME NEW m \in Meter, NotAhead(m) PROVE NotAhead(m)'
  BY <1>1, <1>2, <1>3, <1>5 DEF NotAhead
<1>6. DistanceOK' /\ PictureOK' /\ OwnOK'
  BY <1>1, <1>2, <1>5, LengthsAssumption
  DEF DistanceOK, Watching, PictureOK, OwnOK, Broken, Meter
<1> QED
  BY <1>4, <1>6 DEF TripInv

LEMMA TripTickWrite ==
  ASSUME IInv, TripInv, TickWrite, Think
  PROVE  TripInv'
<1>1. TripNumbers /\ DistanceOK /\ PictureOK /\ OwnOK
  BY DEF TripInv
<1>2. ~Begins /\ ~Entered /\ ~Measured
  <2> UNCHANGED main
    BY DEF TickWrite
  <2>1. ~GateBegins /\ ~Entered /\ ~Measured
    BY DEF main, GateBegins, Entered, Measured
  <2>2. ~Begins
    BY <1>1, <2>1 DEF main, Begins, TripNumbers, Element
  <2> QED
    BY <2>1, <2>2
<1>3. UNCHANGED <<main, watched, trip>> /\ (own' <=> watched = "gate" /\ own)
  BY <1>2 DEF TickWrite, Think
<1>4. TripNumbers'
  BY <1>1, <1>3 DEF TickWrite, Think, TripNumbers, Meter
<1>5. ASSUME NEW m \in Meter, NotAhead(m) PROVE NotAhead(m)'
  BY <1>5, <1>3 DEF TickWrite, NotAhead
<1>6. DistanceOK' /\ PictureOK'
  BY <1>1, <1>3, <1>5 DEF DistanceOK, PictureOK, Watching, main, Meter
<1>7. OwnOK'
  BY <1>1, <1>3 DEF OwnOK, main, Broken
<1> QED
  BY <1>4, <1>6, <1>7 DEF TripInv

LEMMA TripMain ==
  ASSUME RealTime, IInv, IInv', PictureMeterClean, TripInv, Frame \/ SecondWrite, Think
  PROVE  TripNumbers' /\ DistanceOK' /\ PictureOK'
<1>1. TripNumbers /\ DistanceOK /\ PictureOK
  BY DEF TripInv
<1>2. TypeOK /\ TypeOK'
  BY DEF IInv
<1>3. /\ pit = "idle" /\ UNCHANGED <<pit, latch>> /\ DOMAIN latch = {}
      /\ \A m \in Meter : meter'[m] \in {0, meter[m]}
  BY <1>1, <1>2, MainThread DEF TripNumbers
<1>4. /\ watched' = watched /\ own' \in BOOLEAN
      /\ trip' = IF Begins THEN Credit ELSE trip
  BY DEF Think
<1>5. Credit \in {0, meter["distance"]} /\ "distance" \in Meter /\ "distance_picture" \in Meter
  BY DEF Credit, Meter
<1>6. TripNumbers'
  BY <1>1, <1>3, <1>4, <1>5, LengthsAssumption DEF TripNumbers
<1>7. ASSUME NEW m \in Meter, meter'[m] <= trip' PROVE NotAhead(m)'
  BY <1>3, <1>7 DEF NotAhead
<1>8. DistanceOK'
  <2> SUFFICES ASSUME Watching', pend' \notin Zeroing, meter'["distance"] # 0
               PROVE  meter["distance"] <= trip'
    BY <1>3, <1>5, <1>6, <1>7 DEF DistanceOK, TripNumbers
  <2>1. pend \notin Zeroing /\ ~(watched = "gate" /\ GateBegins)
    BY DistanceSteps
  <2>2. CASE Begins
    <3>1. \/ watched = "line" /\ Zebra_cross' = 4
          \/ watched = "ramp" /\ ramp' # 0 /\ ramp' # ramp
      BY <1>4, <2>1, <2>2 DEF Watching, Begins
    <3>2. Credit = meter["distance"]
      BY <1>2, <3>1, DistanceSteps DEF Credit, TypeOK
    <3> QED
      BY <1>1, <1>4, <1>5, <2>2, <3>2 DEF TripNumbers
  <2>3. CASE ~Begins
    <3>1. Watching
      BY <1>4, <2>1, <2>3, DistanceSteps DEF Watching, Begins, InGate
    <3> QED
      BY <1>1, <1>4, <2>1, <2>3, <3>1 DEF DistanceOK, NotAhead
  <2> QED
    BY <2>2, <2>3
<1>9. PictureOK'
  <2> SUFFICES ASSUME watched = "bypass" PROVE PictureOK'
    BY <1>4 DEF PictureOK
  <2>1. Begins <=> picture' # picture
    BY DEF Begins
  <2>2. ASSUME picture' \in 3..6, pend' \notin {"Flag.picture", "distance_picture"},
               meter'["distance_picture"] # 0
        PROVE  meter["distance_picture"] <= trip'
    <3>1. pend \notin {"Flag.picture", "distance_picture"} /\ picture' = picture
      BY <2>2, PictureSteps
    <3> QED
      BY <1>1, <1>4, <2>1, <2>2, <3>1 DEF PictureOK, NotAhead
  <2>3. ASSUME pend' = "Flag.picture" PROVE trip' > BypassLen
    <3>1. /\ pend = "none" /\ picture \in 3..6 /\ picture' = picture
          /\ meter["distance_picture"] > BypassLen
      BY <2>3, PictureSteps
    <3> QED
      BY <1>1, <1>4, <1>5, <2>1, <3>1, LengthsAssumption
      DEF PictureOK, NotAhead, TripNumbers
  <2> QED
    BY <1>3, <1>4, <1>5, <1>6, <1>7, <2>2, <2>3 DEF PictureOK, TripNumbers
<1> QED
  BY <1>6, <1>8, <1>9

(* How a handler comes to the stages 2 and 3: from the measurement of the  *)
(* yaw error in this frame, or from the stage before in this same frame.   *)
LEMMA StageSteps ==
  ASSUME IInv, pend = "Huandao_R" => side = "R" /\ <<"R", "gone">> \in see,
         Frame \/ SecondWrite
  PROVE  /\ pend' = "Huandao_R" => side' = "R" /\ <<"R", "gone">> \in see'
         /\ pc' = "stage" /\ Huandao'[side'] \in {2, 3} =>
              /\ ~Entered
              /\ \/ Measured
                 \/ /\ pc = "stage" /\ side' = side /\ see' = see
                    /\ \/ Huandao'[side] = Huandao[side]
                       \/ Huandao'[side] = 2 /\ <<side, "gone">> \in see
                       \/ /\ Huandao[side] = 2 /\ Huandao'[side] = 3
                          /\ \/ {<<side, "back">>, <<side, "high">>} \subseteq see
                             \/ <<"road", "near">> \in see
<1> TypeOK /\ PlaceOK /\ OneRoundabout
  BY DEF IInv
<1> USE DEF Here, TypeOK, PlaceOK, Entered, Measured
<1>1. CASE KeyScan
  BY <1>1 DEF KeyScan
<1>2. CASE NoFrame
  BY <1>2 DEF NoFrame
<1>3. CASE Capture
  BY <1>3 DEF Capture
<1>4. CASE ZebraNext
  BY <1>4 DEF ZebraNext, ZebraMoves
<1>5. CASE ZebraDone
  BY <1>5 DEF ZebraDone
<1>6. CASE RampNext
  BY <1>6 DEF RampNext, RampMoves
<1>7. CASE RampDone
  BY <1>7 DEF RampDone
<1>8. CASE EnterHuandao
  BY <1>8 DEF EnterHuandao, MayEnter, NextHandler, EndFrame
<1>9. CASE StageNext
  BY <1>9 DEF StageNext, StageMoves, InsideSeen, Beside
<1>10. CASE StageOneRight
  BY <1>10 DEF StageOneRight, RightStageOne, Beside
<1>11. CASE StageDone
  BY <1>11 DEF StageDone, NextHandler, EndFrame
<1>12. CASE RedBlockSeen
  BY <1>12 DEF RedBlockSeen
<1>13. CASE Classified
  BY <1>13 DEF Classified
<1>14. CASE BypassNext
  BY <1>14 DEF BypassNext
<1>15. CASE PictureDone
  BY <1>15 DEF PictureDone, EndFrame
<1>16. CASE Launch
  BY <1>16 DEF Launch
<1>17. CASE StopAtLine
  BY <1>17 DEF StopAtLine
<1>18. CASE ZeroDistance
  BY <1>18 DEF ZeroDistance
<1>19. CASE EnterRight
  BY <1>19 DEF EnterRight
<1>20. CASE LeaveBypass
  BY <1>20 DEF LeaveBypass, EndFrame
<1>21. CASE ZeroPicture
  BY <1>21 DEF ZeroPicture
<1> QED
  BY <1>1, <1>2, <1>3, <1>4, <1>5, <1>6, <1>7, <1>8, <1>9, <1>10, <1>11, <1>12, <1>13, <1>14, <1>15, <1>16, <1>17, <1>18, <1>19, <1>20, <1>21 DEF Frame, SecondWrite

LEMMA OwnStep ==
  ASSUME IInv, TripInv, Frame \/ SecondWrite, Think
  PROVE  OwnOK'
<1>1. OwnOK
  BY DEF TripInv
<1>2. pend' = "Huandao_R" => side' = "R" /\ <<"R", "gone">> \in see'
  BY <1>1, StageSteps DEF OwnOK
<1>3. SUFFICES ASSUME watched = "gate", pc' = "stage", Huandao'[side'] \in {2, 3}, ~own'
               PROVE  \/ Huandao'[side'] = 2 /\ <<side', "gone">> \in see'
                      \/ /\ Huandao'[side'] = 3
                         /\ <<"road", "near">> \in see' \/ Broken(side)'
  BY <1>2 DEF OwnOK, Think
<1>4. ~own /\ ~Measured
  BY <1>1, <1>3, StageSteps DEF Think, OwnOK
<1>5. /\ pc = "stage" /\ side' = side /\ see' = see
      /\ \/ Huandao'[side] = Huandao[side]
         \/ Huandao'[side] = 2 /\ <<side, "gone">> \in see
         \/ /\ Huandao[side] = 2 /\ Huandao'[side] = 3
            /\ \/ {<<side, "back">>, <<side, "high">>} \subseteq see
               \/ <<"road", "near">> \in see
  BY <1>1, <1>3, <1>4, StageSteps DEF OwnOK
<1>6. Huandao[side] \in {2, 3} =>
        \/ Huandao[side] = 2 /\ <<side, "gone">> \in see
        \/ Huandao[side] = 3 /\ (<<"road", "near">> \in see \/ Broken(side))
  BY <1>1, <1>3, <1>4, <1>5 DEF OwnOK
<1> QED
  BY <1>3, <1>5, <1>6 DEF Broken

LEMMA TripStep ==
  ASSUME RealTime, IInv, IInv', PictureMeterClean, TripInv, [TNext]_tvars
  PROVE  TripInv'
<1>1. CASE Think /\ (Frame \/ SecondWrite)
  BY <1>1, TripMain, OwnStep DEF TripInv
<1>2. CASE Think /\ TickWrite
  BY <1>2, TripTickWrite
<1>3. CASE \E d \in Steps : Drive(d)
  BY <1>3, TripTick
<1>4. CASE UNCHANGED tvars
  BY <1>4 DEF tvars, vars, main, TripInv, TripNumbers, DistanceOK, Watching, PictureOK,
              OwnOK, NotAhead, Broken
<1> QED
  BY <1>1, <1>2, <1>3, <1>4 DEF TNext, Think

(* What holds of TrackElements holds of TrackTrip, which only watches.     *)
LEMMA TripWatches == TSpec => Spec
<1>1. TInit => Init
  BY DEF TInit
<1>2. [TNext]_tvars => [Next]_vars
  BY DEF TNext, Think, Drive, Next, tvars
<1> QED
  BY <1>1, <1>2, PTL DEF TSpec, Spec

LEMMA TripInductive == RealTime => (TSpec => [](IInv /\ PictureMeterClean /\ TripInv))
<1> SUFFICES ASSUME RealTime PROVE TSpec => [](IInv /\ PictureMeterClean /\ TripInv)
  OBVIOUS
<1>1. IInv /\ IInv' /\ PictureMeterClean /\ TripInv /\ [TNext]_tvars => TripInv'
  BY TripStep
<1> QED
  BY <1>1, TripStart, TripWatches, Inductive, PictureMeterHolds, PTL DEF TSpec

(* Only a step of the main thread ends a stage; the travel is at least     *)
(* what its odometer shows.                                                *)
LEMMA EndsAreMainSteps ==
  ASSUME IInv, TripInv, [TNext]_tvars,
         <<Zebra_cross, ramp, picture, Huandao>>' # <<Zebra_cross, ramp, picture, Huandao>>
  PROVE  Frame \/ SecondWrite
BY DEF TNext, Think, Drive, TickRead, TickWrite, main, tvars, vars

LEMMA TravelCovers ==
  ASSUME TripInv, Watching, pend = "none" PROVE meter["distance"] <= trip
BY DEF TripInv, DistanceOK, NotAhead, Zeroing

LEMMA TripTypes == ASSUME IInv, TripInv
                   PROVE  trip \in Int /\ meter \in [Meter -> Int] /\ own \in BOOLEAN
BY DEF IInv, TypeOK, TripInv, TripNumbers

(* With a real-time timer thread and a car that does not roll back, the    *)
(* stop comes no sooner than StopLen behind the line, for any lengths.     *)
THEOREM StopsPastLineHolds == RealTime => (TSpec => StopsPastLine)
<1> SUFFICES ASSUME RealTime PROVE TSpec => StopsPastLine
  OBVIOUS
<1>1. IInv /\ TripInv /\ [TNext]_tvars =>
        [watched = "line" /\ Zebra_cross = 4 /\ Zebra_cross' = 5 => trip > StopLen]_tvars
  <2> SUFFICES ASSUME IInv, TripInv, [TNext]_tvars,
                      watched = "line", Zebra_cross = 4, Zebra_cross' = 5
               PROVE  trip > StopLen
    OBVIOUS
  <2>1. pend = "none" /\ meter["distance"] > StopLen
    BY EndsAreMainSteps, EndsOfStages
  <2>2. meter["distance"] <= trip
    BY <2>1, TravelCovers DEF Watching
  <2> QED
    BY <2>1, <2>2, TripTypes, LengthsAssumption DEF Meter
<1> QED
  BY <1>1, TripInductive, PTL DEF TSpec, StopsPastLine

(* Neither part of a ramp ends before its length has been travelled,       *)
(* whatever the roundabouts and the line do to the odometer.               *)
THEOREM RampHasItsLengthHolds == RealTime => (TSpec => RampHasItsLength)
<1> SUFFICES ASSUME RealTime PROVE TSpec => RampHasItsLength
  OBVIOUS
<1>1. IInv /\ TripInv /\ [TNext]_tvars =>
        [watched = "ramp" => /\ ramp = 2 /\ ramp' = 3 => trip > ClimbLen
                             /\ ramp = 3 /\ ramp' = 0 => trip > RampLen]_tvars
  <2> SUFFICES ASSUME IInv, TripInv, [TNext]_tvars, watched = "ramp"
               PROVE  /\ ramp = 2 /\ ramp' = 3 => trip > ClimbLen
                      /\ ramp = 3 /\ ramp' = 0 => trip > RampLen
    OBVIOUS
  <2>1. ASSUME NEW len \in Int, ramp # 0, pend = "none", meter["distance"] > len
        PROVE  trip > len
    BY <2>1, TravelCovers, TripTypes DEF Watching, Meter
  <2> QED
    BY <2>1, EndsAreMainSteps, EndsOfStages, LengthsAssumption
<1> QED
  BY <1>1, TripInductive, PTL DEF TSpec, RampHasItsLength

(* The gates inside a roundabout hold, for every picture the camera shows. *)
THEOREM GatesHoldHolds == RealTime => (TSpec => GatesHold)
<1> SUFFICES ASSUME RealTime PROVE TSpec => GatesHold
  OBVIOUS
<1> DEFINE Gates ==
      watched = "gate" =>
        \A s \in Side :
          /\ Huandao[s] = 2 /\ Huandao'[s] = 3 =>
               trip > GateLen \/ <<"road", "near">> \in see
          /\ Huandao[s] = 3 /\ Huandao'[s] = 4 =>
               own \/ <<"road", "near">> \in see \/ Broken(s)
          /\ Huandao[s] = 6 /\ Huandao'[s] = 0 =>
               trip >= GateLen \/ StraightRoad
<1>1. IInv /\ TripInv /\ [TNext]_tvars => [Gates]_tvars
  <2> SUFFICES ASSUME IInv, TripInv, [TNext]_tvars, watched = "gate", NEW s \in Side
               PROVE  /\ Huandao[s] = 2 /\ Huandao'[s] = 3 =>
                           trip > GateLen \/ <<"road", "near">> \in see
                      /\ Huandao[s] = 3 /\ Huandao'[s] = 4 =>
                           own \/ <<"road", "near">> \in see \/ Broken(s)
                      /\ Huandao[s] = 6 /\ Huandao'[s] = 0 =>
                           trip >= GateLen \/ StraightRoad
    OBVIOUS
  <2>1. ASSUME Huandao[s] >= 2, pend = "none" PROVE meter["distance"] <= trip
    BY <2>1, TravelCovers DEF Watching
  <2>2. ASSUME Huandao[s] = 2, Huandao'[s] = 3
        PROVE  trip > GateLen \/ <<"road", "near">> \in see
    <3>1. pend = "none" /\ (meter["distance"] > GateLen \/ <<"road", "near">> \in see)
      BY <2>2, EndsAreMainSteps, EndsOfStages
    <3> QED
      BY <2>1, <2>2, <3>1, TripTypes, LengthsAssumption DEF Meter
  <2>3. ASSUME Huandao[s] = 3, Huandao'[s] = 4
        PROVE  own \/ <<"road", "near">> \in see \/ Broken(s)
    <3>1. pc = "stage" /\ side = s
      BY <2>3, EndsAreMainSteps, EndsOfStages
    <3> QED
      BY <2>3, <3>1 DEF TripInv, OwnOK
  <2>4. ASSUME Huandao[s] = 6, Huandao'[s] = 0
        PROVE  trip >= GateLen \/ StraightRoad
    <3>1. StraightRoad \/ (pend = "none" /\ meter["distance"] >= GateLen)
      BY <2>4, EndsAreMainSteps, EndsOfStages
    <3>2. CASE pend = "none" /\ meter["distance"] >= GateLen
      BY <2>1, <2>4, <3>2, TripTypes, LengthsAssumption DEF Meter
    <3> QED
      BY <3>1, <3>2
  <2> QED
    BY <2>2, <2>3, <2>4
<1> QED
  BY <1>1, TripInductive, PTL DEF TSpec, GatesHold

(* Each part of the way round a picture is longer than BypassLen.          *)
THEOREM BypassHasItsLengthHolds == RealTime => (TSpec => BypassHasItsLength)
<1> SUFFICES ASSUME RealTime PROVE TSpec => BypassHasItsLength
  OBVIOUS
<1>1. IInv /\ PictureMeterClean /\ TripInv /\ [TNext]_tvars =>
        [watched = "bypass" /\ picture # picture' /\ picture \in 3..6
           => trip > BypassLen]_tvars
  <2> SUFFICES ASSUME IInv, PictureMeterClean, TripInv, [TNext]_tvars,
                      watched = "bypass", picture # picture', picture \in 3..6
               PROVE  trip > BypassLen
    OBVIOUS
  <2>1. pend = "Flag.picture"
    BY EndsAreMainSteps, PictureSteps
  <2> QED
    BY <2>1 DEF TripInv, PictureOK
<1> QED
  BY <1>1, TripInductive, PTL DEF TSpec, BypassHasItsLength
-----------------------------------------------------------------------------
(* What the ends of the elements rest on, with any priority of the timer   *)
(* thread.  A class found, or asked for, belongs to the red block ahead.   *)
NoStaleVerdict == infer = 1 \/ verdict # "none" => picture = 2

LEMMA VerdictStep == IInv /\ NoStaleVerdict /\ [Next]_vars => NoStaleVerdict'
<1> SUFFICES ASSUME IInv, NoStaleVerdict, [Next]_vars PROVE NoStaleVerdict'
  OBVIOUS
<1> USE DEF IInv, TypeOK, PlaceOK, NoStaleVerdict, Here
<1>1. CASE KeyScan
  BY <1>1 DEF KeyScan
<1>2. CASE NoFrame
  BY <1>2 DEF NoFrame
<1>3. CASE Capture
  BY <1>3 DEF Capture, Classify
<1>4. CASE ZebraNext
  BY <1>4 DEF ZebraNext
<1>5. CASE ZebraDone
  BY <1>5 DEF ZebraDone
<1>6. CASE RampNext
  BY <1>6 DEF RampNext
<1>7. CASE RampDone
  BY <1>7 DEF RampDone
<1>8. CASE EnterHuandao
  BY <1>8 DEF EnterHuandao
<1>9. CASE StageNext
  BY <1>9 DEF StageNext
<1>10. CASE StageOneRight
  BY <1>10 DEF StageOneRight
<1>11. CASE StageDone
  BY <1>11 DEF StageDone
<1>12. CASE RedBlockSeen
  BY <1>12 DEF RedBlockSeen
<1>13. CASE Classified
  BY <1>13 DEF Classified
<1>14. CASE BypassNext
  BY <1>14 DEF BypassNext
<1>15. CASE PictureDone
  BY <1>15 DEF PictureDone, EndFrame
<1>16. CASE Launch
  BY <1>16 DEF Launch
<1>17. CASE StopAtLine
  BY <1>17 DEF StopAtLine
<1>18. CASE ZeroDistance
  BY <1>18 DEF ZeroDistance
<1>19. CASE EnterRight
  BY <1>19 DEF EnterRight
<1>20. CASE LeaveBypass
  BY <1>20 DEF LeaveBypass, EndFrame
<1>21. CASE ZeroPicture
  BY <1>21 DEF ZeroPicture
<1>22. CASE \E d \in Steps : TickRead(d)
  BY <1>22 DEF TickRead, main
<1>23. CASE TickWrite
  BY <1>23 DEF TickWrite, main
<1>24. CASE UNCHANGED vars
  BY <1>24 DEF vars, main
<1> QED
  BY NextCases, <1>1, <1>2, <1>3, <1>4, <1>5, <1>6, <1>7, <1>8, <1>9, <1>10, <1>11, <1>12, <1>13, <1>14, <1>15, <1>16, <1>17, <1>18, <1>19, <1>20, <1>21, <1>22, <1>23, <1>24

(* The class of one red block never chooses the side on which the next is  *)
(* passed: neither a verdict nor a request for one outlives picture = 2.   *)
THEOREM NoStaleVerdictHolds == Spec => []NoStaleVerdict
<1>1. Init => NoStaleVerdict
  BY DEF Init, NoStaleVerdict
<1> QED
  BY <1>1, VerdictStep, Inductive, PTL DEF Spec

(* The timer thread stores no less than it read, even if the main thread   *)
(* zeroed the odometer in between.                                         *)
MetersGrow ==
  \A m \in Meter :
    /\ meter[m] \in 0..MaxMeter
    /\ m \in DOMAIN latch => latch[m] \in 0..MaxMeter /\ meter[m] <= latch[m]

LEMMA MetersGrowStep == TypeOK /\ MetersGrow /\ [Next]_vars => MetersGrow'
<1> SUFFICES ASSUME TypeOK, MetersGrow, [Next]_vars PROVE MetersGrow'
  OBVIOUS
<1>1. CASE Frame \/ SecondWrite
  BY <1>1, MainThread, LengthsAssumption DEF MetersGrow
<1>2. ASSUME NEW d \in Steps, TickRead(d) PROVE MetersGrow'
  <2>1. d \in Nat
    BY ForwardAssumption
  <2>2. meter' = meter /\ \A m \in DOMAIN latch' : latch'[m] = Clamp(meter[m] + d)
    BY <1>2 DEF TickRead
  <2>3. ASSUME NEW m \in Meter
        PROVE  Clamp(meter[m] + d) \in 0..MaxMeter /\ meter[m] <= Clamp(meter[m] + d)
    BY <2>1, ClampKeepsOrder DEF MetersGrow
  <2> QED
    BY <2>2, <2>3 DEF MetersGrow
<1>3. CASE TickWrite
  BY <1>3 DEF TickWrite, MetersGrow, TypeOK
<1>4. CASE UNCHANGED vars
  BY <1>4 DEF vars, MetersGrow
<1> QED
  BY <1>1, <1>2, <1>3, <1>4 DEF Next

(* The stretches LineStops and RampEnds measure with `distance`.           *)
RunOut == Zebra_cross = 4 \/ ramp # 0

OdometerRunsOn ==
  [][OpenRoad /\ RunOut /\ pend \notin Zeroing /\ UNCHANGED <<Zebra_cross, ramp>>
       => pend' \notin Zeroing /\ meter'["distance"] >= meter["distance"]]_vars

LEMMA NobodyZeroes ==
  ASSUME IInv, Frame \/ SecondWrite, OpenRoad, RunOut, pend \notin Zeroing,
         UNCHANGED <<Zebra_cross, ramp>>
  PROVE  pend' \notin Zeroing /\ meter'["distance"] = meter["distance"]
<1> USE DEF IInv, TypeOK, RampOnlyOnCourse, PlaceOK, OpenRoad, RunOut, Zeroing, Here, Meter
<1>1. CASE KeyScan
  BY <1>1 DEF KeyScan
<1>2. CASE NoFrame
  BY <1>2 DEF NoFrame
<1>3. CASE Capture
  BY <1>3 DEF Capture
<1>4. CASE ZebraNext
  BY <1>4 DEF ZebraNext, ZebraMoves, FinishLineSeen
<1>5. CASE ZebraDone
  BY <1>5 DEF ZebraDone
<1>6. CASE RampNext
  BY <1>6 DEF RampNext, RampMoves
<1>7. CASE RampDone
  BY <1>7 DEF RampDone
<1>8. CASE EnterHuandao
  BY <1>8 DEF EnterHuandao
<1>9. CASE StageNext
  BY <1>9 DEF StageNext, StageMoves
<1>10. CASE StageOneRight
  BY <1>10 DEF StageOneRight, RightStageOne
<1>11. CASE StageDone
  BY <1>11 DEF StageDone
<1>12. CASE RedBlockSeen
  BY <1>12 DEF RedBlockSeen
<1>13. CASE Classified
  BY <1>13 DEF Classified
<1>14. CASE BypassNext
  BY <1>14 DEF BypassNext
<1>15. CASE PictureDone
  BY <1>15 DEF PictureDone
<1>16. CASE Launch
  BY <1>16 DEF Launch
<1>17. CASE StopAtLine
  BY <1>17 DEF StopAtLine
<1>18. CASE ZeroDistance
  BY <1>18 DEF ZeroDistance
<1>19. CASE EnterRight
  BY <1>19 DEF EnterRight
<1>20. CASE LeaveBypass
  BY <1>20 DEF LeaveBypass
<1>21. CASE ZeroPicture
  BY <1>21 DEF ZeroPicture
<1> QED
  BY <1>1, <1>2, <1>3, <1>4, <1>5, <1>6, <1>7, <1>8, <1>9, <1>10, <1>11, <1>12, <1>13, <1>14, <1>15, <1>16, <1>17, <1>18, <1>19, <1>20, <1>21 DEF Frame, SecondWrite

(* While the car runs out behind the line, or is on a ramp, on the open    *)
(* road, nothing takes back what `distance` has counted: no recogniser     *)
(* zeroes it and no late store of the timer thread makes it smaller, so    *)
(* that a car that moves reaches the threshold.                            *)
THEOREM OdometerRunsOnHolds == Spec => OdometerRunsOn
<1>1. Init => MetersGrow
  BY LengthsAssumption DEF Init, MetersGrow
<1>2. IInv /\ MetersGrow /\ [Next]_vars => MetersGrow'
  BY MetersGrowStep DEF IInv
<1>3. IInv /\ MetersGrow /\ [Next]_vars =>
        [OpenRoad /\ RunOut /\ pend \notin Zeroing /\ UNCHANGED <<Zebra_cross, ramp>>
           => pend' \notin Zeroing /\ meter'["distance"] >= meter["distance"]]_vars
  <2> SUFFICES ASSUME IInv, MetersGrow, [Next]_vars,
                      OpenRoad, RunOut, pend \notin Zeroing, UNCHANGED <<Zebra_cross, ramp>>
               PROVE  pend' \notin Zeroing /\ meter'["distance"] >= meter["distance"]
    OBVIOUS
  <2>0. meter["distance"] \in Int /\ meter["distance"] >= meter["distance"]
    BY DEF IInv, TypeOK, Meter
  <2>1. CASE Frame \/ SecondWrite
    BY <2>0, <2>1, NobodyZeroes
  <2>2. CASE \E d \in Steps : TickRead(d)
    BY <2>0, <2>2 DEF TickRead, main
  <2>3. CASE TickWrite
    BY <2>0, <2>3 DEF TickWrite, main, MetersGrow, Meter
  <2>4. CASE UNCHANGED vars
    BY <2>0, <2>4 DEF vars, main
  <2> QED
    BY <2>1, <2>2, <2>3, <2>4 DEF Next
<1> QED
  BY <1>1, <1>2, <1>3, Inductive, PTL DEF Spec, OdometerRunsOn
=============================================================================
