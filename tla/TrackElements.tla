--------------------------- MODULE TrackElements ---------------------------
(***************************************************************************)
(* The track-element state machines of image.cpp, run by the main thread   *)
(* once per camera frame (ImageDeal), and the odometers the 5 ms timer     *)
(* thread advances (distance_judge).  Four recognisers share one odometer, *)
(* `distance`, and the two threads share it without a lock.                *)
(*                                                                         *)
(* One frame is a sequence of steps of the main thread: zebra_corssing,    *)
(* ramp, Huandao_R_imu, Huandao_L_imu, picture.  A handler whose state     *)
(* advances falls through to its next `if` in the same frame.  Where the   *)
(* code writes a flag and an odometer one after the other, the two writes  *)
(* are two steps (`pend` holds the second), since the timer thread may     *)
(* preempt in between.                                                     *)
(*                                                                         *)
(* The image is abstracted to the set of marks the handlers test for.      *)
(* Odometer units and thresholds are constants; 1 m is 66 units in the     *)
(* code.  A definition marked [variant] is a plausible mistake in the one  *)
(* that follows it; nothing uses it but the runs that put it in its place. *)
(***************************************************************************)
EXTENDS Integers

CONSTANTS
  Scenes,       \* what a frame can show: sets of marks
  Verdicts,     \* classes the picture classifier can report
  Steps,        \* odometer increments of one timer tick
  Headings,     \* pairs of Yaw_Huandao and icm_data.yaw, in degrees: the
                \* headings at the entrance of a roundabout and in a frame
  CornerLens,   \* values of distance_HUAN1 computed at a roundabout entry
  StartLen,     \* 60: travel before the start zebra is behind the car
  StopLen,      \* 10: travel past the finish line before the car stops
  ClimbLen,     \* 100: travel on the ramp with the speed limited
  RampLen,      \* 150: travel until the ramp is over
  GateLen,      \* 10: travel gates inside a roundabout
  BypassLen,    \* 40: travel of each part of a picture bypass
  MaxMeter,     \* bound: an odometer stays at -MaxMeter or MaxMeter when it gets there
  RealTime      \* TRUE when the timer thread got SCHED_FIFO priority 99

Side == {"L", "R"}
Other(s) == IF s = "L" THEN "R" ELSE "L"

(* Marks of one side: the lower and upper corner found, the entry geometry *)
(* of a roundabout on that side, the bottom of the side line lost ("gone") *)
(* or found again ("back"), more than 25 rows lost, a straight side line.  *)
(* Marks of the whole frame: zebra bars (jump_point > 25), the look of a   *)
(* ramp, real_distance[R_h_guai.row] < 50 ("near"), equally many lines     *)
(* lost left and right ("even"), a red block between the side lines        *)
(* ("red") and one close enough to classify ("close").  A mark is what the *)
(* handler that tests for it finds, the side lines being searched anew     *)
(* inside the roundabout stages.                                           *)
SideMark == {"low", "high", "entrance", "gone", "back", "lost25", "straight"}
Mark == (Side \X SideMark)
          \cup ({"road"} \X {"bars", "ramp", "near", "even", "red", "close"})
Corner == Side \X {"low", "high"}

ASSUME ScenesAssumption == Scenes \subseteq SUBSET Mark
ASSUME VerdictsAssumption == Verdicts \subseteq {"weapon", "supply", "vehicle"}
ASSUME StepsAssumption == Steps \subseteq Int /\ 0 \in Steps
ASSUME SensorAssumption == /\ Headings \subseteq (-180..180) \X (-180..180)
                            /\ CornerLens \subseteq Int
                            /\ \A n \in CornerLens : n < MaxMeter
ASSUME LengthsAssumption ==
  /\ MaxMeter \in Nat
  /\ {StartLen, StopLen, ClimbLen, RampLen, GateLen, BypassLen} \subseteq 0..(MaxMeter - 1)
ASSUME RealTimeAssumption == RealTime \in BOOLEAN

Meter == {"distance", "distance_picture"}
Bypass == {3, 4, 5}      \* values of Flag.picture that steer round a picture

VARIABLES
  pc, side,        \* where the main thread is in its loop, and which roundabout handler it runs
  pend,            \* the second write of a transition under way
  see,             \* marks of the current frame
  Zebra_cross, ramp, picture, Huandao,    \* struct YuanSu Flag
  infer, verdict,  \* Flag.infer; Flag.weapon, .supply, .vehicle
  meter,           \* distance, distance_picture
  distance_HUAN1, Yaw_Huandao_err,
  run_flag,
  pit, latch       \* the timer thread, and the sums it is about to store

main == <<pc, side, pend, see, Zebra_cross, ramp, picture, Huandao, infer,
          verdict, distance_HUAN1, Yaw_Huandao_err, run_flag>>
vars == <<main, meter, pit, latch>>

PC == {"keys", "capture", "zebra", "ramp", "enter", "stage", "picture"}
Pend == {"none", "launch", "stop", "distance", "distance_HUAN1", "Huandao_R",
         "Flag.picture", "distance_picture"}

(* Static initialisers, and pid_init's run_flag = 0.                       *)
Init ==
  /\ pc = "keys" /\ side = "R" /\ pend = "none" /\ see = {}
  /\ Zebra_cross = 0 /\ ramp = 0 /\ picture = 0
  /\ Huandao = [s \in Side |-> 0]
  /\ infer = 0 /\ verdict = "none"
  /\ meter = [m \in Meter |-> 0]
  /\ distance_HUAN1 = 0 /\ Yaw_Huandao_err = 0
  /\ run_flag = 0
  /\ pit = "idle" /\ latch = [m \in {} |-> 0]

-----------------------------------------------------------------------------
(* [variant] Without sudo the timer thread is no faster than the main one. *)
MainRunsAnyTime == TRUE

(* The main thread moves only between the timer thread's load and store of *)
(* an odometer when the latter has no real-time priority on the one core.  *)
MainRuns == pit = "idle" \/ ~RealTime

Here(p) == MainRuns /\ pc = p /\ pend = "none"

(* [variant] The keys are scanned in every turn of the main loop.          *)
KeysScannedAlways == TRUE

(* Key 5 requests a stop, key 6 launches; both edges may fall in one scan. *)
KeysScanned == run_flag \in {0, 2}

KeyScan ==
  /\ Here("keys")
  /\ IF KeysScanned
       THEN \E key5, key6 \in BOOLEAN :
              /\ run_flag' = IF key5 THEN 2 ELSE run_flag
              /\ pend' = IF key6 THEN "launch" ELSE "none"
       ELSE UNCHANGED <<run_flag, pend>>
  /\ pc' = "capture"
  /\ UNCHANGED <<side, see, Zebra_cross, ramp, picture, Huandao, infer, verdict,
                 distance_HUAN1, Yaw_Huandao_err, meter, pit, latch>>

(* Find_Guaidian does not look for lower corners while a roundabout is at  *)
(* stage 3, and at stage 4 reports one on the opposite side in any case.   *)
Find_Guaidian(raw) ==
  (raw \ IF \E s \in Side : Huandao[s] = 3 THEN Side \X {"low"} ELSE {})
    \cup {<<Other(s), "low">> : s \in {t \in Side : Huandao[t] = 4}}

(* The verdict on the picture is an input, from a classifier outside: a    *)
(* red block under an upper corner once Flag.infer asks for it. At this    *)
(* commit DetectRedBlock, which would ask it, has no body compiled in.     *)
Classify(marks) ==
  IF infer = 1 /\ marks \cap {<<"road", "red">>, <<"road", "close">>} # {}
       /\ \E s \in Side : <<s, "high">> \in marks
    THEN Verdicts \cup {verdict}
    ELSE {verdict}

(* An empty frame ends ImageDeal at once.                                  *)
NoFrame ==
  /\ Here("capture")
  /\ pc' = "keys"
  /\ UNCHANGED <<side, pend, see, Zebra_cross, ramp, picture, Huandao, infer, verdict,
                 distance_HUAN1, Yaw_Huandao_err, run_flag, meter, pit, latch>>

Capture ==
  /\ Here("capture")
  /\ \E raw \in Scenes :
       /\ see' = Find_Guaidian(raw)
       /\ verdict' \in Classify(see')
  /\ pc' = "zebra"
  /\ UNCHANGED <<side, pend, Zebra_cross, ramp, picture, Huandao, infer,
                 distance_HUAN1, Yaw_Huandao_err, run_flag, meter, pit, latch>>
-----------------------------------------------------------------------------
(* zebra_corssing.  The bars count as the finish line off a ramp and with  *)
(* no picture pending; `distance` is not reset there.                      *)
FinishLineSeen ==
  Zebra_cross = 3 /\ <<"road", "bars">> \in see /\ ramp = 0 /\ picture = 0

(* [variant] The run-out is compared with >=.                              *)
ZebraMovesEarly(to, then) ==
  \/ Zebra_cross = 0 /\ meter["distance"] > StartLen /\ to = 2 /\ then = "distance"
  \/ Zebra_cross = 2 /\ meter["distance"] > 0 /\ to = 3 /\ then = "distance"
  \/ FinishLineSeen /\ to = 4 /\ then = "none"
  \/ Zebra_cross = 4 /\ meter["distance"] >= StopLen /\ to = 5 /\ then = "stop"

ZebraMoves(to, then) ==
  \/ Zebra_cross = 0 /\ meter["distance"] > StartLen /\ to = 2 /\ then = "distance"
  \/ Zebra_cross = 2 /\ meter["distance"] > 0 /\ to = 3 /\ then = "distance"
  \/ FinishLineSeen /\ to = 4 /\ then = "none"
  \/ Zebra_cross = 4 /\ meter["distance"] > StopLen /\ to = 5 /\ then = "stop"

ZebraNext ==
  /\ Here("zebra")
  /\ \E to \in 2..5, then \in Pend :
       /\ ZebraMoves(to, then)
       /\ Zebra_cross' = to
       /\ pend' = then
  /\ UNCHANGED <<pc, side, see, ramp, picture, Huandao, infer, verdict,
                 distance_HUAN1, Yaw_Huandao_err, run_flag, meter, pit, latch>>

(* ramp is called only on the open lap.                                    *)
ZebraDone ==
  /\ Here("zebra")
  /\ ~\E to \in 2..5, then \in Pend : ZebraMoves(to, then)
  /\ pc' = IF Zebra_cross = 3 THEN "ramp" ELSE "enter"
  /\ UNCHANGED <<side, pend, see, Zebra_cross, ramp, picture, Huandao, infer, verdict,
                 distance_HUAN1, Yaw_Huandao_err, run_flag, meter, pit, latch>>
-----------------------------------------------------------------------------
(* ramp.  Entering it does not reset `distance`; its later stages do.      *)
(* [variant] The second part of the ramp is not measured from its start.   *)
RampMovesOn(to, then) ==
  \/ ramp = 0 /\ <<"road", "ramp">> \in see /\ see \cap Corner = {} /\ to = 2 /\ then = "none"
  \/ ramp = 2 /\ meter["distance"] > ClimbLen /\ to = 3 /\ then = "none"
  \/ ramp = 3 /\ meter["distance"] > RampLen /\ to = 0 /\ then = "distance"

RampMoves(to, then) ==
  \/ ramp = 0 /\ <<"road", "ramp">> \in see /\ see \cap Corner = {} /\ to = 2 /\ then = "none"
  \/ ramp = 2 /\ meter["distance"] > ClimbLen /\ to = 3 /\ then = "distance"
  \/ ramp = 3 /\ meter["distance"] > RampLen /\ to = 0 /\ then = "distance"

RampNext ==
  /\ Here("ramp")
  /\ \E to \in {0, 2, 3}, then \in Pend :
       /\ RampMoves(to, then)
       /\ ramp' = to
       /\ pend' = then
       /\ pc' = IF to = 0 THEN "enter" ELSE "ramp"
  /\ UNCHANGED <<side, see, Zebra_cross, picture, Huandao, infer, verdict,
                 distance_HUAN1, Yaw_Huandao_err, run_flag, meter, pit, latch>>

RampDone ==
  /\ Here("ramp")
  /\ ~\E to \in {0, 2, 3}, then \in Pend : RampMoves(to, then)
  /\ pc' = "enter"
  /\ UNCHANGED <<side, pend, see, Zebra_cross, ramp, picture, Huandao, infer, verdict,
                 distance_HUAN1, Yaw_Huandao_err, run_flag, meter, pit, latch>>
-----------------------------------------------------------------------------
(* Huandao_R_imu, then Huandao_L_imu.  The entry does not reset `distance`;*)
(* the yaw error is measured anew only from stage 2 on, so the frame that  *)
(* reaches stage 2 goes on with the one of the roundabout before.          *)
EntranceSeen(s) ==
  /\ {<<s, "low">>, <<s, "entrance">>} \subseteq see
  /\ see \cap ({Other(s)} \X {"low", "high"}) = {}

(* [variant] The entry test forgets the other roundabout.                  *)
MayEnterOwnSide == Huandao[side] = 0 /\ picture \notin {2, 3, 4, 5}

(* [variant] The entry test forgets the picture.                           *)
MayEnterAtPicture == \A s \in Side : Huandao[s] = 0

MayEnter == (\A s \in Side : Huandao[s] = 0) /\ picture \notin {2, 3, 4, 5}

(* The heading goes from -180 to 180 and on at the other end.              *)
huandao_yaw_correct(entrance, yaw) ==
  IF entrance >= 0 /\ yaw < entrance - 180 THEN entrance - (yaw + 360)
  ELSE IF entrance < 0 /\ yaw > entrance + 180 THEN entrance - (yaw - 360)
  ELSE entrance - yaw

YawErrs == {huandao_yaw_correct(h[1], h[2]) : h \in Headings}

(* picture is left out at the stages 1 and 2 of a roundabout.              *)
PictureRuns == \A s \in Side : Huandao[s] \notin {1, 2}

(* A new frame overwrites the marks of this one.                           *)
EndFrame == pc' = "keys" /\ see' = {}

NextHandler ==
  /\ side' = Other(side)
  /\ \/ side = "R" /\ pc' = "enter" /\ see' = see
     \/ side = "L" /\ PictureRuns' /\ pc' = "picture" /\ see' = see
     \/ side = "L" /\ ~PictureRuns' /\ EndFrame

EnterHuandao ==
  /\ Here("enter")
  /\ Yaw_Huandao_err' \in IF Huandao[side] > 1 THEN YawErrs ELSE {Yaw_Huandao_err}
  /\ IF MayEnter /\ EntranceSeen(side)
       THEN Huandao' = [Huandao EXCEPT ![side] = 1] /\ distance_HUAN1' \in CornerLens
       ELSE UNCHANGED <<Huandao, distance_HUAN1>>
  /\ \/ Huandao'[side] # 0 /\ pc' = "stage" /\ UNCHANGED <<side, see>>
     \/ Huandao'[side] = 0 /\ NextHandler
  /\ UNCHANGED <<pend, Zebra_cross, ramp, picture, infer, verdict, run_flag,
                 meter, pit, latch>>

(* Stage 1 ends beside the entrance, even in a frame that also abandons it *)
(* (the timer thread could at most miss a tick of the odometer that is     *)
(* about to be zeroed).  It is abandoned on signs of the other side.       *)
Beside(s) == <<s, "gone">> \in see /\ meter["distance"] > distance_HUAN1

Abandoned(s) ==
  /\ <<s, "low">> \notin see
  /\ \/ <<Other(s), "low">> \in see
     \/ {<<Other(s), "high">>, <<Other(s), "lost25">>} \subseteq see

(* Both handlers look at the right upper corner for "near".                *)
InsideSeen(s) ==
  \/ {<<s, "back">>, <<s, "high">>} \subseteq see /\ meter["distance"] > GateLen
  \/ <<"road", "near">> \in see

OutSeen(s) ==
  <<s, "straight">> \in see /\ meter["distance"] >= GateLen /\ <<s, "high">> \notin see

(* Yaw turned into the roundabout.                                         *)
Turned(s) == IF s = "L" THEN -Yaw_Huandao_err ELSE Yaw_Huandao_err

StageMoves(s, to, then) ==
  \/ Huandao[s] = 1 /\ Beside(s) /\ s = "L" /\ to = 2 /\ then = "distance_HUAN1"
  \/ Huandao[s] = 1 /\ ~Beside(s) /\ Abandoned(s) /\ to = 0 /\ then = "none"
  \/ Huandao[s] = 2 /\ InsideSeen(s) /\ to = 3 /\ then = "distance"
  \/ Huandao[s] = 3 /\ Turned(s) > 105 /\ to = 4 /\ then = "none"
  \/ Huandao[s] = 4 /\ Turned(s) \in -109..-101 /\ to = 5 /\ then = "none"
  \/ Huandao[s] = 5 /\ Turned(s) > -25 /\ to = 6 /\ then = "none"
  \/ Huandao[s] = 6 /\ OutSeen(s) /\ to = 0 /\ then = "distance"

StageNext ==
  /\ Here("stage")
  /\ \E to \in 0..6, then \in Pend :
       /\ StageMoves(side, to, then)
       /\ Huandao' = [Huandao EXCEPT ![side] = to]
       /\ pend' = then
  /\ UNCHANGED <<pc, side, see, Zebra_cross, ramp, picture, infer, verdict,
                 distance_HUAN1, Yaw_Huandao_err, run_flag, meter, pit, latch>>

(* The right handler zeroes the odometer before it advances the stage.     *)
RightStageOne == side = "R" /\ Huandao["R"] = 1 /\ Beside("R")

StageOneRight ==
  /\ Here("stage")
  /\ RightStageOne
  /\ meter' = [meter EXCEPT !["distance"] = 0]
  /\ distance_HUAN1' = 0
  /\ pend' = "Huandao_R"
  /\ UNCHANGED <<pc, side, see, Zebra_cross, ramp, picture, Huandao, infer, verdict,
                 Yaw_Huandao_err, run_flag, pit, latch>>

(* The last test of a handler: on a straight road the roundabout is over   *)
(* at any stage; `distance` keeps its value.                               *)
StraightRoad ==
  /\ Side \X {"straight"} \subseteq see
  /\ see \cap Corner = {}
  /\ <<"road", "even">> \in see

StageDone ==
  /\ Here("stage")
  /\ ~RightStageOne
  /\ ~\E to \in 0..6, then \in Pend : StageMoves(side, to, then)
  /\ Huandao' = IF StraightRoad THEN [Huandao EXCEPT ![side] = 0] ELSE Huandao
  /\ NextHandler
  /\ UNCHANGED <<pend, Zebra_cross, ramp, picture, infer, verdict,
                 distance_HUAN1, Yaw_Huandao_err, run_flag, meter, pit, latch>>
-----------------------------------------------------------------------------
(* picture.  A red block in the road stops the search for other elements   *)
(* until it is classified; each class is passed on its own side.           *)
RedBlockSeen ==
  /\ Here("picture")
  /\ picture = 0 /\ <<"road", "red">> \in see
  /\ picture' = 2
  /\ UNCHANGED <<pc, side, pend, see, Zebra_cross, ramp, Huandao, infer, verdict,
                 distance_HUAN1, Yaw_Huandao_err, run_flag, meter, pit, latch>>

(* [variant] A vehicle still leads to the state the flag no longer has.    *)
BypassOfOldFlags(class) ==
  CASE class = "weapon" -> 3 [] class = "supply" -> 4 [] class = "vehicle" -> 1

BypassOf(class) ==
  CASE class = "weapon" -> 3 [] class = "supply" -> 4 [] class = "vehicle" -> 5

Classified ==
  /\ Here("picture")
  /\ picture = 2 /\ verdict # "none"
  /\ picture' = BypassOf(verdict)
  /\ infer' = 0 /\ verdict' = "none"
  /\ UNCHANGED <<pc, side, pend, see, Zebra_cross, ramp, Huandao,
                 distance_HUAN1, Yaw_Huandao_err, run_flag, meter, pit, latch>>

BypassOver == picture \in Bypass \cup {6} /\ meter["distance_picture"] > BypassLen

BypassNext ==
  /\ Here("picture")
  /\ BypassOver
  /\ meter' = [meter EXCEPT !["distance_picture"] = 0]
  /\ pend' = "Flag.picture"
  /\ UNCHANGED <<pc, side, see, Zebra_cross, ramp, picture, Huandao, infer, verdict,
                 distance_HUAN1, Yaw_Huandao_err, run_flag, pit, latch>>

PictureDone ==
  /\ Here("picture")
  /\ picture = 0 => <<"road", "red">> \notin see
  /\ picture = 2 => verdict = "none"
  /\ ~BypassOver
  /\ infer' = IF picture = 2 /\ <<"road", "close">> \in see THEN 1 ELSE infer
  /\ EndFrame
  /\ UNCHANGED <<side, pend, Zebra_cross, ramp, picture, Huandao, verdict,
                 distance_HUAN1, Yaw_Huandao_err, run_flag, meter, pit, latch>>
-----------------------------------------------------------------------------
(* The second writes.                                                      *)
Launch ==
  /\ MainRuns /\ pend = "launch"
  /\ run_flag' = 1 /\ pend' = "none"
  /\ UNCHANGED <<pc, side, see, Zebra_cross, ramp, picture, Huandao, infer, verdict,
                 distance_HUAN1, Yaw_Huandao_err, meter, pit, latch>>

StopAtLine ==
  /\ MainRuns /\ pend = "stop"
  /\ run_flag' = 2 /\ pend' = "none"
  /\ UNCHANGED <<pc, side, see, Zebra_cross, ramp, picture, Huandao, infer, verdict,
                 distance_HUAN1, Yaw_Huandao_err, meter, pit, latch>>

ZeroDistance ==
  /\ MainRuns /\ pend \in {"distance", "distance_HUAN1"}
  /\ meter' = [meter EXCEPT !["distance"] = 0]
  /\ distance_HUAN1' = IF pend = "distance_HUAN1" THEN 0 ELSE distance_HUAN1
  /\ pend' = "none"
  /\ UNCHANGED <<pc, side, see, Zebra_cross, ramp, picture, Huandao, infer, verdict,
                 Yaw_Huandao_err, run_flag, pit, latch>>

EnterRight ==
  /\ MainRuns /\ pend = "Huandao_R"
  /\ Huandao' = [Huandao EXCEPT !["R"] = 2] /\ pend' = "none"
  /\ UNCHANGED <<pc, side, see, Zebra_cross, ramp, picture, infer, verdict,
                 distance_HUAN1, Yaw_Huandao_err, run_flag, meter, pit, latch>>

(* [variant] The odometer is zeroed once, before the flag changes.         *)
LeaveBypassOnce ==
  /\ MainRuns /\ pend = "Flag.picture"
  /\ picture' = IF picture = 6 THEN 0 ELSE 6
  /\ pend' = "none"
  /\ IF picture = 6 THEN EndFrame ELSE UNCHANGED <<pc, see>>
  /\ UNCHANGED <<side, Zebra_cross, ramp, Huandao, infer, verdict,
                 distance_HUAN1, Yaw_Huandao_err, run_flag, meter, pit, latch>>

(* After 6 there is no later `if` in picture: the frame is over.           *)
LeaveBypass ==
  /\ MainRuns /\ pend = "Flag.picture"
  /\ picture' = IF picture = 6 THEN 0 ELSE 6
  /\ pend' = "distance_picture"
  /\ IF picture = 6 THEN EndFrame ELSE UNCHANGED <<pc, see>>
  /\ UNCHANGED <<side, Zebra_cross, ramp, Huandao, infer, verdict,
                 distance_HUAN1, Yaw_Huandao_err, run_flag, meter, pit, latch>>

ZeroPicture ==
  /\ MainRuns /\ pend = "distance_picture"
  /\ meter' = [meter EXCEPT !["distance_picture"] = 0]
  /\ pend' = "none"
  /\ UNCHANGED <<pc, side, see, Zebra_cross, ramp, picture, Huandao, infer, verdict,
                 distance_HUAN1, Yaw_Huandao_err, run_flag, pit, latch>>
-----------------------------------------------------------------------------
(* distance_judge, on the timer thread.  Flag.small_rock stays 0: nothing  *)
(* calls small_rock.                                                       *)
(* [variant] The run-out behind the finish line is not measured.           *)
DistanceCountsUpToLine ==
  \/ \E s \in Side : Huandao[s] \in {1, 2, 6}
  \/ Zebra_cross \in {0, 2}
  \/ ramp # 0

(* [variant] Nor is a ramp.                                                *)
DistanceCountsOffRamp ==
  \/ \E s \in Side : Huandao[s] \in {1, 2, 6}
  \/ Zebra_cross \in {0, 2, 4}

DistanceCounts ==
  \/ \E s \in Side : Huandao[s] \in {1, 2, 6}
  \/ Zebra_cross \in {0, 2, 4}
  \/ ramp # 0

(* [variant] It stands still on the way back to the road.                  *)
CountingOutOnly ==
  {m \in Meter : IF m = "distance" THEN DistanceCounts ELSE picture \in Bypass}

Counting ==
  {m \in Meter : IF m = "distance" THEN DistanceCounts ELSE picture \in Bypass \cup {6}}

(* An odometer beyond every threshold needs no value of its own.           *)
Clamp(x) == IF x > MaxMeter THEN MaxMeter ELSE IF x < -MaxMeter THEN -MaxMeter ELSE x

TickRead(d) ==
  /\ pit = "idle"
  /\ latch' = [m \in Counting |-> Clamp(meter[m] + d)]
  /\ pit' = "write"
  /\ UNCHANGED <<main, meter>>

TickWrite ==
  /\ pit = "write"
  /\ meter' = [m \in Meter |-> IF m \in DOMAIN latch THEN latch[m] ELSE meter[m]]
  /\ latch' = [m \in {} |-> 0]
  /\ pit' = "idle"
  /\ UNCHANGED main
-----------------------------------------------------------------------------
Frame == \/ KeyScan \/ NoFrame \/ Capture
         \/ ZebraNext \/ ZebraDone
         \/ RampNext \/ RampDone
         \/ EnterHuandao \/ StageNext \/ StageOneRight \/ StageDone
         \/ RedBlockSeen \/ Classified \/ BypassNext \/ PictureDone

SecondWrite == \/ Launch \/ StopAtLine \/ ZeroDistance
               \/ EnterRight \/ LeaveBypass \/ ZeroPicture

Next == Frame \/ SecondWrite \/ (\E d \in Steps : TickRead(d)) \/ TickWrite

Spec == Init /\ [][Next]_vars

(* The camera keeps delivering frames, neither thread stops, and the car   *)
(* keeps moving forwards.  The fairness is strong because each of these    *)
(* steps waits, between two of its own, for the other thread.              *)
Forward == \E d \in Steps : d > 0 /\ TickRead(d)

FairSpec == /\ Spec
            /\ SF_vars(Frame) /\ SF_vars(SecondWrite) /\ SF_vars(Capture)
            /\ SF_vars(Forward) /\ WF_vars(TickWrite)
-----------------------------------------------------------------------------
(* Every variable has the values the code gives it.                        *)
TypeOK ==
  /\ pc \in PC /\ side \in Side /\ pend \in Pend /\ see \subseteq Mark
  /\ Zebra_cross \in {0, 2, 3, 4, 5} /\ ramp \in {0, 2, 3}
  /\ picture \in {0, 2, 3, 4, 5, 6} /\ Huandao \in [Side -> 0..6]
  /\ infer \in {0, 1} /\ verdict \in Verdicts \cup {"none"}
  /\ meter \in [Meter -> Int]
  /\ distance_HUAN1 \in Int /\ Yaw_Huandao_err \in Int
  /\ run_flag \in 0..2
  /\ pit \in {"idle", "write"}
  /\ DOMAIN latch \subseteq Meter /\ latch \in [DOMAIN latch -> Int]

(* The two roundabout handlers, which share the yaw error, the entry       *)
(* distance and the odometer, are never both inside a roundabout.          *)
OneRoundabout == ~\A s \in Side : Huandao[s] # 0

(* A ramp under way keeps the finish line from being recognised, so the    *)
(* ramp, which only the open lap runs, always gets its end.                *)
RampOnlyOnCourse == ramp # 0 => Zebra_cross = 3

(* The first two stages of a roundabout suspend picture; they are never    *)
(* under way while a picture waits for its class or is being passed, so    *)
(* the search for a class or a bypass is never left hanging.               *)
BypassExcludesEntry == picture \in {2} \cup Bypass => PictureRuns

(* A bypass starts with its odometer at zero: whatever the timer thread    *)
(* added between the first zeroing and the change of Flag.picture is gone. *)
PictureMeterClean ==
  picture \in {0, 2} /\ pend # "distance_picture" => meter["distance_picture"] = 0

(* The lap as Course tells it: leg from Flag.Zebra_cross (5 is crossed     *)
(* until run_flag is written), bend from the roundabout flags.             *)
leg == CASE Zebra_cross = 0 -> "start"
         [] Zebra_cross = 2 -> "armed"
         [] Zebra_cross = 3 -> "run"
         [] Zebra_cross = 4 -> "line"
         [] Zebra_cross = 5 -> IF pend = "stop" THEN "crossed" ELSE "done"
bend == IF Huandao["L"] # 0 THEN "L" ELSE IF Huandao["R"] # 0 THEN "R" ELSE "road"

C == INSTANCE Course WITH hill <- (ramp # 0), run <- run_flag

(* The recognisers implement Course: among others, the automatic stop      *)
(* comes once, and only past a finish line seen off any ramp.              *)
CourseSpec == C!Spec

(* What must eventually happen once no roundabout claims the odometer they *)
(* share: a car past the finish line is stopped, a ramp ends, a picture    *)
(* that is being passed is passed.                                         *)
OpenRoad == \A s \in Side : Huandao[s] = 0

LineStops == <>[]OpenRoad =>
  (Zebra_cross = 4 ~> (Zebra_cross = 5 /\ run_flag = 2))

RampEnds == <>[]OpenRoad => (ramp # 0 ~> ramp = 0)

(* A picture that has been classified or is being passed is passed; also   *)
(* with roundabouts about, as long as none holds the car at its entrance,  *)
(* where picture is not run.                                               *)
BypassEnds ==
  <>[]PictureRuns => (picture \in Bypass \/ verdict # "none" ~> picture = 0)
=============================================================================
