---- MODULE RunControlProofs ----
(***************************************************************************)
(* RunControl for any number of starts of the program: the motors are off  *)
(* at an exit, before a launch and after a stop, and a launch takes a      *)
(* press of its own.                                                       *)
(***************************************************************************)
EXTENDS RunControl, TLAPS

USE DEF Motors, Pressed, Released, Loop, Starting, Leaving, Ended, Ticks, Standing

(* While the program starts there is no timer thread and no launch.        *)
StartOK == mpc \in Starting => tpc = "none" /\ run_flag = 0

(* On the way out the thread is gone first, and one motor follows the      *)
(* other; a tick that halts the car has one motor halted in between.       *)
OutOK ==
    /\ mpc \in {"collect", "clean1", "clean2", "exited"} => tpc \in {"none", "ended"}
    /\ mpc = "killed" => tpc = "none"
    /\ mpc = "clean2" => duty[1] = "off"
    /\ mpc = "exited" => Standing
    /\ tpc = "halt2" => duty[1] = "off"

(* A launch is under way only after the key was seen up and then down.     *)
PressOK ==
    /\ mpc = "launch" => last6 = Pressed /\ fresh = 1
    /\ last6 = Released => fresh = 1

(* A car a tick has halted is not launched, stands, and is not about to    *)
(* be driven.                                                              *)
StoodOK == stood = 1 => run_flag # 1 /\ Standing /\ tpc \notin {"drive1", "drive2"}

IInv == TypeOK /\ StartOK /\ OutOK /\ PressOK /\ StoodOK

(* Before the launch nothing drives, in this run of the program or left    *)
(* over from the one before.                                               *)
QuietOK ==
    /\ mpc \in Starting \union Loop /\ run_flag = 0 => Standing /\ tpc \notin {"drive1", "drive2"}
    /\ mpc \in Ended => Standing

(* Every step of the program is one of these.                              *)
LEMMA NextCases ==
    ASSUME [Next]_vars
    PROVE  \/ init \/ start_timer \/ skip_keys \/ key_scan \/ launch
           \/ frame \/ err_goal \/ err_picture \/ err_ramp
           \/ tick_begin \/ tick_drive
           \/ set_motor(1, "drive1", "drive2") \/ set_motor(2, "drive2", "halt?")
           \/ tick_halt \/ tick_goal
           \/ halt_motor(1, "halt1", "halt2") \/ halt_motor(2, "halt2", "wait")
           \/ sigint
           \/ motor_off(1, "handler1", "handler2") \/ motor_off(2, "handler2", "stop")
           \/ pit_stop \/ pit_join \/ stop_collect
           \/ motor_off(1, "clean1", "clean2") \/ motor_off(2, "clean2", "exited")
           \/ kill \/ start_again
           \/ UNCHANGED vars
    BY DEF Next, Main, Frame, Timer, Exit

LEMMA InitOK == Init => IInv
    BY DEF Init, IInv, TypeOK, StartOK, OutOK, PressOK, StoodOK

LEMMA StepOK == IInv /\ [Next]_vars => IInv'
<1> SUFFICES ASSUME IInv, [Next]_vars PROVE IInv'
  OBVIOUS
<1> USE DEF IInv, TypeOK, StartOK, OutOK, PressOK, StoodOK, flags, keys
<1>1. CASE init
  BY <1>1 DEF init
<1>2. CASE start_timer
  BY <1>2 DEF start_timer
<1>3. CASE skip_keys
  BY <1>3 DEF skip_keys
<1>4. CASE key_scan
  BY <1>4 DEF key_scan
<1>5. CASE launch
  BY <1>5 DEF launch
<1>6. CASE frame
  BY <1>6 DEF frame
<1>7. CASE err_goal
  BY <1>7 DEF err_goal
<1>8. CASE err_picture \/ err_ramp
  BY <1>8 DEF err_picture, err_ramp
<1>9. CASE tick_begin
  BY <1>9 DEF tick_begin
<1>10. CASE tick_drive
  BY <1>10 DEF tick_drive
<1>11. CASE set_motor(1, "drive1", "drive2")
  BY <1>11 DEF set_motor
<1>12. CASE set_motor(2, "drive2", "halt?")
  BY <1>12 DEF set_motor
<1>13. CASE tick_halt \/ tick_goal
  BY <1>13 DEF tick_halt, tick_goal
<1>14. CASE halt_motor(1, "halt1", "halt2")
  BY <1>14 DEF halt_motor
<1>15. CASE halt_motor(2, "halt2", "wait")
  BY <1>15 DEF halt_motor
<1>16. CASE sigint
  BY <1>16 DEF sigint
<1>17. CASE motor_off(1, "handler1", "handler2") \/ motor_off(2, "handler2", "stop")
  BY <1>17 DEF motor_off
<1>18. CASE pit_stop \/ pit_join \/ stop_collect
  BY <1>18 DEF pit_stop, pit_join, stop_collect
<1>19. CASE motor_off(1, "clean1", "clean2") \/ motor_off(2, "clean2", "exited")
  BY <1>19 DEF motor_off
<1>20. CASE kill
  BY <1>20 DEF kill
<1>21. CASE start_again
  BY <1>21, RunsAssumption DEF start_again
<1>22. CASE UNCHANGED vars
  BY <1>22 DEF vars
<1> QED
  BY NextCases, <1>1, <1>2, <1>3, <1>4, <1>5, <1>6, <1>7, <1>8, <1>9, <1>10, <1>11, <1>12,
     <1>13, <1>14, <1>15, <1>16, <1>17, <1>18, <1>19, <1>20, <1>21, <1>22

LEMMA Inductive == Spec => []IInv
    BY InitOK, StepOK, PTL DEF Spec

(* Every variable keeps to its type.                                       *)
THEOREM RunTypesHold == Spec => []TypeOK
<1> IInv => TypeOK
  BY DEF IInv
<1> QED
  BY Inductive, PTL

(* An exit leaves both motors off, wherever it met the two threads.        *)
THEOREM MotorsOffAtExitHolds == Spec => []MotorsOffAtExit
<1> IInv => MotorsOffAtExit
  BY DEF IInv, OutOK, MotorsOffAtExit
<1> QED
  BY Inductive, PTL

(* A car that a tick has halted stands until it is launched.               *)
THEOREM StoppedStandsHolds == Spec => []StoppedStands
<1> IInv => StoppedStands
  BY DEF IInv, StoodOK, StoppedStands
<1> QED
  BY Inductive, PTL

(* A launch takes a press of its own.                                      *)
THEOREM FreshPressHolds == Spec => FreshPress
<1>1. IInv /\ [Next]_vars => [run_flag # 1 /\ run_flag' = 1 => fresh = 1]_vars
  <2> SUFFICES ASSUME IInv, [Next]_vars, run_flag # 1, run_flag' = 1 PROVE fresh = 1
    OBVIOUS
  <2>1. CASE launch
    BY <2>1 DEF launch, IInv, PressOK
  <2>2. CASE ~launch
    BY <2>2, NextCases
    DEF init, start_timer, skip_keys, key_scan, frame, err_goal, err_picture, err_ramp,
        tick_begin, tick_drive, set_motor, tick_halt, tick_goal, halt_motor, sigint,
        motor_off, pit_stop, pit_join, stop_collect, kill, start_again, vars, flags, keys
  <2> QED
    BY <2>1, <2>2
<1> QED
  BY <1>1, Inductive, PTL DEF Spec, FreshPress

LEMMA QuietStep == IInv /\ QuietOK /\ [Next]_vars /\ NotKilled /\ NotKilled' => QuietOK'
<1> SUFFICES ASSUME IInv, QuietOK, [Next]_vars, NotKilled, NotKilled' PROVE QuietOK'
  OBVIOUS
<1> USE DEF IInv, TypeOK, StartOK, OutOK, QuietOK, NotKilled, flags, keys
<1>1. CASE init \/ start_timer \/ skip_keys
  BY <1>1 DEF init, start_timer, skip_keys
<1>2. CASE key_scan
  BY <1>2 DEF key_scan
<1>3. CASE launch
  BY <1>3 DEF launch
<1>4. CASE frame \/ err_goal \/ err_picture \/ err_ramp
  BY <1>4 DEF frame, err_goal, err_picture, err_ramp
<1>5. CASE tick_begin \/ tick_drive \/ tick_halt \/ tick_goal
  BY <1>5 DEF tick_begin, tick_drive, tick_halt, tick_goal
<1>6. CASE set_motor(1, "drive1", "drive2") \/ set_motor(2, "drive2", "halt?")
  BY <1>6 DEF set_motor
<1>7. CASE halt_motor(1, "halt1", "halt2") \/ halt_motor(2, "halt2", "wait")
  BY <1>7 DEF halt_motor
<1>8. CASE sigint
  BY <1>8 DEF sigint
<1>9. CASE pit_stop \/ pit_join \/ stop_collect
  BY <1>9 DEF pit_stop, pit_join, stop_collect
<1>10. CASE motor_off(1, "handler1", "handler2") \/ motor_off(2, "handler2", "stop")
  BY <1>10 DEF motor_off
<1>11. CASE motor_off(1, "clean1", "clean2") \/ motor_off(2, "clean2", "exited")
  BY <1>11 DEF motor_off
<1>12. CASE kill \/ start_again
  BY <1>12 DEF kill, start_again
<1>13. CASE UNCHANGED vars
  BY <1>13 DEF vars
<1> QED
  BY NextCases, <1>1, <1>2, <1>3, <1>4, <1>5, <1>6, <1>7, <1>8, <1>9, <1>10, <1>11, <1>12, <1>13

(* If no signal ends the program behind its back, a program that has not   *)
(* been launched stands, whatever the program before it did.               *)
THEOREM StandsUntilLaunchedHolds == Spec => StandsUntilLaunched
<1>1. Init => QuietOK
  BY DEF Init, QuietOK
<1>2. IInv /\ QuietOK /\ [Next]_vars /\ NotKilled /\ NotKilled' => QuietOK'
  BY QuietStep
<1>3. QuietOK => (Unlaunched => Standing)
  BY DEF QuietOK, Unlaunched
<1> QED
  BY <1>1, <1>2, <1>3, Inductive, PTL DEF Spec, StandsUntilLaunched
----------------------------------------------------------------------------
(* Why a stop and an exit come to an end: the steps the timer thread still *)
(* has before it at most, from each place of a tick.                       *)
TickLeft(place) ==
    CASE place = "wait" -> 8
      [] place = "drive?" -> 7
      [] place = "drive1" -> 6
      [] place = "drive2" -> 5
      [] place = "halt?" -> 4
      [] place = "halt_goal" -> 3
      [] place = "halt1" -> 2
      [] place = "halt2" -> 1
      [] OTHER -> 0

(* A stop is carried out by the end of the next whole tick: until one has  *)
(* halted the car each step of the timer thread brings that end nearer,    *)
(* unless the thread itself is ended.                                      *)
StopComesNearer ==
    [][run_flag = 2 /\ run_flag' = 2 /\ stood = 0 /\ tpc' # tpc =>
          stood' = 1 \/ tpc' \in {"none", "ended"} \/ TickLeft(tpc') < TickLeft(tpc)]_vars

(* pit_join waits for a tick under way at most: the exit flag is up, so    *)
(* that the thread ends where the next tick would begin.                   *)
ToEnd(place) ==
    IF place = "ended" THEN 0 ELSE IF place = "wait" THEN 1 ELSE 1 + TickLeft(place)

JoinComesNearer ==
    [][mpc = "join" /\ mpc' = "join" /\ tpc' # tpc => ToEnd(tpc') < ToEnd(tpc)]_vars

ExitFlagOK == mpc = "join" => pit_exit_flag = 1

LEMMA ExitFlagStep == ExitFlagOK /\ [Next]_vars => ExitFlagOK'
<1> SUFFICES ASSUME ExitFlagOK, [Next]_vars, mpc' = "join" PROVE pit_exit_flag' = 1
  BY DEF ExitFlagOK
<1>1. CASE mpc = "join"
  BY <1>1, NextCases
  DEF ExitFlagOK, init, start_timer, skip_keys, key_scan, launch, frame, err_goal, err_picture,
      err_ramp, tick_begin, tick_drive, set_motor, tick_halt, tick_goal, halt_motor, sigint,
      motor_off, pit_stop, pit_join, stop_collect, kill, start_again, vars
<1>2. CASE mpc # "join"
  <2>1. pit_stop
    BY <1>2, NextCases
    DEF init, start_timer, skip_keys, key_scan, launch, frame, err_goal, err_picture, err_ramp,
        tick_begin, tick_drive, set_motor, tick_halt, tick_goal, halt_motor, sigint, motor_off,
        pit_join, stop_collect, kill, start_again, vars
  <2> QED
    BY <2>1 DEF pit_stop
<1> QED
  BY <1>1, <1>2

(* How the place of the timer thread changes.                              *)
LEMMA TickSteps ==
    ASSUME [Next]_vars, tpc' # tpc
    PROVE  \/ start_timer \/ kill \/ start_again
           \/ mpc' = mpc /\ (tick_begin \/ tick_drive \/ tick_halt \/ tick_goal
                \/ set_motor(1, "drive1", "drive2") \/ set_motor(2, "drive2", "halt?")
                \/ halt_motor(1, "halt1", "halt2") \/ halt_motor(2, "halt2", "wait"))
    BY NextCases
    DEF init, skip_keys, key_scan, launch, frame, err_goal, err_picture, err_ramp, tick_begin,
        tick_drive, set_motor, tick_halt, tick_goal, halt_motor, sigint, motor_off, pit_stop,
        pit_join, stop_collect, vars

(* For any number of starts: a stop that is not taken back by a launch     *)
(* halts both motors within eight steps of the timer thread, the safety    *)
(* half of StopReaches.                                                    *)
THEOREM StopComesNearerHolds == Spec => StopComesNearer
<1>1. IInv /\ [Next]_vars =>
        [run_flag = 2 /\ run_flag' = 2 /\ stood = 0 /\ tpc' # tpc =>
           stood' = 1 \/ tpc' \in {"none", "ended"} \/ TickLeft(tpc') < TickLeft(tpc)]_vars
  <2> SUFFICES ASSUME IInv, [Next]_vars, run_flag = 2, run_flag' = 2, stood = 0, tpc' # tpc
               PROVE  stood' = 1 \/ tpc' \in {"none", "ended"} \/ TickLeft(tpc') < TickLeft(tpc)
    OBVIOUS
  <2>1. CASE start_timer \/ kill \/ start_again
    BY <2>1 DEF start_timer, kill, start_again, IInv, StartOK
  <2>2. CASE tick_begin \/ tick_drive \/ tick_halt \/ tick_goal
             \/ set_motor(1, "drive1", "drive2") \/ set_motor(2, "drive2", "halt?")
    BY <2>2 DEF tick_begin, tick_drive, tick_halt, tick_goal, set_motor, TickLeft
  <2>3. CASE halt_motor(1, "halt1", "halt2") \/ halt_motor(2, "halt2", "wait")
    BY <2>3 DEF halt_motor, TickLeft
  <2> QED
    BY <2>1, <2>2, <2>3, TickSteps
<1> QED
  BY <1>1, Inductive, PTL DEF Spec, StopComesNearer

(* The exit never waits for the timer thread in vain: from any place of a  *)
(* tick each of its steps brings it nearer its end, the safety half of     *)
(* ExitEnds.                                                               *)
THEOREM JoinComesNearerHolds == Spec => JoinComesNearer
<1>1. Init => ExitFlagOK
  BY DEF Init, ExitFlagOK
<1>2. ExitFlagOK /\ [Next]_vars =>
        [mpc = "join" /\ mpc' = "join" /\ tpc' # tpc => ToEnd(tpc') < ToEnd(tpc)]_vars
  <2> SUFFICES ASSUME ExitFlagOK, [Next]_vars, mpc = "join", mpc' = "join", tpc' # tpc
               PROVE  ToEnd(tpc') < ToEnd(tpc)
    OBVIOUS
  <2>1. CASE start_timer \/ kill \/ start_again
    BY <2>1 DEF start_timer, kill, start_again
  <2>2. CASE tick_begin
    BY <2>2 DEF tick_begin, ExitFlagOK, ToEnd, TickLeft
  <2>3. CASE tick_drive \/ tick_halt \/ tick_goal
             \/ set_motor(1, "drive1", "drive2") \/ set_motor(2, "drive2", "halt?")
    BY <2>3 DEF tick_drive, tick_halt, tick_goal, set_motor, ToEnd, TickLeft
  <2>4. CASE halt_motor(1, "halt1", "halt2") \/ halt_motor(2, "halt2", "wait")
    BY <2>4 DEF halt_motor, ToEnd, TickLeft
  <2> QED
    BY <2>1, <2>2, <2>3, <2>4, TickSteps
<1> QED
  BY <1>1, <1>2, ExitFlagStep, PTL DEF Spec, JoinComesNearer
====
