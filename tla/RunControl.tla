---- MODULE RunControl ----
(***************************************************************************)
(* What makes the car drive and stand still: the keys and the finish line  *)
(* on the main thread, pit_callback on the timer thread, the SIGINT        *)
(* handler and the exit handlers, and the next start of the program.  Each *)
(* access to run_flag, speed_goal and a motor's duty that the other thread *)
(* can observe is a step of its own.  The duty outlives the process: it is *)
(* kept by the PWM device.                                                 *)
(***************************************************************************)
EXTENDS Naturals

CONSTANT
    MaxRuns       \* bound on the starts of the program

ASSUME RunsAssumption == MaxRuns \in Nat

Motors == {1, 2}
Pressed == 0
Released == 1

VARIABLES
    run_flag,      \* 0 not launched, 1 drives, 2 stopped
    speed_goal,
    duty,          \* motor -> "off" or "driven"
    picture, ramp, \* their flags: 2 slows the car down, 0 stands for every other value
    Zebra_cross,   \* its flag: 5 once the finish line stopped the car, 0 before
    last5, last6,  \* key5_last_state (stop), key6_last_state (launch)
    mpc,           \* where the main thread is, its signal handler included
    tpc,           \* where the timer thread is
    pit_exit_flag,
    runs,          \* starts of the program so far
    fresh,         \* history: the launch key was seen released since the last launch
    stood          \* history: a tick has halted both motors since the last launch

flags == <<run_flag, speed_goal, picture, ramp, Zebra_cross>>
keys == <<last5, last6, fresh>>
vars == <<flags, duty, keys, mpc, tpc, pit_exit_flag, runs, stood>>

\* the main thread runs the program, and not its way out
Loop == {"scan", "launch", "frame", "goal", "picture_goal", "ramp_goal"}
Starting == {"init", "timer"}
Leaving == {"handler1", "handler2", "stop", "join", "collect", "clean1", "clean2"}
Ended == {"exited", "killed"}

Standing == \A m \in Motors : duty[m] = "off"

Init ==
    /\ run_flag = 0 /\ speed_goal = 0 /\ picture = 0 /\ ramp = 0 /\ Zebra_cross = 0
    /\ duty = [m \in Motors |-> "off"]
    /\ last5 = Pressed /\ last6 = Pressed
    /\ fresh = 0 /\ stood = 0
    /\ mpc = "init" /\ tpc = "none"
    /\ pit_exit_flag = 0
    /\ runs = 1

----------------------------------------------------------------------------
(* main                                                                    *)

init ==
    /\ mpc = "init"
    /\ mpc' = "timer"
    /\ UNCHANGED <<flags, duty, keys, tpc, pit_exit_flag, runs, stood>>

(* pit_timer.init_ms: its result is not looked at                          *)
start_timer ==
    /\ mpc = "timer"
    /\ mpc' = "scan"
    /\ tpc' \in {"none", "wait"}
    /\ UNCHANGED <<flags, duty, keys, pit_exit_flag, runs, stood>>

skip_keys ==
    /\ mpc = "scan" /\ run_flag = 1
    /\ mpc' = "frame"
    /\ UNCHANGED <<flags, duty, keys, tpc, pit_exit_flag, runs, stood>>

\* [variant] the launch key is read by its level, not by its edge
key_scan_level ==
    /\ mpc = "scan" /\ run_flag \in {0, 2}
    /\ \E key5, key6 \in {Pressed, Released} :
         /\ run_flag' = IF key5 = Pressed /\ last5 = Released THEN 2 ELSE run_flag
         /\ mpc' = IF key6 = Pressed THEN "launch" ELSE "frame"
         /\ last5' = key5 /\ last6' = key6
         /\ fresh' = IF key6 = Released THEN 1 ELSE fresh
    /\ UNCHANGED <<speed_goal, picture, ramp, Zebra_cross, duty, tpc, pit_exit_flag, runs, stood>>

(* key_scan: a key counts when it goes down between two scans              *)
key_scan ==
    /\ mpc = "scan" /\ run_flag \in {0, 2}
    /\ \E key5, key6 \in {Pressed, Released} :
         /\ run_flag' = IF key5 = Pressed /\ last5 = Released THEN 2 ELSE run_flag
         /\ mpc' = IF key6 = Pressed /\ last6 = Released THEN "launch" ELSE "frame"
         /\ last5' = key5 /\ last6' = key6
         /\ fresh' = IF key6 = Released THEN 1 ELSE fresh
    /\ UNCHANGED <<speed_goal, picture, ramp, Zebra_cross, duty, tpc, pit_exit_flag, runs, stood>>

\* [variant] the flag is counted up
launch_count ==
    /\ mpc = "launch"
    /\ run_flag' = run_flag + 1
    /\ fresh' = 0 /\ stood' = 0
    /\ mpc' = "frame"
    /\ UNCHANGED <<speed_goal, picture, ramp, Zebra_cross, duty, last5, last6, tpc, pit_exit_flag, runs>>

(* the end of the launch branch, one second later; the scan of the ESC     *)
(* from 550 to esc_duty is empty because Err_Sum keeps esc_duty at 0       *)
launch ==
    /\ mpc = "launch"
    /\ run_flag' = 1
    /\ fresh' = 0 /\ stood' = 0
    /\ mpc' = "frame"
    /\ UNCHANGED <<speed_goal, picture, ramp, Zebra_cross, duty, last5, last6, tpc, pit_exit_flag, runs>>

(* ImageDeal up to Err_Sum: the elements, and the line that stops the car  *)
(* once                                                                    *)
frame ==
    /\ mpc = "frame"
    /\ \/ mpc' = "scan" /\ UNCHANGED flags
       \/ /\ mpc' = "goal"
          /\ picture' \in {0, 2} /\ ramp' \in {0, 2}
          /\ \/ UNCHANGED <<run_flag, Zebra_cross>>
             \/ Zebra_cross = 0 /\ Zebra_cross' = 5 /\ run_flag' = 2
          /\ UNCHANGED speed_goal
    /\ UNCHANGED <<duty, keys, tpc, pit_exit_flag, runs, stood>>

\* [variant] a driving frame lowers the goal and never sets it
err_goal_lost ==
    /\ mpc = "goal"
    /\ mpc' = IF run_flag = 1 THEN "picture_goal" ELSE "scan"
    /\ UNCHANGED <<flags, duty, keys, tpc, pit_exit_flag, runs, stood>>

(* Err_Sum                                                                 *)
err_goal ==
    /\ mpc = "goal"
    /\ IF run_flag = 1
       THEN speed_goal' = 600 /\ mpc' = "picture_goal"
       ELSE UNCHANGED speed_goal /\ mpc' = "scan"
    /\ UNCHANGED <<run_flag, picture, ramp, Zebra_cross, duty, keys, tpc, pit_exit_flag, runs, stood>>

err_picture ==
    /\ mpc = "picture_goal"
    /\ speed_goal' = IF picture = 2 THEN 100 ELSE speed_goal
    /\ mpc' = "ramp_goal"
    /\ UNCHANGED <<run_flag, picture, ramp, Zebra_cross, duty, keys, tpc, pit_exit_flag, runs, stood>>

err_ramp ==
    /\ mpc = "ramp_goal"
    /\ speed_goal' = IF ramp = 2 THEN 150 ELSE speed_goal
    /\ mpc' = "scan"
    /\ UNCHANGED <<run_flag, picture, ramp, Zebra_cross, duty, keys, tpc, pit_exit_flag, runs, stood>>

Frame == frame \/ err_goal \/ err_picture \/ err_ramp
Main == init \/ start_timer \/ skip_keys \/ key_scan \/ launch \/ Frame

----------------------------------------------------------------------------
(* pit_timer_thread and pit_callback                                       *)

tick_begin ==
    /\ tpc = "wait"
    /\ tpc' = IF pit_exit_flag = 1 THEN "ended" ELSE "drive?"
    /\ UNCHANGED <<flags, duty, keys, mpc, pit_exit_flag, runs, stood>>

\* [variant] the test of run_flag is for any state but 0
tick_drive_any ==
    /\ tpc = "drive?"
    /\ tpc' = IF run_flag # 0 THEN "drive1" ELSE "halt?"
    /\ UNCHANGED <<flags, duty, keys, mpc, pit_exit_flag, runs, stood>>

\* [variant] the car drives unless it was stopped
tick_drive_unless ==
    /\ tpc = "drive?"
    /\ tpc' = IF run_flag # 2 THEN "drive1" ELSE "halt?"
    /\ UNCHANGED <<flags, duty, keys, mpc, pit_exit_flag, runs, stood>>

tick_drive ==
    /\ tpc = "drive?"
    /\ tpc' = IF run_flag = 1 THEN "drive1" ELSE "halt?"
    /\ UNCHANGED <<flags, duty, keys, mpc, pit_exit_flag, runs, stood>>

(* set_pwm: one motor after the other, with whatever the PID commands      *)
set_motor(m, now, then) ==
    /\ tpc = now /\ tpc' = then
    /\ duty' \in {[duty EXCEPT ![m] = d] : d \in {"off", "driven"}}
    /\ UNCHANGED <<flags, keys, mpc, pit_exit_flag, runs, stood>>

(* set_pwm(0, 0)                                                           *)
halt_motor(m, now, then) ==
    /\ tpc = now /\ tpc' = then
    /\ duty' = [duty EXCEPT ![m] = "off"]
    /\ stood' = IF then = "wait" /\ run_flag = 2 THEN 1 ELSE stood
    /\ UNCHANGED <<flags, keys, mpc, pit_exit_flag, runs>>

\* [variant] a stopped car is left to its last command
tick_halt_forgotten ==
    /\ tpc = "halt?"
    /\ IF run_flag = 2 THEN speed_goal' = 0 ELSE UNCHANGED speed_goal
    /\ tpc' = "wait"
    /\ UNCHANGED <<run_flag, picture, ramp, Zebra_cross, duty, keys, mpc, pit_exit_flag, runs, stood>>

tick_halt ==
    /\ tpc = "halt?"
    /\ tpc' = IF run_flag = 2 THEN "halt_goal" ELSE "wait"
    /\ UNCHANGED <<flags, duty, keys, mpc, pit_exit_flag, runs, stood>>

tick_goal ==
    /\ tpc = "halt_goal" /\ tpc' = "halt1"
    /\ speed_goal' = 0
    /\ UNCHANGED <<run_flag, picture, ramp, Zebra_cross, duty, keys, mpc, pit_exit_flag, runs, stood>>

Timer ==
    \/ tick_begin \/ tick_drive
    \/ set_motor(1, "drive1", "drive2") \/ set_motor(2, "drive2", "halt?")
    \/ tick_halt \/ tick_goal
    \/ halt_motor(1, "halt1", "halt2") \/ halt_motor(2, "halt2", "wait")

----------------------------------------------------------------------------
(* SIGINT is taken by the main thread wherever it is; before init it ends  *)
(* the process.  The handler calls exit, and exit calls cleanup.           *)

sigint ==
    /\ mpc \in Starting \union Loop
    /\ mpc' = IF mpc = "init" THEN "killed" ELSE "handler1"
    /\ UNCHANGED <<flags, duty, keys, tpc, pit_exit_flag, runs, stood>>

motor_off(m, now, then) ==
    /\ mpc = now /\ mpc' = then
    /\ duty' = [duty EXCEPT ![m] = "off"]
    /\ UNCHANGED <<flags, keys, tpc, pit_exit_flag, runs, stood>>

\* [variant] the exit flag is not set before the thread is waited for
pit_stop_silent ==
    /\ mpc = "stop" /\ mpc' = "join"
    /\ UNCHANGED <<flags, duty, keys, tpc, pit_exit_flag, runs, stood>>

pit_stop ==
    /\ mpc = "stop" /\ mpc' = "join"
    /\ pit_exit_flag' = 1
    /\ UNCHANGED <<flags, duty, keys, tpc, runs, stood>>

\* [variant] the thread is not waited for
pit_join_none ==
    /\ mpc = "join" /\ mpc' = "collect"
    /\ UNCHANGED <<flags, duty, keys, tpc, pit_exit_flag, runs, stood>>

pit_join ==
    /\ mpc = "join" /\ mpc' = "collect"
    /\ tpc \in {"none", "ended"}
    /\ UNCHANGED <<flags, duty, keys, tpc, pit_exit_flag, runs, stood>>

stop_collect ==
    /\ mpc = "collect" /\ mpc' = "clean1"
    /\ UNCHANGED <<flags, duty, keys, tpc, pit_exit_flag, runs, stood>>

Exit ==
    \/ motor_off(1, "handler1", "handler2") \/ motor_off(2, "handler2", "stop")
    \/ pit_stop \/ pit_join \/ stop_collect
    \/ motor_off(1, "clean1", "clean2") \/ motor_off(2, "clean2", "exited")

(* a signal nobody handles: every thread is gone, the PWM device is not    *)
kill ==
    /\ mpc \notin Ended
    /\ mpc' = "killed" /\ tpc' = "none"
    /\ UNCHANGED <<flags, duty, keys, pit_exit_flag, runs, stood>>

(* the program is started again: nothing in init writes a duty             *)
start_again ==
    /\ mpc \in Ended
    /\ runs < MaxRuns
    /\ run_flag' = 0 /\ speed_goal' = 0 /\ picture' = 0 /\ ramp' = 0 /\ Zebra_cross' = 0
    /\ last5' = Pressed /\ last6' = Pressed
    /\ fresh' = 0 /\ stood' = 0
    /\ mpc' = "init" /\ tpc' = "none"
    /\ pit_exit_flag' = 0
    /\ runs' = runs + 1
    /\ UNCHANGED duty

Next == Main \/ Timer \/ sigint \/ Exit \/ kill \/ start_again

Spec == Init /\ [][Next]_vars

(* Both threads are scheduled, the timer expires, and the camera delivers  *)
(* an image again and again.  stop_collect returns.                        *)
FairSpec ==
    /\ Spec
    /\ WF_vars(Main) /\ SF_vars(frame /\ mpc' = "goal")
    /\ WF_vars(Timer) /\ WF_vars(Exit)

----------------------------------------------------------------------------
Ticks == {"none", "wait", "drive?", "drive1", "drive2", "halt?", "halt_goal", "halt1", "halt2",
          "ended"}

(* Every variable keeps to its type.                                       *)
TypeOK ==
    /\ run_flag \in 0 .. 2
    /\ speed_goal \in {0, 100, 150, 600}
    /\ picture \in {0, 2} /\ ramp \in {0, 2}
    /\ Zebra_cross \in {0, 5}
    /\ fresh \in {0, 1} /\ stood \in {0, 1} /\ pit_exit_flag \in {0, 1}
    /\ duty \in [Motors -> {"off", "driven"}]
    /\ last5 \in {Pressed, Released} /\ last6 \in {Pressed, Released}
    /\ mpc \in Starting \union Loop \union Leaving \union Ended
    /\ tpc \in Ticks
    /\ runs \in Nat

(* Ctrl-C leaves the motors off, wherever it met the two threads: a tick   *)
(* under way may drive them again after the handler, and not after exit.   *)
MotorsOffAtExit == mpc = "exited" => Standing

(* A program that has not been launched stands still, although it never    *)
(* writes a duty before the launch: the exit before it switched them off,  *)
(* unless a signal nobody handles ended it.                                *)
Unlaunched == mpc \in Starting \union Loop /\ run_flag = 0
NotKilled == mpc # "killed"
StandsUntilLaunched == []NotKilled => [](Unlaunched => Standing)

(* A launch takes a press of its own: a key held down, or not let go since *)
(* the launch before, does not start the car.                              *)
FreshPress == [][run_flag # 1 /\ run_flag' = 1 => fresh = 1]_vars

(* Once a tick has halted a stopped car nothing moves it before the next   *)
(* launch: no late half of a tick, no key, no frame.                       *)
StoppedStands == stood = 1 /\ run_flag # 1 => Standing

(* A stop reaches the motors.                                              *)
StopReaches ==
    (run_flag = 2 /\ tpc # "none") ~> (Standing \/ run_flag = 1 \/ mpc = "killed")

(* A car that drives gets its goal even if the timer thread zeroes it in   *)
(* answer to a stop that is over.                                          *)
GoalReturns ==
    (run_flag = 1 /\ speed_goal = 0) ~> (speed_goal # 0 \/ run_flag # 1 \/ mpc \notin Loop)

(* Ctrl-C ends the program, and does so from any place of both threads.    *)
ExitEnds == mpc = "handler1" ~> mpc \in Ended

(* "the program exits abnormally, cleaning up": it leaves no motor driven. *)
MotorsOffWhenEnded == mpc \in Ended => Standing
====
