------------------------------ MODULE Steering ------------------------------
(***************************************************************************)
(* From the picture to the wheels.  On the main thread Err_Sum sets the    *)
(* speed goal, looks at one row of the road and steers by its error; on    *)
(* the timer thread pit_callback turns the steering and the speed error    *)
(* into a command for each motor.  The numbers are whole; what a           *)
(* controller multiplies by 0 is left out.                                 *)
(***************************************************************************)
EXTENDS Integers

CONSTANTS
  bottom,      \* imgInfo.bottom, 59
  Nearest,     \* the lowest row that is looked at, 50
  Frames,      \* what a frame may hand to Err_Sum
  Edges,       \* the error seen from the side line a picture is passed on
  Lookaheads,  \* forward1 - Now_Speed / 40
  Speeds,      \* MaX_Speed, filtered from the encoders
  Turns        \* Dis_Speed, the turn the gyroscope measures

Rows == 0..bottom

ASSUME RowsAssumption ==
  /\ bottom \in Nat /\ Nearest \in Nat \ {0} /\ Nearest <= bottom - 2
  /\ Frames \subseteq [top : Rows, road : [Rows -> Int], picture : {0, 2, 3}, ramp : {0, 2}]
  /\ Edges \subseteq Int
  /\ Lookaheads \subseteq Int /\ Speeds \subseteq Int /\ Turns \subseteq Int

VARIABLES
  run_flag,    \* 1 drives, 2 stopped
  mpc, tpc,    \* where the two threads are
  seen,        \* the frame: its first row, the errors of its rows, and the
               \* flags of a picture (3 stands for 3 and 4) and a ramp
  speed_goal,
  forward,     \* the row looked at
  Dir_Err,     \* row -> its error, from the last picture that had the row
  Dir_err,     \* the error steered by
  Kp,          \* Image.Kp
  Image_out,
  Dis_Out,
  last_error,  \* Velocity.last_error
  pwm          \* what set_pwm wrote, the sign for the direction

wheels == <<Dis_Out, last_error, pwm>>
look == <<forward, Dir_Err, Dir_err, Kp, Image_out>>
vars == <<run_flag, mpc, tpc, seen, speed_goal, look, wheels>>

LIMIT(x, bound) == IF x > bound THEN bound ELSE IF x < -bound THEN -bound ELSE x

Init ==
  /\ run_flag = 2 /\ mpc = "keys" /\ tpc = "wait"
  /\ seen \in Frames
  /\ speed_goal = 0 /\ forward = 0
  /\ Dir_Err = [i \in Rows |-> 0] /\ Dir_err = 0
  /\ Kp = 12 /\ Image_out = 0
  /\ Dis_Out = 0 /\ last_error = 0 /\ pwm = [L |-> 0, R |-> 0]
-----------------------------------------------------------------------------
(* A key starts or stops the car.                                          *)
Keys ==
  /\ mpc = "keys" /\ mpc' = "frame"
  /\ run_flag' \in {1, 2}
  /\ UNCHANGED <<tpc, seen, speed_goal, look, wheels>>

(* ImageDeal up to Err_Sum.  The finish line may stop the car.             *)
Frame ==
  /\ mpc = "frame" /\ mpc' = "goal"
  /\ seen' \in Frames
  /\ run_flag' \in {run_flag, 2}
  /\ UNCHANGED <<tpc, speed_goal, look, wheels>>

(* Err_Sum: the goal, which a picture or a ramp then lowers.               *)
Goal ==
  /\ mpc = "goal"
  /\ IF run_flag = 1 THEN speed_goal' = 600 /\ mpc' = "lower"
                     ELSE UNCHANGED speed_goal /\ mpc' = "steer"
  /\ UNCHANGED <<run_flag, tpc, seen, look, wheels>>

Lower ==
  /\ mpc = "lower" /\ mpc' = "steer"
  /\ speed_goal' = IF seen.ramp = 2 THEN 150 ELSE IF seen.picture = 2 THEN 100 ELSE speed_goal
  /\ UNCHANGED <<run_flag, tpc, seen, look, wheels>>

(* A roundabout looks nearer or further.                                   *)
Shifts == {0, -3, -1, 2}

(* [variant] The first row itself may be looked at.                        *)
Clamped_first(row) ==
  LET below == IF row < seen.top THEN seen.top ELSE row
  IN IF below > Nearest THEN Nearest ELSE below

(* First below the first row of the picture, then above the bottom.        *)
Clamped(row) ==
  LET below == IF row < seen.top + 1 THEN seen.top + 1 ELSE row
  IN IF below > Nearest THEN Nearest ELSE below

(* The rows of this picture; the others keep what an older one left.       *)
Measured ==
  [i \in Rows |-> IF seen.top < i /\ i < bottom - 1 THEN seen.road[i] ELSE Dir_Err[i]]

(* 3.5 * MaX_Speed / 400 * 5, half of it far ahead or before the line.     *)
Gain(speed, part) == LET k == (7 * speed) \div (160 * part) IN IF k > 20 THEN 20 ELSE k

(* The rest of Err_Sum.  Row and gain are set anew in a run only; the      *)
(* steering output is the one value here that the timer thread reads.      *)
Steer ==
  /\ mpc = "steer" /\ mpc' = "keys"
  /\ \E shift \in Shifts, ahead \in Lookaheads :
       forward' = Clamped((IF run_flag = 1 THEN ahead ELSE forward) + shift)
  /\ Dir_Err' = Measured
  /\ Dir_err' \in IF seen.picture = 3 THEN Edges ELSE {Measured[forward']}
  /\ Kp' \in IF run_flag = 1 THEN {Gain(speed, part) : speed \in Speeds, part \in {1, 2}} ELSE {Kp}
  /\ Image_out' = LIMIT(Kp' * Dir_err', 10000)
  /\ UNCHANGED <<run_flag, tpc, seen, speed_goal, wheels>>

Main == Keys \/ Frame \/ Goal \/ Lower \/ Steer
-----------------------------------------------------------------------------
(* pit_callback.  Dis_PID_Calculate comes first, then Speed_PID_Cal.       *)
TickSteer ==
  /\ tpc = "wait" /\ run_flag = 1
  /\ tpc' = "drive"
  /\ \E turn \in Turns : Dis_Out' = LIMIT(50 * (-Image_out - turn), 20000)
  /\ UNCHANGED <<run_flag, mpc, seen, speed_goal, look, last_error, pwm>>

(* [variant] The output is not limited.                                    *)
Speed_PID_Cal_free(error) == 4 * speed_goal + 30 * error + 15 * (error - last_error)

Speed_PID_Cal(error) ==
  LIMIT(4 * speed_goal + 30 * error + 15 * (error - last_error), 10000)

(* PWM_L and PWM_R are 16 bits wide.                                       *)
int16(x) == ((x + 32768) % 65536) - 32768

(* The wheel on the inside of the turn gets less.                          *)
PWM(v, d) == [L |-> int16(IF d > 0 THEN v ELSE v + (2 * d)),
              R |-> int16(IF d > 0 THEN v - (2 * d) ELSE v)]

set_pwm(command) == pwm' = [wheel \in {"L", "R"} |-> LIMIT(command[wheel], 10000)]

TickDrive ==
  /\ tpc = "drive" /\ tpc' = "halt"
  /\ \E speed \in Speeds :
       LET error == speed_goal - speed
       IN set_pwm(PWM(Speed_PID_Cal(error), Dis_Out)) /\ last_error' = error
  /\ UNCHANGED <<run_flag, mpc, seen, speed_goal, look, Dis_Out>>

(* A tick that did not drive, and the end of one that did.                 *)
TickHalt ==
  /\ tpc = "halt" \/ (tpc = "wait" /\ run_flag # 1)
  /\ tpc' = "wait"
  /\ IF run_flag = 2 THEN speed_goal' = 0 /\ set_pwm([L |-> 0, R |-> 0])
                     ELSE UNCHANGED <<speed_goal, pwm>>
  /\ UNCHANGED <<run_flag, mpc, seen, look, Dis_Out, last_error>>

Tick == TickSteer \/ TickDrive \/ TickHalt

Next == Main \/ Tick

Spec == Init /\ [][Next]_vars
-----------------------------------------------------------------------------
(* The car steers by a row of the picture before it, as long as that       *)
(* picture reaches up to the lowest row looked at: whatever row was looked *)
(* at before, while the car stood and the shifts of a roundabout added up, *)
(* and whatever an older picture left in the rows above this one.          *)
SteersByThisPicture ==
  mpc = "keys" /\ seen.top < Nearest /\ seen.picture # 3 /\ forward # 0 =>
    seen.top < forward /\ Dir_err = seen.road[forward]

(* The wheels turn the car to the side the steering asks for, as long as   *)
(* the steering is small enough for a command of 16 bits: at no speed and  *)
(* no speed goal, changed by the other thread or not, is the inner wheel   *)
(* driven past the outer one.  Steering below 0 is to the left.            *)
InRange(d) == -11384 <= d /\ d <= 11384

TurnsAsSteered ==
  [][tpc = "drive" /\ tpc' = "halt" /\ InRange(Dis_Out) =>
       /\ Dis_Out < 0 => pwm'["L"] <= pwm'["R"]
       /\ Dis_Out > 0 => pwm'["R"] <= pwm'["L"]]_vars
=============================================================================
