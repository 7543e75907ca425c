--------------------------- MODULE SteeringProofs ---------------------------
(* Steering for pictures of every size, every lookahead and every speed:   *)
(* the row looked at, the wheels while the command fits its 16 bits, and   *)
(* what a command does that does not fit.                                  *)
EXTENDS Steering, TLAPS

LEMMA LimitBounds ==
  ASSUME NEW x \in Int, NEW bound \in Nat
  PROVE  /\ LIMIT(x, bound) \in Int
         /\ -bound <= LIMIT(x, bound) /\ LIMIT(x, bound) <= bound
         /\ -bound <= x /\ x <= bound => LIMIT(x, bound) = x
BY DEF LIMIT

LEMMA LimitMonotone ==
  ASSUME NEW x \in Int, NEW y \in Int, NEW bound \in Nat, x <= y
  PROVE  LIMIT(x, bound) <= LIMIT(y, bound)
BY DEF LIMIT

LEMMA Remainder ==
  ASSUME NEW n \in Int, NEW m \in Int, -m <= n, n < m, m > 0
  PROVE  n % m = IF n < 0 THEN n + m ELSE n
OBVIOUS

(* A number that fits is kept, one that is too small by less than 65536    *)
(* comes back from above.                                                  *)
LEMMA Int16Keeps ==
  ASSUME NEW x \in Int, -32768 <= x, x <= 32767
  PROVE  int16(x) = x
<1>1. (x + 32768) % 65536 = x + 32768 BY Remainder
<1> QED BY <1>1 DEF int16

LEMMA Int16Wraps ==
  ASSUME NEW x \in Int, -98304 <= x, x < -32768
  PROVE  int16(x) = x + 65536
<1>1. (x + 32768) % 65536 = x + 32768 + 65536 BY Remainder
<1> QED BY <1>1 DEF int16
-----------------------------------------------------------------------------
(* What both properties rely on: the values have their types.              *)
SteerTypes ==
  /\ seen \in Frames
  /\ forward \in Int /\ Dir_Err \in [Rows -> Int] /\ Dir_err \in Int
  /\ speed_goal \in Int /\ last_error \in Int
  /\ Kp \in Int /\ Image_out \in Int /\ Dis_Out \in Int

SteerInv == SteerTypes /\ SteersByThisPicture

LEMMA FrameHas ==
  ASSUME seen \in Frames
  PROVE  /\ seen.top \in Int /\ bottom \in Int /\ Nearest \in Int
         /\ 0 <= seen.top /\ 1 <= Nearest /\ Nearest <= bottom - 2
         /\ seen.road \in [Rows -> Int]
BY RowsAssumption DEF Rows

(* The row looked at lies in this picture if the picture reaches Nearest.  *)
LEMMA RowInPicture ==
  ASSUME seen \in Frames, NEW row \in Int
  PROVE  /\ Clamped(row) \in 1..Nearest
         /\ seen.top < Nearest => seen.top < Clamped(row)
<1>1. /\ seen.top \in Int /\ Nearest \in Int
      /\ 0 <= seen.top /\ 1 <= Nearest
  BY FrameHas
<1> QED BY <1>1 DEF Clamped

LEMMA MeasuredRows ==
  ASSUME SteerTypes
  PROVE  /\ Measured \in [Rows -> Int]
         /\ \A i \in Rows : seen.top < i /\ i < bottom - 1 => Measured[i] = seen.road[i]
<1>1. seen.road \in [Rows -> Int] /\ Dir_Err \in [Rows -> Int]
  BY FrameHas DEF SteerTypes
<1> QED BY <1>1 DEF Measured

LEMMA GainInt == ASSUME NEW s \in Int, NEW part \in {1, 2} PROVE Gain(s, part) \in Int
<1>1. 7 * s \in Int /\ 160 * part \in Nat \ {0} OBVIOUS
<1>2. \A a \in Int, b \in Nat \ {0} : a \div b \in Int OBVIOUS
<1>3. (7 * s) \div (160 * part) \in Int BY <1>1, <1>2
<1> QED BY <1>3 DEF Gain

LEMMA InitOK == Init => SteerInv
BY RowsAssumption DEF Init, SteerInv, SteerTypes, SteersByThisPicture, Rows

(* The steps of the main thread before Err_Sum steers.                     *)
LEMMA BeforeSteerOK ==
  ASSUME SteerInv, Keys \/ Frame \/ Goal \/ Lower
  PROVE  SteerInv'
<1>1. mpc' # "keys" BY DEF Keys, Frame, Goal, Lower
<1>2. SteersByThisPicture' BY <1>1 DEF SteersByThisPicture
<1>3. SteerTypes'
  BY DEF SteerInv, SteerTypes, Keys, Frame, Goal, Lower, look, wheels
<1> QED BY <1>2, <1>3 DEF SteerInv

LEMMA SteerOK == ASSUME SteerInv, Steer PROVE SteerInv'
<1>1. SteerTypes /\ seen \in Frames /\ seen' = seen
  BY DEF SteerInv, SteerTypes, Steer
<1>2. PICK row \in Int : forward' = Clamped(row)
  BY <1>1, RowsAssumption DEF Steer, Shifts, SteerTypes
<1>3. forward' \in 1..Nearest /\ (seen.top < Nearest => seen.top < forward')
  BY <1>1, <1>2, RowInPicture
<1>4. forward' \in Rows /\ forward' < bottom - 1
  BY <1>1, <1>3, FrameHas DEF Rows
<1>5. Dir_Err' = Measured /\ Measured \in [Rows -> Int]
  BY <1>1, MeasuredRows DEF Steer
<1>6. Dir_err' \in Int
  BY <1>4, <1>5, RowsAssumption DEF Steer
<1>7. Kp' \in Int
  <2>1. CASE run_flag = 1
    <3>1. PICK s \in Speeds, part \in {1, 2} : Kp' = Gain(s, part)
      BY <2>1 DEF Steer
    <3> QED BY <3>1, GainInt, RowsAssumption
  <2>2. CASE run_flag # 1
    BY <2>2, <1>1 DEF Steer, SteerTypes
  <2> QED BY <2>1, <2>2
<1>8. Image_out' \in Int
  <2>1. \A a \in Int, b \in Int : a * b \in Int OBVIOUS
  <2>2. Kp' * Dir_err' \in Int BY <1>6, <1>7, <2>1
  <2> QED BY <2>2, LimitBounds DEF Steer
<1>9. SteerTypes'
  BY <1>1, <1>3, <1>5, <1>6, <1>7, <1>8 DEF SteerTypes, Steer, wheels
<1>10. SteersByThisPicture'
  <2>1. CASE seen.top < Nearest /\ seen.picture # 3
    <3>1. Dir_err' = Measured[forward'] BY <2>1 DEF Steer
    <3>2. seen.top < forward' BY <2>1, <1>3
    <3>3. Measured[forward'] = seen.road[forward']
      BY <1>1, <1>4, <3>2, MeasuredRows
    <3> QED BY <1>1, <3>1, <3>2, <3>3 DEF SteersByThisPicture
  <2>2. CASE ~(seen.top < Nearest /\ seen.picture # 3)
    BY <2>2, <1>1 DEF SteersByThisPicture
  <2> QED BY <2>1, <2>2
<1> QED BY <1>9, <1>10 DEF SteerInv

(* The timer thread writes nothing that Err_Sum steers by.                 *)
LEMMA TickOK == ASSUME SteerInv, Tick PROVE SteerInv'
<1>1. UNCHANGED <<mpc, seen, look>>
  BY DEF Tick, TickSteer, TickDrive, TickHalt
<1>2. SteersByThisPicture'
  BY <1>1 DEF SteerInv, SteersByThisPicture, look
<1>3. SteerTypes'
  <2>1. CASE TickSteer
    <3>1. PICK turn \in Int : Dis_Out' = LIMIT(50 * (-Image_out - turn), 20000)
      BY <2>1, RowsAssumption DEF TickSteer
    <3>2. 50 * (-Image_out - turn) \in Int BY DEF SteerInv, SteerTypes
    <3>3. Dis_Out' \in Int BY <3>1, <3>2, LimitBounds
    <3> QED BY <2>1, <1>1, <3>3 DEF SteerInv, SteerTypes, TickSteer, look
  <2>2. CASE TickDrive
    <3>1. PICK s \in Int : last_error' = speed_goal - s
      BY <2>2, RowsAssumption DEF TickDrive
    <3> QED BY <2>2, <1>1, <3>1 DEF SteerInv, SteerTypes, TickDrive, look
  <2>3. CASE TickHalt
    BY <2>3, <1>1 DEF SteerInv, SteerTypes, TickHalt, look
  <2> QED BY <2>1, <2>2, <2>3 DEF Tick
<1> QED BY <1>2, <1>3 DEF SteerInv

LEMMA StutterOK == ASSUME SteerInv, UNCHANGED vars PROVE SteerInv'
BY DEF SteerInv, SteerTypes, SteersByThisPicture, vars, look, wheels

THEOREM InvHolds == Spec => []SteerInv
<1>1. SteerInv /\ [Next]_vars => SteerInv'
  BY BeforeSteerOK, SteerOK, TickOK, StutterOK DEF Next, Main
<1> QED BY InitOK, <1>1, PTL DEF Spec

(* Err_Sum steers by a row of the picture before it that it has measured   *)
(* in this frame, as long as the picture reaches up to the lowest row      *)
(* looked at.                                                              *)
THEOREM SteersByThisPictureHolds == Spec => []SteersByThisPicture
<1>1. SteerInv => SteersByThisPicture BY DEF SteerInv
<1> QED BY InvHolds, <1>1, PTL
-----------------------------------------------------------------------------
(* The speed controller's command is limited, the turn is added after it.  *)
LEMMA InnerWheelSlower ==
  ASSUME NEW v \in Int, -10000 <= v, v <= 10000,
         NEW d \in Int, InRange(d), set_pwm(PWM(v, d))
  PROVE  /\ d < 0 => pwm'["L"] <= pwm'["R"]
         /\ d > 0 => pwm'["R"] <= pwm'["L"]
<1> DEFINE l == IF d > 0 THEN v ELSE v + (2 * d)
           r == IF d > 0 THEN v - (2 * d) ELSE v
<1>1. /\ l \in Int /\ -32768 <= l /\ l <= 32767
      /\ r \in Int /\ -32768 <= r /\ r <= 32767
  BY DEF InRange
<1>2. (d < 0 => l <= r) /\ (d > 0 => r <= l)
  OBVIOUS
<1>3. pwm'["L"] = LIMIT(int16(l), 10000) /\ pwm'["R"] = LIMIT(int16(r), 10000)
  BY DEF set_pwm, PWM
<1> HIDE DEF l, r
<1>4. pwm'["L"] = LIMIT(l, 10000) /\ pwm'["R"] = LIMIT(r, 10000)
  BY <1>1, <1>3, Int16Keeps
<1>5. /\ l <= r => LIMIT(l, 10000) <= LIMIT(r, 10000)
      /\ r <= l => LIMIT(r, 10000) <= LIMIT(l, 10000)
  BY <1>1, LimitMonotone
<1> QED BY <1>2, <1>4, <1>5

LEMMA DriveTurns ==
  ASSUME SteerTypes, [Next]_vars, tpc = "drive", tpc' = "halt", InRange(Dis_Out)
  PROVE  /\ Dis_Out < 0 => pwm'["L"] <= pwm'["R"]
         /\ Dis_Out > 0 => pwm'["R"] <= pwm'["L"]
<1>1. TickDrive
  BY DEF Next, Main, Keys, Frame, Goal, Lower, Steer, Tick, TickSteer, TickHalt, vars
<1>2. PICK s \in Speeds : set_pwm(PWM(Speed_PID_Cal(speed_goal - s), Dis_Out))
  BY <1>1 DEF TickDrive
<1>3. speed_goal \in Int /\ last_error \in Int /\ s \in Int /\ Dis_Out \in Int
  BY RowsAssumption DEF SteerTypes
<1> DEFINE v == Speed_PID_Cal(speed_goal - s)
<1>4. v \in Int /\ -10000 <= v /\ v <= 10000
  <2>1. 4 * speed_goal + 30 * (speed_goal - s) + 15 * (speed_goal - s - last_error) \in Int
    BY <1>3
  <2> QED BY <2>1, LimitBounds DEF Speed_PID_Cal
<1>5. set_pwm(PWM(v, Dis_Out))
  BY <1>2
<1> HIDE DEF v
<1> QED BY <1>3, <1>4, <1>5, InnerWheelSlower

(* A steering of up to 11384 never drives the inner wheel past the outer   *)
(* one, at any speed and speed goal: the command of pit_callback fits its  *)
(* 16 bits.                                                                *)
THEOREM TurnsAsSteeredHolds == Spec => TurnsAsSteered
<1>1. SteerInv /\ [Next]_vars =>
        [tpc = "drive" /\ tpc' = "halt" /\ InRange(Dis_Out) =>
           /\ Dis_Out < 0 => pwm'["L"] <= pwm'["R"]
           /\ Dis_Out > 0 => pwm'["R"] <= pwm'["L"]]_vars
  BY DriveTurns DEF SteerInv
<1> QED BY InvHolds, <1>1, PTL DEF Spec, TurnsAsSteered

(* Beyond that the bound of 11384 is needed: at full steering and a speed  *)
(* command of up to 7231 the command of the inner wheel, computed beyond   *)
(* 16 bits and stored in them before set_pwm limits it, drives that wheel  *)
(* forward at full power.                                                  *)
THEOREM HardTurnWraps ==
  ASSUME NEW v \in Int, -10000 <= v, v <= 7231
  PROVE  /\ set_pwm(PWM(v, 20000)) => pwm'["R"] = 10000 /\ pwm'["L"] < pwm'["R"]
         /\ set_pwm(PWM(v, -20000)) => pwm'["L"] = 10000 /\ pwm'["R"] < pwm'["L"]
<1>1. int16(v - 40000) = v + 25536
  BY Int16Wraps
<1>2. int16(v) = v
  BY Int16Keeps
<1>3. LIMIT(v + 25536, 10000) = 10000 /\ LIMIT(v, 10000) < 10000
  BY DEF LIMIT
<1>4. 2 * 20000 = 40000 /\ v + 2 * (-20000) = v - 40000
  OBVIOUS
<1>5. set_pwm(PWM(v, 20000)) => /\ pwm'["R"] = LIMIT(int16(v - 40000), 10000)
                                /\ pwm'["L"] = LIMIT(int16(v), 10000)
  BY <1>4 DEF set_pwm, PWM
<1>6. set_pwm(PWM(v, -20000)) => /\ pwm'["L"] = LIMIT(int16(v - 40000), 10000)
                                 /\ pwm'["R"] = LIMIT(int16(v), 10000)
  BY <1>4 DEF set_pwm, PWM
<1> QED BY <1>1, <1>2, <1>3, <1>5, <1>6
=============================================================================
