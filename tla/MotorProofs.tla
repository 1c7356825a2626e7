---------------------------- MODULE MotorProofs ----------------------------
(***************************************************************************)
(* For every choice of limits, rest positions and highest speed allowed by *)
(* MotorAssumption, and every set of angles: the servos stay within their  *)
(* limits.  The 16-bit reductions are the difficulty: each is shown not to *)
(* wrap, from the type invariant and the tilt limits before the step.      *)
(***************************************************************************)
EXTENDS MCMotor, TLAPS

\* The inductive invariant: the step sizes are bounded by the speeds and
\* boosts, and the positions by the limits, so neither half is inductive alone.
MotorInv == MotorTypeOK /\ TiltWithinLimits /\ PanWithinLimits

(***************************************************************************)
(* A value that fits in 16 bits is not changed by storing it in them.      *)
(***************************************************************************)
LEMMA UInt16Identity ==
  ASSUME NEW x \in Word16
  PROVE  UInt16(x) = x
BY DEF UInt16, Word16

(***************************************************************************)
(* A tilt step, boosted or not, is at most 210 times the highest speed.    *)
(***************************************************************************)
LEMMA TiltStepBound ==
  ASSUME MotorTypeOK, NEW bt \in {0, 1}
  PROVE  /\ UpStep(bt) \in 0 .. 210 * MAX_MOTOR_SPEED
         /\ DownStep(bt) \in 0 .. 210 * MAX_MOTOR_SPEED
<1> USE MotorAssumption
<1>1. updown_speed \in Nat /\ updown_speed <= 5 * MAX_MOTOR_SPEED
  BY DEF MotorTypeOK
<1>2. updown_speed * 14 * 1 = 14 * updown_speed /\ updown_speed * 14 * 3 = 42 * updown_speed
  BY <1>1
<1>3. UpStep(bt) \in {updown_speed, 14 * updown_speed, 42 * updown_speed}
  BY <1>1, <1>2 DEF UpStep, bluetooth_multiplier, MotorTypeOK
<1>4. DownStep(bt) \in {updown_speed, 14 * updown_speed, 42 * updown_speed}
  BY <1>1, <1>2 DEF DownStep, bluetooth_multiplier, MotorTypeOK
<1> QED
  BY <1>1, <1>3, <1>4

(***************************************************************************)
(* A pan step is at most 64 times the highest speed.                       *)
(***************************************************************************)
LEMMA PanStepBound ==
  ASSUME MotorTypeOK, NEW bt \in {0, 1}
  PROVE  PanStep(bt) \in 0 .. 64 * MAX_MOTOR_SPEED
BY MotorAssumption DEF MotorTypeOK, Speeds, PanStep, kRANGE360

(***************************************************************************)
(* move_up and move_down, from a button or a command, keep the tilt servo  *)
(* between its limits.                                                     *)
(***************************************************************************)
LEMMA TiltMovesKeepInv ==
  ASSUME MotorInv, NEW bt \in {0, 1}, move_up(bt) \/ move_down(bt),
         bluetooth_enabled' \in {0, 1}
  PROVE  MotorInv'
<1> USE MotorAssumption DEF MotorInv, Word16
<1>1. PWM_CW180 \in Nat /\ kCW180_MIN <= PWM_CW180 /\ PWM_CW180 <= kCW180_MAX
  BY DEF TiltWithinLimits
<1>2. UpStep(bt) \in 0 .. 210 * MAX_MOTOR_SPEED /\ DownStep(bt) \in 0 .. 210 * MAX_MOTOR_SPEED
  BY TiltStepBound
<1>3. UInt16(PWM_CW180 - UpStep(bt)) = PWM_CW180 - UpStep(bt)
  <2>1. PWM_CW180 - UpStep(bt) \in Word16
    BY <1>1, <1>2
  <2> QED BY <2>1, UInt16Identity
<1>4. UInt16(PWM_CW180 + DownStep(bt)) = PWM_CW180 + DownStep(bt)
  <2>1. PWM_CW180 + DownStep(bt) \in Word16
    BY <1>1, <1>2
  <2> QED BY <2>1, UInt16Identity
<1>5. PWM_CW180' \in kCW180_MIN .. kCW180_MAX
  <2>1. CASE move_up(bt)
    BY <2>1, <1>1, <1>2, <1>3 DEF move_up, ClampLow
  <2>2. CASE move_down(bt)
    BY <2>2, <1>1, <1>2, <1>4 DEF move_down, ClampHigh
  <2> QED BY <2>1, <2>2
<1>6. up_multiplier' \in {1, 3} /\ down_multiplier' \in {1, 3}
  BY DEF MotorTypeOK, move_up, move_down, SetMultipliers, multipliers
<1>7. UNCHANGED <<PWM_CW360, PWM_CWFIRE, updown_speed, leftright_speed, sleeping>>
  BY DEF move_up, move_down, speeds
<1>8. PWM_CW180' \in Word16
  BY <1>5
<1> QED
  BY <1>5, <1>6, <1>7, <1>8 DEF MotorTypeOK, TiltWithinLimits, PanWithinLimits, Speeds, Word16

(***************************************************************************)
(* move_left, move_right and stop_leftrght keep the pan servo within its   *)
(* limits.                                                                 *)
(***************************************************************************)
LEMMA PanMovesKeepInv ==
  ASSUME MotorInv, NEW bt \in {0, 1},
         move_left(bt) \/ move_right(bt) \/ stop_leftrght,
         bluetooth_enabled' \in {0, 1}
  PROVE  MotorInv'
<1> USE MotorAssumption DEF MotorInv, Word16
<1>1. PanStep(bt) \in 0 .. 64 * MAX_MOTOR_SPEED
  BY PanStepBound
<1>2. UInt16(kCW360_MID + PanStep(bt)) = kCW360_MID + PanStep(bt)
  <2>1. kCW360_MID + PanStep(bt) \in Word16
    BY <1>1
  <2> QED BY <2>1, UInt16Identity
<1>3. UInt16(kCW360_MID - PanStep(bt)) = kCW360_MID - PanStep(bt)
  <2>1. kCW360_MID - PanStep(bt) \in Word16
    BY <1>1
  <2> QED BY <2>1, UInt16Identity
<1>4. PWM_CW360' \in {kCW360_MID + PanStep(bt), kCW360_MID - PanStep(bt), kCW360_MID}
  BY <1>2, <1>3 DEF move_left, move_right, stop_leftrght
<1>5. PWM_CW360' \in Word16 /\ PanWithinLimits'
  BY <1>1, <1>4 DEF PanWithinLimits
<1>6. UNCHANGED <<PWM_CW180, PWM_CWFIRE, updown_speed, leftright_speed,
                  up_multiplier, down_multiplier, sleeping>>
  BY DEF move_left, move_right, stop_leftrght, speeds, multipliers
<1> QED
  BY <1>5, <1>6 DEF MotorTypeOK, TiltWithinLimits, Speeds

(***************************************************************************)
(* The angle moves keep every servo within its limits.                     *)
(***************************************************************************)
LEMMA AngleMovesKeepInv ==
  ASSUME MotorInv, NEW a \in Angles,
         move_updown_angle(a) \/ move_leftright_angle(a),
         bluetooth_enabled' \in {0, 1}
  PROVE  MotorInv'
<1> USE MotorAssumption DEF MotorInv, Word16
<1>1. CASE move_updown_angle(a)
  <2>1. a \in Int /\ ClampAngle(a, 180) \in -180 .. 180
    BY DEF ClampAngle
  <2>2. PWM_CW180 - ClampAngle(a, 180) * 33 \in Int
    BY <2>1 DEF MotorTypeOK
  <2>3. PWM_CW180' \in kCW180_MIN .. kCW180_MAX
    BY <1>1, <2>2 DEF move_updown_angle, UP_DOWN_ANGLE_PWM, ClampLow
  <2>4. PWM_CW180' \in Word16
    BY <2>3
  <2>5. UNCHANGED <<PWM_CW360, PWM_CWFIRE, updown_speed, leftright_speed,
                    up_multiplier, down_multiplier, sleeping>>
    BY <1>1 DEF move_updown_angle, speeds, multipliers
  <2> QED
    BY <2>3, <2>4, <2>5 DEF MotorTypeOK, TiltWithinLimits, PanWithinLimits, Speeds, Word16
<1>2. CASE move_leftright_angle(a)
  <2>1. UInt16(kCW360_MID - 96) = kCW360_MID - 96 /\ UInt16(kCW360_MID + 96) = kCW360_MID + 96
    BY UInt16Identity
  <2>2. PWM_CW360' \in {kCW360_MID - 96, kCW360_MID + 96}
    BY <1>2, <2>1 DEF move_leftright_angle, kRANGE360
  <2>3. PWM_CW360' \in Word16 /\ PanWithinLimits'
    BY <2>2 DEF PanWithinLimits
  <2>4. UNCHANGED <<PWM_CW180, PWM_CWFIRE, updown_speed, leftright_speed,
                    up_multiplier, down_multiplier>>
    BY <1>2 DEF move_leftright_angle, speeds, multipliers
  <2>5. sleeping' = "move_leftright_angle"
    BY <1>2 DEF move_leftright_angle
  <2> QED
    BY <2>3, <2>4, <2>5 DEF MotorTypeOK, TiltWithinLimits, Speeds
<1> QED
  BY <1>1, <1>2

(***************************************************************************)
(* The trigger, the speed setting and the wake-ups keep the invariant.     *)
(***************************************************************************)
LEMMA OtherStepsKeepInv ==
  ASSUME MotorInv, bluetooth_enabled' \in {0, 1},
         \/ motor_fire
         \/ \E s \in Speeds : set_motor_speed(s)
         \/ SetBluetoothEnabled
         \/ MotorWake
  PROVE  MotorInv'
<1> USE MotorAssumption DEF MotorInv, Word16, MotorTypeOK, TiltWithinLimits, PanWithinLimits, Speeds, Word16
<1>1. CASE motor_fire
  BY <1>1 DEF motor_fire, speeds, multipliers
<1>2. ASSUME NEW s \in Speeds, set_motor_speed(s) PROVE MotorInv'
  <2>1. s \in Nat /\ s <= MAX_MOTOR_SPEED /\ 5 * s \in Word16 /\ s \in Word16
    BY <1>2
  <2>2. updown_speed' = 5 * s /\ leftright_speed' = s
    BY <1>2, <2>1, UInt16Identity DEF set_motor_speed
  <2> QED
    BY <1>2, <2>1, <2>2 DEF set_motor_speed, servos, multipliers
<1>3. CASE SetBluetoothEnabled
  BY <1>3 DEF SetBluetoothEnabled, servos, speeds, multipliers
<1>4. CASE MotorWake
  BY <1>4 DEF MotorWake, motor_fire_end, move_leftright_angle_end, speeds, multipliers
<1> QED
  BY <1>1, <1>2, <1>3, <1>4

(***************************************************************************)
(* Every step of the motors keeps the inductive invariant.                 *)
(***************************************************************************)
LEMMA MotorStepKeepsInv == MotorInv /\ [MotorNext]_motorVars => MotorInv'
<1> SUFFICES ASSUME MotorInv, [MotorNext]_motorVars PROVE MotorInv'
  OBVIOUS
<1>b. bluetooth_enabled \in {0, 1}
  BY DEF MotorInv, MotorTypeOK
<1>1. CASE sleeping = "none" /\ ButtonCall
  <2>1. bluetooth_enabled' \in {0, 1}
    BY <1>1, <1>b DEF ButtonCall
  <2> QED
    BY <1>1, <1>b, <2>1, TiltMovesKeepInv, PanMovesKeepInv, OtherStepsKeepInv DEF ButtonCall
<1>2. CASE sleeping = "none" /\ MoveCall
  <2>1. PICK d \in Directions : move_direction(d)
    BY <1>2 DEF MoveCall
  <2>2. bluetooth_enabled' \in {0, 1} /\ (move_up(1) \/ move_down(1) \/ move_left(1) \/ move_right(1))
    BY <2>1 DEF move_direction
  <2> QED
    BY <2>2, TiltMovesKeepInv, PanMovesKeepInv
<1>3. CASE sleeping = "none" /\ AngleCall
  <2>1. PICK a \in Angles : move_updown_angle(a) \/ move_leftright_angle(a)
    BY <1>3 DEF AngleCall
  <2>2. bluetooth_enabled' \in {0, 1}
    BY <1>3, <1>b DEF AngleCall
  <2> QED
    BY <2>1, <2>2, AngleMovesKeepInv
<1>4. CASE sleeping = "none" /\ SpeedCall
  BY <1>4, <1>b, OtherStepsKeepInv DEF SpeedCall
<1>5. CASE sleeping = "none" /\ SetBluetoothEnabled
  <2>1. bluetooth_enabled' \in {0, 1}
    BY <1>5 DEF SetBluetoothEnabled
  <2> QED
    BY <1>5, <2>1, OtherStepsKeepInv
<1>6. CASE MotorWake
  <2>1. bluetooth_enabled' \in {0, 1}
    BY <1>6, <1>b DEF MotorWake, motor_fire_end, move_leftright_angle_end
  <2> QED
    BY <1>6, <2>1, OtherStepsKeepInv
<1>7. CASE UNCHANGED motorVars
  BY <1>7 DEF motorVars, MotorInv, MotorTypeOK, TiltWithinLimits, PanWithinLimits, Speeds, Word16
<1> QED
  BY <1>1, <1>2, <1>3, <1>4, <1>5, <1>6, <1>7 DEF MotorNext, MotorCall

(***************************************************************************)
(* init_motors establishes the inductive invariant.                        *)
(***************************************************************************)
LEMMA MotorInitInv == init_motors => MotorInv
BY MotorAssumption
   DEF init_motors, MotorInv, MotorTypeOK, TiltWithinLimits, PanWithinLimits, Speeds, Word16

(***************************************************************************)
(* Type correctness of the motors, for every choice of the constants.      *)
(***************************************************************************)
THEOREM MotorTypeCorrect == MotorSpec => []MotorTypeOK
<1>1. MotorInv => MotorTypeOK
  BY DEF MotorInv
<1> QED
  BY <1>1, MotorInitInv, MotorStepKeepsInv, PTL DEF MotorSpec

(***************************************************************************)
(* No sequence of buttons, commands and speed changes drives the tilt      *)
(* servo past its mechanical limits, whatever limits and highest speed     *)
(* satisfy MotorAssumption (motor.c:106-140, 158-179).                     *)
(***************************************************************************)
THEOREM TiltStaysWithinLimits == MotorSpec => []TiltWithinLimits
<1>1. MotorInv => TiltWithinLimits
  BY DEF MotorInv
<1> QED
  BY <1>1, MotorInitInv, MotorStepKeepsInv, PTL DEF MotorSpec

(***************************************************************************)
(* Nor does any sequence drive the pan servo faster than its limits        *)
(* (motor.c:142-205).                                                      *)
(***************************************************************************)
THEOREM PanStaysWithinLimits == MotorSpec => []PanWithinLimits
<1>1. MotorInv => PanWithinLimits
  BY DEF MotorInv
<1> QED
  BY <1>1, MotorInitInv, MotorStepKeepsInv, PTL DEF MotorSpec
(***************************************************************************)
(* While only the phone raises the flag, buttons leave the boost alone:    *)
(* what a tilt sets is there when the next one comes.                      *)
(***************************************************************************)
BoostInv == BoostIsReversal /\ bluetooth_enabled = 0

(***************************************************************************)
(* A Bluetooth move that is not refused sets the boost and the history     *)
(* alike; one that is refused changes neither.                             *)
(***************************************************************************)
LEMMA MoveKeepsBoost ==
  ASSUME BoostInv, MCMove
  PROVE  BoostInv'
<1> USE DEF BoostInv, BoostIsReversal
<1>1. PICK d \in Directions :
        /\ move_direction(d)
        /\ lastTilt' = IF \/ d = "MOVE_UP" /\ PWM_CW180 > kCW180_MIN
                          \/ d = "MOVE_DOWN" /\ PWM_CW180 < kCW180_MAX
                       THEN d ELSE lastTilt
  BY DEF MCMove
<1>2. bluetooth_enabled' = 0
  BY <1>1 DEF move_direction
<1>3. CASE d = "MOVE_UP"
  BY <1>1, <1>2, <1>3 DEF move_direction, move_up, SetMultipliers
<1>4. CASE d = "MOVE_DOWN"
  BY <1>1, <1>2, <1>4 DEF move_direction, move_down, SetMultipliers
<1>5. CASE d \notin {"MOVE_UP", "MOVE_DOWN"}
  BY <1>1, <1>2, <1>5 DEF move_direction, move_left, move_right, multipliers
<1> QED BY <1>3, <1>4, <1>5

(***************************************************************************)
(* Buttons, angle moves, speed changes and wake-ups change neither.        *)
(***************************************************************************)
LEMMA OthersKeepBoost ==
  ASSUME BoostInv, MCOther \/ MCWake
  PROVE  BoostInv'
<1> USE DEF BoostInv, BoostIsReversal
<1>1. UNCHANGED <<up_multiplier, down_multiplier, bluetooth_enabled, lastTilt>>
  <2>1. CASE MCOther /\ ButtonCall
    BY <2>1 DEF MCOther, ButtonCall, move_up, move_down, move_left, move_right, stop_leftrght,
                motor_fire, SetMultipliers, multipliers
  <2>2. CASE MCOther /\ AngleCall
    BY <2>2 DEF MCOther, AngleCall, move_updown_angle, move_leftright_angle, multipliers
  <2>3. CASE MCOther /\ SpeedCall
    BY <2>3 DEF MCOther, SpeedCall, set_motor_speed, multipliers
  <2>4. CASE MCWake
    BY <2>4 DEF MCWake, MotorWake, motor_fire_end, move_leftright_angle_end, multipliers
  <2> QED BY <2>1, <2>2, <2>3, <2>4 DEF MCOther
<1> QED BY <1>1

(***************************************************************************)
(* The boost is the reversal of the last Bluetooth tilt, whatever limits,  *)
(* speeds and angles, and whatever happens in between (motor.c:111-116,    *)
(* 129-134).                                                               *)
(***************************************************************************)
THEOREM BoostRemembersTilt == HistorySpec => []BoostIsReversal
<1>1. MCInit => BoostInv
  BY DEF MCInit, init_motors, BoostInv, BoostIsReversal
<1>2. BoostInv /\ [MCNext]_mcVars => BoostInv'
  <2> SUFFICES ASSUME BoostInv, [MCNext]_mcVars PROVE BoostInv'
    OBVIOUS
  <2>1. CASE UNCHANGED mcVars
    BY <2>1 DEF mcVars, motorVars, BoostInv, BoostIsReversal
  <2> QED BY <2>1, MoveKeepsBoost, OthersKeepBoost DEF MCNext
<1>3. BoostInv => BoostIsReversal
  BY DEF BoostInv
<1> QED BY <1>1, <1>2, <1>3, PTL DEF HistorySpec
=============================================================================
