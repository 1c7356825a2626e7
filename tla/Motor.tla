------------------------------- MODULE Motor -------------------------------
(***************************************************************************)
(* The three servos of the launcher (motor.c): a tilt servo driven to a    *)
(* position (PWM_CW180), a continuous-rotation pan servo driven at a speed *)
(* (PWM_CW360, stopped at kCW360_MID) and the trigger servo (PWM_CWFIRE).  *)
(*                                                                         *)
(* All arithmetic ends in 16-bit unsigned registers or locals, so every    *)
(* value that the code stores in one is reduced modulo 2^16.  The two      *)
(* functions that sleep with a servo away from its rest position           *)
(* (motor_fire, move_leftright_angle) are two steps each: sleeping names   *)
(* the function that is inside its usleep.                                 *)
(***************************************************************************)
EXTENDS Integers

CONSTANTS
  kCW180_MIN, kCW180_MID, kCW180_MAX,   \* tilt limits and centre
  kCW360_MID,                           \* pan servo at rest
  kCWFIRE_MID, kCWFIRE_MAX,             \* trigger at rest / pulled
  MIN_MOTOR_SPEED, MAX_MOTOR_SPEED,     \* motor.h
  Angles                                \* the angles callers pass (signed bytes)

UInt16(x) == x % 65536
Word16 == {n \in Nat : n < 65536}

kRANGE360 == 32
UP_DOWN_ANGLE_PWM == 33
bluetooth_multiplier == 14

Directions == {"MOVE_RIGHT", "MOVE_LEFT", "MOVE_UP", "MOVE_DOWN"}

(***************************************************************************)
(* Every speed a caller can pass: the commands accept MIN..MAX, and        *)
(* command_set_motor_speed accepts 0 (main.c:261).                         *)
(***************************************************************************)
Speeds == 0 .. MAX_MOTOR_SPEED

(***************************************************************************)
(* What the constants must satisfy for the 16-bit arithmetic not to wrap:  *)
(* the largest Bluetooth tilt step is 5 * speed * 14 * 3.  The code relies *)
(* on it without stating it; it holds for 2900, 4900 and speed 9.          *)
(***************************************************************************)
ASSUME MotorAssumption ==
  /\ MIN_MOTOR_SPEED \in Nat \ {0} /\ MAX_MOTOR_SPEED \in Nat
  /\ MIN_MOTOR_SPEED <= MAX_MOTOR_SPEED /\ 2 <= MAX_MOTOR_SPEED
  /\ kCW180_MIN \in Nat /\ kCW180_MID \in Nat /\ kCW180_MAX \in Nat
  /\ kCW180_MIN <= kCW180_MID /\ kCW180_MID <= kCW180_MAX
  /\ 210 * MAX_MOTOR_SPEED <= kCW180_MIN
  /\ kCW180_MAX + 210 * MAX_MOTOR_SPEED < 65536
  /\ kCW360_MID \in Nat
  /\ 64 * MAX_MOTOR_SPEED + 96 <= kCW360_MID
  /\ kCW360_MID + 64 * MAX_MOTOR_SPEED + 96 < 65536
  /\ kCWFIRE_MID \in Word16 /\ kCWFIRE_MAX \in Word16
  /\ kCWFIRE_MID # kCWFIRE_MAX
  /\ \A a \in Angles : a \in Int /\ -32768 <= a /\ a < 32768

VARIABLES
  PWM_CW180, PWM_CW360, PWM_CWFIRE,
  updown_speed, leftright_speed,
  up_multiplier, down_multiplier,   \* 3 for the direction that reverses the tilt
  bluetooth_enabled,                \* shared with main.c: one symbol after linking
  sleeping                          \* the motor.c function inside its usleep

servos == <<PWM_CW180, PWM_CW360, PWM_CWFIRE>>
speeds == <<updown_speed, leftright_speed>>
multipliers == <<up_multiplier, down_multiplier>>
motorVars == <<PWM_CW180, PWM_CW360, PWM_CWFIRE, updown_speed, leftright_speed,
               up_multiplier, down_multiplier, bluetooth_enabled, sleeping>>

MotorTypeOK ==
  /\ PWM_CW180 \in Word16 /\ PWM_CW360 \in Word16
  /\ PWM_CWFIRE \in {kCWFIRE_MID, kCWFIRE_MAX}
  /\ updown_speed \in 0 .. 5 * MAX_MOTOR_SPEED
  /\ leftright_speed \in Speeds
  /\ up_multiplier \in {1, 3} /\ down_multiplier \in {1, 3}
  /\ bluetooth_enabled \in {0, 1}
  /\ sleeping \in {"none", "motor_fire", "move_leftright_angle"}

(***************************************************************************)
(* The state init_motors leaves.                                           *)
(***************************************************************************)
init_motors ==
  /\ PWM_CW180 = kCW180_MID /\ PWM_CW360 = kCW360_MID /\ PWM_CWFIRE = kCWFIRE_MID
  /\ updown_speed = 5 * 2 /\ leftright_speed = 2
  /\ up_multiplier = 1 /\ down_multiplier = 1
  /\ bluetooth_enabled = 0
  /\ sleeping = "none"

-----------------------------------------------------------------------------
(* Tilt. bt is the value of bluetooth_enabled the function reads.          *)

ClampLow(pwm) == IF pwm > kCW180_MIN THEN pwm ELSE kCW180_MIN
\* Mutant: the upper clamp is forgotten.
MutClampHigh(pwm) == pwm

ClampHigh(pwm) == IF pwm < kCW180_MAX THEN pwm ELSE kCW180_MAX

UpStep(bt) == IF bt = 1 THEN updown_speed * bluetooth_multiplier * up_multiplier
                        ELSE updown_speed
DownStep(bt) == IF bt = 1 THEN updown_speed * bluetooth_multiplier * down_multiplier
                          ELSE updown_speed

\* Mutant: the boost is set by button presses too.
MutSetMultipliersAlways(bt, up, down) == up_multiplier' = up /\ down_multiplier' = down

SetMultipliers(bt, up, down) ==
  IF bt = 1 THEN up_multiplier' = up /\ down_multiplier' = down
            ELSE UNCHANGED multipliers

move_up(bt) ==
  /\ IF PWM_CW180 > kCW180_MIN
     THEN /\ PWM_CW180' = ClampLow(UInt16(PWM_CW180 - UpStep(bt)))
          /\ SetMultipliers(bt, 1, 3)
     ELSE UNCHANGED <<PWM_CW180, up_multiplier, down_multiplier>>
  /\ UNCHANGED <<PWM_CW360, PWM_CWFIRE, speeds, sleeping>>

move_down(bt) ==
  /\ IF PWM_CW180 < kCW180_MAX
     THEN /\ PWM_CW180' = ClampHigh(UInt16(PWM_CW180 + DownStep(bt)))
          /\ SetMultipliers(bt, 3, 1)
     ELSE UNCHANGED <<PWM_CW180, up_multiplier, down_multiplier>>
  /\ UNCHANGED <<PWM_CW360, PWM_CWFIRE, speeds, sleeping>>

ClampAngle(angle, limit) ==
  IF angle < -limit THEN -limit ELSE IF angle > limit THEN limit ELSE angle

\* 32-bit arithmetic here, so the difference may be negative and is clamped.
move_updown_angle(angle) ==
  LET pwm == PWM_CW180 - ClampAngle(angle, 180) * UP_DOWN_ANGLE_PWM
  IN /\ PWM_CW180' = IF pwm > kCW180_MAX THEN kCW180_MAX ELSE ClampLow(pwm)
     /\ UNCHANGED <<PWM_CW360, PWM_CWFIRE, speeds, multipliers, sleeping>>

-----------------------------------------------------------------------------
(* Pan.                                                                    *)

\* Mutant: the pan uses the tilt's speed.
MutPanStep(bt) == kRANGE360 * (IF bt = 1 THEN 2 * updown_speed ELSE updown_speed)

PanStep(bt) == kRANGE360 * (IF bt = 1 THEN 2 * leftright_speed ELSE leftright_speed)

move_left(bt) ==
  /\ PWM_CW360' = UInt16(kCW360_MID + PanStep(bt))
  /\ UNCHANGED <<PWM_CW180, PWM_CWFIRE, speeds, multipliers, sleeping>>

move_right(bt) ==
  /\ PWM_CW360' = UInt16(kCW360_MID - PanStep(bt))
  /\ UNCHANGED <<PWM_CW180, PWM_CWFIRE, speeds, multipliers, sleeping>>

stop_leftrght ==
  /\ PWM_CW360' = kCW360_MID
  /\ UNCHANGED <<PWM_CW180, PWM_CWFIRE, speeds, multipliers, sleeping>>

\* Pans at a fixed speed for a time proportional to the angle ...
move_leftright_angle(angle) ==
  /\ PWM_CW360' = UInt16(IF ClampAngle(angle, 90) > 0 THEN kCW360_MID - kRANGE360 * 3
                                                      ELSE kCW360_MID + kRANGE360 * 3)
  /\ sleeping' = "move_leftright_angle"
  /\ UNCHANGED <<PWM_CW180, PWM_CWFIRE, speeds, multipliers>>

\* ... and stops.
move_leftright_angle_end ==
  /\ sleeping = "move_leftright_angle"
  /\ PWM_CW360' = kCW360_MID
  /\ sleeping' = "none"
  /\ UNCHANGED <<PWM_CW180, PWM_CWFIRE, speeds, multipliers, bluetooth_enabled>>

(***************************************************************************)
(* A Bluetooth move: the flag is raised for the call and LOWERED after it, *)
(* whatever it was before.                                                 *)
(***************************************************************************)
move_direction(direction) ==
  /\ \/ direction = "MOVE_UP" /\ move_up(1)
     \/ direction = "MOVE_DOWN" /\ move_down(1)
     \/ direction = "MOVE_LEFT" /\ move_left(1)
     \/ direction = "MOVE_RIGHT" /\ move_right(1)
  /\ bluetooth_enabled' = 0

-----------------------------------------------------------------------------
(* Trigger and speed.                                                      *)

motor_fire ==
  /\ PWM_CWFIRE' = kCWFIRE_MAX
  /\ sleeping' = "motor_fire"
  /\ UNCHANGED <<PWM_CW180, PWM_CW360, speeds, multipliers>>

motor_fire_end ==
  /\ sleeping = "motor_fire"
  /\ PWM_CWFIRE' = kCWFIRE_MID
  /\ sleeping' = "none"
  /\ UNCHANGED <<PWM_CW180, PWM_CW360, speeds, multipliers, bluetooth_enabled>>

set_motor_speed(speed_multiplier) ==
  /\ updown_speed' = UInt16(5 * speed_multiplier)
  /\ leftright_speed' = UInt16(speed_multiplier)
  /\ UNCHANGED <<servos, multipliers, sleeping>>

get_motor_speed == leftright_speed

-----------------------------------------------------------------------------
(***************************************************************************)
(* The motors on their own: any caller, in any order, but never while the  *)
(* single thread sleeps inside motor.c.  main.c sets and clears            *)
(* bluetooth_enabled behind motor.c's back (SetBluetoothEnabled).          *)
(***************************************************************************)
SetBluetoothEnabled ==
  /\ bluetooth_enabled' \in {0, 1}
  /\ UNCHANGED <<servos, speeds, multipliers, sleeping>>

ButtonCall ==
  /\ \/ move_up(bluetooth_enabled) \/ move_down(bluetooth_enabled)
     \/ move_left(bluetooth_enabled) \/ move_right(bluetooth_enabled)
     \/ stop_leftrght \/ motor_fire
  /\ UNCHANGED bluetooth_enabled

MoveCall == \E d \in Directions : move_direction(d)

AngleCall ==
  /\ \E a \in Angles : move_updown_angle(a) \/ move_leftright_angle(a)
  /\ UNCHANGED bluetooth_enabled

SpeedCall == (\E s \in Speeds : set_motor_speed(s)) /\ UNCHANGED bluetooth_enabled

MotorCall ==
  /\ sleeping = "none"
  /\ ButtonCall \/ MoveCall \/ AngleCall \/ SpeedCall \/ SetBluetoothEnabled

MotorWake == motor_fire_end \/ move_leftright_angle_end

MotorNext == MotorCall \/ MotorWake

MotorSpec == init_motors /\ [][MotorNext]_motorVars

-----------------------------------------------------------------------------
(***************************************************************************)
(* The tilt servo is never driven past its mechanical limits, although     *)
(* the step is subtracted and added in 16-bit unsigned arithmetic that     *)
(* could wrap past the clamp (motor.c:106-140, 158-179).                   *)
(***************************************************************************)
TiltWithinLimits == PWM_CW180 \in kCW180_MIN .. kCW180_MAX

(***************************************************************************)
(* The pan servo never gets a pulse further from rest than twice the range *)
(* at the highest speed, or the fixed speed of an angle move: 16-bit       *)
(* wrapping never reverses it (motor.c:142-205).                           *)
(***************************************************************************)
PanWithinLimits ==
  /\ kCW360_MID - 64 * MAX_MOTOR_SPEED - 96 <= PWM_CW360
  /\ PWM_CW360 <= kCW360_MID + 64 * MAX_MOTOR_SPEED + 96
=============================================================================
