------------------------------ MODULE MCMotor ------------------------------
(***************************************************************************)
(* Motor with a history variable: the direction of the last Bluetooth tilt *)
(* that was not refused at a limit.  MCSpec bounds it for TLC, which runs  *)
(* it with the real constants; HistorySpec is for the proofs.              *)
(***************************************************************************)
EXTENDS Motor

VARIABLE lastTilt

mcVars == <<motorVars, lastTilt>>

MCAngles == {-128, 0, 30, 127}

\* The speeds the environment picks: the ends of the range and the initial one.
MCSpeedChoice == {0, 1, 2, MAX_MOTOR_SPEED}

MCInit == init_motors /\ lastTilt = "none"

\* A Bluetooth move; a tilt at its limit is refused and leaves no trace.
MCMove ==
  /\ sleeping = "none"
  /\ \E d \in Directions :
       /\ move_direction(d)
       /\ lastTilt' = IF \/ d = "MOVE_UP" /\ PWM_CW180 > kCW180_MIN
                         \/ d = "MOVE_DOWN" /\ PWM_CW180 < kCW180_MAX
                      THEN d ELSE lastTilt

\* Everything else.  Buttons act with the flag down: it is never raised here.
MCOther ==
  /\ sleeping = "none"
  /\ ButtonCall \/ AngleCall \/ SpeedCall
  /\ UNCHANGED lastTilt

MCWake == MotorWake /\ UNCHANGED lastTilt

MCNext == MCMove \/ MCOther \/ MCWake

HistorySpec == MCInit /\ [][MCNext]_mcVars

MCSpec == MCInit /\ [][MCNext /\ leftright_speed' \in MCSpeedChoice]_mcVars

(***************************************************************************)
(* The boost remembers the direction of the last Bluetooth tilt through    *)
(* any sequence of button moves, angle moves, speed changes and refusals   *)
(* at the limits: exactly the opposite direction gets the threefold step   *)
(* (motor.c:111-116,129-134).                                              *)
(***************************************************************************)
BoostIsReversal ==
  /\ (up_multiplier = 3) <=> (lastTilt = "MOVE_DOWN")
  /\ (down_multiplier = 3) <=> (lastTilt = "MOVE_UP")
=============================================================================
