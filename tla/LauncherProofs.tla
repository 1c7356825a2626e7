--------------------------- MODULE LauncherProofs ---------------------------
(***************************************************************************)
(* The whole firmware uses the motors as Motor allows, whatever the user,  *)
(* the camera and the phone do: so what MotorProofs proves of the motors   *)
(* on their own holds of the firmware.  And the lockouts of Launcher, for  *)
(* every set of buttons, speeds, camera answers and depth of photos.       *)
(***************************************************************************)
EXTENDS Launcher, MotorProofs, SequenceTheorems

(***************************************************************************)
(* The speed that a command saved is one that the motors accept.           *)
(***************************************************************************)
SavedSpeedOK == prev_speed \in Speeds

(***************************************************************************)
(* A speed that passes the command's check is one the motors accept.       *)
(***************************************************************************)
LEMMA ValidSpeeds ==
  ASSUME NEW speed \in FieldBytes, ValidSpeed(speed)
  PROVE  speed \in Speeds
BY LauncherAssumption, MotorAssumption DEF ValidSpeed, Speeds

(***************************************************************************)
(* A touch or its end is, for the motors, a call from a button or nothing. *)
(***************************************************************************)
LEMMA InputIsMotorStep ==
  ASSUME UserInput
  PROVE  [MotorNext]_motorVars
<1> USE DEF MotorNext, MotorCall, ButtonCall
<1>1. CASE PollNothing
  BY <1>1 DEF PollNothing, ReturnTouched
<1>2. ASSUME NEW b \in Touchable, PollOther(b) PROVE [MotorNext]_motorVars
  BY <1>2 DEF PollOther, ReturnTouched
<1>3. ASSUME NEW b \in Touchable, PollDisabled(b) PROVE [MotorNext]_motorVars
  BY <1>3 DEF PollDisabled, Polled
<1>4. ASSUME NEW b \in Touchable, mode_callback(b) PROVE [MotorNext]_motorVars
  BY <1>4 DEF mode_callback
<1>5. ASSUME NEW b \in Touchable, motor_callback(b) PROVE [MotorNext]_motorVars
  BY <1>5 DEF motor_callback, Polled
<1>6. CASE bluetooth_callback
  <2>1. SetBluetoothEnabled /\ sleeping = "none"
    BY <1>6 DEF bluetooth_callback, Polled, SetBluetoothEnabled
  <2> QED BY <2>1
<1>7. CASE photo_button
  BY <1>7 DEF photo_button
<1>8. CASE photo_callback
  BY <1>8 DEF photo_callback
<1> QED
  BY <1>1, <1>2, <1>3, <1>4, <1>5, <1>6, <1>7, <1>8 DEF UserInput, Touch

(***************************************************************************)
(* So are the modes ...                                                    *)
(***************************************************************************)
LEMMA ModeIsMotorStep ==
  ASSUME \/ MainLoop \/ SkipMode \/ manual_mode \/ security_mode \/ auto_mode
         \/ SecurityStep \/ AutoStep
  PROVE  [MotorNext]_motorVars
<1> USE DEF MotorNext, MotorCall, ButtonCall
<1>1. CASE MainLoop \/ SkipMode \/ manual_mode \/ security_mode
  BY <1>1 DEF MainLoop, SkipMode, manual_mode, security_mode
<1>2. CASE auto_mode
  BY <1>2 DEF auto_mode, EnterMode, InMain
<1>3. ASSUME NEW from, NEW to, Watch(from, to) PROVE [MotorNext]_motorVars
  <2>1. CASE motor_fire
    BY <1>3, <2>1 DEF Watch, InMain
  <2>2. CASE UNCHANGED <<servos, speeds, multipliers, sleeping>>
    BY <1>3, <2>2 DEF Watch, servos, speeds, multipliers, motorVars
  <2> QED BY <1>3, <2>1, <2>2 DEF Watch
<1>4. ASSUME NEW from, NEW to, ModeInput(from, to) \/ ModeEnd(from) PROVE [MotorNext]_motorVars
  BY <1>4 DEF ModeInput, ModeEnd
<1>5. CASE AutoPanEnd
  BY <1>5 DEF AutoPanEnd, InMain
<1>6. CASE AutoPhoto
  BY <1>6 DEF AutoPhoto
<1> QED
  BY <1>1, <1>2, <1>3, <1>4, <1>5, <1>6 DEF SecurityStep, AutoStep

(***************************************************************************)
(* ... and the session, which saves and restores a speed on the way.       *)
(***************************************************************************)
LEMMA SessionIsMotorStep ==
  ASSUME SavedSpeedOK, Handshake \/ LinkLost \/ KeepWaiting \/ CutOff \/ Session
  PROVE  [MotorNext]_motorVars
<1> USE DEF MotorNext, MotorCall
<1>1. ASSUME disable_bluetooth, sleeping = "none" PROVE [MotorNext]_motorVars
  BY <1>1 DEF disable_bluetooth, SetBluetoothEnabled
<1>2. CASE Handshake \/ LinkLost \/ KeepWaiting \/ CutOff
  BY <1>2, <1>1 DEF Handshake, LinkLost, KeepWaiting, CutOff, vars, InMain
<1>3. CASE command_move_time
  BY <1>3 DEF command_move_time, Command, InMain, MoveCall
<1>4. CASE MoveTimeEnd \/ MoveAtSpeedEnd
  BY <1>4 DEF MoveTimeEnd, MoveAtSpeedEnd, CommandStep, InMain, ButtonCall
<1>5. CASE command_move_time_speed
  BY <1>5, ValidSpeeds DEF command_move_time_speed, Command, InMain, SpeedCall
<1>6. CASE MoveAtSpeed
  BY <1>6 DEF MoveAtSpeed, CommandStep, InMain, MoveCall
<1>7. CASE RestoreSpeed
  BY <1>7 DEF RestoreSpeed, CommandStep, InMain, SpeedCall, SavedSpeedOK
<1>8. CASE command_set_motor_speed
  <2>1. 0 \in Speeds
    BY MotorAssumption DEF Speeds
  <2> QED
    BY <1>8, <2>1 DEF command_set_motor_speed, Command, InMain, SpeedCall
<1>9. CASE command_move_angle \/ MoveAngleTilt
  BY <1>9 DEF command_move_angle, MoveAngleTilt, Command, CommandStep, InMain, AngleCall
<1>10. CASE CommandFire
  BY <1>10 DEF CommandFire, Command, InMain, ButtonCall
<1>11. CASE send_image_capture \/ send_motion_report
  BY <1>11 DEF send_image_capture, send_motion_report
<1> QED
  BY <1>2, <1>3, <1>4, <1>5, <1>6, <1>7, <1>8, <1>9, <1>10, <1>11 DEF Session

(***************************************************************************)
(* Every step of the firmware is a step of the motors, or none of them.    *)
(***************************************************************************)
LEMMA StepIsMotorStep ==
  ASSUME SavedSpeedOK, [Next]_vars
  PROVE  [MotorNext]_motorVars
<1>1. CASE Wake
  BY <1>1 DEF Wake, MotorNext
<1>2. CASE UserInput
  BY <1>2, InputIsMotorStep
<1>3. CASE Main
  BY <1>3, ModeIsMotorStep, SessionIsMotorStep DEF Main
<1>4. CASE PhoneMoves \/ UNCHANGED vars
  BY <1>4 DEF PhoneMoves, vars
<1> QED
  BY <1>1, <1>2, <1>3, <1>4 DEF Next, Thread

FirmwareInv == MotorInv /\ SavedSpeedOK

(***************************************************************************)
(* Only a command saves a speed, and it saves one that is set.             *)
(***************************************************************************)
LEMMA SavedSpeedKept ==
  ASSUME FirmwareInv, [Next]_vars
  PROVE  SavedSpeedOK'
<1> USE DEF FirmwareInv, SavedSpeedOK, sessionVars, savedSpeeds
<1>1. CASE command_move_time_speed
  BY <1>1 DEF command_move_time_speed, get_motor_speed, MotorInv, MotorTypeOK, Speeds
<1>2. CASE UNCHANGED prev_speed
  BY <1>2 DEF Speeds
<1>3. CASE RestoreSpeed
  BY <1>3, MotorAssumption DEF RestoreSpeed, Speeds
<1>4. Wake \/ UserInput => UNCHANGED prev_speed
  BY DEF Wake, UserInput, Touch, PollNothing, PollOther, PollDisabled, ReturnTouched,
         mode_callback, motor_callback, bluetooth_callback, photo_button, photo_callback
<1>5. MainLoop \/ SkipMode \/ manual_mode \/ security_mode \/ auto_mode => UNCHANGED prev_speed
  BY DEF MainLoop, SkipMode, manual_mode, security_mode, auto_mode
<1>6. SecurityStep \/ AutoStep => UNCHANGED prev_speed
  BY DEF SecurityStep, AutoStep, Watch, ModeInput, ModeEnd, AutoPanEnd, AutoPhoto
<1>7. Handshake \/ LinkLost \/ KeepWaiting \/ CutOff \/ PhoneMoves => UNCHANGED prev_speed
  BY DEF Handshake, LinkLost, KeepWaiting, CutOff, PhoneMoves, vars
<1>8. Session => UNCHANGED prev_speed \/ command_move_time_speed \/ RestoreSpeed
  BY DEF Session, command_move_time, MoveTimeEnd, MoveAtSpeed, MoveAtSpeedEnd,
         command_set_motor_speed, command_move_angle, MoveAngleTilt, CommandFire,
         send_image_capture, send_motion_report
<1>9. UNCHANGED vars => UNCHANGED prev_speed
  BY DEF vars
<1> QED
  BY <1>1, <1>2, <1>3, <1>4, <1>5, <1>6, <1>7, <1>8, <1>9 DEF Next, Thread, Main

\* The firmware starts with the motors' invariant and no speed saved.
LEMMA FirmwareInvInit == Init => FirmwareInv
<1>1. 0 \in Speeds
  BY MotorAssumption DEF Speeds
<1> QED
  BY <1>1, MotorInitInv DEF Init, FirmwareInv, SavedSpeedOK

\* Its steps are steps of the motors, so they keep the motors' invariant.
LEMMA FirmwareInvKept == FirmwareInv /\ [Next]_vars => FirmwareInv'
<1> SUFFICES ASSUME FirmwareInv, [Next]_vars PROVE FirmwareInv'
  OBVIOUS
<1>1. [MotorNext]_motorVars
  BY StepIsMotorStep DEF FirmwareInv
<1> QED
  BY <1>1, MotorStepKeepsInv, SavedSpeedKept DEF FirmwareInv

(***************************************************************************)
(* The firmware implements the motors' specification: every behaviour of   *)
(* the main loop, the modes, the nested callbacks and the session is, seen *)
(* from the servos, one that Motor allows (main.c, motor.c).               *)
(***************************************************************************)
THEOREM FirmwareUsesMotorsRightly == Spec => MotorSpec
<1>1. Init => init_motors
  BY DEF Init
<1>2. FirmwareInv /\ [Next]_vars => [MotorNext]_motorVars
  BY StepIsMotorStep DEF FirmwareInv
<1> QED
  BY <1>1, <1>2, FirmwareInvInit, FirmwareInvKept, PTL DEF Spec, MotorSpec

(***************************************************************************)
(* So nothing the user, the camera or the phone does drives a servo past   *)
(* its limits (motor.c:106-205).                                           *)
(***************************************************************************)
THEOREM FirmwareWithinLimits == Spec => [](TiltWithinLimits /\ PanWithinLimits)
BY FirmwareUsesMotorsRightly, TiltStaysWithinLimits, PanStaysWithinLimits, PTL

-----------------------------------------------------------------------------
(* The lockouts.  Both are inductive, and neither depends on the stack:    *)
(* whatever was nested in what, the buttons are looked at when touched.    *)

(***************************************************************************)
(* Touches keep the lockouts: none enables a button, and the Bluetooth     *)
(* button disables all of them before it raises the flag.                  *)
(***************************************************************************)
LEMMA InputKeepsLockouts ==
  ASSUME BluetoothLockout, AutonomousModesOwnControls, UserInput \/ Wake
  PROVE  (BluetoothLockout /\ AutonomousModesOwnControls)'
<1>1. CASE bluetooth_callback
  BY <1>1 DEF bluetooth_callback, BluetoothLockout, AutonomousModesOwnControls, Buttons
<1>2. CASE UNCHANGED <<disabled, bluetooth_enabled, pc>>
  BY <1>2 DEF BluetoothLockout, AutonomousModesOwnControls
<1>3. Wake => UNCHANGED <<disabled, bluetooth_enabled, pc>>
  BY DEF Wake, MotorWake, motor_fire_end, move_leftright_angle_end, guiVars
<1>4. UserInput => bluetooth_callback \/ UNCHANGED <<disabled, bluetooth_enabled, pc>>
  BY DEF UserInput, Touch, PollNothing, PollOther, PollDisabled, ReturnTouched, buttons_not_pressed,
         mode_callback, motor_callback, photo_button, photo_callback, guiVars, motorVars
<1> QED
  BY <1>1, <1>2, <1>3, <1>4

(***************************************************************************)
(* The main loop and the modes keep them: the controls are enabled only in *)
(* manual mode, and only after main has looked at the flag again.          *)
(***************************************************************************)
LEMMA MainKeepsLockouts ==
  ASSUME BluetoothLockout, AutonomousModesOwnControls,
         \/ MainLoop \/ SkipMode \/ manual_mode \/ security_mode \/ auto_mode
         \/ SecurityStep \/ AutoStep
  PROVE  (BluetoothLockout /\ AutonomousModesOwnControls)'
<1> USE DEF BluetoothLockout, AutonomousModesOwnControls, PhonePcs, CutPcs, SessionPcs, CommandPcs,
    SwappedPcs, SecurityPcs, AutoPcs, guiVars, motorVars
<1>1. CASE MainLoop
  BY <1>1 DEF MainLoop, CallInput
<1>2. CASE SkipMode
  BY <1>2 DEF SkipMode
<1>3. CASE manual_mode \/ security_mode \/ auto_mode
  <2>1. bluetooth_enabled = 0 /\ UNCHANGED bluetooth_enabled
    BY <1>3 DEF manual_mode, security_mode, auto_mode, EnterMode
  <2>2. manual_mode => pc' = "loop"
    BY DEF manual_mode
  <2>3. security_mode \/ auto_mode =>
          pc' \in {"security.watch", "auto.pan"} /\ Controls \subseteq disabled'
    BY DEF security_mode, auto_mode, disable_buttons
  <2> QED
    BY <1>3, <2>1, <2>2, <2>3
<1>4. CASE SecurityStep \/ AutoStep
  <2>1. UNCHANGED <<disabled, bluetooth_enabled>>
    BY <1>4 DEF SecurityStep, AutoStep, Watch, ModeInput, ModeEnd, AutoPanEnd, AutoPhoto
  <2>2. pc \in SecurityPcs \cup AutoPcs /\ pc' \in {"loop"} \cup SecurityPcs \cup AutoPcs
    BY <1>4 DEF SecurityStep, AutoStep, Watch, ModeInput, ModeEnd, AutoPanEnd, AutoPhoto, CallInput
  <2> QED
    BY <2>1, <2>2
<1> QED
  BY <1>1, <1>2, <1>3, <1>4

(***************************************************************************)
(* The session keeps them: it is entered with every button disabled, and   *)
(* enables them only as it ends.                                           *)
(***************************************************************************)
LEMMA SessionKeepsLockouts ==
  ASSUME BluetoothLockout, AutonomousModesOwnControls,
         Handshake \/ LinkLost \/ KeepWaiting \/ CutOff \/ Session
  PROVE  (BluetoothLockout /\ AutonomousModesOwnControls)'
<1> USE DEF BluetoothLockout, AutonomousModesOwnControls, PhonePcs, CutPcs, SessionPcs, CommandPcs,
    SwappedPcs, SecurityPcs, AutoPcs, guiVars, motorVars
<1>1. CASE Handshake \/ LinkLost
  BY <1>1 DEF Handshake, LinkLost, disable_bluetooth
<1>2. CASE KeepWaiting \/ CutOff
  BY <1>2 DEF KeepWaiting, CutOff, vars
<1>3. CASE Session
  <2>1. UNCHANGED disabled /\ pc \in SessionPcs /\ pc' \in SessionPcs
    BY <1>3 DEF Session, command_move_time, MoveTimeEnd, command_move_time_speed, MoveAtSpeed,
                MoveAtSpeedEnd, RestoreSpeed, command_set_motor_speed, command_move_angle,
                MoveAngleTilt, CommandFire, Command, CommandStep,
                send_image_capture, send_motion_report
  <2> QED
    BY <2>1
<1> QED
  BY <1>1, <1>2, <1>3

\* Every step keeps the lockouts of the session and of the modes.
LEMMA LockoutsKept ==
  BluetoothLockout /\ AutonomousModesOwnControls /\ [Next]_vars
    => (BluetoothLockout /\ AutonomousModesOwnControls)'
<1>1. PhoneMoves \/ UNCHANGED vars => UNCHANGED <<disabled, bluetooth_enabled, pc>>
  BY DEF PhoneMoves, vars, guiVars, motorVars
<1>2. ASSUME BluetoothLockout, AutonomousModesOwnControls, PhoneMoves \/ UNCHANGED vars
      PROVE  (BluetoothLockout /\ AutonomousModesOwnControls)'
  BY <1>1, <1>2 DEF BluetoothLockout, AutonomousModesOwnControls
<1> QED
  BY <1>2, InputKeepsLockouts, MainKeepsLockouts, SessionKeepsLockouts DEF Next, Thread, Main

\* At power-on nobody is locked out, as nothing asks for it.
LEMMA LockoutsInit == Init => BluetoothLockout /\ AutonomousModesOwnControls
BY DEF Init, init_motors, BluetoothLockout, AutonomousModesOwnControls, PhonePcs, CutPcs, SessionPcs,
    CommandPcs,
       SwappedPcs, SecurityPcs, AutoPcs

(***************************************************************************)
(* From the Bluetooth button to the end of the session every button is     *)
(* disabled, for every set of buttons a user touches, every depth of       *)
(* photos and every camera and phone (main.c:101-114,191-204,404-455).     *)
(***************************************************************************)
THEOREM BluetoothLocksOut == Spec => []BluetoothLockout
BY LockoutsInit, LockoutsKept, PTL DEF Spec

(***************************************************************************)
(* While an autonomous mode runs, its controls stay disabled               *)
(* (main.c:119-176).                                                       *)
(***************************************************************************)
THEOREM ModesOwnTheirControls == Spec => []AutonomousModesOwnControls
BY LockoutsInit, LockoutsKept, PTL DEF Spec

-----------------------------------------------------------------------------
(* The speed.                                                              *)

(***************************************************************************)
(* The speeds that can be chosen: that of init_motors, and the zero that   *)
(* the change-speed command accepts.                                       *)
(***************************************************************************)
Usual(speed) == speed \in {0, 2}

(***************************************************************************)
(* The inductive invariant: while a command moves at its own speed, the    *)
(* chosen one is the one it saved.                                         *)
(***************************************************************************)
SpeedInv ==
  SpeedKept /\ Usual(chosen_speed) /\ (pc \in SwappedPcs => prev_speed = chosen_speed)

(***************************************************************************)
(* Setting one of these speeds sets the other to five times as much.       *)
(***************************************************************************)
LEMMA UsualSpeedsSet ==
  ASSUME NEW speed, Usual(speed), set_motor_speed(speed)
  PROVE  leftright_speed' = speed /\ updown_speed' = 5 * speed
BY DEF Usual, set_motor_speed, UInt16

\* Every step keeps both speeds at the chosen one, or saves it.
LEMMA SpeedInvKept == SpeedInv /\ [Next]_vars => SpeedInv'
<1> SUFFICES ASSUME SpeedInv, [Next]_vars PROVE SpeedInv'
  OBVIOUS
<1> USE DEF SpeedInv, SpeedKept, SwappedPcs, sessionVars, savedSpeeds
<1>1. CASE command_move_time_speed
  BY <1>1 DEF command_move_time_speed, Command, get_motor_speed, Usual
<1>2. CASE RestoreSpeed
  BY <1>2, UsualSpeedsSet DEF RestoreSpeed, CommandStep, Usual
<1>3. CASE command_set_motor_speed
  BY <1>3, UsualSpeedsSet DEF command_set_motor_speed, Command, Usual
<1>4. CASE MoveAtSpeed \/ MoveAtSpeedEnd
  BY <1>4 DEF MoveAtSpeed, MoveAtSpeedEnd, CommandStep, move_direction, move_up, move_down,
              move_left, move_right, stop_leftrght, speeds
<1>5. CASE UNCHANGED <<speeds, pc, savedSpeeds>>
  BY <1>5 DEF speeds
<1>6. CASE UNCHANGED <<speeds, chosen_speed>> /\ {pc, pc'} \cap SwappedPcs = {}
  BY <1>6 DEF speeds
<1>7. Wake \/ UserInput => UNCHANGED <<speeds, pc, savedSpeeds>>
  BY DEF Wake, MotorWake, motor_fire_end, move_leftright_angle_end, UserInput, Touch, PollNothing,
         PollOther, PollDisabled, ReturnTouched, mode_callback, motor_callback, bluetooth_callback,
         photo_button, photo_callback, motorVars, speeds, move_left, move_right, move_up,
         move_down, motor_fire, stop_leftrght
<1>8. MainLoop \/ SkipMode \/ manual_mode \/ security_mode \/ auto_mode
        => UNCHANGED <<speeds, chosen_speed>> /\ {pc, pc'} \cap SwappedPcs = {}
  BY DEF MainLoop, SkipMode, manual_mode, security_mode, auto_mode, EnterMode, CallInput,
         motorVars, speeds, move_left
<1>9. SecurityStep \/ AutoStep => UNCHANGED <<speeds, chosen_speed>> /\ {pc, pc'} \cap SwappedPcs = {}
  BY DEF SecurityStep, AutoStep, Watch, ModeInput, ModeEnd, AutoPanEnd, AutoPhoto, CallInput,
         motorVars, speeds, motor_fire, stop_leftrght
<1>10. Handshake \/ LinkLost \/ KeepWaiting \/ CutOff
    => UNCHANGED <<speeds, chosen_speed>> /\ {pc, pc'} \cap SwappedPcs = {}
  BY DEF Handshake, LinkLost, KeepWaiting, CutOff, vars, disable_bluetooth, motorVars, speeds
<1>11. ASSUME Session, ~command_move_time_speed, ~RestoreSpeed, ~command_set_motor_speed,
              ~MoveAtSpeed, ~MoveAtSpeedEnd
       PROVE  UNCHANGED <<speeds, chosen_speed>> /\ {pc, pc'} \cap SwappedPcs = {}
  BY <1>11 DEF Session, command_move_time, MoveTimeEnd, command_move_angle, MoveAngleTilt,
               CommandFire, Command, CommandStep, send_image_capture, send_motion_report,
               move_direction, move_up, move_down, move_left, move_right, stop_leftrght,
               move_leftright_angle, move_updown_angle, motor_fire, motorVars, speeds
<1>12. CASE PhoneMoves \/ UNCHANGED vars
  BY <1>12, <1>5 DEF PhoneMoves, vars, motorVars, speeds
<1> QED
  BY <1>1, <1>2, <1>3, <1>4, <1>5, <1>6, <1>7, <1>8, <1>9, <1>10, <1>11, <1>12 DEF Next, Thread, Main

(***************************************************************************)
(* No order of commands loses the speed: outside a command that moves at   *)
(* its own, both speeds are those last chosen, at power-on or by the       *)
(* change-speed command, whatever the highest speed is (main.c:228-265).   *)
(***************************************************************************)
THEOREM SpeedsAreKept == Spec => []SpeedKept
<1>1. Init => SpeedInv
  BY DEF Init, init_motors, SpeedInv, SpeedKept, SwappedPcs, Usual
<1>2. SpeedInv => SpeedKept
  BY DEF SpeedInv
<1> QED
  BY <1>1, <1>2, SpeedInvKept, PTL DEF Spec

-----------------------------------------------------------------------------
(* The pan.                                                                *)

StackType == stack \in Seq(Frames)

\* Replacing the last activation, and returning from it.
LEMMA StackSteps ==
  ASSUME NEW s \in Seq(Frames), s # <<>>, NEW f \in Frames
  PROVE  /\ Front(s) \in Seq(Frames)
         /\ Append(Front(s), f) \in Seq(Frames)
         /\ Append(Front(s), f) # <<>> /\ Last(Append(Front(s), f)) = f
<1>1. Front(s) \in Seq(Frames)
  BY DEF Front
<1> QED BY <1>1 DEF Last

\* The activations that the steps push.
LEMMA FramesPushed ==
  /\ \A b \in Buttons \cup {NoButton} : Input(b) \in Frames
  /\ \A at \in {"read", "decode", "convert", "print"}, ok \in BOOLEAN : Photo(at, ok) \in Frames
BY DEF Input, Photo, Frames

\* Every step leaves a stack of activations on which a photo is never alone.
LEMMA StackTypeKept ==
  ASSUME StackType, [Next]_vars PROVE StackType'
<1> USE DEF StackType
<1>1. CASE UNCHANGED stack
  BY <1>1
<1>2. CASE stack # <<>> /\ stack' = Front(stack)
  BY <1>2, StackSteps, FramesPushed
<1>3. ASSUME NEW b \in Buttons \cup {NoButton}, stack # <<>>, stack' = Append(Front(stack), Input(b))
      PROVE  StackType'
  BY <1>3, StackSteps, FramesPushed
<1>4. ASSUME NEW label, CallInput(label) PROVE StackType'
  <2>1. Input(NoButton) \in Frames
    BY FramesPushed
  <2> QED BY <1>4, <2>1 DEF CallInput
<1>5. ASSUME NEW caller \in Seq(Frames), NEW ok \in BOOLEAN, CallPhoto(caller, ok) PROVE StackType'
  <2>1. Photo("read", ok) \in Frames /\ Input(NoButton) \in Frames
    BY FramesPushed
  <2> QED BY <1>5, <2>1 DEF CallPhoto
<1>6. CASE Wake
  BY <1>6 DEF Wake
<1>7. CASE PollNothing
  BY <1>2, <1>7 DEF PollNothing, ReturnTouched, Running
<1>8. ASSUME NEW b \in Touchable, Touch(b) PROVE StackType'
  <2>1. b \in Buttons \cup {NoButton}
    BY LauncherAssumption
  <2> QED BY <1>2, <1>3, <1>8, <2>1 DEF Touch, PollOther, PollDisabled, ReturnTouched, Polled, Running,
    mode_callback, motor_callback, HoldAt
<1>9. CASE bluetooth_callback
  BY <1>3, <1>9 DEF bluetooth_callback, Polled, Running, HoldAt, Buttons
<1>10. CASE photo_button
  <2>1. stack # <<>> /\ Input("CAMERA_BUTTON") \in Frames
    BY <1>10, FramesPushed DEF photo_button, Polled, Running, Buttons, Controls
  <2>2. Append(Front(stack), Input("CAMERA_BUTTON")) \in Seq(Frames)
    BY <2>1, StackSteps
  <2> QED BY <1>5, <1>10, <2>2, LauncherAssumption DEF photo_button
<1>11. CASE photo_callback
  <2>1. stack # <<>>
    BY <1>11 DEF photo_callback, PhotoAt, Running
  <2>2. ASSUME NEW at \in {"decode", "convert", "print"}, PhotoInput(at), Last(stack).fn = "photo_callback"
        PROVE  StackType'
    <3>1. [Last(stack) EXCEPT !.at = at] \in Frames /\ Input(NoButton) \in Frames
      <4>1. Last(stack) \in Frames
        BY <2>1 DEF Last
      <4> QED BY <2>2, <4>1, FramesPushed DEF Frames
    <3>2. Front(stack) \in Seq(Frames)
      BY <2>1 DEF Front
    <3> QED BY <2>2, <3>1, <3>2 DEF PhotoInput
  <2> QED BY <1>2, <1>11, <2>1, <2>2 DEF photo_callback, PhotoAt, Running, PhotoFailed, PhotoFinish
<1>12. CASE MainLoop \/ SkipMode \/ manual_mode \/ security_mode \/ auto_mode
  BY <1>4, <1>12 DEF MainLoop, SkipMode, manual_mode, security_mode, auto_mode
<1>13. CASE SecurityStep
  BY <1>4, <1>13 DEF SecurityStep, Watch, ModeInput, ModeEnd
<1>14. CASE AutoPhoto
  <2>1. <<>> \in Seq(Frames)
    OBVIOUS
  <2> QED BY <1>5, <1>14, <2>1, LauncherAssumption DEF AutoPhoto
<1>15. CASE AutoStep
  BY <1>4, <1>14, <1>15 DEF AutoStep, AutoPanEnd, Watch, ModeInput, ModeEnd
<1>16. CASE Handshake \/ LinkLost \/ KeepWaiting \/ CutOff \/ Session
  BY <1>16 DEF Handshake, LinkLost, KeepWaiting, CutOff, vars, Session, command_move_time, MoveTimeEnd,
      command_move_time_speed,
    MoveAtSpeed, MoveAtSpeedEnd, RestoreSpeed, command_set_motor_speed, command_move_angle,
    MoveAngleTilt, CommandFire, Command, CommandStep, send_image_capture, send_motion_report
<1>17. CASE PhoneMoves \/ UNCHANGED vars
  BY <1>17 DEF PhoneMoves, vars
<1> QED BY <1>6, <1>7, <1>8, <1>9, <1>10, <1>11, <1>12, <1>13, <1>15, <1>16, <1>17
  DEF Next, Thread, UserInput, Main

\* Nothing on the screen or asleep turns the pan servo but LEFT and RIGHT.
LEMMA InputKeepsPan ==
  ASSUME StackType, PanOnlyOnDemand, UserInput \/ Wake PROVE PanOnlyOnDemand'
<1> USE DEF PanOnlyOnDemand
<1>1. CASE PWM_CW360' = kCW360_MID
  BY <1>1
<1>2. CASE UserInput
  <2>1. sleeping = "none" /\ stack # <<>>
    BY <1>2 DEF UserInput, Touch, PollNothing, PollOther, PollDisabled, Polled, mode_callback,
      motor_callback, bluetooth_callback, photo_button, photo_callback, PhotoAt, Running
  <2>2. CASE PWM_CW360 = kCW360_MID /\ UNCHANGED PWM_CW360
    BY <1>1, <2>2
  <2>3. ASSUME NEW b \in Touchable, Polled(b), b \notin {"LEFT_BUTTON", "RIGHT_BUTTON"}
        PROVE  PWM_CW360 = kCW360_MID
    BY <2>1, <2>3 DEF Polled, NoButton
  <2>4. ASSUME NEW b \in Touchable, Touch(b) PROVE PanOnlyOnDemand'
    <3>1. CASE PollOther(b) \/ PollDisabled(b)
      BY <1>1, <3>1 DEF PollOther, PollDisabled, ReturnTouched, stop_leftrght
    <3>2. CASE mode_callback(b)
      BY <1>1, <2>3, <3>2 DEF mode_callback, ModeButtons, motorVars
    <3>3. CASE motor_callback(b) /\ b \in {"LEFT_BUTTON", "RIGHT_BUTTON"}
      <4>1. Polled(b) /\ stack' = Append(Front(stack), Input(b))
        BY <3>3 DEF motor_callback, HoldAt
      <4>2. b \in Buttons \cup {NoButton} /\ Input(b) \in Frames
        BY LauncherAssumption, FramesPushed
      <4>3. stack' # <<>> /\ Last(stack') = Input(b)
        BY <2>1, <4>1, <4>2, StackSteps DEF StackType
      <4> QED BY <3>3, <4>3 DEF Running, Prev, Input
    <3>4. CASE motor_callback(b) /\ b \notin {"LEFT_BUTTON", "RIGHT_BUTTON"}
      <4>1. PWM_CW360 = kCW360_MID
        BY <2>3, <3>4 DEF motor_callback
      <4>2. UNCHANGED PWM_CW360
        BY <3>4 DEF motor_callback, move_up, move_down, motor_fire
      <4> QED BY <2>2, <4>1, <4>2
    <3> QED BY <2>4, <3>1, <3>2, <3>3, <3>4 DEF Touch
  <2>5. CASE PollNothing
    BY <1>1, <2>1, <2>5 DEF PollNothing, ReturnTouched, stop_leftrght, motorVars, NoButton
  <2>6. CASE "BLUETOOTH_BUTTON" \in Touchable /\ bluetooth_callback
    BY <2>2, <2>3, <2>6 DEF bluetooth_callback, servos
  <2>7. CASE "CAMERA_BUTTON" \in Touchable /\ photo_button
    BY <2>2, <2>3, <2>7 DEF photo_button, motorVars
  <2>8. CASE photo_callback
    <3>1. Last(stack).fn = "photo_callback"
      BY <2>8 DEF photo_callback, PhotoAt, Running
    <3>2. PWM_CW360 = kCW360_MID
      BY <2>1, <3>1 DEF Running
    <3> QED BY <2>2, <2>8, <3>2 DEF photo_callback, motorVars
  <2> QED BY <1>2, <2>4, <2>5, <2>6, <2>7, <2>8 DEF UserInput
<1>3. CASE Wake
  BY <1>1, <1>3 DEF Wake, MotorWake, motor_fire_end, move_leftright_angle_end, Running, Prev
<1> QED BY <1>2, <1>3

\* main, a mode or a command turns it only where it says so.
LEMMA MainKeepsPan ==
  ASSUME PanOnlyOnDemand, Main PROVE PanOnlyOnDemand'
<1> USE DEF PanOnlyOnDemand
<1>1. CASE PWM_CW360' = kCW360_MID
  BY <1>1
<1>2. InMain
  BY DEF Main, MainLoop, SkipMode, manual_mode, security_mode, auto_mode, EnterMode, SecurityStep,
    AutoStep, Watch, ModeInput, ModeEnd, AutoPanEnd, AutoPhoto, Handshake, LinkLost, KeepWaiting,
    CutOff, vars, Session,
    command_move_time, MoveTimeEnd, command_move_time_speed, MoveAtSpeed, MoveAtSpeedEnd,
    RestoreSpeed, command_set_motor_speed, command_move_angle, MoveAngleTilt, CommandFire, Command,
    CommandStep, send_image_capture, send_motion_report
<1>3. PWM_CW360 # kCW360_MID => pc \in {"auto.pan", "command.move", "command.moving"}
  BY <1>2 DEF InMain, Running
<1>4. CASE UNCHANGED PWM_CW360 /\ pc \notin {"auto.pan", "command.move", "command.moving"}
  BY <1>1, <1>3, <1>4
<1>5. CASE MainLoop \/ SkipMode \/ manual_mode \/ security_mode
  BY <1>4, <1>5 DEF MainLoop, SkipMode, manual_mode, security_mode, EnterMode, motorVars
<1>6. CASE auto_mode
  BY <1>2, <1>6 DEF auto_mode, InMain
<1>7. CASE SecurityStep
  BY <1>4, <1>7 DEF SecurityStep, Watch, ModeInput, ModeEnd, motorVars, servos, motor_fire
<1>8. CASE AutoPanEnd \/ MoveTimeEnd \/ MoveAtSpeedEnd
  BY <1>1, <1>8 DEF AutoPanEnd, MoveTimeEnd, MoveAtSpeedEnd, stop_leftrght
<1>9. CASE AutoStep /\ ~AutoPanEnd
  BY <1>4, <1>9 DEF AutoStep, Watch, ModeInput, ModeEnd, AutoPhoto, motorVars, servos, motor_fire
<1>10. CASE Handshake \/ LinkLost \/ KeepWaiting \/ CutOff
  BY <1>4, <1>10 DEF Handshake, LinkLost, KeepWaiting, CutOff, vars, disable_bluetooth, servos, motorVars
<1>11. CASE command_move_time \/ MoveAtSpeed
  BY <1>2, <1>11 DEF command_move_time, MoveAtSpeed, Command, CommandStep, InMain
<1>12. CASE command_move_time_speed \/ RestoreSpeed \/ command_set_motor_speed
  BY <1>4, <1>12 DEF command_move_time_speed, RestoreSpeed, command_set_motor_speed, Command,
    CommandStep, set_motor_speed, servos
<1>13. CASE command_move_angle
  BY <1>13 DEF command_move_angle, move_leftright_angle
<1>14. CASE MoveAngleTilt \/ CommandFire \/ send_image_capture \/ send_motion_report
  BY <1>4, <1>14 DEF MoveAngleTilt, CommandFire, Command, CommandStep, move_updown_angle, motor_fire,
    send_image_capture, send_motion_report, motorVars
<1> QED BY <1>5, <1>6, <1>7, <1>8, <1>9, <1>10, <1>11, <1>12, <1>13, <1>14 DEF Main, Session

PanInv == StackType /\ PanOnlyOnDemand

\* At power-on the pan servo rests.
LEMMA PanInvInit == Init => PanInv
BY DEF Init, init_motors, PanInv, StackType, PanOnlyOnDemand

\* No step leaves the pan servo turning without somebody who wants it to.
LEMMA PanInvKept == PanInv /\ [Next]_vars => PanInv'
<1> SUFFICES ASSUME PanInv, [Next]_vars PROVE PanInv'
  OBVIOUS
<1>1. StackType'
  BY StackTypeKept DEF PanInv
<1>2. CASE PhoneMoves \/ UNCHANGED vars
  BY <1>1, <1>2 DEF PhoneMoves, PanInv, PanOnlyOnDemand, Running, Prev, vars, motorVars
<1> QED BY <1>1, <1>2, InputKeepsPan, MainKeepsPan DEF PanInv, Next, Thread

(***************************************************************************)
(* The pan servo turns only while somebody makes it, for every user,       *)
(* camera and phone and every nesting of photos (main.c:154-157,222-224,   *)
(* gui.c:165-170, motor.c:198-199).                                        *)
(***************************************************************************)
THEOREM PanTurnsOnDemand == Spec => []PanOnlyOnDemand
BY PanInvInit, PanInvKept, PTL DEF Spec, PanInv

-----------------------------------------------------------------------------
(* The mode buttons.                                                       *)

(***************************************************************************)
(* The mode button drawn pressed is the mode the firmware is in, whatever  *)
(* is touched inside a photo, a mode or a session (gui.c:146-162).         *)
(***************************************************************************)
THEOREM ModeButtonsTellTheMode == Spec => []ModeButtonTruthful
<1>1. Init => ModeButtonTruthful
  BY DEF Init, init_gui, ModeButtonTruthful, ModeButtons, ModeOf
<1>2. ModeButtonTruthful /\ [Next]_vars => ModeButtonTruthful'
  <2> SUFFICES ASSUME ModeButtonTruthful, [Next]_vars PROVE ModeButtonTruthful'
    OBVIOUS
  <2> USE DEF ModeButtonTruthful
  <2>1. CASE toggled' \cap ModeButtons \subseteq toggled /\ UNCHANGED current_mode
    BY <2>1
  <2>2. CASE Wake
    BY <2>1, <2>2 DEF Wake, guiVars
  <2>3. CASE PollNothing
    BY <2>1, <2>3 DEF PollNothing, ReturnTouched, buttons_not_pressed, guiVars
  <2>4. ASSUME NEW b \in Touchable, Touch(b) PROVE ModeButtonTruthful'
    <3>1. CASE PollOther(b) \/ PollDisabled(b)
      BY <2>1, <3>1 DEF PollOther, PollDisabled, ReturnTouched, buttons_not_pressed, ToggledAtPress
    <3>2. CASE mode_callback(b)
      <4>1. b \in ModeButtons /\ toggled' = {b} /\ current_mode' = ModeOf[b]
        BY <3>2 DEF mode_callback, Press, ToggledAtPress
      <4> QED BY <4>1
    <3>3. CASE motor_callback(b)
      <4>1. b \notin ModeButtons /\ toggled' = ToggledAtPress(b) \cup {b} /\ UNCHANGED current_mode
        BY <3>3 DEF motor_callback, Press, ModeButtons
      <4> QED BY <2>1, <4>1 DEF ToggledAtPress
    <3> QED BY <2>4, <3>1, <3>2, <3>3 DEF Touch
  <2>5. CASE bluetooth_callback
    BY <2>1, <2>5 DEF bluetooth_callback, ToggledAtPress, ModeButtons
  <2>6. CASE photo_button
    BY <2>1, <2>6 DEF photo_button, Press, ToggledAtPress, ModeButtons
  <2>7. CASE photo_callback
    BY <2>1, <2>7 DEF photo_callback, guiVars
  <2>8. CASE MainLoop \/ SkipMode \/ manual_mode \/ security_mode \/ auto_mode
    BY <2>1, <2>8 DEF MainLoop, SkipMode, manual_mode, security_mode, auto_mode, enable_buttons,
      disable_buttons, guiVars
  <2>9. CASE SecurityStep \/ AutoStep
    BY <2>1, <2>9 DEF SecurityStep, AutoStep, Watch, ModeInput, ModeEnd, AutoPanEnd, AutoPhoto, guiVars
  <2>10. CASE Handshake \/ LinkLost \/ KeepWaiting \/ CutOff
    BY <2>1, <2>10 DEF Handshake, LinkLost, KeepWaiting, CutOff, vars, disable_bluetooth,
        enable_buttons, guiVars
  <2>11. CASE Session
    BY <2>1, <2>11 DEF Session, command_move_time, MoveTimeEnd, command_move_time_speed, MoveAtSpeed,
      MoveAtSpeedEnd, RestoreSpeed, command_set_motor_speed, command_move_angle, MoveAngleTilt,
      CommandFire, Command, CommandStep, send_image_capture, send_motion_report, guiVars
  <2>12. CASE PhoneMoves \/ UNCHANGED vars
    BY <2>1, <2>12 DEF PhoneMoves, vars, guiVars
  <2> QED BY <2>2, <2>3, <2>4, <2>5, <2>6, <2>7, <2>8, <2>9, <2>10, <2>11, <2>12
    DEF Next, Thread, UserInput, Main
<1> QED BY <1>1, <1>2, PTL DEF Spec

-----------------------------------------------------------------------------
(* The other buttons, and the frame of a photo.                            *)

Holds(s, b) == \E i \in DOMAIN s : s[i] = Input(b)

\* An activation below the last one stays when the last returns or goes on,
\* when it is replaced, and when others are put on top.
LEMMA HoldsBelow ==
  ASSUME NEW s \in Seq(Frames), s # <<>>, NEW b, Holds(s, b), Last(s) # Input(b)
  PROVE  Holds(Front(s), b)
<1>1. PICK i \in 1 .. Len(s) : s[i] = Input(b)
  BY DEF Holds
<1>2. i # Len(s)
  BY <1>1 DEF Last
<1>3. i \in 1 .. Len(s) - 1 /\ Front(s)[i] = s[i] /\ DOMAIN Front(s) = 1 .. Len(s) - 1
  BY <1>2 DEF Front
<1> QED BY <1>1, <1>3 DEF Holds

\* A held button stays held below further activations.
LEMMA HoldsAbove ==
  ASSUME NEW s \in Seq(Frames), NEW t \in Seq(Frames), NEW b, Holds(s, b)
  PROVE  Holds(s \o t, b)
<1>1. PICK i \in 1 .. Len(s) : s[i] = Input(b)
  BY DEF Holds
<1>2. i \in DOMAIN (s \o t) /\ (s \o t)[i] = s[i]
  OBVIOUS
<1> QED BY <1>1, <1>2 DEF Holds

\* The last activation holds its own button.
LEMMA HoldsLast ==
  ASSUME NEW s \in Seq(Frames), NEW b, Input(b) \in Frames
  PROVE  Holds(Append(s, Input(b)), b)
<1>1. Len(s) + 1 \in DOMAIN Append(s, Input(b)) /\ Append(s, Input(b))[Len(s) + 1] = Input(b)
  OBVIOUS
<1> QED BY <1>1 DEF Holds

HeldInv == StackType /\ NoButton \notin toggled /\ PressedIsHeld

\* What a touch draws pressed it holds, and what it held it draws released.
LEMMA HeldInvKept == HeldInv /\ [Next]_vars => HeldInv'
<1> SUFFICES ASSUME HeldInv, [Next]_vars PROVE HeldInv'
  OBVIOUS
<1> USE DEF HeldInv, StackType
<1>1. StackType'
  BY StackTypeKept
<1>2. \A b \in toggled \ ModeButtons : Holds(stack, b)
  BY DEF PressedIsHeld, Holds
<1>3. (NoButton \notin toggled' /\ \A b \in toggled' \ ModeButtons : Holds(stack', b)) => HeldInv'
  BY <1>1 DEF PressedIsHeld, Holds
<1>4. NoButton \notin Buttons
  BY DEF NoButton, Buttons, Controls, ModeButtons
<1>5. CASE toggled' \subseteq ModeButtons
  BY <1>3, <1>4, <1>5 DEF Buttons
<1>6. CASE UNCHANGED <<toggled, stack>>
  BY <1>2, <1>3, <1>6
<1>7. ASSUME NEW b \in Buttons, Polled(b)
      PROVE  /\ stack # <<>> /\ Front(stack) \in Seq(Frames) /\ Input(b) \in Frames
             /\ Append(Front(stack), Input(b)) \in Seq(Frames)
             /\ Holds(Append(Front(stack), Input(b)), b)
             /\ \A c \in toggled \ ModeButtons :
                  Holds(Append(Front(stack), Input(b)), c)
  <2>1. stack # <<>> /\ Last(stack).fn = "process_user_input" /\ Last(stack).pressed \in {NoButton, b}
    BY <1>7 DEF Polled, Running, Prev
  <2>2. Input(b) \in Frames
    BY FramesPushed
  <2>3. Front(stack) \in Seq(Frames) /\ Append(Front(stack), Input(b)) \in Seq(Frames)
    BY <2>1, <2>2, StackSteps
  <2>4. Holds(Append(Front(stack), Input(b)), b)
    BY <2>2, <2>3, HoldsLast
  <2>5. ASSUME NEW c \in toggled \ ModeButtons, c # b PROVE Holds(Append(Front(stack), Input(b)), c)
    <3>1. Last(stack) # Input(c)
      BY <2>1, <2>5 DEF Input
    <3>2. Holds(Front(stack), c)
      BY <1>2, <2>1, <3>1, HoldsBelow
    <3>3. <<Input(b)>> \in Seq(Frames)
      BY <2>2
    <3> QED BY <2>2, <2>3, <3>2, <3>3, HoldsAbove, AppendIsConcat
  <2> QED BY <2>1, <2>2, <2>3, <2>4, <2>5
<1>8. CASE Wake
  BY <1>6, <1>8 DEF Wake, guiVars
<1>9. CASE PollNothing
  <2>1. CASE Prev = NoButton
    <3>1. stack # <<>> /\ stack' = Front(stack) /\ UNCHANGED toggled
      BY <1>9, <2>1 DEF PollNothing, Running, guiVars
    <3>2. \A c \in toggled : Last(stack) # Input(c)
      BY <2>1 DEF Prev, Input
    <3> QED BY <1>2, <1>3, <3>1, <3>2, HoldsBelow
  <2>2. CASE Prev # NoButton
    BY <1>5, <1>9, <2>2 DEF PollNothing, ReturnTouched, buttons_not_pressed
  <2> QED BY <2>1, <2>2
<1>10. ASSUME NEW b \in Touchable, Touch(b) PROVE HeldInv'
  <2>1. b \in Buttons
    BY LauncherAssumption
  <2>2. CASE PollOther(b) \/ PollDisabled(b)
    BY <1>5, <2>2 DEF PollOther, PollDisabled, ReturnTouched, buttons_not_pressed
  <2>3. CASE mode_callback(b)
    BY <1>5, <2>3 DEF mode_callback, Press, ToggledAtPress
  <2>4. CASE motor_callback(b)
    <3>1. Polled(b) /\ stack' = Append(Front(stack), Input(b)) /\ toggled' \subseteq toggled \cup {b}
      BY <2>4 DEF motor_callback, Press, HoldAt, ToggledAtPress
    <3> QED BY <1>3, <1>4, <1>7, <2>1, <3>1
  <2> QED BY <1>10, <2>2, <2>3, <2>4 DEF Touch
<1>11. CASE bluetooth_callback
  <2> DEFINE b == "BLUETOOTH_BUTTON"
  <2>1. b \in Buttons /\ Polled(b) /\ stack' = Append(Front(stack), Input(b)) /\ toggled' \subseteq toggled \cup {b}
    BY <1>11 DEF bluetooth_callback, HoldAt, ToggledAtPress, Buttons
  <2> QED BY <1>3, <1>4, <1>7, <2>1
<1>12. CASE photo_button
  <2> DEFINE b == "CAMERA_BUTTON"
             s == Append(Front(stack), Input(b))
  <2>1. b \in Buttons /\ Polled(b) /\ toggled' \subseteq toggled \cup {b}
    BY <1>12 DEF photo_button, Press, ToggledAtPress, Buttons, Controls
  <2>2. PICK ok \in BOOLEAN : stack' = s \o <<Photo("read", ok), Input(NoButton)>>
    BY <1>12, LauncherAssumption DEF photo_button, CallPhoto
  <2>3. <<Photo("read", ok), Input(NoButton)>> \in Seq(Frames)
    <3>1. Photo("read", ok) \in Frames /\ Input(NoButton) \in Frames
      BY FramesPushed
    <3> QED BY <3>1
  <2>4. s \in Seq(Frames) /\ \A c \in toggled' \ ModeButtons : Holds(s, c)
    BY <1>7, <2>1
  <2> HIDE DEF s
  <2>5. \A c \in toggled' \ ModeButtons : Holds(stack', c)
    BY <2>2, <2>3, <2>4, HoldsAbove
  <2> QED BY <1>3, <1>4, <2>1, <2>5
<1>13. CASE photo_callback
  <2>1. stack # <<>> /\ Last(stack).fn = "photo_callback" /\ UNCHANGED toggled
    BY <1>13 DEF photo_callback, PhotoAt, Running, guiVars
  <2>2. \A c \in toggled \ ModeButtons : Holds(Front(stack), c)
    BY <1>2, <2>1, HoldsBelow DEF Input
  <2>3. CASE stack' = Front(stack)
    BY <1>3, <2>1, <2>2, <2>3
  <2>4. ASSUME NEW at \in {"decode", "convert", "print"}, PhotoInput(at) PROVE HeldInv'
    <3>1. Last(stack) \in Frames /\ Front(stack) \in Seq(Frames)
      BY <2>1 DEF Last, Front
    <3>2. [Last(stack) EXCEPT !.at = at] \in Frames /\ Input(NoButton) \in Frames
      BY <2>1, <2>4, <3>1, FramesPushed DEF Frames
    <3>3. <<[Last(stack) EXCEPT !.at = at], Input(NoButton)>> \in Seq(Frames)
      BY <3>2
    <3>4. \A c \in toggled \ ModeButtons : Holds(stack', c)
      BY <2>2, <2>4, <3>1, <3>3, HoldsAbove DEF PhotoInput
    <3> QED BY <1>3, <2>1, <3>4
  <2> QED BY <1>13, <2>3, <2>4 DEF photo_callback, PhotoFailed, PhotoFinish
<1>14. CASE Main
  <2>1. InMain /\ toggled' \subseteq toggled
    BY <1>14 DEF Main, MainLoop, SkipMode, manual_mode, security_mode, auto_mode, EnterMode,
      enable_buttons, disable_buttons, guiVars, SecurityStep, AutoStep, Watch, ModeInput, ModeEnd,
      AutoPanEnd, AutoPhoto, Handshake, LinkLost, KeepWaiting, CutOff, vars, disable_bluetooth,
      Session, command_move_time,
      MoveTimeEnd, command_move_time_speed, MoveAtSpeed, MoveAtSpeedEnd, RestoreSpeed,
      command_set_motor_speed, command_move_angle, MoveAngleTilt, CommandFire, Command, CommandStep,
      send_image_capture, send_motion_report
  <2>2. toggled \subseteq ModeButtons
    BY <1>2, <2>1 DEF InMain, Holds
  <2> QED BY <1>5, <2>1, <2>2
<1>15. CASE PhoneMoves \/ UNCHANGED vars
  BY <1>6, <1>15 DEF PhoneMoves, vars, guiVars
<1> QED BY <1>8, <1>9, <1>10, <1>11, <1>12, <1>13, <1>14, <1>15 DEF Next, Thread, UserInput

(***************************************************************************)
(* A button that is not a mode button is drawn pressed only while an       *)
(* activation of process_user_input holds it, at every depth of nested     *)
(* photos (gui.c:155-170).                                                 *)
(***************************************************************************)
THEOREM PressedButtonsAreHeld == Spec => []PressedIsHeld
<1>1. Init => HeldInv
  BY DEF Init, init_gui, HeldInv, StackType, PressedIsHeld, NoButton, ModeButtons
<1>2. HeldInv => PressedIsHeld
  BY DEF HeldInv
<1> QED BY <1>1, <1>2, HeldInvKept, PTL DEF Spec

\* In automatic mode a photo is the outermost activation, so that none is
\* nested in another, and the camera it stopped stays stopped until it reads.
OnePhoto(s) ==
  \A i \in DOMAIN s :
    s[i].fn = "photo_callback" => i = 1 /\ (s[i].at = "read" /\ s[i].stopped => camera_frozen)

AutoInv ==
  /\ StackType /\ BluetoothLockout /\ AutonomousModesOwnControls
  /\ pc \in AutoPcs => OnePhoto(stack)

\* No touch in automatic mode begins a second photo, and the one there is
\* resumes the camera only when it is done.
LEMMA AutoInvKept == AutoInv /\ [Next]_vars => AutoInv'
<1> SUFFICES ASSUME AutoInv, [Next]_vars PROVE AutoInv'
  OBVIOUS
<1> USE DEF AutoInv, StackType
<1>1. StackType' /\ BluetoothLockout' /\ AutonomousModesOwnControls'
  BY StackTypeKept, LockoutsKept
<1>2. SUFFICES ASSUME pc' \in AutoPcs PROVE OnePhoto(stack)'
  BY <1>1
<1>3. ASSUME UserInput \/ Wake \/ PhoneMoves \/ UNCHANGED vars PROVE OnePhoto(stack)'
  <2>1. OnePhoto(stack) /\ Controls \subseteq disabled
    <3>1. UNCHANGED pc
      BY <1>3 DEF Wake, PhoneMoves, vars, UserInput, Touch, PollNothing, PollOther, PollDisabled,
          ReturnTouched,
        mode_callback, motor_callback, bluetooth_callback, photo_button, photo_callback
    <3> QED BY <1>2, <3>1 DEF AutonomousModesOwnControls
  <2>2. CASE UNCHANGED <<stack, camera_frozen>>
    BY <2>1, <2>2 DEF OnePhoto
  <2>3. ASSUME stack # <<>>, stack' = Front(stack), UNCHANGED camera_frozen PROVE OnePhoto(stack)'
    <3>1. \A i \in DOMAIN Front(stack) : i \in DOMAIN stack /\ Front(stack)[i] = stack[i]
      BY <2>3 DEF Front
    <3> QED BY <2>1, <2>3, <3>1 DEF OnePhoto
  <2>4. ASSUME NEW b \in Buttons \cup {NoButton}, stack # <<>>, stack' = Append(Front(stack), Input(b)),
               UNCHANGED camera_frozen
        PROVE  OnePhoto(stack)'
    <3>1. Front(stack) \in Seq(Frames) /\ Input(b) \in Frames /\ Input(b).fn # "photo_callback"
      BY <2>4, FramesPushed DEF Front, Input
    <3>2. \A i \in DOMAIN Front(stack) : i \in DOMAIN stack /\ Front(stack)[i] = stack[i]
      BY <2>4 DEF Front
    <3>3. \A i \in DOMAIN stack' :
            \/ stack'[i] = Input(b)
            \/ i \in DOMAIN Front(stack) /\ stack'[i] = Front(stack)[i]
      BY <2>4, <3>1
    <3> QED BY <2>1, <2>4, <3>1, <3>2, <3>3 DEF OnePhoto
  <2>5. CASE PollNothing
    BY <2>3, <2>5 DEF PollNothing, ReturnTouched, Running, deviceVars
  <2>6. ASSUME NEW b \in Touchable, Touch(b) PROVE OnePhoto(stack)'
    <3>1. b \in Buttons \cup {NoButton}
      BY LauncherAssumption
    <3> QED BY <2>3, <2>4, <2>6, <3>1 DEF Touch, PollOther, PollDisabled, ReturnTouched, Polled, Running,
      mode_callback, motor_callback, HoldAt, deviceVars
  <2>7. CASE bluetooth_callback
    BY <2>4, <2>7 DEF bluetooth_callback, Polled, Running, HoldAt, Buttons, deviceVars
  <2>8. ~photo_button
    BY <2>1 DEF photo_button, Controls
  <2>9. CASE photo_callback
    <3>1. stack # <<>> /\ Last(stack).fn = "photo_callback"
      BY <2>9 DEF photo_callback, PhotoAt, Running
    <3>2. Len(stack) = 1
      <4>1. Len(stack) \in DOMAIN stack /\ stack[Len(stack)].fn = "photo_callback"
        BY <3>1 DEF Last
      <4> QED BY <2>1, <4>1 DEF OnePhoto
    <3>3. Front(stack) = <<>>
      BY <3>2 DEF Front
    <3>4. CASE stack' = Front(stack)
      BY <3>3, <3>4 DEF OnePhoto
    <3>5. ASSUME NEW at \in {"decode", "convert", "print"}, PhotoInput(at) PROVE OnePhoto(stack)'
      <4> DEFINE f == [Last(stack) EXCEPT !.at = at]
      <4>1. stack' = <<f, Input(NoButton)>>
        BY <3>3, <3>5 DEF PhotoInput
      <4>2. f.at # "read" /\ Input(NoButton).fn # "photo_callback"
        <5>1. Last(stack) \in Frames
          BY <3>1 DEF Last
        <5> QED BY <3>1, <5>1 DEF Frames, Input
      <4> HIDE DEF f
      <4>3. \A i \in DOMAIN stack' : (i = 1 /\ stack'[i] = f) \/ stack'[i] = Input(NoButton)
        BY <4>1
      <4> QED BY <4>2, <4>3 DEF OnePhoto
    <3> QED BY <2>9, <3>4, <3>5 DEF photo_callback, PhotoFailed, PhotoFinish
  <2> QED BY <1>3, <2>2, <2>5, <2>6, <2>7, <2>8, <2>9 DEF UserInput, Wake, PhoneMoves, vars, deviceVars
<1>4. ASSUME Main PROVE OnePhoto(stack)'
  <2>1. CASE stack' = <<>>
    BY <2>1 DEF OnePhoto
  <2>2. ASSUME NEW label, CallInput(label) PROVE OnePhoto(stack)'
    BY <2>2 DEF CallInput, OnePhoto, Input
  <2>3. CASE AutoPhoto
    <3>1. PICK ok \in BOOLEAN : stack' = <<Photo("read", ok), Input(NoButton)>> /\ (ok => camera_frozen')
      BY <2>3, LauncherAssumption DEF AutoPhoto, CallPhoto, take_picture
    <3>2. \A i \in DOMAIN stack' : (i = 1 /\ stack'[i] = Photo("read", ok)) \/ stack'[i] = Input(NoButton)
      BY <3>1
    <3> QED BY <3>1, <3>2 DEF OnePhoto, Photo, Input
  <2>4. CASE AutoStep
    BY <2>1, <2>2, <2>3, <2>4 DEF AutoStep, AutoPanEnd, Watch, ModeInput, ModeEnd, InMain
  <2>5. CASE auto_mode
    BY <2>1, <2>5 DEF auto_mode, EnterMode, InMain
  <2>6. ~AutoStep /\ ~auto_mode => pc' \notin AutoPcs
    BY <1>4 DEF AutoPcs, Main, MainLoop, CallInput, SkipMode, manual_mode, security_mode, SecurityStep,
      Watch, ModeInput, ModeEnd, Handshake, LinkLost, KeepWaiting, CutOff, vars, disable_bluetooth,
      Session, command_move_time,
      MoveTimeEnd, command_move_time_speed, MoveAtSpeed, MoveAtSpeedEnd, RestoreSpeed,
      command_set_motor_speed, command_move_angle, MoveAngleTilt, CommandFire, Command, CommandStep,
      InMain, send_image_capture, send_motion_report
  <2> QED BY <1>2, <2>4, <2>5, <2>6
<1> QED BY <1>3, <1>4 DEF Next, Thread

(***************************************************************************)
(* In automatic mode the frame that is read is the one the camera was      *)
(* stopped at, whatever is touched meanwhile and whatever the camera       *)
(* answers (main.c:65-99,145-176).                                         *)
(***************************************************************************)
THEOREM AutoPhotosAreOfStoppedFrames == Spec => []AutoPhotoOfStoppedFrame
<1>1. Init => AutoInv
  BY LockoutsInit DEF Init, AutoInv, StackType, AutoPcs
<1>2. AutoInv => AutoPhotoOfStoppedFrame
  <2> SUFFICES ASSUME AutoInv, pc \in AutoPcs, PhotoAt("read"), Last(stack).stopped PROVE camera_frozen
    BY DEF AutoPhotoOfStoppedFrame
  <2>1. Len(stack) \in DOMAIN stack /\ Last(stack) = stack[Len(stack)]
    BY DEF PhotoAt, Running, AutoInv, StackType, Last
  <2> QED BY <2>1 DEF AutoInv, OnePhoto, PhotoAt, Running
<1> QED BY <1>1, <1>2, AutoInvKept, PTL DEF Spec

\* The photo of automatic mode is the first activation, so that the input it
\* handles is the second and last; security mode has no photo at all.
NoPhoto(s) == \A i \in DOMAIN s : s[i].fn # "photo_callback"

DepthInv == AutoInv /\ ModesOpenOnePhoto /\ (pc \in SecurityPcs => NoPhoto(stack))

\* Replacing the last activation leaves the stack as deep as it was, and
\* returning from it leaves it shallower.
LEMMA StackDepth ==
  ASSUME NEW s \in Seq(Frames), s # <<>>, NEW b \in Buttons \cup {NoButton}
  PROVE  /\ Len(Front(s)) = Len(s) - 1 /\ Len(Append(Front(s), Input(b))) = Len(s) /\ Len(s) \in Nat
         /\ NoPhoto(s) => NoPhoto(Front(s)) /\ NoPhoto(Append(Front(s), Input(b)))
<1>1. Front(s) \in Seq(Frames) /\ Input(b) \in Frames /\ Input(b).fn # "photo_callback"
  BY FramesPushed DEF Front, Input
<1>2. Len(Front(s)) = Len(s) - 1 /\ Len(Append(Front(s), Input(b))) = Len(s) /\ Len(s) \in Nat
  <2>1. Len(s) \in Nat /\ Len(s) >= 1
    OBVIOUS
  <2>2. Len(Front(s)) = Len(s) - 1
    <3> DEFINE n == Len(s) - 1
    <3>1. Front(s) = SubSeq(s, 1, n)
      BY DEF Front
    <3>2. n \in Nat /\ \A i \in 1 .. n : s[i] \in Frames
      BY <2>1
    <3> HIDE DEF n
    <3>3. Len(SubSeq(s, 1, n)) = IF 1 <= n THEN n - 1 + 1 ELSE 0
      BY <3>2, SubSeqProperties
    <3>4. Len(Front(s)) = n
      BY <3>1, <3>2, <3>3
    <3> QED BY <3>4 DEF n
  <2> DEFINE t == Front(s)  e == Input(b)
  <2>3. t \in Seq(Frames) /\ e \in Frames /\ Len(t) = Len(s) - 1
    BY <1>1, <2>2
  <2> HIDE DEF t, e
  <2>4. Len(Append(t, e)) = Len(t) + 1
    BY <2>3
  <2> QED BY <2>1, <2>3, <2>4 DEF t, e
<1>3. \A i \in DOMAIN Front(s) : i \in DOMAIN s /\ Front(s)[i] = s[i]
  BY DEF Front
<1>4. \A i \in DOMAIN Append(Front(s), Input(b)) :
        \/ Append(Front(s), Input(b))[i] = Input(b)
        \/ i \in DOMAIN Front(s) /\ Append(Front(s), Input(b))[i] = Front(s)[i]
  BY <1>1
<1> QED BY <1>1, <1>2, <1>3, <1>4 DEF NoPhoto

\* Touches handled while a mode runs replace the last activation or return
\* from it; only the photo, alone on the stack, calls process_user_input.
LEMMA DepthKeptByInput ==
  ASSUME DepthInv, UserInput \/ Wake \/ PhoneMoves \/ UNCHANGED vars, pc' \in SecurityPcs \cup AutoPcs
  PROVE  ModesOpenOnePhoto' /\ (pc' \in SecurityPcs => NoPhoto(stack)')
<1> USE DEF StackType, AutoInv, DepthInv
<1>1. UNCHANGED pc /\ Controls \subseteq disabled
  <2>1. UNCHANGED pc
    BY DEF Wake, PhoneMoves, vars, UserInput, Touch, PollNothing, PollOther, PollDisabled, ReturnTouched,
      mode_callback, motor_callback, bluetooth_callback, photo_button, photo_callback
  <2> QED BY <2>1 DEF AutonomousModesOwnControls
<1> DEFINE Kept == ModesOpenOnePhoto' /\ (pc' \in SecurityPcs => NoPhoto(stack)')
<1>2. CASE UNCHANGED stack
  BY <1>1, <1>2 DEF ModesOpenOnePhoto
<1>3. ASSUME stack # <<>>, stack' = Front(stack) PROVE Kept
  BY <1>1, <1>3, StackDepth DEF ModesOpenOnePhoto
<1>4. ASSUME NEW b \in Buttons \cup {NoButton}, stack # <<>>, stack' = Append(Front(stack), Input(b))
      PROVE  Kept
  BY <1>1, <1>4, StackDepth DEF ModesOpenOnePhoto
<1>5. CASE PollNothing
  BY <1>2, <1>3, <1>5 DEF PollNothing, ReturnTouched, Running
<1>6. ASSUME NEW b \in Touchable, Touch(b) PROVE Kept
  <2>1. b \in Buttons \cup {NoButton}
    BY LauncherAssumption
  <2> QED BY <1>3, <1>4, <1>6, <2>1 DEF Touch, PollOther, PollDisabled, ReturnTouched, Polled, Running,
    mode_callback, motor_callback, HoldAt
<1>7. CASE bluetooth_callback
  BY <1>4, <1>7 DEF bluetooth_callback, Polled, Running, HoldAt, Buttons
<1>8. ~photo_button
  BY <1>1 DEF photo_button, Controls
<1>9. CASE photo_callback
  <2>1. stack # <<>> /\ Last(stack).fn = "photo_callback"
    BY <1>9 DEF photo_callback, PhotoAt, Running
  <2>2. Len(stack) \in DOMAIN stack /\ stack[Len(stack)].fn = "photo_callback"
    BY <2>1 DEF Last
  <2>3. pc \notin SecurityPcs
    BY <2>2 DEF NoPhoto
  <2>4. Len(stack) = 1
    BY <1>1, <2>2, <2>3 DEF OnePhoto
  <2>5. Front(stack) = <<>>
    BY <2>4 DEF Front
  <2>6. ASSUME NEW at, PhotoInput(at) PROVE Kept
    <3> DEFINE f == [Last(stack) EXCEPT !.at = at]
    <3>1. stack' = <<f, Input(NoButton)>>
      BY <2>5, <2>6 DEF PhotoInput
    <3> HIDE DEF f
    <3>2. Len(stack') = 2
      BY <3>1
    <3> QED BY <1>1, <2>3, <3>2 DEF ModesOpenOnePhoto, SecurityPcs, AutoPcs
  <2> QED BY <1>3, <1>9, <2>1, <2>6 DEF photo_callback, PhotoFailed, PhotoFinish
<1> QED BY <1>2, <1>5, <1>6, <1>7, <1>8, <1>9 DEF UserInput, Wake, PhoneMoves, vars

LEMMA DepthInvKept == DepthInv /\ [Next]_vars => DepthInv'
<1> SUFFICES ASSUME DepthInv, [Next]_vars PROVE DepthInv'
  OBVIOUS
<1>1. AutoInv'
  BY AutoInvKept DEF DepthInv
<1>2. SUFFICES ASSUME pc' \in SecurityPcs \cup AutoPcs
               PROVE  ModesOpenOnePhoto' /\ (pc' \in SecurityPcs => NoPhoto(stack)')
  BY <1>1 DEF DepthInv, ModesOpenOnePhoto
<1>3. CASE UserInput \/ Wake \/ PhoneMoves \/ UNCHANGED vars
  BY <1>2, <1>3, DepthKeptByInput
<1>4. ASSUME Main PROVE ModesOpenOnePhoto' /\ (pc' \in SecurityPcs => NoPhoto(stack)')
  <2>1. CASE stack' = <<>>
    BY <2>1 DEF ModesOpenOnePhoto, NoPhoto
  <2>2. ASSUME NEW label, CallInput(label) PROVE ModesOpenOnePhoto' /\ NoPhoto(stack)'
    <3>1. stack' = <<Input(NoButton)>> /\ Len(stack') = 1
      BY <2>2 DEF CallInput
    <3> QED BY <3>1 DEF ModesOpenOnePhoto, NoPhoto, Input
  <2>3. CASE AutoPhoto
    <3>1. pc' = "auto.input2" /\ \E ok \in CameraAnswers : stack' = <<Photo("read", ok), Input(NoButton)>>
      BY <2>3 DEF AutoPhoto, CallPhoto
    <3>2. Len(stack') = 2
      BY <3>1
    <3> QED BY <3>1, <3>2 DEF ModesOpenOnePhoto, SecurityPcs
  <2>4. CASE AutoStep
    BY <2>1, <2>2, <2>3, <2>4 DEF AutoStep, AutoPanEnd, Watch, ModeInput, ModeEnd, InMain
  <2>5. CASE SecurityStep
    BY <2>1, <2>2, <2>5 DEF SecurityStep, Watch, ModeInput, ModeEnd, InMain
  <2>6. CASE auto_mode \/ security_mode
    BY <2>1, <2>6 DEF auto_mode, security_mode, EnterMode, InMain
  <2>7. ~AutoStep /\ ~SecurityStep /\ ~auto_mode /\ ~security_mode => pc' \notin SecurityPcs \cup AutoPcs
    BY <1>4 DEF AutoPcs, SecurityPcs, Main, MainLoop, CallInput, SkipMode, manual_mode,
      Handshake, LinkLost, KeepWaiting, CutOff, vars, disable_bluetooth, Session, command_move_time,
      MoveTimeEnd, command_move_time_speed, MoveAtSpeed, MoveAtSpeedEnd, RestoreSpeed,
      command_set_motor_speed, command_move_angle, MoveAngleTilt, CommandFire, Command, CommandStep,
      InMain, send_image_capture, send_motion_report
  <2> QED BY <1>2, <2>4, <2>5, <2>6, <2>7
<1> QED BY <1>3, <1>4 DEF Next, Thread

(***************************************************************************)
(* While a mode runs on its own no touch opens a photo inside a photo, for *)
(* every bound on the depth manual mode may reach: the disabled CAMERA     *)
(* button alone keeps the stack at two activations, or one                 *)
(* (main.c:116-176, gui.c:127-172).                                        *)
(***************************************************************************)
THEOREM ModesNestNoPhoto == Spec => []ModesOpenOnePhoto
<1>1. Init => DepthInv
  BY LockoutsInit DEF Init, DepthInv, AutoInv, StackType, AutoPcs, SecurityPcs, ModesOpenOnePhoto
<1>2. DepthInv => ModesOpenOnePhoto
  BY DEF DepthInv
<1> QED BY <1>1, <1>2, DepthInvKept, PTL DEF Spec

-----------------------------------------------------------------------------
(* One master at a time.                                                   *)

\* The trigger is pulled only during the sleep of motor_fire.
FireRest == PWM_CWFIRE # kCWFIRE_MID => sleeping = "motor_fire"

\* While the phone is waited for nothing turns and nobody sleeps.
WaitingRest == Master = "nobody" => PWM_CW360 = kCW360_MID /\ sleeping = "none"

HandshakeFlag == pc \in {"handshake", "handshake.cut"} => bluetooth_enabled = 1

ControlInv ==
  /\ FirmwareInv /\ PanInv /\ BluetoothLockout /\ AutonomousModesOwnControls
  /\ FireRest /\ WaitingRest /\ HandshakeFlag

\* The trigger leaves its rest only to sleep through a shot.
LEMMA FireRestKept ==
  ASSUME FirmwareInv, FireRest, [Next]_vars PROVE FireRest'
<1>1. [MotorNext]_motorVars
  BY StepIsMotorStep DEF FirmwareInv
<1>2. CASE MotorWake
  BY <1>2 DEF MotorWake, motor_fire_end, move_leftright_angle_end, FireRest
<1>3. CASE MotorCall
  BY <1>3 DEF MotorCall, ButtonCall, MoveCall, AngleCall, SpeedCall, SetBluetoothEnabled, FireRest,
    move_direction, move_up, move_down, move_left, move_right, stop_leftrght, motor_fire,
    move_updown_angle, move_leftright_angle, set_motor_speed, servos
<1>4. CASE UNCHANGED motorVars
  BY <1>4 DEF motorVars, FireRest
<1> QED BY <1>1, <1>2, <1>3, <1>4 DEF MotorNext

\* Only the Bluetooth button brings main to the handshake.
LEMMA HandshakeFlagKept ==
  ASSUME HandshakeFlag, [Next]_vars PROVE HandshakeFlag'
<1> USE DEF HandshakeFlag
<1>1. CASE UNCHANGED <<bluetooth_enabled, pc>>
  BY <1>1
<1>2. UserInput => UNCHANGED <<bluetooth_enabled, pc>> \/ (UNCHANGED pc /\ bluetooth_enabled' = 1)
  BY DEF UserInput, Touch, PollNothing, PollOther, PollDisabled, ReturnTouched, buttons_not_pressed,
    mode_callback, motor_callback, bluetooth_callback, photo_button, photo_callback, motorVars
<1>3. Wake => UNCHANGED <<bluetooth_enabled, pc>>
  BY DEF Wake, MotorWake, motor_fire_end, move_leftright_angle_end
<1>4. CASE MainLoop
  BY <1>4 DEF MainLoop, CallInput, motorVars
<1>5. SkipMode \/ manual_mode \/ security_mode \/ auto_mode => pc' \notin {"handshake", "handshake.cut"}
  BY DEF SkipMode, manual_mode, security_mode, auto_mode
<1>6. SecurityStep \/ AutoStep => pc' \notin {"handshake", "handshake.cut"}
  BY DEF SecurityStep, AutoStep, Watch, ModeInput, ModeEnd, AutoPanEnd, AutoPhoto, CallInput
<1>7. Handshake \/ LinkLost => pc' \notin {"handshake", "handshake.cut"}
  BY DEF Handshake, LinkLost, disable_bluetooth
<1>8. Session => pc' \notin {"handshake", "handshake.cut"}
  BY DEF Session, command_move_time, MoveTimeEnd, command_move_time_speed, MoveAtSpeed,
    MoveAtSpeedEnd, RestoreSpeed, command_set_motor_speed, command_move_angle, MoveAngleTilt,
    CommandFire, Command, CommandStep, InMain, send_image_capture, send_motion_report
<1>9. KeepWaiting \/ CutOff \/ PhoneMoves \/ UNCHANGED vars =>
        /\ UNCHANGED bluetooth_enabled
        /\ pc \in {"handshake", "handshake.cut"} \/ pc' \notin {"handshake", "handshake.cut"}
  BY DEF KeepWaiting, CutOff, PhoneMoves, vars, motorVars
<1> QED BY <1>1, <1>2, <1>3, <1>4, <1>5, <1>6, <1>7, <1>8, <1>9 DEF Next, Thread, Main

\* A touch that is not obeyed by a motor or the Bluetooth button at most
\* stops the pan.
LEMMA OtherTouches ==
  ASSUME UserInput, ~bluetooth_callback, \A b \in Touchable : ~motor_callback(b)
  PROVE  /\ sleeping = "none" /\ UNCHANGED sleeping
         /\ UNCHANGED <<PWM_CW180, PWM_CWFIRE, bluetooth_enabled, pc>>
         /\ UNCHANGED PWM_CW360 \/ PWM_CW360' = kCW360_MID
BY DEF UserInput, Touch, PollNothing, PollOther, PollDisabled, ReturnTouched, buttons_not_pressed,
  Polled, mode_callback, photo_button, photo_callback, stop_leftrght, motorVars

\* The buttons that move a servo are controls.
LEMMA MotorButtons ==
  ASSUME NEW b, motor_callback(b)
  PROVE  /\ b \in Controls /\ b \notin disabled /\ Polled(b)
         /\ UNCHANGED <<bluetooth_enabled, pc>>
BY DEF motor_callback, Controls

\* A poll that finds another button than LEFT and RIGHT finds the servo at rest.
LEMMA OtherButtonAtRest ==
  ASSUME PanInv, NEW b, b \notin {"LEFT_BUTTON", "RIGHT_BUTTON"}, Polled(b)
  PROVE  PWM_CW360 = kCW360_MID
BY DEF PanInv, PanOnlyOnDemand, Polled, Running, NoButton

\* When main takes a step of its own, pan and trigger are at rest.
LEMMA MainAtRest ==
  ASSUME PanInv, FireRest, InMain, pc \notin {"auto.pan", "command.move", "command.moving"}
  PROVE  PWM_CW360 = kCW360_MID /\ PWM_CWFIRE = kCWFIRE_MID
BY DEF PanInv, PanOnlyOnDemand, FireRest, InMain, Running

ControlStepped == Controlled!Next \/ UNCHANGED <<Master, servos>>

\* Finger and phone may do anything that leaves the tilt within its limits.
LEMMA Steered ==
  ASSUME Master \in {"finger", "phone"}, UNCHANGED Master, TiltWithinLimits'
  PROVE  ControlStepped
BY DEF ControlStepped, Controlled!Next, Controlled!Steer, TiltWithinLimits

\* A mode may stop the pan servo or turn it, and leaves the tilt alone.
LEMMA Patrolled ==
  ASSUME Master = "mode", UNCHANGED <<Master, PWM_CW180>>,
         UNCHANGED PWM_CW360 \/ PWM_CW360' = kCW360_MID
  PROVE  ControlStepped
BY DEF ControlStepped, Controlled!Next, Controlled!Patrol

\* The arrows along which control changes hands.
LEMMA HandedOver ==
  ASSUME UNCHANGED servos, PWM_CW360 = kCW360_MID, PWM_CWFIRE = kCWFIRE_MID,
         <<Master, Master'>> \in {<<"mode", "finger">>, <<"finger", "nobody">>, <<"mode", "nobody">>,
                                  <<"nobody", "phone">>, <<"nobody", "finger">>, <<"phone", "finger">>}
  PROVE  ControlStepped
BY DEF ControlStepped, Controlled!Next, Controlled!HandOver, Controlled!AtRest, servos

\* A touch, its end or the end of a sleep is a step of the master it serves.
LEMMA InputIsControlStep ==
  ASSUME ControlInv, TiltWithinLimits', UserInput \/ Wake
  PROVE  ControlStepped /\ WaitingRest'
<1> USE DEF ControlInv
<1>0. Master \in {"phone", "mode", "nobody", "finger"}
  BY DEF Master
<1>1. CASE bluetooth_callback
  <2>1. /\ Polled("BLUETOOTH_BUTTON") /\ "BLUETOOTH_BUTTON" \notin disabled
        /\ bluetooth_enabled' = 1 /\ UNCHANGED <<servos, sleeping, pc>>
    BY <1>1 DEF bluetooth_callback
  <2>2. PWM_CW360 = kCW360_MID /\ sleeping = "none" /\ PWM_CWFIRE = kCWFIRE_MID
    BY <2>1, OtherButtonAtRest DEF FireRest, Polled
  <2>3. Master' = Master \/ (Master = "finger" /\ Master' = "nobody")
    BY <2>1 DEF Master
  <2>4. ControlStepped
    BY <2>1, <2>2, <2>3, HandedOver DEF ControlStepped
  <2> QED BY <2>1, <2>2, <2>4 DEF WaitingRest, servos
<1>2. CASE UserInput /\ ~bluetooth_callback /\ \A b \in Touchable : ~motor_callback(b)
  <2>1. /\ sleeping = "none" /\ UNCHANGED sleeping
        /\ UNCHANGED <<PWM_CW180, PWM_CWFIRE, bluetooth_enabled, pc>>
        /\ UNCHANGED PWM_CW360 \/ PWM_CW360' = kCW360_MID
    BY <1>2, OtherTouches
  <2>2. UNCHANGED Master
    BY <2>1 DEF Master
  <2>3. CASE Master = "nobody"
    <3>1. UNCHANGED servos
      BY <2>1, <2>3 DEF WaitingRest, servos
    <3> QED BY <2>1, <2>2, <2>3, <3>1 DEF ControlStepped, WaitingRest, servos
  <2>4. CASE Master = "mode"
    BY <2>1, <2>2, <2>4, Patrolled DEF WaitingRest
  <2>5. CASE Master \in {"finger", "phone"}
    BY <2>2, <2>5, Steered DEF WaitingRest
  <2> QED BY <1>0, <2>3, <2>4, <2>5
<1>3. ASSUME NEW b \in Touchable, motor_callback(b)
      PROVE  ControlStepped /\ WaitingRest'
  <2>1. b \in Controls /\ b \notin disabled /\ UNCHANGED <<bluetooth_enabled, pc>>
    BY <1>3, MotorButtons
  <2>2. UNCHANGED Master
    BY <2>1 DEF Master
  <2>3. Master \notin {"mode", "nobody"}
    BY <2>1 DEF Master, BluetoothLockout, AutonomousModesOwnControls, Buttons
  <2> QED BY <1>0, <2>2, <2>3, Steered DEF WaitingRest
<1>4. CASE Wake
  <2>1. sleeping # "none" /\ UNCHANGED <<PWM_CW180, bluetooth_enabled, pc>>
        /\ (UNCHANGED PWM_CW360 \/ PWM_CW360' = kCW360_MID)
    BY <1>4 DEF Wake, MotorWake, motor_fire_end, move_leftright_angle_end
  <2>2. UNCHANGED Master /\ Master # "nobody"
    BY <2>1 DEF Master, WaitingRest
  <2> QED BY <1>0, <2>1, <2>2, Steered, Patrolled DEF WaitingRest
<1> QED BY <1>1, <1>2, <1>3, <1>4

\* So is a step of main, a mode or the session, or it hands control over.
LEMMA MainIsControlStep ==
  ASSUME ControlInv, TiltWithinLimits', Main
  PROVE  ControlStepped /\ WaitingRest'
<1> USE DEF ControlInv, SecurityPcs, AutoPcs, CutPcs, SessionPcs, CommandPcs, SwappedPcs
<1>1. CASE MainLoop \/ SkipMode \/ manual_mode
  <2>1. UNCHANGED <<servos, bluetooth_enabled, sleeping>> /\ UNCHANGED Master
    BY <1>1 DEF MainLoop, SkipMode, manual_mode, EnterMode, CallInput, motorVars, servos, Master
  <2> QED BY <2>1 DEF ControlStepped, WaitingRest, servos
<1>2. CASE security_mode \/ auto_mode
  <2>1. /\ InMain /\ pc = "polled" /\ bluetooth_enabled = 0 /\ pc' \in {"security.watch", "auto.pan"}
        /\ UNCHANGED <<PWM_CW180, PWM_CWFIRE>>
    BY <1>2 DEF security_mode, auto_mode, EnterMode, motorVars, move_left
  <2>2. PWM_CW360 = kCW360_MID /\ PWM_CWFIRE = kCWFIRE_MID
    BY <2>1, MainAtRest
  <2>3. Master = "finger" /\ Master' = "mode"
    BY <2>1 DEF Master
  <2>4. ControlStepped
    BY <2>1, <2>2, <2>3 DEF ControlStepped, Controlled!Next, Controlled!StartMode, Controlled!AtRest
  <2> QED BY <2>3, <2>4 DEF WaitingRest
<1>3. CASE (SecurityStep \/ AutoStep) /\ pc' # "loop"
  <2>1. /\ UNCHANGED <<PWM_CW180, bluetooth_enabled>>
        /\ UNCHANGED PWM_CW360 \/ PWM_CW360' = kCW360_MID
    BY <1>3 DEF SecurityStep, AutoStep, Watch, ModeInput, ModeEnd, AutoPanEnd, AutoPhoto, motorVars,
      servos, motor_fire, stop_leftrght
  <2>2. pc \in SecurityPcs \cup AutoPcs /\ pc' \in SecurityPcs \cup AutoPcs
    BY <1>3 DEF SecurityStep, AutoStep, Watch, ModeInput, ModeEnd, AutoPanEnd, AutoPhoto, CallInput
  <2>3. Master = "mode" /\ Master' = "mode"
    BY <2>2 DEF Master
  <2> QED BY <2>1, <2>3, Patrolled DEF WaitingRest
<1>4. CASE (SecurityStep \/ AutoStep) /\ pc' = "loop"
  <2>1. InMain /\ pc \in {"security.end", "auto.end"} /\ UNCHANGED motorVars
    BY <1>4 DEF SecurityStep, AutoStep, Watch, ModeInput, ModeEnd, AutoPanEnd, AutoPhoto, CallInput
  <2>2. PWM_CW360 = kCW360_MID /\ PWM_CWFIRE = kCWFIRE_MID /\ sleeping = "none"
    BY <2>1, MainAtRest DEF InMain
  <2>3. Master = "mode" /\ Master' \in {"nobody", "finger"}
    BY <1>4, <2>1 DEF Master, motorVars
  <2>4. UNCHANGED <<servos, sleeping>>
    BY <2>1 DEF motorVars, servos
  <2>5. <<Master, Master'>> \in {<<"mode", "finger">>, <<"mode", "nobody">>}
    BY <2>3
  <2> QED BY <2>2, <2>4, <2>5, HandedOver DEF WaitingRest, servos
<1>5. CASE Handshake
  <2>1. InMain /\ pc = "handshake" /\ bluetooth_enabled = 1 /\ UNCHANGED <<servos, sleeping>>
    BY <1>5 DEF Handshake, HandshakeFlag, disable_bluetooth, motorVars, servos
  <2>2. Master = "nobody" /\ Master' \in {"phone", "finger"}
    BY <1>5, <2>1 DEF Master, Handshake, disable_bluetooth, motorVars
  <2>3. PWM_CW360 = kCW360_MID /\ PWM_CWFIRE = kCWFIRE_MID
    BY <2>1, MainAtRest
  <2>4. <<Master, Master'>> \in {<<"nobody", "phone">>, <<"nobody", "finger">>}
    BY <2>2
  <2> QED BY <2>1, <2>2, <2>3, <2>4, HandedOver DEF WaitingRest
<1>6. CASE LinkLost
  <2>1. InMain /\ pc = "session" /\ pc' = "loop" /\ bluetooth_enabled' = 0 /\ UNCHANGED servos
    BY <1>6 DEF LinkLost, disable_bluetooth
  <2>2. Master = "phone" /\ Master' = "finger"
    BY <2>1 DEF Master
  <2>3. PWM_CW360 = kCW360_MID /\ PWM_CWFIRE = kCWFIRE_MID
    BY <2>1, MainAtRest
  <2> QED BY <2>1, <2>2, <2>3, HandedOver DEF WaitingRest
<1>7. CASE Session
  <2>1. pc \in SessionPcs /\ pc' \in SessionPcs
    BY <1>7 DEF Session, command_move_time, MoveTimeEnd, command_move_time_speed, MoveAtSpeed,
      MoveAtSpeedEnd, RestoreSpeed, command_set_motor_speed, command_move_angle, MoveAngleTilt,
      CommandFire, Command, CommandStep, send_image_capture, send_motion_report
  <2>2. Master = "phone" /\ Master' = "phone"
    BY <2>1 DEF Master
  <2> QED BY <2>2, Steered DEF WaitingRest
<1>8. CASE KeepWaiting \/ CutOff
  <2>1. UNCHANGED <<servos, bluetooth_enabled, sleeping>> /\ UNCHANGED Master
    BY <1>8 DEF KeepWaiting, CutOff, vars, motorVars, servos, Master, HandshakeFlag
  <2> QED BY <2>1 DEF ControlStepped, WaitingRest, servos
<1> QED BY <1>1, <1>2, <1>3, <1>4, <1>5, <1>6, <1>7, <1>8 DEF Main

(***************************************************************************)
(* The firmware implements Control: one master at a time, and control      *)
(* changes hands only with the servos at rest, for every user, camera and  *)
(* phone, every nesting of photos and every order of commands.             *)
(***************************************************************************)
THEOREM ControlIsImplemented == Spec => ControlIsExclusive
<1>1. Init => ControlInv /\ Controlled!Init
  <2> SUFFICES ASSUME Init PROVE ControlInv /\ Controlled!Init
    OBVIOUS
  <2>1. FireRest /\ WaitingRest /\ HandshakeFlag
    BY DEF Init, init_motors, FireRest, WaitingRest, HandshakeFlag
  <2>2. kCW180_MID \in kCW180_MIN .. kCW180_MAX
    BY MotorAssumption
  <2>3. Controlled!Init
    BY <2>2 DEF Init, init_motors, Controlled!Init, Master, SessionPcs, CommandPcs, SwappedPcs,
      SecurityPcs, AutoPcs
  <2> QED BY <2>1, <2>3, FirmwareInvInit, PanInvInit, LockoutsInit DEF ControlInv
<1>2. ControlInv /\ [Next]_vars => ControlInv' /\ ControlStepped
  <2> SUFFICES ASSUME ControlInv, [Next]_vars PROVE ControlInv' /\ ControlStepped
    OBVIOUS
  <2>1. /\ FirmwareInv' /\ PanInv' /\ BluetoothLockout' /\ AutonomousModesOwnControls'
        /\ FireRest' /\ HandshakeFlag'
    BY FirmwareInvKept, PanInvKept, LockoutsKept, FireRestKept, HandshakeFlagKept DEF ControlInv
  <2>2. TiltWithinLimits'
    BY <2>1 DEF FirmwareInv, MotorInv
  <2>3. CASE PhoneMoves \/ UNCHANGED vars
    <3>1. WaitingRest' /\ ControlStepped
      BY <2>3 DEF ControlInv, ControlStepped, WaitingRest, Master, PhoneMoves, vars, motorVars, servos
    <3> QED BY <2>1, <3>1 DEF ControlInv
  <2>4. WaitingRest' /\ ControlStepped
    BY <2>2, <2>3, InputIsControlStep, MainIsControlStep DEF Next, Thread, ControlInv
  <2> QED BY <2>1, <2>4 DEF ControlInv
<1>3. ControlStepped => [Controlled!Next]_(Controlled!controlVars)
  BY DEF ControlStepped, Controlled!controlVars, servos
<1> QED BY <1>1, <1>2, <1>3, PTL DEF Spec, ControlIsExclusive, Controlled!Spec
=============================================================================
