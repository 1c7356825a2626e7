------------------------------ MODULE Launcher ------------------------------
(***************************************************************************)
(* The firmware's single thread (main.c, process_user_input of gui.c): the *)
(* main loop, the three modes, the button callbacks and the Bluetooth      *)
(* session, over the servos of Motor and the buttons of Gui.               *)
(*                                                                         *)
(* Callbacks are called from inside process_user_input, and photo_callback *)
(* calls process_user_input again, so a touch is handled in the middle of  *)
(* whatever was going on.  pc is where main, or the mode or command it     *)
(* runs, has got to; stack holds the activations of the two functions that *)
(* call each other.  A step runs from one wait (a poll of the touch        *)
(* screen, a sleep, a reply) to the next.                                  *)
(***************************************************************************)
EXTENDS Motor, Gui, Sequences, SequencesExt

CONSTANTS
  Touchable,      \* the buttons the user touches
  FieldBytes,     \* values of the one-byte speed field of a message
  CameraAnswers,  \* whether camera commands can succeed, fail, or both
  MaxDepth        \* a photo is not nested when this many activations are open

ASSUME LauncherAssumption ==
  /\ Touchable \subseteq Buttons
  /\ \A byte \in FieldBytes : byte \in Nat /\ byte < 256
  /\ CameraAnswers \subseteq BOOLEAN
  /\ MaxDepth \in Nat

VARIABLES
  current_mode,
  pc, stack,
  prev_speed,      \* command_move_time_speed's saved speed, 0 outside it
  chosen_speed,    \* history: the speed last chosen, at power-on or by command
  phone,           \* "here", or "gone" with all it sent read
  camera_frozen,   \* the camera holds one frame (between stop and resume)
  motion_detect    \* the camera's motion monitoring

deviceVars == <<camera_frozen, motion_detect>>
savedSpeeds == <<prev_speed, chosen_speed>>
sessionVars == <<savedSpeeds, phone>>
vars == <<motorVars, guiVars, current_mode, pc, stack, sessionVars, deviceVars>>

SecurityPcs == {"security.watch", "security.input", "security.end"}
AutoPcs == {"auto.pan", "auto.watch", "auto.input", "auto.photo", "auto.input2", "auto.end"}
SwappedPcs == {"command.swapped", "command.moving", "command.restore"}
CommandPcs == SwappedPcs \cup {"command.move", "command.angle"}
CutPcs == {"handshake.cut", "session.cut"}
SessionPcs == {"session", "session.cut"} \cup CommandPcs
PhonePcs == {"handshake"} \cup CutPcs \cup SessionPcs

\* An activation of process_user_input: the button the last poll found.
Input(b) == [fn |-> "process_user_input", pressed |-> b]

\* An activation of photo_callback: where it continues, and whether the
\* camera stopped for it (the code ignores the answer).
Photo(at, stopped) == [fn |-> "photo_callback", at |-> at, stopped |-> stopped]

Frames == [fn : {"process_user_input"}, pressed : Buttons \cup {NoButton}]
          \cup [fn : {"photo_callback"}, at : {"read", "decode", "convert", "print"},
                stopped : BOOLEAN]

Running(fn) == stack # <<>> /\ Last(stack).fn = fn
InMain == stack = <<>> /\ sleeping = "none"

Init ==
  /\ init_motors /\ init_gui
  /\ current_mode = "MANUAL"
  /\ pc = "loop" /\ stack = <<>>
  /\ prev_speed = 0 /\ chosen_speed = leftright_speed
  /\ phone = "gone"
  /\ camera_frozen \in BOOLEAN /\ motion_detect \in BOOLEAN

-----------------------------------------------------------------------------
(* The camera, as far as the modes rely on it.                             *)

take_picture(ok) ==
  /\ camera_frozen' = IF ok THEN TRUE ELSE camera_frozen
  /\ UNCHANGED motion_detect

resume_picture ==
  /\ \E ok \in CameraAnswers : camera_frozen' = IF ok THEN FALSE ELSE camera_frozen
  /\ UNCHANGED motion_detect

set_motion_detect(flag) ==
  /\ \E ok \in CameraAnswers : motion_detect' = IF ok THEN flag ELSE motion_detect
  /\ UNCHANGED camera_frozen

-----------------------------------------------------------------------------
(* process_user_input.                                                     *)

\* Waits with the stack as it is, the last activation having found button b.
HoldAt(b) == stack' = Append(Front(stack), Input(b))

\* Mutant: the buttons are not redrawn.
MutReturnTouched ==
  /\ stop_leftrght
  /\ stack' = Front(stack)
  /\ UNCHANGED <<guiVars, bluetooth_enabled, current_mode, pc, sessionVars, deviceVars>>

\* The end of process_user_input: everything but the mode buttons is drawn
\* released and the pan servo stops, unless no button was touched at all.
ReturnTouched ==
  /\ buttons_not_pressed
  /\ stop_leftrght
  /\ stack' = Front(stack)
  /\ UNCHANGED <<bluetooth_enabled, current_mode, pc, sessionVars, deviceVars>>

Prev == Last(stack).pressed

\* Mutant: only the last poll decides whether to stop the servo.
MutPollNothing ==
  /\ Running("process_user_input") /\ sleeping = "none"
  /\ stack' = Front(stack)
  /\ UNCHANGED <<motorVars, guiVars, current_mode, pc, sessionVars, deviceVars>>

\* The poll times out, or finds a touch outside every button.
PollNothing ==
  /\ Running("process_user_input") /\ sleeping = "none"
  /\ IF Prev = NoButton
     THEN /\ stack' = Front(stack)
          /\ UNCHANGED <<motorVars, guiVars, current_mode, pc, sessionVars, deviceVars>>
     ELSE ReturnTouched

\* The finger has slid to another button.
PollOther(b) ==
  /\ Running("process_user_input") /\ sleeping = "none"
  /\ Prev # NoButton /\ Prev # b
  /\ ReturnTouched

\* The first poll that finds button b, and every one that finds it still held.
Polled(b) ==
  /\ Running("process_user_input") /\ sleeping = "none"
  /\ Prev \in {NoButton, b}

PollDisabled(b) ==
  /\ Polled(b) /\ b \in disabled
  /\ toggled' = ToggledAtPress(b) \cap ModeButtons
  /\ stop_leftrght
  /\ stack' = Front(stack)
  /\ UNCHANGED <<disabled, bluetooth_enabled, current_mode, pc, sessionVars, deviceVars>>

ModeOf == [MANUAL_BUTTON |-> "MANUAL", AUTOMATIC_BUTTON |-> "AUTO", SECURITY_BUTTON |-> "SECURITY"]

mode_callback(b) ==
  /\ b \in ModeButtons /\ Polled(b) /\ b \notin disabled
  /\ Press(b) /\ HoldAt(b)
  /\ current_mode' = ModeOf[b]
  /\ UNCHANGED <<motorVars, disabled, pc, sessionVars, deviceVars>>

\* Mutant: the Bluetooth button itself is not disabled.
MutBluetoothCallback ==
  LET b == "BLUETOOTH_BUTTON"
  IN /\ Polled(b) /\ b \notin disabled
     /\ HoldAt(b)
     /\ bluetooth_enabled' = 1
     /\ disabled' = Buttons \ {b}
     /\ toggled' = {b}
     /\ UNCHANGED <<servos, speeds, multipliers, sleeping, current_mode, pc, sessionVars, deviceVars>>

\* disable_button also redraws the Bluetooth button itself released.
bluetooth_callback ==
  LET b == "BLUETOOTH_BUTTON"
  IN /\ Polled(b) /\ b \notin disabled
     /\ HoldAt(b)
     /\ bluetooth_enabled' = 1
     /\ disabled' = Buttons
     /\ toggled' = (ToggledAtPress(b) \cup {b}) \ (Buttons \ disabled)
     /\ UNCHANGED <<servos, speeds, multipliers, sleeping, current_mode, pc, sessionVars, deviceVars>>

motor_callback(b) ==
  /\ Polled(b) /\ b \notin disabled
  /\ Press(b) /\ HoldAt(b)
  /\ \/ b = "LEFT_BUTTON" /\ move_left(bluetooth_enabled)
     \/ b = "RIGHT_BUTTON" /\ move_right(bluetooth_enabled)
     \/ b = "UP_BUTTON" /\ move_up(bluetooth_enabled)
     \/ b = "DOWN_BUTTON" /\ move_down(bluetooth_enabled)
     \/ b = "FIRE_BUTTON" /\ motor_fire
  /\ UNCHANGED <<disabled, bluetooth_enabled, current_mode, pc, sessionVars, deviceVars>>

-----------------------------------------------------------------------------
(* photo_callback: it stops the camera, reads the frame, decodes it and    *)
(* shows it, handling touches in between.                                  *)

CallPhoto(caller, ok) ==
  /\ stack' = caller \o <<Photo("read", ok), Input(NoButton)>>
  /\ take_picture(ok)

photo_button ==
  LET b == "CAMERA_BUTTON"
  IN /\ Polled(b) /\ b \notin disabled
     /\ Len(stack) < MaxDepth
     /\ Press(b)
     /\ \E ok \in CameraAnswers : CallPhoto(Append(Front(stack), Input(b)), ok)
     /\ UNCHANGED <<motorVars, disabled, current_mode, pc, sessionVars>>

PhotoAt(at) == Running("photo_callback") /\ Last(stack).at = at

\* Continues at the given point after handling touches once more.
PhotoInput(at) ==
  /\ stack' = Front(stack) \o <<[Last(stack) EXCEPT !.at = at], Input(NoButton)>>
  /\ UNCHANGED deviceVars

\* reticle, resume_picture, free, erase_processing_message.
PhotoFinish == stack' = Front(stack) /\ resume_picture

\* The early return on an empty frame: the camera is not resumed.
PhotoFailed == stack' = Front(stack) /\ UNCHANGED deviceVars

photo_callback ==
  /\ \/ PhotoAt("read") /\ (PhotoFailed \/ PhotoInput("decode"))
     \/ PhotoAt("decode") /\ (PhotoInput("convert") \/ PhotoFinish)
     \/ PhotoAt("convert") /\ PhotoInput("print")
     \/ PhotoAt("print") /\ PhotoFinish
  /\ UNCHANGED <<motorVars, guiVars, current_mode, pc, sessionVars>>

-----------------------------------------------------------------------------
(* The main loop.                                                          *)

\* main or a mode calls process_user_input and continues at label.
CallInput(label) == pc' = label /\ stack' = <<Input(NoButton)>>

MainLoop ==
  /\ InMain /\ pc = "loop"
  /\ IF bluetooth_enabled = 1
     THEN pc' = "handshake" /\ phone' \in {"here", "gone"} /\ UNCHANGED stack
     ELSE CallInput("polled") /\ UNCHANGED phone
  /\ UNCHANGED <<motorVars, guiVars, current_mode, savedSpeeds, deviceVars>>

\* The touch may have started Bluetooth: then no mode runs.
SkipMode ==
  /\ InMain /\ pc = "polled" /\ bluetooth_enabled = 1
  /\ pc' = "loop"
  /\ UNCHANGED <<motorVars, guiVars, current_mode, stack, sessionVars, deviceVars>>

\* Mutant: main does not look at the flag again after the poll.
MutEnterMode(mode) == InMain /\ pc = "polled" /\ current_mode = mode

EnterMode(mode) == InMain /\ pc = "polled" /\ bluetooth_enabled = 0 /\ current_mode = mode

manual_mode ==
  /\ EnterMode("MANUAL")
  /\ enable_buttons(Controls)
  /\ pc' = "loop"
  /\ UNCHANGED <<motorVars, current_mode, stack, sessionVars, deviceVars>>

-----------------------------------------------------------------------------
(* Security mode: watch, shoot, handle touches.                            *)

security_mode ==
  /\ EnterMode("SECURITY")
  /\ disable_buttons(Controls)
  /\ set_motion_detect(TRUE)
  /\ pc' = "security.watch"
  /\ UNCHANGED <<motorVars, current_mode, stack, sessionVars>>

\* motion_detected: a report came, or none did before the timeout.
Watch(from, to) ==
  /\ InMain /\ pc = from
  /\ pc' = to
  /\ motor_fire \/ UNCHANGED <<servos, speeds, multipliers, sleeping>>
  /\ UNCHANGED <<bluetooth_enabled, guiVars, current_mode, stack, sessionVars, deviceVars>>

ModeInput(from, to) ==
  /\ InMain /\ pc = from
  /\ CallInput(to)
  /\ UNCHANGED <<motorVars, guiVars, current_mode, sessionVars, deviceVars>>

ModeEnd(from) ==
  /\ InMain /\ pc = from
  /\ set_motion_detect(FALSE)
  /\ pc' = "loop"
  /\ UNCHANGED <<motorVars, guiVars, current_mode, stack, sessionVars>>

SecurityStep ==
  \/ Watch("security.watch", "security.input")
  \/ ModeInput("security.input", "security.end")
  \/ ModeEnd("security.end")

-----------------------------------------------------------------------------
(* Automatic mode: pan for a second, watch, shoot, take a photo.           *)

\* Mutant: automatic mode leaves the camera button enabled.
MutAutoMode ==
  /\ EnterMode("AUTO")
  /\ disable_buttons(Controls \ {"CAMERA_BUTTON"})
  /\ move_left(bluetooth_enabled)
  /\ pc' = "auto.pan"
  /\ UNCHANGED <<bluetooth_enabled, current_mode, stack, sessionVars, deviceVars>>

auto_mode ==
  /\ EnterMode("AUTO")
  /\ disable_buttons(Controls)
  /\ move_left(bluetooth_enabled)
  /\ pc' = "auto.pan"
  /\ UNCHANGED <<bluetooth_enabled, current_mode, stack, sessionVars, deviceVars>>

AutoPanEnd ==
  /\ InMain /\ pc = "auto.pan"
  /\ stop_leftrght
  /\ set_motion_detect(TRUE)
  /\ CallInput("auto.watch")
  /\ UNCHANGED <<bluetooth_enabled, guiVars, current_mode, sessionVars>>

AutoPhoto ==
  /\ InMain /\ pc = "auto.photo"
  /\ pc' = "auto.input2"
  /\ \E ok \in CameraAnswers : CallPhoto(<<>>, ok)
  /\ UNCHANGED <<motorVars, guiVars, current_mode, sessionVars>>

AutoStep ==
  \/ AutoPanEnd
  \/ Watch("auto.watch", "auto.input")
  \/ ModeInput("auto.input", "auto.photo")
  \/ AutoPhoto
  \/ ModeInput("auto.input2", "auto.end")
  \/ ModeEnd("auto.end")

-----------------------------------------------------------------------------
(* The Bluetooth session.  Messages are framed by the link below; a field  *)
(* is any byte, also when the message was too short to carry it.  The      *)
(* phone matters from the handshake to the end of the session, where it is *)
(* left "gone".                                                            *)

\* Mutant: one mode button is forgotten.
MutDisableBluetooth ==
  /\ bluetooth_enabled' = 0
  /\ enable_buttons(Buttons \ {"SECURITY_BUTTON"})
  /\ pc' = "loop" /\ phone' = "gone"
  /\ UNCHANGED <<servos, speeds, multipliers, sleeping>>

disable_bluetooth ==
  /\ bluetooth_enabled' = 0
  /\ enable_buttons(Buttons)
  /\ pc' = "loop" /\ phone' = "gone"
  /\ UNCHANGED <<servos, speeds, multipliers, sleeping>>

\* The first message is the phone's handshake, or the session is given up.
Handshake ==
  /\ InMain /\ pc = "handshake"
  /\ \/ phone = "here" /\ pc' = "session" /\ UNCHANGED <<motorVars, guiVars, phone>>
     \/ disable_bluetooth
  /\ UNCHANGED <<current_mode, stack, savedSpeeds, deviceVars>>

\* No message in time and the module says the phone is gone; it may have
\* come back since the module said so.
LinkLost ==
  /\ InMain /\ pc = "session"
  /\ disable_bluetooth
  /\ UNCHANGED <<current_mode, stack, savedSpeeds, deviceVars>>

\* No message in time, but the phone is there.
KeepWaiting == InMain /\ pc = "session" /\ phone = "here" /\ UNCHANGED vars

\* The phone goes in the middle of a message: the read of the body has no
\* timeout, and waits until a phone that is back makes up the bytes.
CutOff ==
  /\ InMain
  /\ \/ phone = "gone" /\ pc = "handshake" /\ pc' = "handshake.cut"
     \/ phone = "gone" /\ pc = "session" /\ pc' = "session.cut"
     \/ phone = "here" /\ pc = "handshake.cut" /\ pc' = "handshake"
     \/ phone = "here" /\ pc = "session.cut" /\ pc' = "session"
  /\ UNCHANGED <<motorVars, guiVars, current_mode, stack, sessionVars, deviceVars>>

\* The phone leaves, or comes back.
PhoneMoves ==
  /\ pc \in PhonePcs
  /\ phone' = IF phone = "here" THEN "gone" ELSE "here"
  /\ UNCHANGED <<motorVars, guiVars, current_mode, pc, stack, savedSpeeds, deviceVars>>

Command(to) ==
  /\ InMain /\ pc = "session" /\ phone = "here"
  /\ pc' = to
  /\ UNCHANGED <<guiVars, current_mode, stack, phone, deviceVars>>

CommandStep(from, to) ==
  /\ InMain /\ pc = from
  /\ pc' = to
  /\ UNCHANGED <<guiVars, current_mode, stack, chosen_speed, phone, deviceVars>>

command_move_time ==
  /\ Command("command.move")
  /\ \E d \in Directions : move_direction(d)
  /\ UNCHANGED savedSpeeds

MoveTimeEnd ==
  /\ CommandStep("command.move", "session")
  /\ stop_leftrght /\ UNCHANGED <<bluetooth_enabled, prev_speed>>

\* Mutant: the upper end of the range is not checked.
MutValidSpeed(speed) == MIN_MOTOR_SPEED <= speed

ValidSpeed(speed) == MIN_MOTOR_SPEED <= speed /\ speed <= MAX_MOTOR_SPEED

\* A speed out of range is answered with INVALID_PARAM and changes nothing.
command_move_time_speed ==
  \E speed \in FieldBytes :
    /\ ValidSpeed(speed)
    /\ Command("command.swapped")
    /\ prev_speed' = get_motor_speed
    /\ set_motor_speed(speed) /\ UNCHANGED <<bluetooth_enabled, chosen_speed>>

MoveAtSpeed ==
  /\ CommandStep("command.swapped", "command.moving")
  /\ \E d \in Directions : move_direction(d)
  /\ UNCHANGED prev_speed

MoveAtSpeedEnd ==
  /\ CommandStep("command.moving", "command.restore")
  /\ stop_leftrght /\ UNCHANGED <<bluetooth_enabled, prev_speed>>

\* Mutant: the speed of init_motors is restored, whatever was chosen since.
MutRestoreSpeed ==
  /\ CommandStep("command.restore", "session")
  /\ set_motor_speed(2) /\ prev_speed' = 0 /\ UNCHANGED bluetooth_enabled

RestoreSpeed ==
  /\ CommandStep("command.restore", "session")
  /\ set_motor_speed(prev_speed) /\ prev_speed' = 0 /\ UNCHANGED bluetooth_enabled

\* As written: every new speed but zero is refused.
command_set_motor_speed ==
  \E new_speed \in FieldBytes :
    /\ new_speed = 0
    /\ Command("session")
    /\ set_motor_speed(new_speed) /\ chosen_speed' = new_speed
    /\ UNCHANGED <<bluetooth_enabled, prev_speed>>

command_move_angle ==
  /\ Command("command.angle")
  /\ \E angle_x \in Angles : move_leftright_angle(angle_x)
  /\ UNCHANGED <<bluetooth_enabled, savedSpeeds>>

MoveAngleTilt ==
  /\ CommandStep("command.angle", "session")
  /\ \E angle_y \in Angles : move_updown_angle(angle_y)
  /\ UNCHANGED <<bluetooth_enabled, prev_speed>>

CommandFire ==
  /\ Command("session")
  /\ motor_fire /\ UNCHANGED <<bluetooth_enabled, savedSpeeds>>

\* An empty frame returns before resume_picture, as in photo_callback.
send_image_capture ==
  /\ InMain /\ pc = "session" /\ phone = "here"
  /\ \E stopped, resumed \in CameraAnswers, empty \in BOOLEAN :
       camera_frozen' = ((stopped \/ camera_frozen) /\ (empty \/ ~resumed))
  /\ UNCHANGED <<motorVars, guiVars, current_mode, pc, stack, sessionVars, motion_detect>>

send_motion_report ==
  /\ InMain /\ pc = "session" /\ phone = "here"
  /\ \E on, off \in CameraAnswers : motion_detect' = ((on \/ motion_detect) /\ ~off)
  /\ UNCHANGED <<motorVars, guiVars, current_mode, pc, stack, sessionVars, camera_frozen>>

Session ==
  \/ command_move_time \/ MoveTimeEnd
  \/ command_move_time_speed \/ MoveAtSpeed \/ MoveAtSpeedEnd \/ RestoreSpeed
  \/ command_set_motor_speed
  \/ command_move_angle \/ MoveAngleTilt
  \/ CommandFire
  \/ send_image_capture \/ send_motion_report

-----------------------------------------------------------------------------
\* The end of a usleep inside motor.c.
Wake ==
  /\ MotorWake
  /\ UNCHANGED <<guiVars, current_mode, pc, stack, sessionVars, deviceVars>>

Touch(b) ==
  PollOther(b) \/ PollDisabled(b) \/ mode_callback(b) \/ motor_callback(b)

UserInput ==
  \/ PollNothing
  \/ \E b \in Touchable : Touch(b)
  \/ "BLUETOOTH_BUTTON" \in Touchable /\ bluetooth_callback
  \/ "CAMERA_BUTTON" \in Touchable /\ photo_button
  \/ photo_callback /\ sleeping = "none"

Main ==
  \/ MainLoop \/ SkipMode
  \/ manual_mode \/ security_mode \/ auto_mode
  \/ SecurityStep \/ AutoStep
  \/ Handshake \/ LinkLost \/ KeepWaiting \/ CutOff \/ Session

\* The thread's steps.
Thread == Wake \/ UserInput \/ Main

Next == Thread \/ PhoneMoves

Spec == Init /\ [][Next]_vars

-----------------------------------------------------------------------------
(***************************************************************************)
(* From the touch of the Bluetooth button until the phone is gone, every   *)
(* button is disabled: no touch acts while the phone is in control, even   *)
(* one queued during a photo or a mode's last poll.  The session does not  *)
(* keep bluetooth_enabled up: move_direction lowers it (motor.c:83-103,    *)
(* main.c:101-114,191-204,404-455).                                        *)
(***************************************************************************)
BluetoothLockout ==
  (bluetooth_enabled = 1 \/ pc \in PhonePcs) => disabled = Buttons

(***************************************************************************)
(* While security or automatic mode runs, the controls it disabled stay    *)
(* disabled, through every touch handled on the way: the motors and the    *)
(* camera belong to the mode (main.c:119-176).                             *)
(***************************************************************************)
AutonomousModesOwnControls == pc \in SecurityPcs \cup AutoPcs => Controls \subseteq disabled

(***************************************************************************)
(* The pan servo turns only while somebody makes it: a finger on LEFT or   *)
(* RIGHT in the innermost process_user_input, the automatic mode's pan, a  *)
(* Bluetooth move or an angle move.  Nothing the thread does next - a      *)
(* photo, a mode, a session - begins with the launcher still turning       *)
(* (main.c:154-157,222-224,250-252, gui.c:165-170, motor.c:198-199).       *)
(***************************************************************************)
PanOnlyOnDemand ==
  PWM_CW360 # kCW360_MID =>
    \/ sleeping = "move_leftright_angle"
    \/ stack = <<>> /\ pc \in {"auto.pan", "command.move", "command.moving"}
    \/ /\ Running("process_user_input")
       /\ Prev \in {"LEFT_BUTTON", "RIGHT_BUTTON"}

(***************************************************************************)
(* A mode button drawn pressed tells the truth about current_mode, and     *)
(* only one is, whatever is touched inside a photo, a mode or a session    *)
(* (gui.c:146-162, main.c:50-63).                                          *)
(***************************************************************************)
ModeButtonTruthful ==
  \A b \in toggled \cap ModeButtons : current_mode = ModeOf[b]

(***************************************************************************)
(* Any other button is drawn pressed only while an activation of           *)
(* process_user_input holds it: it is drawn released before the activation *)
(* returns, also when another touch was handled inside its callback        *)
(* (gui.c:155-170).                                                        *)
(***************************************************************************)
PressedIsHeld ==
  \A b \in toggled \ ModeButtons :
    \E i \in DOMAIN stack : stack[i] = Input(b)

(***************************************************************************)
(* In automatic mode the frame the photo is read from is the frame the     *)
(* camera was stopped at: no photo nested inside this one, by a touch of   *)
(* CAMERA between take_picture and read_full_picture, resumed the camera.  *)
(* (It is not so in manual mode.)  main.c:65-99,145-176                    *)
(***************************************************************************)
AutoPhotoOfStoppedFrame ==
  pc \in AutoPcs /\ PhotoAt("read") /\ Last(stack).stopped => camera_frozen

(***************************************************************************)
(* While a mode runs on its own no touch opens a photo inside a photo:     *)
(* automatic mode has at most its photo and the input handled inside it,   *)
(* security mode only an input, however long CAMERA is held.  (In manual   *)
(* mode every poll of a held CAMERA opens one more.)                       *)
(* main.c:116-176, gui.c:127-172                                           *)
(***************************************************************************)
ModesOpenOnePhoto ==
  /\ pc \in AutoPcs => Len(stack) <= 2
  /\ pc \in SecurityPcs => Len(stack) <= 1

(***************************************************************************)
(* A command that moves at its own speed leaves both speeds as it found    *)
(* them, whichever commands came before and however often: outside such a  *)
(* command they are those of the speed that was last chosen, at power-on   *)
(* or by the change-speed command, never a default or one saved by an      *)
(* earlier command (main.c:228-265, motor.c:214-223).                      *)
(***************************************************************************)
SpeedKept ==
  pc \notin SwappedPcs =>
    leftright_speed = chosen_speed /\ updown_speed = 5 * chosen_speed

\* Who may move the launcher, as the code's state tells.
Master ==
  IF pc \in SessionPcs THEN "phone"
  ELSE IF pc \in SecurityPcs \cup AutoPcs THEN "mode"
  ELSE IF bluetooth_enabled = 1 THEN "nobody" ELSE "finger"

Controlled == INSTANCE Control WITH
  Positions <- kCW180_MIN .. kCW180_MAX,
  master <- Master, tilt <- PWM_CW180,
  turning <- PWM_CW360 # kCW360_MID, pulled <- PWM_CWFIRE # kCWFIRE_MID

(***************************************************************************)
(* One master at a time moves the servos, whatever is touched inside       *)
(* whichever callback, and control changes hands only with the servos at   *)
(* rest: a touch moves nothing while a mode or the phone is in control,    *)
(* a mode never tilts, nothing moves while the phone is waited for         *)
(* (main.c:101-204,404-455, gui.c:127-172).                                *)
(***************************************************************************)
ControlIsExclusive == Controlled!Spec

(***************************************************************************)
(* motor.h declares MIN_MOTOR_SPEED 1 as the lowest speed.                 *)
(***************************************************************************)
SpeedAtLeastMin == leftright_speed >= MIN_MOTOR_SPEED

(***************************************************************************)
(* When the phone is gone the screen comes back, from the handshake or any *)
(* command the session was in: every button is enabled again - unless the  *)
(* phone returns, or has left the thread in the read of a body it cut off, *)
(* which has no timeout (main.c:191-204,404-433, bluetooth.c:95-103).      *)
(***************************************************************************)
LockoutEnds ==
  pc \in PhonePcs /\ phone = "gone" ~> disabled = {} \/ phone = "here" \/ pc \in CutPcs

(***************************************************************************)
(* The Bluetooth button is always answered: photos nested in photos, the   *)
(* mode that was running and a finger that never leaves the screen all     *)
(* come to an end, because nothing can be pressed any more, and main       *)
(* listens for the phone (main.c:101-114,404-440).                         *)
(***************************************************************************)
BluetoothAnswered ==
  bluetooth_enabled = 1 /\ pc \notin PhonePcs ~> pc = "handshake"

=============================================================================
