----------------------------- MODULE TouchScreen -----------------------------
(***************************************************************************)
(* From the touch controller's bytes to a button (touch_screen.c, gui.c's  *)
(* poll_touch and the layout of init_gui).  The controller sends reports   *)
(* of five bytes whether or not the program listens; while it does not,    *)
(* the UART keeps one byte and loses what follows, so that a poll may      *)
(* begin anywhere in a report, behind a byte that is long past.            *)
(*                                                                         *)
(* Assumed of the controller: a report's bytes follow each other within    *)
(* the timeouts of the polls (50 ms and more); the last report of a touch  *)
(* says PEN_UP.                                                            *)
(***************************************************************************)
EXTENDS Integers, Sequences

CONSTANTS
  Raws,      \* positions <<x, y>> the finger touches, 12 bits each
  RxDepth    \* bytes the UART holds

\* What the controller measures: two coordinates of twelve bits.
Positions == (0 .. 4095) \X (0 .. 4095)

ASSUME TouchAssumption == Raws \subseteq Positions /\ RxDepth \in Nat \ {0}

VARIABLES
  pc,            \* "elsewhere", or where get_press_timeout reads
  touch_report,  \* the report's bytes read so far
  button,        \* what poll_touch last returned
  rx,            \* received by the UART, not yet read
  report, pen,   \* bytes of the current report still to come; the finger
  touched,       \* history: where the finger has been
  last           \* history: the kind of report a point was taken from

vars == <<pc, touch_report, button, rx, report, pen, touched, last>>

PEN_UP == 128
PEN_DOWN == 129

\* A report: the header, then x and y, low seven bits first.
Report(header, raw) ==
  LET Byte(v) == [v |-> v, of |-> header]
  IN <<Byte(header), Byte(raw[1] % 128), Byte(raw[1] \div 128),
                     Byte(raw[2] % 128), Byte(raw[2] \div 128)>>

\* Mutant: the upper byte is shifted one bit too far.
MutRawCoordinates(upper, lower) == (upper % 32) * 256 + (lower % 128)

get_raw_coordinates(upper, lower) == (upper % 32) * 128 + (lower % 128)

\* The point on the 800 x 480 screen: raw / 5.12 and raw / 8.53, cut off.
Point(x, y) == <<(x * 100) \div 512, (y * 100) \div 853>>

Box(x0, y0, x1, y1) == [x0 |-> x0, y0 |-> y0, x1 |-> x1, y1 |-> y1]

button_array ==
  [MANUAL_BUTTON |-> Box(500, 10, 580, 50), AUTOMATIC_BUTTON |-> Box(590, 10, 670, 50),
   SECURITY_BUTTON |-> Box(680, 10, 760, 50), BLUETOOTH_BUTTON |-> Box(20, 20, 70, 70),
   FIRE_BUTTON |-> Box(580, 430, 620, 470), LEFT_BUTTON |-> Box(0, 190, 50, 290),
   RIGHT_BUTTON |-> Box(750, 190, 800, 290), UP_BUTTON |-> Box(350, 0, 450, 50),
   DOWN_BUTTON |-> Box(350, 430, 450, 480), CAMERA_BUTTON |-> Box(170, 410, 230, 470)]

Buttons == DOMAIN button_array
NoButton == "no button"

check_if_pressed(b, p) ==
  LET box == button_array[b]
  IN p[1] \in box.x0 .. box.x1 /\ p[2] \in box.y0 .. box.y1

\* poll_touch's loop: a button that contains the point, if there is one.  The
\* code takes the first; TouchScreenProofs shows that there is no second.
ButtonsAt(p) == {b \in Buttons : check_if_pressed(b, p)}

Polling == {"header", "body"}

Init ==
  /\ pc = "elsewhere" /\ touch_report = <<>> /\ button = NoButton
  /\ rx = <<>> /\ report = <<>> /\ pen = "up" /\ touched = {} /\ last = PEN_DOWN

-----------------------------------------------------------------------------
(* The finger and the line.                                                *)

\* The finger touches, moves or stays.
Touch ==
  /\ report = <<>>
  /\ \E raw \in Raws : report' = Report(PEN_DOWN, raw) /\ touched' = touched \cup {raw}
  /\ pen' = "down"
  /\ UNCHANGED <<pc, touch_report, button, rx, last>>

Lift ==
  /\ report = <<>> /\ pen = "down"
  /\ \E raw \in touched : report' = Report(PEN_UP, raw)
  /\ pen' = "up"
  /\ UNCHANGED <<pc, touch_report, button, rx, touched, last>>

\* A thread that polls keeps up with the line.
Line ==
  /\ report # <<>>
  /\ pc \in Polling => Len(rx) < RxDepth
  /\ rx' = IF Len(rx) < RxDepth THEN Append(rx, Head(report)) ELSE rx
  /\ report' = Tail(report)
  /\ UNCHANGED <<pc, touch_report, button, pen, touched, last>>

-----------------------------------------------------------------------------
(* poll_touch.                                                             *)

poll_touch ==
  /\ pc = "elsewhere"
  /\ pc' = "header" /\ button' = NoButton /\ touch_report' = <<>>
  /\ UNCHANGED <<rx, report, pen, touched, last>>

\* Everything that is not PEN_DOWN is skipped.
ReadHeader ==
  /\ pc = "header" /\ rx # <<>>
  /\ pc' = IF Head(rx).v = PEN_DOWN THEN "body" ELSE "header"
  /\ rx' = Tail(rx)
  /\ UNCHANGED <<touch_report, button, report, pen, touched, last>>

ReadBody ==
  /\ pc = "body" /\ rx # <<>> /\ Len(touch_report) < 4
  /\ touch_report' = Append(touch_report, Head(rx))
  /\ rx' = Tail(rx)
  /\ UNCHANGED <<pc, button, report, pen, touched, last>>

Timeout ==
  /\ pc \in Polling /\ rx = <<>> /\ report = <<>> /\ Len(touch_report) < 4
  /\ pc' = "elsewhere"
  /\ UNCHANGED <<touch_report, button, rx, report, pen, touched, last>>

\* Mutant: the last byte is not looked at.
MutVerifyTouchReport == \A i \in 1 .. 3 : touch_report[i].v < 128

verify_touch_report == \A i \in DOMAIN touch_report : touch_report[i].v < 128

\* The four bytes are there.
Return ==
  LET value(i) == touch_report[i].v
      p == Point(get_raw_coordinates(value(2), value(1)),
                 get_raw_coordinates(value(4), value(3)))
      pressed == IF verify_touch_report THEN ButtonsAt(p) ELSE {}
  IN /\ pc = "body" /\ Len(touch_report) = 4
     /\ pc' = "elsewhere"
     /\ button' \in IF pressed = {} THEN {NoButton} ELSE pressed
     /\ last' = IF pressed = {} THEN last ELSE touch_report[1].of
     /\ UNCHANGED <<touch_report, rx, report, pen, touched>>

Next ==
  \/ Touch \/ Lift \/ Line
  \/ poll_touch \/ ReadHeader \/ ReadBody \/ Timeout \/ Return

Spec == Init /\ [][Next]_vars

-----------------------------------------------------------------------------
(***************************************************************************)
(* A button reported pressed is one the finger has been on: whatever bytes *)
(* the UART lost and wherever in a report the poll began, a point is never *)
(* put together from two reports, nor its x and y exchanged                *)
(* (touch_screen.c:26-48,83-112, gui.c:43-70).                             *)
(***************************************************************************)
PressedWasTouched ==
  button # NoButton =>
    \E raw \in touched : ButtonsAt(Point(raw[1], raw[2])) = {button}

(***************************************************************************)
(* touch_screen.c:87: "wait for a pen down command then return the X,Y     *)
(* coord of the point" - the point is that of a pen-down report.  A header *)
(* kept by the UART since before the poll is followed by whatever comes.   *)
(***************************************************************************)
PressIsPenDown == last = PEN_DOWN
=============================================================================
