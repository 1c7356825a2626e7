------------------------------- MODULE Display -------------------------------
(***************************************************************************)
(* What the screen shows of a button (gui.c, draw_button of graphics.c):   *)
(* every change of disabled and toggled redraws it, over its old picture.  *)
(* The pictures of different buttons do not overlap, so one button is      *)
(* looked at, chosen at the start.                                         *)
(***************************************************************************)
EXTENDS Gui, Graphics

VARIABLE button   \* the button in the window; toggled tells about no other

displayVars == <<guiVars, graphicsVars, button>>

-----------------------------------------------------------------------------
(* draw_button: the shapes of a button's normal and pressed pictures.      *)

\* The Bluetooth sign: five strokes, three pixels wide.
Rune ==
  Lines({<<49 + k, 25, 49 + k, 75>> : k \in 0 .. 2}
        \cup {<<35, 34 + k, 65, 64 + k>> : k \in 0 .. 2}
        \cup {<<35, 64 + k, 65, 34 + k>> : k \in 0 .. 2}
        \cup {<<65, 64 + k, 50, 74 + k>> : k \in 0 .. 2}
        \cup {<<65, 34 + k, 50, 24 + k>> : k \in 0 .. 2})

Normal(b, c) ==
  CASE b = "FIRE_BUTTON" -> <<Circle(600, 440, 30, c), Text({585, 595, 605, 615}, 437)>>
    [] b = "CAMERA_BUTTON" /\ c = GREY ->
         <<Circle(200, 440, 30, GREY), Rectangle(180, 425, 220, 455, BLACK),
           Circle(200, 440, 10, WHITE), Circle(200, 440, 8, BLACK),
           Rectangle(185, 420, 195, 425, WHITE), Circle(215, 430, 2, WHITE)>>
    [] b = "CAMERA_BUTTON" /\ c # GREY ->
         <<Circle(200, 440, 30, c), Rectangle(180, 425, 220, 455, GREY),
           Circle(200, 440, 10, BLACK), Circle(200, 440, 8, WHITE),
           Rectangle(185, 420, 195, 425, BLACK), Circle(215, 430, 2, RED)>>
    [] b = "MANUAL_BUTTON" -> <<Rectangle(500, 10, 580, 50, c), Text({520 + 8 * k : k \in 0 .. 5}, 27)>>
    [] b = "AUTOMATIC_BUTTON" -> <<Rectangle(590, 10, 670, 50, c), Text({618, 624, 632, 640}, 27)>>
    [] b = "SECURITY_BUTTON" -> <<Rectangle(680, 10, 760, 50, c), Text({692 + 8 * k : k \in 0 .. 7}, 27)>>
    [] b = "BLUETOOTH_BUTTON" -> <<Circle(50, 50, 30, c), Rune>>
    [] b = "LEFT_BUTTON" -> <<Triangle("left", 50, 190, 100, c)>>
    [] b = "RIGHT_BUTTON" -> <<Triangle("right", 750, 190, 100, c)>>
    [] b = "DOWN_BUTTON" -> <<Triangle("down", 350, 430, 100, c)>>
    [] b = "UP_BUTTON" -> <<Triangle("up", 350, 50, 100, c)>>
Pressed(b, c) ==
  CASE b = "FIRE_BUTTON" -> <<Circle(600, 440, 25, c), Text({585, 595, 605, 615}, 437)>>
    [] b = "CAMERA_BUTTON" ->
         <<Circle(200, 440, 30, YELLOW), Circle(200, 440, 25, c)>> \o Tail(Normal(b, c))
    [] b = "MANUAL_BUTTON" -> <<Rectangle(503, 13, 577, 47, c)>> \o Tail(Normal(b, c))
    [] b = "AUTOMATIC_BUTTON" -> <<Rectangle(593, 13, 667, 47, c)>> \o Tail(Normal(b, c))
    [] b = "SECURITY_BUTTON" -> <<Rectangle(683, 13, 757, 47, c)>> \o Tail(Normal(b, c))
    [] b = "BLUETOOTH_BUTTON" -> <<Circle(50, 50, 27, c), Rune>>
    [] b = "LEFT_BUTTON" -> <<Triangle("left", 50 - 6, 190 + 12, 100 - 24, c)>>
    [] b = "RIGHT_BUTTON" -> <<Triangle("right", 750 + 6, 190 + 12, 100 - 24, c)>>
    [] b = "DOWN_BUTTON" -> <<Triangle("down", 350 + 12, 430 + 6, 100 - 24, c)>>
    [] b = "UP_BUTTON" -> <<Triangle("up", 350 + 12, 50 - 6, 100 - 24, c)>>

Arrows == {"LEFT_BUTTON", "RIGHT_BUTTON", "UP_BUTTON", "DOWN_BUTTON"}

normal_button_color(b) ==
  IF b = "FIRE_BUTTON" THEN RED ELSE IF b \in Arrows THEN LIME ELSE CYAN

pressed_button_color(b) ==
  CASE b = "FIRE_BUTTON" -> MAROON
    [] b = "CAMERA_BUTTON" -> BLACK
    [] b \in Arrows -> FORESTGREEN
    [] OTHER -> WHITE

DrawNormal(b) == Normal(b, normal_button_color(b))
DrawGrey(b) == Normal(b, GREY)
DrawPressed(b) == Pressed(b, pressed_button_color(b))

\* What buttons_not_pressed draws.
DrawReleased(b) == IF b \in disabled THEN DrawGrey(b) ELSE DrawNormal(b)

\* The pixels of every shape of every picture, worked out once.
PixelsOf ==
  [s \in UNION {ToSet(DrawNormal(b) \o DrawGrey(b) \o DrawPressed(b)) : b \in Buttons} |-> Pixels(s)]

\* The part of the screen around a button's picture: columns and rows.
Window(b) ==
  CASE b = "FIRE_BUTTON"      -> <<567 .. 633, 407 .. 473>>
    [] b = "CAMERA_BUTTON"    -> <<167 .. 233, 407 .. 473>>
    [] b = "MANUAL_BUTTON"    -> <<498 .. 582, 8 .. 52>>
    [] b = "AUTOMATIC_BUTTON" -> <<588 .. 672, 8 .. 52>>
    [] b = "SECURITY_BUTTON"  -> <<678 .. 762, 8 .. 52>>
    [] b = "BLUETOOTH_BUTTON" -> <<17 .. 83, 17 .. 83>>
    [] b = "LEFT_BUTTON"      -> <<0 .. 52, 188 .. 292>>
    [] b = "RIGHT_BUTTON"     -> <<748 .. 799, 188 .. 292>>
    [] b = "DOWN_BUTTON"      -> <<348 .. 452, 428 .. 479>>
    [] b = "UP_BUTTON"        -> <<348 .. 452, 0 .. 52>>

clear_screen(b) == [y \in Window(b)[2] |-> [x \in Window(b)[1] |-> BLACK]]

-----------------------------------------------------------------------------
\* init_gui: every button is drawn normal, then manual pressed.
Init ==
  /\ button \in Buttons
  /\ disabled = {} /\ toggled = {"MANUAL_BUTTON"} \cap {button}
  /\ screen = clear_screen(button)
  /\ todo = DrawNormal(button) \o (IF button \in toggled THEN DrawPressed(button) ELSE <<>>)
  /\ XYStack = <<>> /\ filling = NoColour

\* Nothing else happens while a button is drawn.
StartDrawing(shapes) ==
  /\ Idle
  /\ todo' = shapes
  /\ UNCHANGED <<screen, XYStack, filling, button>>

disable_button ==
  /\ StartDrawing(IF button \in disabled THEN <<>> ELSE DrawGrey(button))
  /\ disable_buttons({button})

enable_button ==
  /\ StartDrawing(IF button \in disabled THEN DrawNormal(button) ELSE <<>>)
  /\ enable_buttons({button})

\* A touch has ended: every button but the modes' is drawn released.
touch_ends ==
  /\ StartDrawing(IF button \in ModeButtons THEN <<>> ELSE DrawReleased(button))
  /\ buttons_not_pressed

\* Button b is found under a finger: a mode button has all of them drawn released.
touch(b) ==
  LET released == IF b \in ModeButtons THEN DrawReleased(button) ELSE <<>>
      pressed  == b = button /\ b \notin disabled /\ b \notin ToggledAtPress(b)
  IN
  /\ StartDrawing(released \o (IF pressed THEN DrawPressed(b) ELSE <<>>))
  /\ IF b = button /\ b \notin disabled THEN Press(b) ELSE toggled' = ToggledAtPress(b)
  /\ UNCHANGED disabled

Draw ==
  /\ \/ todo # <<>> /\ DrawShape(Head(todo), PixelsOf[Head(todo)])
     \/ XYStack # <<>> /\ fill(Last(XYStack)[1], Last(XYStack)[2], filling)
  /\ UNCHANGED <<guiVars, button>>

Next ==
  \/ Draw
  \/ disable_button \/ enable_button \/ touch_ends
  \/ \E b \in Buttons : touch(b)

\* The thread goes on drawing; nothing is assumed of the user.
Spec == Init /\ [][Next]_displayVars /\ WF_displayVars(Draw)

-----------------------------------------------------------------------------
\* What a shape is meant to be: a circle with everything between its outline.
Disc(s) ==
  LET Row(y) == {p[1] : p \in {q \in OutlinePixels(s) : q[2] = y}}
  IN UNION {(Min(Row(y)) .. Max(Row(y))) \X {y} : y \in s.y0 - s.radius .. s.y0 + s.radius}

\* The shapes' picture on a clean screen.
Meant(b, shapes) ==
  FoldLeft(LAMBDA scr, s : Painted(scr, IF s.op = "circle" THEN Disc(s) ELSE Pixels(s), s.c),
           clear_screen(b), shapes)

Pictures ==
  [b \in Buttons |-> [normal  |-> Meant(b, DrawNormal(b)),
                      pressed |-> Meant(b, DrawNormal(b) \o DrawPressed(b)),
                      grey    |-> Meant(b, DrawGrey(b))]]

Picture ==
  IF button \in disabled THEN Pictures[button].grey
  ELSE IF button \in toggled THEN Pictures[button].pressed
  ELSE Pictures[button].normal

(***************************************************************************)
(* The screen tells the truth about a button: whatever was drawn there     *)
(* before, pressed, released, grey, in any order, the picture is the one   *)
(* of its state, as if drawn on a clean screen, without remains of an      *)
(* older one (graphics.c:289-430, gui.c:71-83, 98-125, 144-158).  The      *)
(* camera's grey picture is excepted: drawn over the coloured one, its     *)
(* fill stops at the old picture's grey rectangle and leaves the ring.     *)
(***************************************************************************)
PictureTruthful ==
  Idle /\ ~(button = "CAMERA_BUTTON" /\ button \in disabled) => screen = Picture

(***************************************************************************)
(* Every drawing ends: fill never goes over the same rows again for ever,  *)
(* whatever it reads back, and a touch is looked at again                  *)
(* (graphics.c:303-430).                                                   *)
(***************************************************************************)
DrawingEnds == []<>Idle
=============================================================================
