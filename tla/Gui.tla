-------------------------------- MODULE Gui --------------------------------
(***************************************************************************)
(* The buttons of the touch screen (gui.c): which are disabled (drawn      *)
(* grey, their callback is not called) and which are toggled (drawn        *)
(* pressed).  button_array[i].disabled and .toggled become two sets.       *)
(***************************************************************************)

VARIABLES disabled, toggled

guiVars == <<disabled, toggled>>

\* Indices 0..2, which stay toggled after the touch ends.
ModeButtons == {"MANUAL_BUTTON", "AUTOMATIC_BUTTON", "SECURITY_BUTTON"}

\* Indices 4..9, which manual mode enables and the other modes disable.
Controls == {"FIRE_BUTTON", "LEFT_BUTTON", "RIGHT_BUTTON",
             "UP_BUTTON", "DOWN_BUTTON", "CAMERA_BUTTON"}

Buttons == ModeButtons \cup Controls \cup {"BLUETOOTH_BUTTON"}

\* poll_touch's -1: no touch, or a touch outside every button.
NoButton == "no button"

init_gui == disabled = {} /\ toggled = {"MANUAL_BUTTON"}

\* disable_button for each of a set; a button already disabled is left alone.
disable_buttons(S) ==
  /\ disabled' = disabled \cup S
  /\ toggled' = toggled \ (S \ disabled)

\* enable_button for each of a set; a button already enabled is left alone.
enable_buttons(S) ==
  /\ disabled' = disabled \ S
  /\ toggled' = toggled \ (S \cap disabled)

\* buttons_not_pressed(TOGGLEABLE_BUTTON_NUMBER, MAX_BUTTONS)
buttons_not_pressed ==
  /\ toggled' = toggled \cap ModeButtons
  /\ UNCHANGED disabled

\* Mutant: a mode button does not clear the others.
MutToggledAtPress(b) == toggled

\* What a touch of button b leaves toggled before b itself is looked at:
\* a mode button, even a disabled one, first clears all ten.
ToggledAtPress(b) == IF b \in ModeButtons THEN {} ELSE toggled

\* An enabled button is drawn pressed just before its callback runs.
Press(b) == toggled' = ToggledAtPress(b) \cup {b}
=============================================================================
