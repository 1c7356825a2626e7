------------------------------ MODULE Control ------------------------------
(***************************************************************************)
(* Who moves the launcher.  At any time one master does: the finger on the *)
(* screen, an autonomous mode, the phone - or nobody, from the moment the  *)
(* Bluetooth button has been obeyed until the phone has answered.  Control *)
(* is handed over only along the arrows below, and with the servos that    *)
(* move by themselves at rest.                                             *)
(*                                                                         *)
(*      mode <-> finger -> nobody -> phone -> finger                       *)
(*      mode -> nobody -> finger                                           *)
(*                                                                         *)
(* Launcher, with its nested callbacks, modes and commands, is shown to    *)
(* implement this module.                                                  *)
(***************************************************************************)

CONSTANT Positions      \* of the tilt servo

VARIABLES
  master,
  tilt,       \* where the tilt servo points
  turning,    \* the pan servo turns
  pulled      \* the trigger is pulled

controlVars == <<master, tilt, turning, pulled>>

Masters == {"finger", "mode", "phone", "nobody"}

Init ==
  /\ master = "finger" /\ tilt \in Positions
  /\ turning = FALSE /\ pulled = FALSE

\* Finger and phone do as they like ...
Steer ==
  /\ master \in {"finger", "phone"}
  /\ tilt' \in Positions
  /\ turning' \in BOOLEAN /\ pulled' \in BOOLEAN
  /\ UNCHANGED master

\* ... a mode pans and shoots but never tilts.
Patrol ==
  /\ master = "mode"
  /\ turning' \in {FALSE, turning} /\ pulled' \in BOOLEAN
  /\ UNCHANGED <<master, tilt>>

AtRest == ~turning /\ ~pulled

HandOver(from, to) ==
  /\ master = from /\ master' = to
  /\ AtRest
  /\ UNCHANGED <<tilt, turning, pulled>>

\* A mode begins with the servos at rest and may start the pan at once.
StartMode ==
  /\ master = "finger" /\ master' = "mode"
  /\ AtRest
  /\ turning' \in BOOLEAN
  /\ UNCHANGED <<tilt, pulled>>

Next ==
  \/ Steer \/ Patrol \/ StartMode
  \/ HandOver("mode", "finger")
  \/ HandOver("finger", "nobody") \/ HandOver("mode", "nobody")
  \/ HandOver("nobody", "phone") \/ HandOver("nobody", "finger")
  \/ HandOver("phone", "finger")

Spec == Init /\ [][Next]_controlVars
=============================================================================
