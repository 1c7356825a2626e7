----------------------------- MODULE MCLauncher -----------------------------
(***************************************************************************)
(* Small instances of Launcher.  The tilt range is two steps wide, so that *)
(* both limits are met, and the highest speed is 3.                        *)
(***************************************************************************)
EXTENDS Launcher

MCAngles == {-1, 1}

\* Below, at both ends of, and above the accepted speeds; 255 is -1 as a byte.
MCFieldBytes == {0, 1, 3, 4, 255}
=============================================================================
