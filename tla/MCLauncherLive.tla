-------------------------- MODULE MCLauncherLive ---------------------------
(***************************************************************************)
(* Launcher with a clock that every step of the thread flips.  A poll that *)
(* finds the same finger on the same button changes nothing in Launcher;   *)
(* with the clock it is a step like any other, so that fairness of the     *)
(* thread does not force the user to let go.                               *)
(***************************************************************************)
EXTENDS MCLauncher

VARIABLE clock

liveVars == <<vars, clock>>

LiveInit == Init /\ clock = 0

Tick(A) == A /\ clock' = 1 - clock

\* The thread goes on where it can; nothing is assumed of the user or the
\* phone, which may stay silent, leave and come back, or leave for good.
LiveSpec ==
  /\ LiveInit /\ [][Tick(Next)]_liveVars
  /\ WF_liveVars(Tick(Thread))
=============================================================================
