------------------------------ MODULE MCCamera ------------------------------
(***************************************************************************)
(* The two halves of camera.c: the commands and the transfer of a picture. *)
(* A behaviour uses one of them, chosen at the start: the transfer has its *)
(* own, coarser view of the line, and nothing is shared between the two.   *)
(***************************************************************************)
EXTENDS Camera, PhotoRead

VARIABLE half

CameraInit == Init /\ PhotoInit /\ half \in {"commands", "photos"}

CameraNext ==
  \/ half = "commands" /\ Next /\ UNCHANGED <<photoVars, half>>
  \/ half = "photos" /\ PhotoNext /\ UNCHANGED <<vars, half>>

CameraSpec == CameraInit /\ [][CameraNext]_<<vars, photoVars, half>>
=============================================================================
