------------------------------- MODULE MCHal --------------------------------
(***************************************************************************)
(* Two services of the HAL that share nothing, the alarms and the file     *)
(* descriptors.  A behaviour uses one of them, chosen at the start, so     *)
(* that every order of calls to each is checked and none of the two        *)
(* together, which would show nothing more.                                *)
(***************************************************************************)
EXTENDS Alarm, FdTable

VARIABLE service

Init == AlarmInit /\ FdInit /\ service \in {"alarms", "files"}

Next ==
  \/ service = "alarms" /\ AlarmNext /\ UNCHANGED <<fdVars, service>>
  \/ service = "files" /\ FdNext /\ UNCHANGED <<alarmVars, service>>

Spec == Init /\ [][Next]_<<alarmVars, fdVars, service>>
=============================================================================
