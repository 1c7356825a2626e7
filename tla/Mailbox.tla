------------------------------ MODULE Mailbox ------------------------------
(***************************************************************************)
(* What the session may expect of the serial line: the phone puts a whole  *)
(* message in an empty box and the launcher takes it out, whole.  A phone  *)
(* that leaves may take back the message it has not finished; nothing else *)
(* is ever lost, repeated, cut or put together from two.                   *)
(*                                                                         *)
(* There is one exception: a phone that returns may tear the box.  What    *)
(* goes through it does not count until it is mended, and then afresh.     *)
(*                                                                         *)
(* BluetoothLink, with its bytes, counts, timeouts and connection checks,  *)
(* is shown to implement this module.                                      *)
(***************************************************************************)
EXTENDS Sequences

CONSTANT Messages

VARIABLES
  sent, handled,     \* all messages so far, or since a tear, in order
  connected,         \* the phone is there
  torn

mailVars == <<sent, handled, connected, torn>>

Init == sent = <<>> /\ handled = <<>> /\ connected \in BOOLEAN /\ torn = FALSE

Empty == sent = handled

Send(m) ==
  /\ connected /\ ~torn /\ Empty
  /\ sent' = Append(sent, m)
  /\ UNCHANGED <<handled, connected, torn>>

Handle ==
  /\ ~torn /\ ~Empty
  /\ handled' = sent
  /\ UNCHANGED <<sent, connected, torn>>

Leave ==
  /\ connected /\ connected' = FALSE
  /\ sent' \in {sent, handled}
  /\ UNCHANGED <<handled, torn>>

Return ==
  /\ ~connected /\ connected' = TRUE
  /\ \/ UNCHANGED <<sent, handled, torn>>
     \/ sent' = <<>> /\ handled' = <<>> /\ torn' = TRUE

Mend == torn /\ torn' = FALSE /\ UNCHANGED <<sent, handled, connected>>

Next == (\E m \in Messages : Send(m)) \/ Handle \/ Leave \/ Return \/ Mend

Spec == Init /\ [][Next]_mailVars
=============================================================================
