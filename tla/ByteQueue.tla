----------------------------- MODULE ByteQueue -----------------------------
(***************************************************************************)
(* What a caller may expect of one direction of the console: a bounded     *)
(* queue of bytes.  Bytes go in at one end, a few at a time, and come out  *)
(* at the other, in the order in which they went in.  No ring, no FIFO, no *)
(* interrupt: JtagUart is shown to implement this module twice, once for   *)
(* what is written and once for what is typed.                             *)
(*                                                                         *)
(* A byte is its number in the order in which the bytes are given.         *)
(***************************************************************************)
EXTENDS Naturals, Sequences

CONSTANT Capacity       \* bytes given and not yet taken

VARIABLES given, queue, taken

queueVars == <<given, queue, taken>>

\* The bytes from number m to number n.
FromTo(m, n) == [i \in 1 .. n + 1 - m |-> m + i - 1]

Init == given = 0 /\ queue = <<>> /\ taken = <<>>

Give(k) ==
  /\ Len(queue) + k <= Capacity
  /\ queue' = queue \o FromTo(given + 1, given + k)
  /\ given' = given + k
  /\ UNCHANGED taken

Take(k) ==
  /\ taken' = taken \o SubSeq(queue, 1, k)
  /\ queue' = SubSeq(queue, k + 1, Len(queue))
  /\ UNCHANGED given

Next == \/ \E k \in 1 .. Capacity : Give(k)
        \/ \E k \in 1 .. Len(queue) : Take(k)

Spec == Init /\ [][Next]_queueVars
=============================================================================
