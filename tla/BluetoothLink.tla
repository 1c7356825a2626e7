---------------------------- MODULE BluetoothLink ----------------------------
(***************************************************************************)
(* The serial line to the Bluetooth module, byte by byte (bluetooth.c and  *)
(* the polled 6850 UART of serial.c), and the part of main's session that  *)
(* decides when to listen and when to ask the module whether the phone is  *)
(* still there.  Two parties write on the same line: the phone, whose      *)
(* messages the module passes on, and the module itself, which answers     *)
(* commands.  Nothing on the line says which is which; the code tells by   *)
(* counting bytes.                                                         *)
(*                                                                         *)
(* Assumed of the phone, and needed by every property below: the bytes of  *)
(* a message follow each other within the timeout; it starts a message     *)
(* only while the launcher listens, one at a time, and waits until that is *)
(* handled.  It may leave at any moment, inside a message too, and come    *)
(* back at any other; a phone that is back starts afresh.  The phone and   *)
(* the module are not part of the repository.                              *)
(***************************************************************************)
EXTENDS Integers, Sequences, SequencesExt

CONSTANTS
  Sizes,            \* body sizes the phone uses
  MaxMessages,      \* bound on the messages sent
  MaxTorn,          \* bound on the bytes read of a line that is torn
  RxDepth           \* bytes the UART holds; more are lost

ASSUME LinkAssumption ==
  /\ Sizes \subseteq 0 .. 253     \* header and body fit in in_buffer
  /\ MaxMessages \in Nat /\ MaxTorn \in Nat /\ RxDepth \in Nat \ {0}

VARIABLES
  pc, in_session,
  in_buffer, need,      \* bytes read so far, and the number asked for
  result,               \* check_connection's answer
  rx,                   \* received by the UART, not yet read
  to_module, module,    \* commands on their way, and the module's mode
  connected,            \* the phone is connected
  outgoing,             \* bytes of the phone's message still to come
  waiting,              \* the phone waits for a reply
  sent, handled,        \* history: complete messages sent, messages handled
  torn,                 \* history: a phone came back onto bytes of its past
  was_gone              \* history: the phone was gone since the last check began

threadVars == <<pc, in_session, in_buffer, need, result>>
phoneVars == <<connected, outgoing, waiting, sent>>
historyVars == <<handled, torn, was_gone>>
vars == <<threadVars, rx, to_module, module, phoneVars, historyVars>>

ID_ANDROID_HANDSHAKE == 255
ID_COMMAND == 1

\* A byte: its value and who it comes from.
Byte(v, from) == [v |-> v, from |-> from]
Text(values, from) == [i \in DOMAIN values |-> Byte(values[i], from)]

\* [ id | length (2 bytes) | body ]; the body is filled with ones.
Message(id, size) ==
  Text(<<id, 0, size>> \o [i \in 1 .. size |-> 1], "phone")

\* What the module answers to each command: CMD, whether there is a link, END.
Answer(command, link) ==
  CASE command = "$$$" -> Text(<<67, 77, 68, 13, 10>>, "$$$")
    [] command = "GK" -> Text(<<IF link THEN 49 ELSE 48, 44, 48, 44, 48, 13, 10>>, "GK")
    [] command = "---" -> Text(<<69, 78, 68, 13, 10>>, "---")

Checking == {"check.enter", "check.get", "check.exit"}
Reading == {"header", "body"} \cup Checking

Init ==
  /\ pc = "off" /\ in_session = FALSE /\ in_buffer = <<>> /\ need = 3 /\ result = FALSE
  /\ rx = <<>> /\ to_module = <<>> /\ module = [mode |-> "data", say |-> <<>>]
  /\ connected \in BOOLEAN /\ outgoing = <<>> /\ waiting = FALSE
  /\ sent = <<>> /\ handled = <<>> /\ torn = FALSE /\ was_gone = FALSE

-----------------------------------------------------------------------------
(* The line.                                                               *)

\* A thread that polls keeps up with the line; while it does something else
\* the UART keeps RxDepth bytes and loses the rest.
Arrive(byte) ==
  /\ pc \in Reading => Len(rx) < RxDepth
  /\ rx' = IF Len(rx) < RxDepth THEN Append(rx, byte) ELSE rx

\* The module passes the phone's bytes on in data mode.
PhoneByte ==
  /\ outgoing # <<>> /\ module.mode = "data"
  /\ Arrive(Head(outgoing))
  /\ outgoing' = Tail(outgoing)
  /\ UNCHANGED <<threadVars, to_module, module, connected, waiting, sent, historyVars>>

\* The module takes a command, once it has said all it had to say.
ModuleCommand ==
  /\ to_module # <<>> /\ module.say = <<>>
  /\ module' = [mode |-> IF Head(to_module) = "---" THEN "data" ELSE "command",
                say |-> Answer(Head(to_module), connected)]
  /\ to_module' = Tail(to_module)
  /\ UNCHANGED <<threadVars, rx, phoneVars, historyVars>>

ModuleByte ==
  /\ module.say # <<>>
  /\ Arrive(Head(module.say))
  /\ module' = [module EXCEPT !.say = Tail(@)]
  /\ UNCHANGED <<threadVars, to_module, phoneVars, historyVars>>

-----------------------------------------------------------------------------
(* The phone.                                                              *)

PhoneSend ==
  /\ connected /\ ~waiting /\ outgoing = <<>> /\ pc \in {"header", "body"}
  /\ IF torn THEN Len(in_buffer \o rx) < MaxTorn ELSE Len(sent) < MaxMessages
  /\ \E id \in {ID_ANDROID_HANDSHAKE, ID_COMMAND}, size \in Sizes :
       /\ outgoing' = Message(id, size)
       /\ sent' = IF torn THEN sent ELSE Append(sent, Message(id, size))
  /\ waiting' = TRUE
  /\ UNCHANGED <<threadVars, rx, to_module, module, connected, historyVars>>

\* It vanishes, with what it had not sent yet.
PhoneLeaves ==
  /\ connected
  /\ connected' = FALSE /\ outgoing' = <<>> /\ waiting' = FALSE
  /\ sent' = IF torn \/ outgoing = <<>> THEN sent ELSE Front(sent)
  /\ was_gone' = TRUE
  /\ UNCHANGED <<threadVars, rx, to_module, module, handled, torn>>

\* It comes back, whatever the launcher is doing.  If the launcher is still
\* reading what it sent before, the bytes it sends now are taken for the rest:
\* the line is torn, and what is sent and handled counts afresh once it is not.
PhoneReturns ==
  /\ ~connected
  /\ connected' = TRUE
  /\ torn' = (torn \/ (pc \in {"header", "body"} /\ in_buffer \o rx # <<>>))
  /\ IF torn' THEN sent' = <<>> /\ handled' = <<>> ELSE UNCHANGED <<sent, handled>>
  /\ UNCHANGED <<threadVars, rx, to_module, module, outgoing, waiting, was_gone>>

\* A torn line is mended when nothing is left on it as a read begins.
Mend == torn' = (torn /\ (rx' # <<>> \/ outgoing' # <<>>))

-----------------------------------------------------------------------------
(* The thread.  Ask(n) begins a read of n bytes at the start of in_buffer. *)

Ask(n) == need' = n /\ in_buffer' = <<>>
Listen == pc' = "header" /\ Ask(3)

\* serial_read and serial_read_timeout: one byte.
ReadByte ==
  /\ pc \in Reading /\ rx # <<>> /\ Len(in_buffer) < need
  /\ in_buffer' = Append(in_buffer, Head(rx))
  /\ rx' = Tail(rx)
  /\ UNCHANGED <<pc, in_session, need, result, to_module, module, phoneVars, historyVars>>

Full(at) == pc = at /\ Len(in_buffer) = need

Idle == UNCHANGED <<rx, module, phoneVars>>

\* The touch of the Bluetooth button.
bluetooth_callback ==
  /\ pc = "off"
  /\ pc' = "flush"
  /\ Idle /\ UNCHANGED <<in_session, in_buffer, need, result, to_module, historyVars>>

flush_buffer ==
  /\ pc = "flush"
  /\ Listen
  /\ rx' = <<>>
  /\ UNCHANGED <<in_session, result, to_module, module, phoneVars, handled, was_gone>>
  /\ Mend

\* Mutant: the low byte of the length is ignored.
MutBodySizeHigh == in_buffer[2].v * 256

\* Mutant: the bytes of the length are taken in the other order.
MutBodySizeSwapped == in_buffer[3].v * 256 + in_buffer[2].v

BodySize == in_buffer[2].v * 256 + in_buffer[3].v

\* The header is complete: a body may follow, read without a timeout.
ReceiveHeader ==
  /\ Full("header")
  /\ IF BodySize = 0 THEN pc' = "handle" /\ UNCHANGED need
                     ELSE pc' = "body" /\ need' = 3 + BodySize
  /\ Idle /\ UNCHANGED <<in_session, in_buffer, result, to_module, historyVars>>

ReceiveBody ==
  /\ Full("body")
  /\ pc' = "handle"
  /\ Idle /\ UNCHANGED <<in_session, in_buffer, need, result, to_module, historyVars>>

\* The message is handled and, mostly, answered: the phone, that got its
\* answer or gave up, may go on.  Outside a session only the handshake, three
\* bytes long, opens one.
HandleMessage ==
  /\ pc = "handle"
  /\ handled' = IF torn THEN handled ELSE Append(handled, in_buffer)
  /\ waiting' = FALSE
  /\ IF in_session \/ (Len(in_buffer) = 3 /\ in_buffer[1].v = ID_ANDROID_HANDSHAKE)
     THEN Listen /\ in_session' = TRUE
     ELSE pc' = "off" /\ UNCHANGED <<in_session, in_buffer, need>>
  /\ UNCHANGED <<result, rx, to_module, module, connected, outgoing, sent, was_gone>>
  /\ Mend

Tell(command, n, at) ==
  /\ to_module' = Append(to_module, command)
  /\ Ask(n) /\ pc' = at

\* Mutant: a silent phone is not asked for.
MutTimeout ==
  /\ pc = "header" /\ Len(in_buffer) < 3 /\ rx = <<>> /\ outgoing = <<>>
  /\ IF in_session THEN Listen /\ UNCHANGED to_module
                   ELSE pc' = "off" /\ UNCHANGED <<in_buffer, need, to_module>>
  /\ Idle /\ UNCHANGED <<in_session, result, handled>>
  /\ was_gone' = ~connected /\ Mend

\* Nothing came in time (a message under way does come in time): no session
\* is opened, or the module is asked whether the phone is still there.
Timeout ==
  /\ pc = "header" /\ Len(in_buffer) < 3 /\ rx = <<>> /\ outgoing = <<>>
  /\ IF in_session
     THEN Tell("$$$", 5, "check.enter")
     ELSE pc' = "off" /\ UNCHANGED <<in_buffer, need, to_module>>
  /\ Idle /\ UNCHANGED <<in_session, result, handled>>
  /\ was_gone' = ~connected /\ Mend

\* Mutant: the status is taken for five bytes long, as the other answers.
MutCheckConnection ==
  /\ Full("check.enter")
  /\ Tell("GK", 5, "check.get")
  /\ Idle /\ UNCHANGED <<in_session, result, historyVars>>

check_connection ==
  /\ Full("check.enter")
  /\ Tell("GK", 7, "check.get")
  /\ Idle /\ UNCHANGED <<in_session, result, historyVars>>

\* Mutant: any status answer counts as disconnected.
MutExitCmdMode ==
  /\ Full("check.get")
  /\ result' = FALSE
  /\ Tell("---", 5, "check.exit")
  /\ Idle /\ UNCHANGED <<in_session, historyVars>>

\* Mutant: the END answer is not waited for.
MutExitEarly ==
  /\ Full("check.get")
  /\ to_module' = Append(to_module, "---")
  /\ result' = (in_buffer[1].v = 49)
  /\ IF result' THEN Listen /\ UNCHANGED in_session
                ELSE pc' = "off" /\ in_session' = FALSE /\ UNCHANGED <<in_buffer, need>>
  /\ Idle /\ UNCHANGED historyVars

exit_cmd_mode ==
  /\ Full("check.get")
  /\ result' = (in_buffer[1].v = 49)
  /\ Tell("---", 5, "check.exit")
  /\ Idle /\ UNCHANGED <<in_session, historyVars>>

bluetooth_connected ==
  /\ Full("check.exit")
  /\ IF result THEN Listen /\ UNCHANGED in_session
               ELSE pc' = "off" /\ in_session' = FALSE /\ UNCHANGED <<in_buffer, need>>
  /\ Idle /\ UNCHANGED <<result, to_module, historyVars>>

-----------------------------------------------------------------------------
Line == PhoneByte \/ ModuleCommand \/ ModuleByte

Thread ==
  \/ ReadByte \/ flush_buffer \/ ReceiveHeader \/ ReceiveBody \/ HandleMessage
  \/ Timeout \/ check_connection \/ exit_cmd_mode \/ bluetooth_connected

Next == Line \/ PhoneSend \/ PhoneLeaves \/ PhoneReturns \/ bluetooth_callback \/ Thread

Spec == Init /\ [][Next]_vars

\* The line delivers and the thread runs; phone and user owe nothing.
FairSpec == Spec /\ WF_vars(Line) /\ WF_vars(Thread)

-----------------------------------------------------------------------------
Box == INSTANCE Mailbox WITH
  Messages <- {Message(id, size) : id \in {ID_ANDROID_HANDSHAKE, ID_COMMAND}, size \in Sizes}

(***************************************************************************)
(* Framing: the line carries whole messages, one after the other, each     *)
(* handled once and in order, whatever timeouts, connection checks and     *)
(* disappearances lie between its bytes (bluetooth.c:93-106,               *)
(* main.c:416-433).  Only a message that the phone did not finish is lost. *)
(* The exception, which Mailbox states: a phone that comes back while the  *)
(* launcher still reads what it sent before tears the line, until a read   *)
(* begins with nothing left on it.                                         *)
(***************************************************************************)
CarriesMessages == Box!Spec

(***************************************************************************)
(* Each answer the code waits for is the answer to the command it just     *)
(* gave: the byte counts 5, 7 and 5 leave nothing over that the next read  *)
(* would mistake for its own (bluetooth.c:26-48,66-75).                    *)
(***************************************************************************)
AnswersMatchCommands ==
  \A i \in DOMAIN in_buffer :
    /\ pc = "check.enter" => in_buffer[i].from = "$$$"
    /\ pc = "check.get" => in_buffer[i].from = "GK"
    /\ pc = "check.exit" => in_buffer[i].from = "---"
    /\ pc \in {"header", "body"} => in_buffer[i].from = "phone"

(***************************************************************************)
(* The module is out of command mode whenever the launcher listens to the  *)
(* phone: otherwise it would hold the phone's bytes back for ever          *)
(* (bluetooth.c:139-149).                                                  *)
(***************************************************************************)
ListensInDataMode ==
  pc \in {"header", "body", "handle", "off"} =>
    module.mode = "data" /\ module.say = <<>> /\ to_module = <<>>

(***************************************************************************)
(* A session is given up only if the phone was gone at some moment of the  *)
(* check that ended it: never by an answer out of date, or the wrong one   *)
(* (main.c:419-425, bluetooth.c:66-75).  It may be back by then: the       *)
(* answer is three exchanges old when main acts on it.                     *)
(***************************************************************************)
DropOnlyIfGone == [][in_session /\ ~in_session' => was_gone]_vars

\* The body of a message whose end the phone did not send is waited for: the
\* phone is gone, or back and waits for an answer itself.
CutOff == pc = "body" /\ (~connected \/ torn) /\ rx = <<>> /\ module.say = <<>>

\* Nothing is on its way to the launcher, and nobody was asked for anything.
Quiet == rx = <<>> /\ outgoing = <<>> /\ to_module = <<>> /\ module.say = <<>>

(***************************************************************************)
(* A read without a timeout is left waiting for bytes that nobody sends    *)
(* only in the body of a message that its phone cut off: neither a wrong   *)
(* length nor an answer shorter than the bytes asked for ever blocks the   *)
(* program (bluetooth.c:26-48,103).                                        *)
(***************************************************************************)
OnlyCutOffBlocks ==
  pc \in {"body"} \cup Checking /\ Len(in_buffer) < need /\ Quiet => CutOff

\* The status answer, on its way or read, says that the phone is there.
StillLinked ==
  \/ pc = "check.exit" /\ result
  \/ pc = "check.get" /\ to_module = <<>> /\ (in_buffer \o (rx \o module.say))[1].v = 49

\* How many stages of the session lie ahead of a launcher whose phone is gone:
\* a message that was sent whole, an answer that is out of date, one check.
Stage ==
  CASE pc = "header" -> IF sent # handled THEN 9 ELSE 4
    [] pc = "body" -> IF sent # handled THEN 8 ELSE 3
    [] pc = "handle" -> 7
    [] pc = "check.enter" -> 2
    [] pc = "check.get" -> IF StillLinked THEN 6 ELSE 1
    [] pc = "check.exit" -> IF StillLinked THEN 5 ELSE 0
    [] OTHER -> 10

\* A stage weighs more than a command, a command more than its answer, and a
\* byte in the module more than one in the UART.  On a torn line each message
\* that is made up uses bytes up, and all that comes before what is said above.
Distance ==
  IF torn
  THEN 160 + 8 * (Len(in_buffer) + Len(rx)) + Len(rx)
       + (CASE pc = "header" -> 2 [] pc = "body" -> 1 [] OTHER -> 0)
  ELSE 16 * Stage + 15 * Len(to_module) + 2 * Len(module.say) + Len(rx)

(***************************************************************************)
(* Once the phone is gone every step, whoever takes it, brings the end of  *)
(* the session nearer: there is no endless round of timeouts, connection   *)
(* checks and answers that are out of date (main.c:416-433,                *)
(* bluetooth.c:66-75,139-149).                                             *)
(***************************************************************************)
GoneCountsDown ==
  [][in_session /\ ~connected /\ (in_session /\ ~connected)' => Distance' < Distance]_vars

(***************************************************************************)
(* A phone that leaves is noticed and the session ends (main.c:419-425),   *)
(* unless it comes back, or leaves inside a body: serial_read has no       *)
(* timeout.                                                                *)
(***************************************************************************)
GoneIsNoticed == in_session /\ ~connected ~> ~in_session \/ CutOff \/ connected
=============================================================================
