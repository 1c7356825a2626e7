----------------------------- MODULE LinkProofs -----------------------------
(***************************************************************************)
(* The serial line to the Bluetooth module, for every set of body sizes,   *)
(* number of messages and depth of the UART: answers meet their commands,  *)
(* the launcher listens in data mode only, a session is dropped only if    *)
(* the phone was gone, and the line implements Mailbox.                    *)
(*                                                                         *)
(* Each invariant says what in_buffer, the UART and the sender together    *)
(* hold: a whole message, the beginning of one that was cut off, or an     *)
(* answer.  Bytes move along; what they make up together stays.  Of a line *)
(* that is torn the invariant says only whose bytes are on it.             *)
(***************************************************************************)
EXTENDS BluetoothLink, SequenceTheorems, TLAPS

ToModule == {"$$$", "GK", "---"}
Bytes == [v : Nat, from : ToModule \cup {"phone"}]
Messages == {Message(id, size) : id \in {ID_ANDROID_HANDSHAKE, ID_COMMAND}, size \in Sizes}

\* The line holds a message that will be complete ...
Whole(m) ==
  /\ in_buffer \o (rx \o outgoing) = m
  /\ sent = Append(handled, m)
  /\ waiting \/ ~connected

\* ... or the beginning of one that the phone left inside of, or nothing.
Cut(m) ==
  /\ outgoing = <<>> /\ ~connected /\ sent = handled
  /\ \E rest \in Seq(Bytes) : rest # <<>> /\ in_buffer \o (rx \o rest) = m

Nothing == in_buffer = <<>> /\ rx = <<>> /\ outgoing = <<>> /\ sent = handled

LinkTypes ==
  /\ pc \in {"off", "flush", "header", "body", "handle"} \cup Checking
  /\ {in_session, result, connected, waiting, torn, was_gone} \subseteq BOOLEAN
  /\ in_buffer \in Seq(Bytes) /\ rx \in Seq(Bytes) /\ outgoing \in Seq(Bytes)
  /\ module \in [mode : {"data", "command"}, say : Seq(Bytes)]
  /\ sent \in Seq(Messages) /\ handled \in Seq(Messages)

CarryInv ==
  /\ pc = "header" => Nothing \/ \E m \in Messages : Whole(m) \/ Cut(m)
  /\ pc = "body" => \E m \in Messages : need = Len(m) /\ (Whole(m) \/ Cut(m))
  /\ pc = "handle" =>
       /\ in_buffer \in Messages /\ sent = Append(handled, in_buffer)
       /\ rx = <<>> /\ outgoing = <<>>
  /\ pc \in {"off", "flush"} \cup Checking => outgoing = <<>> /\ sent = handled

\* Nothing is counted on a torn line, and no check begins before it is mended.
TornInv == pc \notin Checking /\ sent = handled

ReadInv ==
  /\ pc = "header" => need = 3
  /\ pc \in {"body", "handle"} => Len(in_buffer) >= 3

\* A command is on its way to the module, or its answer on the way back.
Asked(command) ==
  /\ to_module = <<command>> /\ module.say = <<>>
  /\ in_buffer = <<>> /\ rx = <<>>

Answering(command) ==
  /\ to_module = <<>>
  /\ module.mode = IF command = "---" THEN "data" ELSE "command"
  /\ \E link \in BOOLEAN :
       /\ in_buffer \o (rx \o module.say) = Answer(command, link)
       /\ command = "GK" => link \/ was_gone

Exchange(command, n) == need = n /\ (Asked(command) \/ Answering(command))

CheckInv ==
  /\ pc \notin Checking => module.mode = "data" /\ module.say = <<>> /\ to_module = <<>>
  /\ pc = "check.enter" => Exchange("$$$", 5)
  /\ pc = "check.get" => Exchange("GK", 7)
  /\ pc = "check.exit" => Exchange("---", 5)

\* A phone that is gone sends nothing, and the check under way knows of it.
GoneInv ==
  /\ ~connected => outgoing = <<>> /\ (pc \in Checking => was_gone)
  /\ pc = "check.exit" => result \/ was_gone

LinkInv ==
  /\ LinkTypes /\ ReadInv /\ CheckInv /\ GoneInv
  /\ ~torn => CarryInv
  /\ torn => TornInv

-----------------------------------------------------------------------------
(* Bytes that move along.                                                  *)

\* The first of t moves to the end of s.
LEMMA MoveHead ==
  ASSUME NEW S, NEW s \in Seq(S), NEW t \in Seq(S), t # <<>>
  PROVE  /\ Append(s, Head(t)) \in Seq(S) /\ Tail(t) \in Seq(S)
         /\ Append(s, Head(t)) \o Tail(t) = s \o t
<1>1. Head(t) \in S /\ Tail(t) \in Seq(S) /\ Len(Tail(t)) = Len(t) - 1 /\ Len(t) \in Nat \ {0}
      /\ \A i \in 1 .. Len(Tail(t)) : Tail(t)[i] = t[i + 1]
  BY HeadTailProperties, EmptySeq
<1>2. Append(s, Head(t)) \in Seq(S) /\ Append(s, Head(t)) = s \o <<Head(t)>>
  BY <1>1, AppendProperties, AppendIsConcat
<1>3. <<Head(t)>> \in Seq(S)
  BY <1>1
<1>4. <<Head(t)>> \o Tail(t) = t
  <2> DEFINE h == <<Head(t)>>  u == Tail(t)
  <2>1. Len(h) = 1 /\ h[1] = t[1]
    OBVIOUS
  <2>2. u \in Seq(S) /\ h \in Seq(S) /\ Len(u) = Len(t) - 1 /\ Len(t) \in Nat \ {0}
        /\ \A i \in 1 .. Len(u) : u[i] = t[i + 1]
    BY <1>1, <1>3
  <2> HIDE DEF h, u
  <2>3. /\ h \o u \in Seq(S) /\ Len(h \o u) = Len(h) + Len(u)
        /\ \A i \in 1 .. Len(h) + Len(u) : (h \o u)[i] = IF i <= Len(h) THEN h[i] ELSE u[i - Len(h)]
    BY <2>2, ConcatProperties
  <2>4. Len(h \o u) = Len(t)
    BY <2>1, <2>2, <2>3
  <2>5. ASSUME NEW i \in 1 .. Len(h \o u) PROVE (h \o u)[i] = t[i]
    <3>1. CASE i = 1
      BY <2>1, <2>2, <2>3, <3>1
    <3>2. CASE i # 1
      <4>1. i - 1 \in 1 .. Len(u) /\ (h \o u)[i] = u[i - 1]
        BY <2>1, <2>2, <2>3, <3>2
      <4>2. u[i - 1] = t[(i - 1) + 1] /\ (i - 1) + 1 = i
        BY <2>2, <4>1
      <4> QED BY <4>1, <4>2
    <3> QED BY <3>1, <3>2
  <2>6. h \o u = t
    BY <2>3, <2>4, <2>5, SeqEqual
  <2> QED BY <2>6 DEF h, u
<1>5. (s \o <<Head(t)>>) \o Tail(t) = s \o (<<Head(t)>> \o Tail(t))
  BY <1>1, <1>3, ConcatAssociative
<1> QED BY <1>1, <1>2, <1>4, <1>5

\* What has been read is a beginning of the whole, or all of it.
AllRead(a, b, c) == a \o (b \o c) = a /\ b = <<>> /\ c = <<>>

LEMMA ReadIsPrefix ==
  ASSUME NEW S, NEW a \in Seq(S), NEW b \in Seq(S), NEW c \in Seq(S)
  PROVE  /\ Len(a) <= Len(a \o (b \o c))
         /\ \A i \in 1 .. Len(a) : (a \o (b \o c))[i] = a[i]
         /\ Len(a) = Len(a \o (b \o c)) => AllRead(a, b, c)
<1> DEFINE bc == b \o c  m == a \o bc
<1>1. /\ bc \in Seq(S) /\ Len(bc) = Len(b) + Len(c)
      /\ Len(a) \in Nat /\ Len(b) \in Nat /\ Len(c) \in Nat
  BY ConcatProperties
<1>m. m = a \o bc
  OBVIOUS
<1> HIDE DEF bc, m
<1>2. /\ m \in Seq(S) /\ Len(m) = Len(a) + Len(bc)
      /\ \A i \in 1 .. Len(a) + Len(bc) : m[i] = IF i <= Len(a) THEN a[i] ELSE bc[i - Len(a)]
  BY <1>1, <1>m, ConcatProperties
<1>3. \A i \in 1 .. Len(a) : a[i] = m[i]
  BY <1>1, <1>2
<1>4. ASSUME Len(a) = Len(m) PROVE a = m /\ b = <<>> /\ c = <<>>
  <2>1. Len(b) = 0 /\ Len(c) = 0
    BY <1>1, <1>2, <1>4
  <2>2. b = <<>> /\ c = <<>>
    BY <2>1, EmptySeq
  <2>3. bc = <<>>
    BY <2>2, ConcatEmptySeq DEF bc
  <2> QED BY <1>m, <2>2, <2>3, ConcatEmptySeq
<1> QED BY <1>1, <1>2, <1>3, <1>4 DEF bc, m, AllRead

-----------------------------------------------------------------------------
(* Messages and answers.                                                   *)

\* Text is as long as its values and comes from one place.
LEMMA TextIsSeq ==
  ASSUME NEW values \in Seq(Nat), NEW from \in ToModule \cup {"phone"}
  PROVE  /\ Text(values, from) \in Seq(Bytes) /\ Len(Text(values, from)) = Len(values)
         /\ \A i \in 1 .. Len(values) :
              Text(values, from)[i].v = values[i] /\ Text(values, from)[i].from = from
<1>1. DOMAIN values = 1 .. Len(values) /\ Len(values) \in Nat
      /\ \A i \in 1 .. Len(values) : values[i] \in Nat
  BY ElementOfSeq, LenProperties
<1>2. Text(values, from) = [i \in 1 .. Len(values) |-> Byte(values[i], from)]
  BY <1>1 DEF Text
<1>3. \A i \in 1 .. Len(values) : Byte(values[i], from) \in Bytes
  BY <1>1 DEF Byte, Bytes
<1> QED BY <1>1, <1>2, <1>3 DEF Byte

\* A message's length is the one its header gives.
LEMMA MessageShape ==
  ASSUME NEW m \in Messages
  PROVE  /\ m \in Seq(Bytes) /\ Len(m) \in Nat /\ Len(m) >= 3
         /\ \A i \in 1 .. Len(m) : m[i].from = "phone"
         /\ m[2].v = 0 /\ m[3].v = Len(m) - 3
<1>1. PICK id \in {ID_ANDROID_HANDSHAKE, ID_COMMAND}, size \in Sizes : m = Message(id, size)
  BY DEF Messages
<1>2. id \in Nat /\ size \in Nat
  BY LinkAssumption DEF ID_ANDROID_HANDSHAKE, ID_COMMAND
<1> DEFINE header == <<id, 0, size>>  body == [i \in 1 .. size |-> 1]
<1>3. header \in Seq(Nat) /\ Len(header) = 3 /\ header[2] = 0 /\ header[3] = size
  BY <1>2
<1>4. body \in Seq(Nat) /\ Len(body) = size
  BY <1>2
<1> HIDE DEF header, body
<1> DEFINE values == header \o body
<1>5. /\ values \in Seq(Nat) /\ Len(values) = 3 + size
      /\ \A i \in 1 .. 3 + size : values[i] = IF i <= 3 THEN header[i] ELSE body[i - 3]
  <2>1. /\ values \in Seq(Nat) /\ Len(values) = Len(header) + Len(body)
        /\ \A i \in 1 .. Len(header) + Len(body) :
             values[i] = IF i <= Len(header) THEN header[i] ELSE body[i - Len(header)]
    BY <1>3, <1>4, ConcatProperties
  <2> HIDE DEF values
  <2> QED BY <1>3, <1>4, <2>1
<1> HIDE DEF values
<1>6. values[2] = 0 /\ values[3] = size
  BY <1>2, <1>3, <1>5
<1>7. m = Text(values, "phone")
  BY <1>1 DEF Message, header, body, values
<1>8. /\ m \in Seq(Bytes) /\ Len(m) = 3 + size
      /\ \A i \in 1 .. 3 + size : m[i].v = values[i] /\ m[i].from = "phone"
  BY <1>5, <1>7, TextIsSeq
<1> QED BY <1>2, <1>6, <1>8

\* An answer's length and bytes; the status says whether there is a link.
LEMMA AnswerShape ==
  ASSUME NEW command \in ToModule, NEW link \in BOOLEAN
  PROVE  /\ Answer(command, link) \in Seq(Bytes)
         /\ Len(Answer(command, link)) = IF command = "GK" THEN 7 ELSE 5
         /\ \A i \in 1 .. Len(Answer(command, link)) : Answer(command, link)[i].from = command
         /\ Answer("GK", link)[1].v = 49 <=> link
<1> DEFINE cmd == <<67, 77, 68, 13, 10>>  end == <<69, 78, 68, 13, 10>>
           status == <<IF link THEN 49 ELSE 48, 44, 48, 44, 48, 13, 10>>
<1>1. /\ cmd \in Seq(Nat) /\ Len(cmd) = 5 /\ end \in Seq(Nat) /\ Len(end) = 5
      /\ status \in Seq(Nat) /\ Len(status) = 7 /\ status[1] = IF link THEN 49 ELSE 48
  OBVIOUS
<1> HIDE DEF cmd, end, status
<1>2. /\ Answer("$$$", link) = Text(cmd, "$$$") /\ Answer("GK", link) = Text(status, "GK")
      /\ Answer("---", link) = Text(end, "---")
  BY DEF Answer, cmd, end, status
<1>3. /\ Text(cmd, "$$$") \in Seq(Bytes) /\ Len(Text(cmd, "$$$")) = 5
      /\ \A i \in 1 .. 5 : Text(cmd, "$$$")[i].from = "$$$"
  BY <1>1, TextIsSeq DEF ToModule
<1>4. /\ Text(end, "---") \in Seq(Bytes) /\ Len(Text(end, "---")) = 5
      /\ \A i \in 1 .. 5 : Text(end, "---")[i].from = "---"
  BY <1>1, TextIsSeq DEF ToModule
<1>5. /\ Text(status, "GK") \in Seq(Bytes) /\ Len(Text(status, "GK")) = 7
      /\ \A i \in 1 .. 7 : Text(status, "GK")[i].from = "GK"
  BY <1>1, TextIsSeq DEF ToModule
<1>6. Text(status, "GK")[1].v = 49 <=> link
  <2>1. DOMAIN status = 1 .. 7
    BY <1>1
  <2>2. Text(status, "GK")[1] = Byte(status[1], "GK")
    BY <2>1 DEF Text
  <2> QED BY <1>1, <2>2 DEF Byte
<1>7. CASE command = "$$$"
  BY <1>2, <1>3, <1>6, <1>7
<1>8. CASE command = "GK"
  BY <1>2, <1>5, <1>6, <1>8
<1>9. CASE command = "---"
  BY <1>2, <1>4, <1>6, <1>9
<1> QED BY <1>7, <1>8, <1>9 DEF ToModule

-----------------------------------------------------------------------------
(* The line.                                                               *)

LEMMA PcDistinct ==
  /\ Checking = {"check.enter", "check.get", "check.exit"}
  /\ {"off", "flush", "header", "body", "handle"} \cap Checking = {}
  /\ Reading = {"header", "body"} \cup Checking
  BY DEF Checking, Reading

\* Reading moves a byte from the UART to in_buffer.
LEMMA ReadKeepsSum ==
  ASSUME LinkInv, ReadByte
  PROVE  /\ in_buffer' \in Seq(Bytes) /\ rx' \in Seq(Bytes)
         /\ \A c \in Seq(Bytes) : in_buffer' \o (rx' \o c) = in_buffer \o (rx \o c)
<1>1. rx # <<>> /\ in_buffer' = Append(in_buffer, Head(rx)) /\ rx' = Tail(rx)
  BY DEF ReadByte
<1>2. in_buffer \in Seq(Bytes) /\ rx \in Seq(Bytes)
  BY DEF LinkInv, LinkTypes
<1>3. in_buffer' \in Seq(Bytes) /\ rx' \in Seq(Bytes)
  BY <1>1, <1>2, MoveHead
<1>4. ASSUME NEW c \in Seq(Bytes) PROVE in_buffer' \o (rx' \o c) = in_buffer \o (rx \o c)
  <2>1. in_buffer' \o rx' = in_buffer \o rx
    BY <1>1, <1>2, MoveHead
  <2>2. in_buffer' \o (rx' \o c) = (in_buffer' \o rx') \o c
    BY <1>3, ConcatAssociative
  <2>3. in_buffer \o (rx \o c) = (in_buffer \o rx) \o c
    BY <1>2, ConcatAssociative
  <2> QED BY <2>1, <2>2, <2>3
<1> QED BY <1>3, <1>4

LEMMA ReadKeepsInv ==
  ASSUME LinkInv, ReadByte
  PROVE  LinkInv'
<1>1. /\ pc \in Reading /\ rx # <<>> /\ in_buffer' = Append(in_buffer, Head(rx)) /\ rx' = Tail(rx)
      /\ UNCHANGED <<pc, in_session, need, result, to_module, module, connected, outgoing, waiting, sent,
                     handled, torn, was_gone>>
  BY DEF ReadByte, phoneVars, historyVars
<1>2. in_buffer \in Seq(Bytes) /\ rx \in Seq(Bytes) /\ outgoing \in Seq(Bytes) /\ module.say \in Seq(Bytes)
  BY DEF LinkInv, LinkTypes
<1>3. in_buffer' \in Seq(Bytes) /\ rx' \in Seq(Bytes)
  BY ReadKeepsSum
<1>4. \A c \in Seq(Bytes) : in_buffer' \o (rx' \o c) = in_buffer \o (rx \o c)
  BY ReadKeepsSum
<1>5. LinkTypes'
  BY <1>1, <1>3 DEF LinkInv, LinkTypes
<1>6. \A m : (Whole(m) => Whole(m)') /\ (Cut(m) => Cut(m)')
  BY <1>1, <1>2, <1>4 DEF Whole, Cut
<1>7. ~Nothing
  BY <1>1 DEF Nothing
<1>8. CarryInv => CarryInv'
  BY <1>1, <1>6, <1>7, PcDistinct DEF CarryInv
<1>9. \A command, n : Exchange(command, n) => Exchange(command, n)'
  BY <1>1, <1>2, <1>4 DEF Exchange, Asked, Answering
<1>10. CheckInv' /\ GoneInv'
  BY <1>1, <1>9 DEF LinkInv, CheckInv, GoneInv
<1>11. Len(in_buffer') = Len(in_buffer) + 1 /\ Len(in_buffer) \in Nat
  BY <1>1, <1>2, HeadTailProperties, AppendProperties, LenProperties
<1>12. ReadInv'
  BY <1>1, <1>11 DEF LinkInv, ReadInv
<1>13. TornInv => TornInv'
  BY <1>1 DEF TornInv
<1> QED BY <1>1, <1>5, <1>8, <1>10, <1>12, <1>13 DEF LinkInv

\* The phone sends inside of a message only, and the launcher is reading,
\* unless the line is torn.
LEMMA PhoneByteKeepsInv ==
  ASSUME LinkInv, PhoneByte
  PROVE  LinkInv'
<1>1. /\ outgoing # <<>> /\ Arrive(Head(outgoing)) /\ outgoing' = Tail(outgoing)
      /\ UNCHANGED <<pc, in_session, in_buffer, need, result, to_module, module, connected, waiting, sent,
                     handled, torn, was_gone>>
  BY DEF PhoneByte, threadVars, historyVars
<1>2. in_buffer \in Seq(Bytes) /\ rx \in Seq(Bytes) /\ outgoing \in Seq(Bytes)
  BY DEF LinkInv, LinkTypes
<1>3. rx' = Append(rx, Head(outgoing)) \/ rx' = rx
  BY <1>1 DEF Arrive
<1>4. rx' \in Seq(Bytes) /\ outgoing' \in Seq(Bytes)
  BY <1>1, <1>2, <1>3, MoveHead
<1>5. LinkTypes' /\ ReadInv'
  BY <1>1, <1>4 DEF LinkInv, LinkTypes, ReadInv
<1>6. pc \notin Checking
  BY <1>1, PcDistinct DEF LinkInv, CarryInv, TornInv
<1>7. CheckInv' /\ GoneInv'
  BY <1>1, <1>6, PcDistinct DEF LinkInv, CheckInv, GoneInv
<1>8. ASSUME ~torn PROVE CarryInv'
  <2>1. pc \in {"header", "body"} /\ CarryInv
    BY <1>1, <1>8, PcDistinct DEF LinkInv, LinkTypes, CarryInv
  <2>2. rx' = Append(rx, Head(outgoing))
    BY <1>1, <2>1, PcDistinct DEF Arrive
  <2>3. in_buffer \o (rx' \o outgoing') = in_buffer \o (rx \o outgoing)
    <3>1. outgoing # <<>>
      BY <1>1
    <3>2. Append(rx, Head(outgoing)) \o Tail(outgoing) = rx \o outgoing
      BY <1>2, <3>1, MoveHead
    <3> QED BY <1>1, <2>2, <3>2
  <2>4. ~Nothing /\ \A m : ~Cut(m) /\ (Whole(m) => Whole(m)')
    BY <1>1, <2>3 DEF Nothing, Cut, Whole
  <2> QED BY <1>1, <2>1, <2>4, PcDistinct DEF CarryInv
<1>9. TornInv => TornInv'
  BY <1>1 DEF TornInv
<1> QED BY <1>1, <1>5, <1>7, <1>8, <1>9 DEF LinkInv

\* A command is answered with the state of the connection at that moment.
LEMMA ModuleCommandKeepsInv ==
  ASSUME LinkInv, ModuleCommand
  PROVE  LinkInv'
<1> DEFINE command == Head(to_module)
<1>1. /\ to_module # <<>> /\ to_module' = Tail(to_module)
      /\ module' = [mode |-> IF command = "---" THEN "data" ELSE "command",
                    say |-> Answer(command, connected)]
      /\ UNCHANGED <<pc, in_session, in_buffer, need, result, rx, connected, outgoing, waiting, sent, handled,
                     torn, was_gone>>
  BY DEF ModuleCommand, threadVars, phoneVars, historyVars
<1>2. pc \in Checking
  BY <1>1 DEF LinkInv, CheckInv
<1>3. connected \in BOOLEAN /\ (connected \/ was_gone) /\ ~torn /\ CarryInv
  BY <1>2 DEF LinkInv, LinkTypes, GoneInv, TornInv
<1>4. ASSUME NEW c \in ToModule, NEW n, Exchange(c, n)
      PROVE  command = c /\ Exchange(c, n)'
  <2>1. Asked(c)
    BY <1>1, <1>4 DEF Exchange, Answering
  <2>2. command = c /\ to_module' = <<>>
    BY <1>1, <2>1 DEF Asked
  <2>3. Answer(c, connected) \in Seq(Bytes)
    BY <1>3, AnswerShape
  <2>4. in_buffer' \o (rx' \o module'.say) = Answer(c, connected)
    <3>1. in_buffer' = <<>> /\ rx' = <<>> /\ module'.say = Answer(c, connected)
      BY <1>1, <2>1, <2>2 DEF Asked
    <3> QED BY <2>3, <3>1, ConcatEmptySeq
  <2>5. Answering(c)'
    BY <1>1, <1>3, <2>2, <2>4 DEF Answering
  <2> QED BY <1>1, <1>4, <2>2, <2>5 DEF Exchange
<1>5. command \in ToModule
  BY <1>2, <1>4, PcDistinct DEF LinkInv, CheckInv, ToModule
<1>6. CheckInv'
  BY <1>1, <1>2, <1>4 DEF LinkInv, CheckInv, ToModule
<1>7. module' \in [mode : {"data", "command"}, say : Seq(Bytes)]
  BY <1>1, <1>3, <1>5, AnswerShape
<1>8. LinkTypes'
  BY <1>1, <1>7 DEF LinkInv, LinkTypes
<1>9. CarryInv' /\ GoneInv' /\ ReadInv'
  BY <1>1, <1>2, <1>3, PcDistinct DEF LinkInv, CarryInv, GoneInv, ReadInv
<1> QED BY <1>1, <1>3, <1>6, <1>8, <1>9 DEF LinkInv

\* The module speaks during a check only, when the launcher reads.
LEMMA ModuleByteMoves ==
  ASSUME LinkInv, ModuleByte
  PROVE  /\ pc \in Checking /\ module.say # <<>> /\ in_buffer' = in_buffer
         /\ module'.say = Tail(module.say) /\ module'.mode = module.mode
         /\ rx' = Append(rx, Head(module.say)) /\ rx' \in Seq(Bytes) /\ Tail(module.say) \in Seq(Bytes)
         /\ rx' \o module'.say = rx \o module.say
<1> DEFINE say == module.say
<1>1. /\ say # <<>> /\ Arrive(Head(say)) /\ module' = [module EXCEPT !.say = Tail(@)]
      /\ UNCHANGED <<pc, in_buffer>>
  BY DEF ModuleByte, threadVars
<1>2. pc \in Checking
  BY <1>1 DEF LinkInv, CheckInv
<1>3. rx' = Append(rx, Head(say))
  BY <1>1, <1>2, PcDistinct DEF Arrive
<1>4. rx \in Seq(Bytes) /\ say \in Seq(Bytes) /\ module \in [mode : {"data", "command"}, say : Seq(Bytes)]
  BY DEF LinkInv, LinkTypes
<1>5. module'.say = Tail(say) /\ module'.mode = module.mode
  BY <1>1, <1>4
<1>6. rx' \in Seq(Bytes) /\ Tail(say) \in Seq(Bytes) /\ rx' \o Tail(say) = rx \o say
  <2>1. say # <<>>
    BY <1>1
  <2> HIDE DEF say
  <2>2. /\ Append(rx, Head(say)) \in Seq(Bytes) /\ Tail(say) \in Seq(Bytes)
        /\ Append(rx, Head(say)) \o Tail(say) = rx \o say
    BY <1>4, <2>1, MoveHead
  <2> QED BY <1>3, <2>2
<1> QED BY <1>1, <1>2, <1>3, <1>5, <1>6

LEMMA ModuleByteKeepsInv ==
  ASSUME LinkInv, ModuleByte
  PROVE  LinkInv'
<1> DEFINE say == module.say
<1>1. /\ module' = [module EXCEPT !.say = Tail(@)]
      /\ UNCHANGED <<pc, in_session, in_buffer, need, result, to_module, connected, outgoing, waiting, sent,
                     handled, torn, was_gone>>
      /\ say # <<>>
  BY DEF ModuleByte, threadVars, phoneVars, historyVars
<1>2. pc \in Checking
  BY ModuleByteMoves
<1>4. module \in [mode : {"data", "command"}, say : Seq(Bytes)]
  BY DEF LinkInv, LinkTypes
<1>5. module'.say = Tail(say) /\ module'.mode = module.mode
  BY ModuleByteMoves
<1>6. rx' \in Seq(Bytes) /\ Tail(say) \in Seq(Bytes) /\ rx' \o Tail(say) = rx \o say
  BY <1>5, ModuleByteMoves
<1>7. LinkTypes'
  BY <1>1, <1>4, <1>6 DEF LinkInv, LinkTypes
<1>8. \A command, n : Exchange(command, n) => Exchange(command, n)'
  BY <1>1, <1>5, <1>6 DEF Exchange, Asked, Answering
<1>9. CheckInv'
  BY <1>1, <1>2, <1>8 DEF LinkInv, CheckInv
<1>10. ~torn /\ CarryInv
  BY <1>2 DEF LinkInv, TornInv
<1>11. CarryInv' /\ GoneInv' /\ ReadInv'
  BY <1>1, <1>2, <1>10, PcDistinct DEF LinkInv, CarryInv, GoneInv, ReadInv
<1> QED BY <1>1, <1>7, <1>9, <1>10, <1>11 DEF LinkInv

-----------------------------------------------------------------------------
(* The phone.                                                              *)

\* A phone that waits for nothing finds the line empty when it may speak.
LEMMA LineIsEmpty ==
  ASSUME LinkInv, pc \in {"header", "body"}, connected, ~waiting, ~torn
  PROVE  pc = "header" /\ Nothing
  BY DEF LinkInv, CarryInv, Whole, Cut

LEMMA PhoneSendKeepsInv ==
  ASSUME LinkInv, PhoneSend
  PROVE  LinkInv'
<1>1. PICK id \in {ID_ANDROID_HANDSHAKE, ID_COMMAND}, size \in Sizes :
        outgoing' = Message(id, size) /\ sent' = IF torn THEN sent ELSE Append(sent, Message(id, size))
  BY DEF PhoneSend
<1> DEFINE m == Message(id, size)
<1>2. /\ pc \in {"header", "body"} /\ connected /\ ~waiting /\ waiting' = TRUE
      /\ UNCHANGED <<pc, in_session, in_buffer, need, result, rx, to_module, module, connected, handled,
                     torn, was_gone>>
  BY DEF PhoneSend, threadVars, historyVars
<1>3. m \in Messages /\ m \in Seq(Bytes)
  BY MessageShape DEF Messages
<1>4. outgoing' = m /\ sent' = IF torn THEN sent ELSE Append(sent, m)
  BY <1>1
<1> HIDE DEF m
<1>5. Append(sent, m) \in Seq(Messages)
  BY <1>3, AppendProperties DEF LinkInv, LinkTypes
<1>6. LinkTypes' /\ ReadInv'
  BY <1>2, <1>3, <1>4, <1>5 DEF LinkInv, LinkTypes, ReadInv
<1>7. CheckInv' /\ GoneInv'
  BY <1>2, PcDistinct DEF LinkInv, CheckInv, GoneInv
<1>8. ASSUME ~torn PROVE CarryInv'
  <2>1. pc = "header" /\ Nothing
    BY <1>2, <1>8, LineIsEmpty
  <2>2. <<>> \o (<<>> \o m) = m
    BY <1>3, ConcatEmptySeq
  <2>3. Whole(m)'
    BY <1>2, <1>4, <1>8, <2>1, <2>2 DEF Nothing, Whole
  <2> QED BY <1>2, <1>3, <2>1, <2>3, PcDistinct DEF CarryInv
<1>9. torn => TornInv'
  BY <1>2, <1>4 DEF LinkInv, TornInv
<1> QED BY <1>2, <1>6, <1>7, <1>8, <1>9 DEF LinkInv

LEMMA FrontOfAppend ==
  ASSUME NEW S, NEW s \in Seq(S), NEW e \in S
  PROVE  Front(Append(s, e)) = s
<1>1. /\ Append(s, e) \in Seq(S) /\ Len(Append(s, e)) = Len(s) + 1 /\ Len(s) \in Nat
      /\ \A i \in 1 .. Len(s) : Append(s, e)[i] = s[i]
  BY AppendProperties
<1>2. Front(Append(s, e)) = SubSeq(Append(s, e), 1, Len(s))
  BY <1>1 DEF Front
<1>3. /\ SubSeq(Append(s, e), 1, Len(s)) \in Seq(S)
      /\ Len(SubSeq(Append(s, e), 1, Len(s))) = Len(s)
      /\ \A i \in 1 .. Len(s) : SubSeq(Append(s, e), 1, Len(s))[i] = s[i]
  BY <1>1
<1> QED BY <1>1, <1>2, <1>3, SeqEqual

\* A phone that leaves inside a message takes it back and leaves a stump.
LEMMA PhoneLeavesKeepsInv ==
  ASSUME LinkInv, PhoneLeaves
  PROVE  LinkInv'
<1>1. /\ connected /\ connected' = FALSE /\ outgoing' = <<>> /\ waiting' = FALSE /\ was_gone' = TRUE
      /\ sent' = IF torn \/ outgoing = <<>> THEN sent ELSE Front(sent)
      /\ UNCHANGED <<pc, in_session, in_buffer, need, result, rx, to_module, module, handled, torn>>
  BY DEF PhoneLeaves, threadVars
<1>2. outgoing \in Seq(Bytes) /\ handled \in Seq(Messages) /\ sent \in Seq(Messages)
  BY DEF LinkInv, LinkTypes
<1>3. ASSUME ~torn, NEW m \in Messages, Whole(m) \/ Cut(m)
      PROVE  (Whole(m)' \/ Cut(m)') /\ sent' \in Seq(Messages)
  <2>1. Whole(m)
    BY <1>1, <1>3 DEF Cut
  <2>2. CASE outgoing = <<>>
    BY <1>1, <1>2, <2>1, <2>2 DEF Whole
  <2>3. CASE outgoing # <<>>
    <3>1. sent' = handled
      BY <1>1, <1>2, <1>3, <2>1, <2>3, FrontOfAppend DEF Whole
    <3>2. in_buffer' \o (rx' \o outgoing) = m
      BY <1>1, <2>1 DEF Whole
    <3> QED BY <1>1, <1>2, <2>3, <3>1, <3>2 DEF Cut
  <2> QED BY <2>2, <2>3
<1>4. torn \/ outgoing = <<>> \/ \E m \in Messages : Whole(m) \/ Cut(m)
  BY PcDistinct DEF LinkInv, LinkTypes, CarryInv, Nothing
<1>5. sent' \in Seq(Messages)
  BY <1>1, <1>2, <1>3, <1>4
<1>6. LinkTypes' /\ ReadInv'
  BY <1>1, <1>5, EmptySeq DEF LinkInv, LinkTypes, ReadInv
<1>7. Nothing => Nothing'
  BY <1>1 DEF Nothing
<1>8. ~torn => CarryInv'
  BY <1>1, <1>3, <1>7, PcDistinct DEF LinkInv, CarryInv
<1>9. \A command, n : Exchange(command, n) => Exchange(command, n)'
  BY <1>1 DEF Exchange, Asked, Answering
<1>10. CheckInv' /\ GoneInv'
  BY <1>1, <1>9 DEF LinkInv, CheckInv, GoneInv
<1>11. torn => TornInv'
  BY <1>1 DEF LinkInv, TornInv
<1> QED BY <1>1, <1>6, <1>8, <1>10, <1>11 DEF LinkInv

\* A phone that comes back finds nothing of its past on the line, or tears it.
LEMMA PhoneReturnsKeepsInv ==
  ASSUME LinkInv, PhoneReturns
  PROVE  LinkInv'
<1>1. /\ ~connected /\ connected' = TRUE
      /\ torn' = (torn \/ (pc \in {"header", "body"} /\ in_buffer \o rx # <<>>))
      /\ IF torn' THEN sent' = <<>> /\ handled' = <<>> ELSE UNCHANGED <<sent, handled>>
      /\ UNCHANGED <<pc, in_session, in_buffer, need, result, rx, to_module, module, outgoing, waiting,
                     was_gone>>
  BY DEF PhoneReturns, threadVars
<1>2. in_buffer \in Seq(Bytes) /\ rx \in Seq(Bytes)
  BY DEF LinkInv, LinkTypes
<1>3. LinkTypes' /\ ReadInv'
  BY <1>1, EmptySeq DEF LinkInv, LinkTypes, ReadInv
<1>4. \A command, n : Exchange(command, n) => Exchange(command, n)'
  BY <1>1 DEF Exchange, Asked, Answering
<1>5. CheckInv' /\ GoneInv'
  BY <1>1, <1>4 DEF LinkInv, CheckInv, GoneInv
<1>6. torn' => TornInv'
  BY <1>1, PcDistinct DEF LinkInv, TornInv
<1>7. ASSUME ~torn' PROVE CarryInv'
  <2>1. ~torn /\ CarryInv /\ outgoing = <<>> /\ UNCHANGED <<sent, handled>>
    BY <1>1, <1>7 DEF LinkInv, GoneInv
  <2>2. pc # "body"
    <3>1. pc = "body" => in_buffer # <<>>
      BY <1>2 DEF LinkInv, ReadInv
    <3>2. in_buffer # <<>> => in_buffer \o rx # <<>>
      <4>1. Len(in_buffer \o rx) = Len(in_buffer) + Len(rx)
        BY <1>2, ConcatProperties
      <4> QED BY <1>2, <4>1, EmptySeq, LenProperties
    <3> QED BY <1>1, <1>7, <3>1, <3>2
  <2>3. pc = "header" => Nothing
    <3>1. ASSUME pc = "header" PROVE in_buffer = <<>> /\ rx = <<>>
      <4>1. Len(in_buffer \o rx) = Len(in_buffer) + Len(rx) /\ in_buffer \o rx = <<>>
        BY <1>1, <1>2, <1>7, <3>1, ConcatProperties
      <4> QED BY <1>2, <4>1, EmptySeq, LenProperties
    <3>2. ASSUME pc = "header", NEW m \in Messages, Whole(m) PROVE FALSE
      <4>1. <<>> \o (<<>> \o <<>>) = <<>>
        BY ConcatEmptySeq, EmptySeq
      <4>2. m = <<>>
        BY <2>1, <3>1, <3>2, <4>1 DEF Whole
      <4> QED BY <4>2, MessageShape
    <3> QED BY <2>1, <3>1, <3>2 DEF CarryInv, Cut, Nothing
  <2>4. Nothing => Nothing'
    BY <1>1, <2>1 DEF Nothing
  <2> QED BY <1>1, <2>1, <2>2, <2>3, <2>4, PcDistinct DEF CarryInv
<1> QED BY <1>3, <1>5, <1>6, <1>7 DEF LinkInv

\* The user presses the button between sessions.
LEMMA CallbackKeepsInv ==
  ASSUME LinkInv, bluetooth_callback
  PROVE  LinkInv'
<1>1. /\ pc = "off" /\ pc' = "flush"
      /\ UNCHANGED <<in_session, in_buffer, need, result, rx, to_module, module, connected, outgoing, waiting,
                     sent, handled, torn, was_gone>>
  BY DEF bluetooth_callback, Idle, phoneVars, historyVars
<1> QED BY <1>1, PcDistinct DEF LinkInv, LinkTypes, ReadInv, CarryInv, TornInv, CheckInv, GoneInv

-----------------------------------------------------------------------------
(* The thread.                                                             *)

\* What has been read of a message is a beginning of it, and once it is as
\* long as the message it is the message, which then was not cut off.
LEMMA MessageRead ==
  ASSUME LinkInv, NEW m \in Messages, Whole(m) \/ Cut(m)
  PROVE  /\ Len(in_buffer) <= Len(m) /\ \A i \in 1 .. Len(in_buffer) : in_buffer[i] = m[i]
         /\ Len(in_buffer) = Len(m) =>
              in_buffer = m /\ rx = <<>> /\ outgoing = <<>> /\ sent = Append(handled, m)
<1>1. in_buffer \in Seq(Bytes) /\ rx \in Seq(Bytes) /\ outgoing \in Seq(Bytes)
  BY DEF LinkInv, LinkTypes
<1>2. ASSUME NEW rest \in Seq(Bytes), in_buffer \o (rx \o rest) = m
      PROVE  /\ Len(in_buffer) <= Len(m) /\ \A i \in 1 .. Len(in_buffer) : in_buffer[i] = m[i]
             /\ Len(in_buffer) = Len(m) => in_buffer = m /\ rx = <<>> /\ rest = <<>>
  <2>1. /\ Len(in_buffer) <= Len(in_buffer \o (rx \o rest))
        /\ \A i \in 1 .. Len(in_buffer) : (in_buffer \o (rx \o rest))[i] = in_buffer[i]
        /\ Len(in_buffer) = Len(in_buffer \o (rx \o rest)) => AllRead(in_buffer, rx, rest)
    BY <1>1, ReadIsPrefix
  <2> QED BY <1>2, <2>1 DEF AllRead
<1>3. CASE Whole(m)
  BY <1>1, <1>2, <1>3 DEF Whole
<1>4. CASE Cut(m)
  BY <1>2, <1>4 DEF Cut
<1> QED BY <1>3, <1>4

\* An answer of the length asked for has been read to its end.
LEMMA AnswerRead ==
  ASSUME LinkInv, NEW command \in ToModule, NEW n,
         Exchange(command, n), n = IF command = "GK" THEN 7 ELSE 5, Len(in_buffer) = n
  PROVE  /\ rx = <<>> /\ module.say = <<>> /\ to_module = <<>>
         /\ module.mode = IF command = "---" THEN "data" ELSE "command"
         /\ \E link \in BOOLEAN : in_buffer = Answer(command, link) /\ (command = "GK" => link \/ was_gone)
<1>1. in_buffer \in Seq(Bytes) /\ rx \in Seq(Bytes) /\ module.say \in Seq(Bytes)
  BY DEF LinkInv, LinkTypes
<1>2. in_buffer # <<>>
  OBVIOUS
<1>3. Answering(command)
  BY <1>2 DEF Exchange, Asked
<1>4. PICK link \in BOOLEAN : /\ in_buffer \o (rx \o module.say) = Answer(command, link)
                              /\ command = "GK" => link \/ was_gone
  BY <1>3 DEF Answering
<1>5. Len(Answer(command, link)) = n
  BY AnswerShape
<1>6. in_buffer = Answer(command, link) /\ rx = <<>> /\ module.say = <<>>
  <2> DEFINE say == module.say  answer == Answer(command, link)
  <2>1. say \in Seq(Bytes) /\ in_buffer \o (rx \o say) = answer /\ Len(in_buffer) = Len(answer)
    BY <1>1, <1>4, <1>5
  <2> HIDE DEF say, answer
  <2>2. Len(in_buffer) = Len(in_buffer \o (rx \o say)) => AllRead(in_buffer, rx, say)
    BY <1>1, <2>1, ReadIsPrefix
  <2> QED BY <2>1, <2>2 DEF say, answer, AllRead
<1> QED BY <1>3, <1>4, <1>6 DEF Answering

\* A command given with nothing else on the line.
LEMMA TellAsks ==
  ASSUME NEW command, NEW n, NEW at, Tell(command, n, at),
         to_module = <<>>, module'.say = <<>>, rx' = <<>>
  PROVE  /\ pc' = at /\ in_buffer' = <<>> /\ Exchange(command, n)'
<1>1. to_module' = <<command>> /\ in_buffer' = <<>> /\ need' = n /\ pc' = at
  BY DEF Tell, Ask
<1> QED BY <1>1 DEF Exchange, Asked

LEMMA FlushKeepsInv ==
  ASSUME LinkInv, flush_buffer
  PROVE  LinkInv'
<1>1. /\ pc = "flush" /\ pc' = "header" /\ need' = 3 /\ in_buffer' = <<>> /\ rx' = <<>>
      /\ torn' = (torn /\ outgoing # <<>>)
      /\ UNCHANGED <<in_session, result, to_module, module, connected, outgoing, waiting, sent, handled,
                     was_gone>>
  BY DEF flush_buffer, Listen, Ask, phoneVars, Mend
<1>2. ~torn' => Nothing'
  BY <1>1 DEF LinkInv, CarryInv, TornInv, Nothing
<1>3. LinkTypes' /\ ReadInv'
  BY <1>1, EmptySeq DEF LinkInv, LinkTypes, ReadInv
<1> QED BY <1>1, <1>2, <1>3, PcDistinct DEF LinkInv, CarryInv, TornInv, CheckInv, GoneInv

\* The header gives the length of the message.
LEMMA ReceiveHeaderKeepsInv ==
  ASSUME LinkInv, ReceiveHeader
  PROVE  LinkInv'
<1>1. /\ pc = "header" /\ Len(in_buffer) = 3 /\ need = 3
      /\ IF BodySize = 0 THEN pc' = "handle" /\ UNCHANGED need
                         ELSE pc' = "body" /\ need' = 3 + BodySize
      /\ UNCHANGED <<in_session, in_buffer, result, rx, to_module, module, connected, outgoing, waiting, sent,
                     handled, torn, was_gone>>
  BY DEF ReceiveHeader, Full, Idle, phoneVars, historyVars, LinkInv, ReadInv
<1>2. LinkTypes' /\ ReadInv' /\ CheckInv' /\ GoneInv'
  <2>1. pc' \in {"body", "handle"} /\ Len(in_buffer') = 3
    BY <1>1
  <2>2. LinkTypes'
    BY <1>1, <2>1 DEF LinkInv, LinkTypes
  <2>3. ReadInv'
    BY <2>1 DEF ReadInv
  <2>4. CheckInv' /\ GoneInv'
    BY <1>1, <2>1, PcDistinct DEF LinkInv, CheckInv, GoneInv
  <2> QED BY <2>2, <2>3, <2>4
<1>3. torn => TornInv'
  BY <1>1, PcDistinct DEF LinkInv, TornInv
<1>4. ASSUME ~torn PROVE CarryInv'
  <2>1. PICK m \in Messages : Whole(m) \/ Cut(m)
    BY <1>1, <1>4 DEF LinkInv, CarryInv, Nothing
  <2>2. /\ Len(in_buffer) <= Len(m) /\ \A i \in 1 .. Len(in_buffer) : in_buffer[i] = m[i]
        /\ Len(in_buffer) = Len(m) =>
             in_buffer = m /\ rx = <<>> /\ outgoing = <<>> /\ sent = Append(handled, m)
    BY <2>1, MessageRead
  <2>3. Len(m) \in Nat /\ Len(m) >= 3 /\ BodySize = Len(m) - 3
    BY <1>1, <2>2, MessageShape DEF BodySize
  <2>4. Whole(m)' \/ Cut(m)'
    BY <1>1, <2>1 DEF Whole, Cut
  <2>5. CASE BodySize = 0
    <3>1. pc' = "handle" /\ Len(in_buffer) = Len(m)
      BY <1>1, <2>3, <2>5
    <3> QED BY <1>1, <2>2, <3>1, PcDistinct DEF CarryInv
  <2>6. CASE BodySize # 0
    <3>1. pc' = "body" /\ need' = Len(m)
      BY <1>1, <2>3, <2>6
    <3> QED BY <2>4, <3>1, PcDistinct DEF CarryInv
  <2> QED BY <2>5, <2>6
<1> QED BY <1>1, <1>2, <1>3, <1>4 DEF LinkInv

LEMMA ReceiveBodyKeepsInv ==
  ASSUME LinkInv, ReceiveBody
  PROVE  LinkInv'
<1>1. /\ pc = "body" /\ Len(in_buffer) = need /\ pc' = "handle"
      /\ UNCHANGED <<in_session, in_buffer, need, result, rx, to_module, module, connected, outgoing, waiting,
                     sent, handled, torn, was_gone>>
  BY DEF ReceiveBody, Full, Idle, phoneVars, historyVars
<1>2. LinkTypes' /\ ReadInv' /\ CheckInv' /\ GoneInv'
  BY <1>1, PcDistinct DEF LinkInv, LinkTypes, ReadInv, CheckInv, GoneInv
<1>3. torn => TornInv'
  BY <1>1, PcDistinct DEF LinkInv, TornInv
<1>4. ASSUME ~torn PROVE CarryInv'
  <2>1. PICK m \in Messages : need = Len(m) /\ (Whole(m) \/ Cut(m))
    BY <1>1, <1>4 DEF LinkInv, CarryInv
  <2>2. in_buffer = m /\ rx = <<>> /\ outgoing = <<>> /\ sent = Append(handled, m)
    BY <1>1, <2>1, MessageRead
  <2> QED BY <1>1, <2>2, PcDistinct DEF CarryInv
<1> QED BY <1>1, <1>2, <1>3, <1>4 DEF LinkInv

LEMMA HandleKeepsInv ==
  ASSUME LinkInv, HandleMessage
  PROVE  LinkInv'
<1>1. /\ pc = "handle" /\ handled' = (IF torn THEN handled ELSE Append(handled, in_buffer))
      /\ waiting' = FALSE
      /\ \/ pc' = "header" /\ need' = 3 /\ in_buffer' = <<>> /\ in_session' = TRUE
         \/ pc' = "off" /\ UNCHANGED <<in_session, in_buffer, need>>
      /\ UNCHANGED <<result, rx, to_module, module, connected, outgoing, sent, was_gone>>
      /\ torn' = (torn /\ (rx # <<>> \/ outgoing # <<>>))
  BY DEF HandleMessage, Listen, Ask, Mend
<1>2. ~torn => in_buffer \in Messages /\ rx = <<>> /\ outgoing = <<>>
  BY <1>1 DEF LinkInv, CarryInv
<1>3. sent = handled'
  BY <1>1 DEF LinkInv, CarryInv, TornInv
<1>4. handled' \in Seq(Messages) /\ in_session' \in BOOLEAN /\ in_buffer' \in Seq(Bytes)
  <2>1. handled \in Seq(Messages) /\ in_buffer \in Seq(Bytes) /\ in_session \in BOOLEAN
    BY DEF LinkInv, LinkTypes
  <2>2. handled' \in Seq(Messages)
    BY <1>1, <1>2, <2>1, AppendProperties
  <2>3. in_session' \in BOOLEAN /\ in_buffer' \in Seq(Bytes)
    BY <1>1, <2>1, EmptySeq
  <2> QED BY <2>2, <2>3
<1>5. LinkTypes' /\ ReadInv'
  BY <1>1, <1>4 DEF LinkInv, LinkTypes, ReadInv
<1>6. CheckInv' /\ GoneInv'
  BY <1>1, PcDistinct DEF LinkInv, CheckInv, GoneInv
<1>7. ~torn' => rx = <<>> /\ outgoing = <<>>
  BY <1>1, <1>2 DEF LinkInv, LinkTypes
<1>8. ~torn' /\ pc' = "header" => Nothing'
  BY <1>1, <1>3, <1>7 DEF Nothing
<1>9. ~torn' => CarryInv'
  BY <1>1, <1>3, <1>7, <1>8, PcDistinct DEF CarryInv
<1>10. TornInv'
  BY <1>1, <1>3, PcDistinct DEF TornInv
<1> QED BY <1>5, <1>6, <1>9, <1>10 DEF LinkInv

\* When time runs out no whole message is under way.
LEMMA SilenceMeansNothingSent ==
  ASSUME LinkInv, pc = "header", Len(in_buffer) < 3, rx = <<>>, outgoing = <<>>
  PROVE  sent = handled
<1>1. ASSUME NEW m \in Messages, Whole(m) PROVE FALSE
  <2>1. in_buffer \o (rx \o outgoing) = m /\ in_buffer \in Seq(Bytes)
    BY <1>1 DEF Whole, LinkInv, LinkTypes
  <2>2. <<>> \o <<>> = <<>> /\ in_buffer \o <<>> = in_buffer
    BY <2>1, ConcatEmptySeq, EmptySeq
  <2>3. in_buffer = m
    BY <2>1, <2>2
  <2> QED BY <1>1, <2>3, MessageShape
<1> QED BY <1>1 DEF LinkInv, CarryInv, TornInv, Nothing, Cut

\* Time runs out between messages, or after one that was cut off.
LEMMA TimeoutKeepsInv ==
  ASSUME LinkInv, Timeout
  PROVE  LinkInv'
<1>1. /\ pc = "header" /\ Len(in_buffer) < 3 /\ rx = <<>> /\ outgoing = <<>>
      /\ \/ Tell("$$$", 5, "check.enter")
         \/ pc' = "off" /\ UNCHANGED <<in_buffer, need, to_module>>
      /\ torn' = FALSE /\ was_gone' = ~connected
      /\ UNCHANGED <<in_session, result, rx, module, connected, outgoing, waiting, sent, handled>>
  BY DEF Timeout, Idle, phoneVars, Mend
<1>2. module.say = <<>> /\ to_module = <<>> /\ module.mode = "data"
  BY <1>1, PcDistinct DEF LinkInv, CheckInv
<1>4. sent = handled
  BY <1>1, SilenceMeansNothingSent
<1>5. CASE Tell("$$$", 5, "check.enter")
  <2>1. pc' = "check.enter" /\ in_buffer' = <<>> /\ Exchange("$$$", 5)'
    BY <1>1, <1>2, <1>5, TellAsks
  <2>2. LinkTypes'
    BY <1>1, <2>1, EmptySeq, PcDistinct DEF LinkInv, LinkTypes
  <2> QED BY <1>1, <1>4, <2>1, <2>2, PcDistinct DEF LinkInv, ReadInv, CarryInv, TornInv, CheckInv, GoneInv
<1>6. CASE pc' = "off" /\ UNCHANGED <<in_buffer, need, to_module>>
  BY <1>1, <1>2, <1>4, <1>6, PcDistinct DEF LinkInv, LinkTypes, ReadInv, CarryInv, TornInv, CheckInv, GoneInv
<1> QED BY <1>1, <1>5, <1>6

LEMMA CheckConnectionKeepsInv ==
  ASSUME LinkInv, check_connection
  PROVE  LinkInv'
<1>1. /\ pc = "check.enter" /\ Len(in_buffer) = need /\ Tell("GK", 7, "check.get")
      /\ UNCHANGED <<in_session, result, rx, module, connected, outgoing, waiting, sent, handled, torn,
                       was_gone>>
  BY DEF check_connection, Full, Idle, phoneVars, historyVars
<1>2. Exchange("$$$", 5) /\ need = 5
  BY <1>1 DEF LinkInv, CheckInv, Exchange
<1>3. rx = <<>> /\ module.say = <<>> /\ to_module = <<>>
  BY <1>1, <1>2, AnswerRead DEF ToModule
<1>4. pc' = "check.get" /\ in_buffer' = <<>> /\ Exchange("GK", 7)'
  BY <1>1, <1>3, TellAsks
<1>5. LinkTypes'
  BY <1>1, <1>4, EmptySeq, PcDistinct DEF LinkInv, LinkTypes
<1> QED BY <1>1, <1>4, <1>5, PcDistinct DEF LinkInv, ReadInv, CarryInv, TornInv, CheckInv, GoneInv

\* The status is read at its first byte.
LEMMA ExitCmdModeKeepsInv ==
  ASSUME LinkInv, exit_cmd_mode
  PROVE  LinkInv'
<1>1. /\ pc = "check.get" /\ Len(in_buffer) = need /\ Tell("---", 5, "check.exit")
      /\ result' = (in_buffer[1].v = 49)
      /\ UNCHANGED <<in_session, rx, module, connected, outgoing, waiting, sent, handled, torn, was_gone>>
  BY DEF exit_cmd_mode, Full, Idle, phoneVars, historyVars
<1>2. Exchange("GK", 7) /\ need = 7
  BY <1>1 DEF LinkInv, CheckInv, Exchange
<1>3. /\ rx = <<>> /\ module.say = <<>> /\ to_module = <<>>
      /\ \E link \in BOOLEAN : in_buffer = Answer("GK", link) /\ (link \/ was_gone)
  BY <1>1, <1>2, AnswerRead DEF ToModule
<1>4. PICK link \in BOOLEAN : in_buffer = Answer("GK", link) /\ (link \/ was_gone)
  BY <1>3
<1>5. result' <=> link
  BY <1>1, <1>4, AnswerShape DEF ToModule
<1>6. GoneInv' /\ result' \in BOOLEAN
  BY <1>1, <1>4, <1>5, PcDistinct DEF LinkInv, GoneInv
<1>7. pc' = "check.exit" /\ in_buffer' = <<>> /\ Exchange("---", 5)'
  BY <1>1, <1>3, TellAsks
<1>8. LinkTypes'
  BY <1>1, <1>6, <1>7, EmptySeq, PcDistinct DEF LinkInv, LinkTypes
<1> QED BY <1>1, <1>6, <1>7, <1>8, PcDistinct DEF LinkInv, ReadInv, CarryInv, TornInv, CheckInv

\* The launcher listens again, or gives the session up.
LEMMA ConnectedKeepsInv ==
  ASSUME LinkInv, bluetooth_connected
  PROVE  LinkInv'
<1>1. /\ pc = "check.exit" /\ Len(in_buffer) = need
      /\ \/ pc' = "header" /\ need' = 3 /\ in_buffer' = <<>> /\ UNCHANGED in_session
         \/ pc' = "off" /\ in_session' = FALSE /\ UNCHANGED <<in_buffer, need>>
      /\ UNCHANGED <<result, rx, to_module, module, connected, outgoing, waiting, sent, handled, torn,
                       was_gone>>
  BY DEF bluetooth_connected, Full, Idle, Listen, Ask, phoneVars, historyVars
<1>2. Exchange("---", 5) /\ need = 5
  BY <1>1 DEF LinkInv, CheckInv, Exchange
<1>3. /\ rx = <<>> /\ module.say = <<>> /\ to_module = <<>> /\ module.mode = "data"
  BY <1>1, <1>2, AnswerRead DEF ToModule
<1>4. outgoing = <<>> /\ sent = handled
  BY <1>1, PcDistinct DEF LinkInv, CarryInv, TornInv
<1>5. pc' = "header" => Nothing'
  BY <1>1, <1>3, <1>4 DEF Nothing
<1>6. LinkTypes'
  BY <1>1, EmptySeq DEF LinkInv, LinkTypes
<1> QED BY <1>1, <1>3, <1>4, <1>5, <1>6, PcDistinct DEF LinkInv, ReadInv, CarryInv, TornInv, CheckInv, GoneInv

-----------------------------------------------------------------------------
(* The invariant.                                                          *)

LEMMA LinkBase == Init => LinkInv
<1> SUFFICES ASSUME Init PROVE LinkInv
  OBVIOUS
<1>1. LinkTypes
  BY EmptySeq DEF Init, LinkTypes
<1> QED BY <1>1, PcDistinct DEF Init, LinkInv, ReadInv, CarryInv, CheckInv, GoneInv

LEMMA LinkStutter ==
  ASSUME LinkInv, UNCHANGED vars
  PROVE  LinkInv'
<1>1. UNCHANGED <<pc, in_session, in_buffer, need, result, rx, to_module, module, connected, outgoing,
                  waiting, sent, handled, torn, was_gone>>
  BY DEF vars, threadVars, phoneVars, historyVars
<1>2. LinkTypes' /\ GoneInv' /\ ReadInv' /\ (TornInv => TornInv')
  BY <1>1 DEF LinkInv, LinkTypes, GoneInv, ReadInv, TornInv
<1>3. CarryInv => CarryInv'
  BY <1>1 DEF CarryInv, Nothing, Whole, Cut
<1>4. CheckInv'
  BY <1>1 DEF LinkInv, CheckInv, Exchange, Asked, Answering
<1> QED BY <1>1, <1>2, <1>3, <1>4 DEF LinkInv

LEMMA LinkStep == LinkInv /\ [Next]_vars => LinkInv'
<1> SUFFICES ASSUME LinkInv, [Next]_vars PROVE LinkInv'
  OBVIOUS
<1>1. CASE Line
  BY <1>1, PhoneByteKeepsInv, ModuleCommandKeepsInv, ModuleByteKeepsInv DEF Line
<1>2. CASE PhoneSend \/ PhoneLeaves \/ PhoneReturns \/ bluetooth_callback
  BY <1>2, PhoneSendKeepsInv, PhoneLeavesKeepsInv, PhoneReturnsKeepsInv, CallbackKeepsInv
<1>3. CASE Thread
  BY <1>3, ReadKeepsInv, FlushKeepsInv, ReceiveHeaderKeepsInv, ReceiveBodyKeepsInv, HandleKeepsInv,
     TimeoutKeepsInv, CheckConnectionKeepsInv, ExitCmdModeKeepsInv, ConnectedKeepsInv DEF Thread
<1> QED BY <1>1, <1>2, <1>3, LinkStutter DEF Next

(* In every reachable state the line, what has been read and what the      *)
(* sender still holds make up one message, its beginning, or one answer.   *)
THEOREM LinkInduction == Spec => []LinkInv
<1> QED BY LinkBase, LinkStep, PTL DEF Spec

-----------------------------------------------------------------------------
(* Whose bytes are read.                                                   *)

PhoneBytes == [v : Nat, from : {"phone"}]

LEMMA MessageIsPhones ==
  ASSUME NEW m \in Messages
  PROVE  m \in Seq(PhoneBytes)
<1>1. m \in Seq(Bytes) /\ Len(m) \in Nat /\ \A i \in 1 .. Len(m) : m[i].from = "phone"
  BY MessageShape
<1>2. ASSUME NEW i \in 1 .. Len(m) PROVE m[i] \in PhoneBytes
  <2>1. m[i] \in Bytes /\ m[i].from = "phone"
    BY <1>1, <1>2, ElementOfSeq
  <2> QED BY <2>1 DEF Bytes, PhoneBytes
<1>3. m = [i \in 1 .. Len(m) |-> m[i]]
  BY <1>1, LenProperties
<1> QED BY <1>1, <1>2, <1>3

\* Outside of a check there is nothing on the line but the phone's bytes, on a
\* torn line too.
LineInv ==
  /\ outgoing \in Seq(PhoneBytes)
  /\ pc \notin Checking => rx \in Seq(PhoneBytes)
  /\ pc \in {"header", "body"} => in_buffer \in Seq(PhoneBytes)

LEMMA LineStep == LinkInv /\ LineInv /\ [Next]_vars => LineInv'
<1> SUFFICES ASSUME LinkInv, LineInv, [Next]_vars PROVE LineInv'
  OBVIOUS
<1> USE EmptySeq, PcDistinct DEF LineInv
<1>1. CASE PhoneByte
  <2>1. /\ outgoing # <<>> /\ Arrive(Head(outgoing)) /\ outgoing' = Tail(outgoing)
        /\ UNCHANGED <<pc, in_buffer>>
    BY <1>1 DEF PhoneByte, threadVars
  <2>2. outgoing' \in Seq(PhoneBytes)
    BY <2>1, HeadTailProperties
  <2>3. rx \in Seq(PhoneBytes) => Append(rx, Head(outgoing)) \in Seq(PhoneBytes)
    BY <2>1, MoveHead
  <2> QED BY <2>1, <2>2, <2>3 DEF Arrive
<1>2. CASE ModuleCommand \/ PhoneReturns \/ UNCHANGED vars
  BY <1>2 DEF ModuleCommand, PhoneReturns, vars, threadVars, phoneVars
<1>3. CASE ModuleByte
  <2>1. UNCHANGED <<pc, in_buffer, outgoing>> /\ pc \in Checking
    BY <1>3, ModuleByteMoves DEF ModuleByte, threadVars, phoneVars
  <2> QED BY <2>1
<1>4. CASE PhoneSend
  <2>1. PICK id \in {ID_ANDROID_HANDSHAKE, ID_COMMAND}, size \in Sizes : outgoing' = Message(id, size)
    BY <1>4 DEF PhoneSend
  <2>2. outgoing' \in Seq(PhoneBytes)
    BY <2>1, MessageIsPhones DEF Messages
  <2> QED BY <1>4, <2>2 DEF PhoneSend, threadVars
<1>5. CASE PhoneLeaves
  BY <1>5 DEF PhoneLeaves, threadVars
<1>6. CASE ReadByte
  <2>1. /\ rx # <<>> /\ in_buffer' = Append(in_buffer, Head(rx)) /\ rx' = Tail(rx) /\ pc \in Reading
        /\ UNCHANGED <<pc, outgoing>>
    BY <1>6 DEF ReadByte, phoneVars
  <2>2. CASE pc \in {"header", "body"}
    BY <2>1, <2>2, MoveHead
  <2> QED BY <2>1, <2>2
<1>7. CASE bluetooth_callback \/ flush_buffer
  BY <1>7 DEF bluetooth_callback, flush_buffer, Idle, Listen, Ask, phoneVars
<1>8. CASE ReceiveHeader \/ ReceiveBody
  BY <1>8 DEF ReceiveHeader, ReceiveBody, Full, Idle, phoneVars
<1>9. CASE HandleMessage
  BY <1>9 DEF HandleMessage, Listen, Ask
<1>10. CASE Timeout \/ check_connection \/ exit_cmd_mode
  BY <1>10 DEF Timeout, check_connection, exit_cmd_mode, Tell, Ask, Full, Idle, phoneVars
<1>11. CASE bluetooth_connected
  <2>1. /\ pc = "check.exit" /\ Len(in_buffer) = need /\ UNCHANGED <<rx, outgoing>>
        /\ \/ pc' = "header" /\ in_buffer' = <<>>
           \/ pc' = "off"
    BY <1>11 DEF bluetooth_connected, Full, Idle, Listen, Ask, phoneVars
  <2>2. Exchange("---", 5) /\ need = 5
    BY <2>1 DEF LinkInv, CheckInv, Exchange
  <2>3. rx = <<>>
    BY <2>1, <2>2, AnswerRead DEF ToModule
  <2> QED BY <2>1, <2>3
<1> QED BY <1>1, <1>2, <1>3, <1>4, <1>5, <1>6, <1>7, <1>8, <1>9, <1>10, <1>11 DEF Next, Line, Thread

(* Each answer the code waits for is the answer to the command it just     *)
(* gave: what has been read is a beginning of one answer, or bytes of the  *)
(* phone (bluetooth.c:26-48,66-75).                                        *)
THEOREM AnswersMatch == Spec => []AnswersMatchCommands
<1>1. LinkInv /\ LineInv => AnswersMatchCommands
  <2> SUFFICES ASSUME LinkInv, LineInv, NEW i \in DOMAIN in_buffer
               PROVE  /\ pc = "check.enter" => in_buffer[i].from = "$$$"
                      /\ pc = "check.get" => in_buffer[i].from = "GK"
                      /\ pc = "check.exit" => in_buffer[i].from = "---"
                      /\ pc \in {"header", "body"} => in_buffer[i].from = "phone"
    BY DEF AnswersMatchCommands
  <2>1. /\ in_buffer \in Seq(Bytes) /\ rx \in Seq(Bytes) /\ module.say \in Seq(Bytes)
        /\ i \in 1 .. Len(in_buffer) /\ in_buffer # <<>>
    BY EmptySeq, LenProperties DEF LinkInv, LinkTypes
  <2>2. ASSUME NEW command \in ToModule, NEW n, Exchange(command, n)
        PROVE  in_buffer[i].from = command
    <3>1. PICK link \in BOOLEAN : in_buffer \o (rx \o module.say) = Answer(command, link)
      BY <2>1, <2>2 DEF Exchange, Asked, Answering
    <3> DEFINE say == module.say  answer == Answer(command, link)
    <3>2. say \in Seq(Bytes) /\ in_buffer \o (rx \o say) = answer
      BY <2>1, <3>1
    <3>3. \A j \in 1 .. Len(answer) : answer[j].from = command
      BY AnswerShape
    <3>4. Len(answer) \in Nat /\ Len(in_buffer) \in Nat
      BY <2>1, AnswerShape, LenProperties
    <3> HIDE DEF say, answer
    <3>5. /\ Len(in_buffer) <= Len(in_buffer \o (rx \o say))
          /\ \A j \in 1 .. Len(in_buffer) : (in_buffer \o (rx \o say))[j] = in_buffer[j]
      BY <2>1, <3>2, ReadIsPrefix
    <3> QED BY <2>1, <3>2, <3>3, <3>4, <3>5
  <2>3. pc \in {"header", "body"} => in_buffer[i].from = "phone"
    <3>1. ASSUME in_buffer \in Seq(PhoneBytes) PROVE in_buffer[i].from = "phone"
      <4>1. in_buffer[i] \in PhoneBytes
        BY <2>1, <3>1, ElementOfSeq
      <4> QED BY <4>1 DEF PhoneBytes
    <3> QED BY <3>1 DEF LineInv
  <2> QED BY <2>2, <2>3 DEF LinkInv, CheckInv, ToModule
<1>2. Init => LineInv
  BY EmptySeq DEF Init, LineInv
<1> QED BY <1>1, <1>2, LineStep, LinkInduction, PTL DEF Spec

(* The module is out of command mode whenever the launcher listens to the  *)
(* phone (bluetooth.c:139-149).                                            *)
THEOREM ListensToPhone == Spec => []ListensInDataMode
<1>1. LinkInv => ListensInDataMode
  BY PcDistinct DEF LinkInv, CheckInv, ListensInDataMode
<1> QED BY <1>1, LinkInduction, PTL

\* An answer of which nothing is on its way any more has been read in full.
LEMMA QuietAnswerRead ==
  ASSUME LinkInv, Quiet, NEW command \in ToModule, NEW n, Exchange(command, n),
         n = IF command = "GK" THEN 7 ELSE 5
  PROVE  need = n /\ Len(in_buffer) = n
<1>1. in_buffer \in Seq(Bytes) /\ rx = <<>> /\ module.say = <<>> /\ to_module = <<>>
  BY DEF Quiet, LinkInv, LinkTypes
<1>2. Answering(command)
  <2>1. <<command>> # <<>>
    OBVIOUS
  <2> QED BY <1>1, <2>1 DEF Exchange, Asked
<1>3. PICK link \in BOOLEAN : in_buffer \o (rx \o module.say) = Answer(command, link)
  BY <1>2 DEF Answering
<1>4. <<>> \o <<>> = <<>> /\ in_buffer \o <<>> = in_buffer
  BY <1>1, ConcatEmptySeq, EmptySeq
<1>5. in_buffer = Answer(command, link)
  BY <1>1, <1>3, <1>4
<1> QED BY <1>5, AnswerShape DEF Exchange

(* A read without a timeout is left waiting for bytes that nobody sends    *)
(* only in the body of a message that its phone cut off: the lengths asked *)
(* for never exceed what is sent (bluetooth.c:26-48,103).                  *)
THEOREM OnlyCutOffBlocksReads == Spec => []OnlyCutOffBlocks
<1>1. LinkInv => OnlyCutOffBlocks
  <2> SUFFICES ASSUME LinkInv, Quiet, pc \in {"body"} \cup Checking, Len(in_buffer) < need
               PROVE  CutOff
    BY DEF OnlyCutOffBlocks
  <2>1. in_buffer \in Seq(Bytes) /\ Len(in_buffer) \in Nat
    BY DEF LinkInv, LinkTypes
  <2>2. ASSUME NEW command \in ToModule, NEW n, Exchange(command, n), n = IF command = "GK" THEN 7 ELSE 5
        PROVE  FALSE
    BY <2>1, <2>2, QuietAnswerRead
  <2>3. pc = "body"
    BY <2>2, PcDistinct DEF LinkInv, CheckInv, ToModule
  <2>4. CASE torn
    BY <2>3, <2>4 DEF Quiet, CutOff
  <2>5. CASE ~torn
    <3>1. PICK m \in Messages : need = Len(m) /\ (Whole(m) \/ Cut(m))
      BY <2>3, <2>5 DEF LinkInv, CarryInv
    <3>2. <<>> \o <<>> = <<>> /\ in_buffer \o <<>> = in_buffer
      BY <2>1, ConcatEmptySeq, EmptySeq
    <3>3. Whole(m) => in_buffer = m
      BY <3>2 DEF Whole, Quiet
    <3>4. ~Whole(m)
      BY <2>1, <3>1, <3>3
    <3> QED BY <2>3, <3>1, <3>4 DEF Cut, Quiet, CutOff
  <2> QED BY <2>4, <2>5
<1> QED BY <1>1, LinkInduction, PTL

(* A session is given up only if the phone was gone at some moment since   *)
(* the check that ended it began, whatever it did in between               *)
(* (main.c:419-425, bluetooth.c:66-75).                                    *)
THEOREM DropsOnlyIfGone == Spec => DropOnlyIfGone
<1>1. LinkInv /\ [Next]_vars => [in_session /\ ~in_session' => was_gone]_vars
  <2> SUFFICES ASSUME LinkInv, Next, in_session, ~in_session'
               PROVE  was_gone
    OBVIOUS
  <2>1. ~Line /\ ~PhoneSend /\ ~PhoneLeaves /\ ~PhoneReturns /\ ~bluetooth_callback
    BY DEF Line, PhoneByte, ModuleCommand, ModuleByte, PhoneSend, PhoneLeaves, PhoneReturns,
           bluetooth_callback, threadVars
  <2>2. /\ ~ReadByte /\ ~flush_buffer /\ ~ReceiveHeader /\ ~ReceiveBody /\ ~HandleMessage
        /\ ~Timeout /\ ~check_connection /\ ~exit_cmd_mode
    BY DEF ReadByte, flush_buffer, ReceiveHeader, ReceiveBody, HandleMessage, Timeout, check_connection,
           exit_cmd_mode
  <2>3. bluetooth_connected
    BY <2>1, <2>2 DEF Next, Thread
  <2> QED BY <2>3 DEF bluetooth_connected, Full, Listen, LinkInv, GoneInv
<1> QED BY <1>1, LinkInduction, PTL DEF Spec, DropOnlyIfGone

-----------------------------------------------------------------------------
(* A session whose phone is gone counts down.                              *)

\* The launcher is in a session only while it listens, handles or checks.
SessionInv == LinkInv /\ (in_session => pc \notin {"off", "flush"})

LEMMA SessionStep == SessionInv /\ [Next]_vars => SessionInv'
<1> SUFFICES ASSUME SessionInv, [Next]_vars PROVE SessionInv'
  OBVIOUS
<1> USE DEF SessionInv
<1>1. LinkInv'
  BY LinkStep
<1>2. CASE PhoneSend \/ PhoneLeaves \/ PhoneReturns \/ PhoneByte
  BY <1>1, <1>2 DEF PhoneSend, PhoneLeaves, PhoneReturns, PhoneByte, threadVars
<1>3. CASE ModuleCommand \/ ModuleByte \/ UNCHANGED vars
  BY <1>1, <1>3 DEF ModuleCommand, ModuleByte, vars, threadVars, phoneVars
<1>4. CASE bluetooth_callback \/ ReadByte \/ flush_buffer \/ ReceiveHeader \/ ReceiveBody
  BY <1>1, <1>4 DEF bluetooth_callback, ReadByte, flush_buffer, ReceiveHeader, ReceiveBody, Full, Listen,
    Idle, phoneVars
<1>5. CASE HandleMessage
  BY <1>1, <1>5 DEF HandleMessage, Full, Listen
<1>6. CASE Timeout \/ check_connection \/ exit_cmd_mode \/ bluetooth_connected
  BY <1>1, <1>6 DEF Timeout, check_connection, exit_cmd_mode, bluetooth_connected, Full, Tell, Listen,
    Idle, phoneVars
<1> QED BY <1>2, <1>3, <1>4, <1>5, <1>6 DEF Next, Line, Thread

\* The stages are numbers, and so is the distance.
DistanceTerms ==
  /\ Stage \in Nat /\ Len(to_module) \in Nat /\ Len(module.say) \in Nat
  /\ Len(rx) \in Nat /\ Len(in_buffer) \in Nat

LEMMA DistanceTypes == LinkInv => DistanceTerms
<1> SUFFICES ASSUME LinkInv PROVE DistanceTerms
  OBVIOUS
<1>1. rx \in Seq(Bytes) /\ module.say \in Seq(Bytes) /\ in_buffer \in Seq(Bytes)
  BY DEF LinkInv, LinkTypes
<1>2. to_module \in Seq(ToModule)
  <2>1. \A command \in ToModule : \A n : Exchange(command, n) => to_module = <<command>> \/ to_module = <<>>
    BY DEF Exchange, Asked, Answering
  <2>2. <<>> \in Seq(ToModule) /\ \A command \in ToModule : <<command>> \in Seq(ToModule)
    OBVIOUS
  <2>3. to_module = <<>> \/ \E command \in ToModule : to_module = <<command>>
    BY <2>1 DEF LinkInv, CheckInv, Checking, ToModule
  <2> QED BY <2>2, <2>3
<1>3. /\ Len(to_module) \in Nat /\ Len(module.say) \in Nat
      /\ Len(rx) \in Nat /\ Len(in_buffer) \in Nat
  <2>1. Len(to_module) \in Nat
    BY <1>2, LenProperties
  <2>2. Len(module.say) \in Nat /\ Len(rx) \in Nat /\ Len(in_buffer) \in Nat
    BY <1>1, LenProperties
  <2> QED BY <2>1, <2>2
<1>4. Stage \in Nat
  BY DEF Stage
<1> QED BY <1>3, <1>4 DEF DistanceTerms

LEMMA DistanceTypesNext == LinkInv' => DistanceTerms'
  BY DistanceTypes, PTL

LEMMA DistanceUntorn ==
  ~torn => Distance = 16 * Stage + 15 * Len(to_module) + 2 * Len(module.say) + Len(rx)
BY DEF Distance

LEMMA DistanceUntornNext ==
  ~torn' => Distance' = 16 * Stage' + 15 * Len(to_module') + 2 * Len(module'.say) + Len(rx')
BY DEF Distance

\* A byte that moves on leaves the stage as it is.
LEMMA BytesCountDown ==
  ASSUME LinkInv, LinkInv', ReadByte \/ ModuleByte
  PROVE  Distance' < Distance
<1> DEFINE say == module.say
<1>1. /\ in_buffer \in Seq(Bytes) /\ rx \in Seq(Bytes) /\ say \in Seq(Bytes)
      /\ in_buffer' \in Seq(Bytes) /\ rx' \in Seq(Bytes) /\ say' \in Seq(Bytes)
  BY DEF LinkInv, LinkTypes
<1>2. UNCHANGED <<pc, result, to_module, sent, handled, torn>>
  BY DEF ReadByte, ModuleByte, threadVars, phoneVars, historyVars
<1>3. CASE ReadByte
  <2>1. rx # <<>> /\ in_buffer' = Append(in_buffer, Head(rx)) /\ rx' = Tail(rx) /\ say' = say
    BY <1>3 DEF ReadByte
  <2>2. Len(rx') = Len(rx) - 1 /\ Len(in_buffer') = Len(in_buffer) + 1
    BY <1>1, <2>1, HeadTailProperties, AppendProperties
  <2>3. in_buffer' \o (rx' \o say') = in_buffer \o (rx \o say)
    BY <1>3, ReadKeepsSum, <1>1, <2>1
  <2>4. Stage' = Stage
    BY <1>2, <2>3 DEF Stage, StillLinked
  <2>5. DistanceTerms /\ DistanceTerms'
    BY DistanceTypes, DistanceTypesNext
  <2>6. CASE torn
    BY <1>2, <2>2, <2>5, <2>6 DEF Distance, DistanceTerms
  <2>7. CASE ~torn
    <3>1. ~torn'
      BY <1>2, <2>7
    <3>2. Len(to_module') = Len(to_module) /\ Len(module'.say) = Len(module.say)
      BY <1>2, <2>1
    <3>3. Distance = 16 * Stage + 15 * Len(to_module) + 2 * Len(module.say) + Len(rx)
      BY <2>7, DistanceUntorn
    <3>4. Distance' = 16 * Stage + 15 * Len(to_module) + 2 * Len(module.say) + (Len(rx) - 1)
      BY <2>2, <2>4, <3>1, <3>2, DistanceUntornNext
    <3>5. Stage \in Nat /\ Len(to_module) \in Nat /\ Len(module.say) \in Nat /\ Len(rx) \in Nat
      BY <2>5 DEF DistanceTerms
    <3>6. Distance \in Int /\ Distance' = Distance - 1
      BY <3>3, <3>4, <3>5
    <3> QED BY <3>6
  <2> QED BY <2>6, <2>7
<1>4. CASE ModuleByte
  <2>1. say # <<>> /\ rx' = Append(rx, Head(say)) /\ say' = Tail(say) /\ in_buffer' = in_buffer
        /\ rx' \o say' = rx \o say
    BY <1>4, ModuleByteMoves
  <2>2. Len(rx') = Len(rx) + 1 /\ Len(say') = Len(say) - 1
    <3>1. Head(say) \in Bytes /\ Len(Tail(say)) = Len(say) - 1
      BY <1>1, <2>1, HeadTailProperties
    <3>2. Len(Append(rx, Head(say))) = Len(rx) + 1
      BY <1>1, <3>1, AppendProperties
    <3> QED BY <2>1, <3>1, <3>2
  <2>3. Stage' = Stage
    BY <1>2, <2>1 DEF Stage, StillLinked
  <2>4. ~torn /\ ~torn'
    BY <1>2, <1>4, ModuleByteMoves DEF LinkInv, TornInv
  <2> QED BY <1>2, <2>2, <2>3, <2>4, DistanceTypes, DistanceTypesNext, DistanceUntorn, DistanceUntornNext
    DEF DistanceTerms
<1> QED BY <1>3, <1>4

\* A command becomes at most seven bytes, and the status it brings is fresh.
LEMMA CommandCountsDown ==
  ASSUME LinkInv, LinkInv', ModuleCommand, ~connected
  PROVE  Distance' < Distance
<1> DEFINE command == Head(to_module)
<1>1. /\ to_module # <<>> /\ to_module' = Tail(to_module) /\ module.say = <<>>
      /\ module'.say = Answer(command, connected)
      /\ UNCHANGED <<pc, in_buffer, result, rx, sent, handled, torn>>
  BY DEF ModuleCommand, threadVars, phoneVars, historyVars
<1>2. pc \in Checking /\ ~torn /\ ~torn'
  BY <1>1 DEF LinkInv, CheckInv, TornInv
<1>3. /\ pc = "check.enter" => Asked("$$$") /\ command = "$$$"
      /\ pc = "check.get" => Asked("GK") /\ command = "GK"
      /\ pc = "check.exit" => Asked("---") /\ command = "---"
  <2>1. ASSUME NEW c, NEW n, Exchange(c, n) PROVE Asked(c) /\ command = c
    BY <1>1, <2>1 DEF Exchange, Asked, Answering
  <2> QED BY <2>1 DEF LinkInv, CheckInv
<1>4. /\ command \in ToModule /\ to_module = <<command>> /\ to_module' = <<>>
      /\ in_buffer = <<>> /\ rx = <<>>
  <2>1. Asked(command) /\ command \in ToModule
    BY <1>2, <1>3 DEF Checking, ToModule
  <2>2. to_module = <<command>> /\ in_buffer = <<>> /\ rx = <<>>
    BY <1>1, <2>1 DEF Asked
  <2> HIDE DEF command
  <2>3. Tail(<<command>>) = <<>>
    OBVIOUS
  <2> QED BY <1>1, <2>1, <2>2, <2>3
<1>5. Len(to_module) = 1 /\ Len(to_module') = 0 /\ Len(module.say) = 0 /\ Len(rx') = Len(rx)
  BY <1>1, <1>4
<1>6. connected = FALSE
  BY DEF LinkInv, LinkTypes
<1>7. Len(module'.say) = IF command = "GK" THEN 7 ELSE 5
  BY <1>1, <1>4, <1>6, AnswerShape
<1>8. pc = "check.get" => ~StillLinked /\ ~StillLinked'
  <2>1. SUFFICES ASSUME pc = "check.get" PROVE ~StillLinked /\ ~StillLinked'
    OBVIOUS
  <2>2. module'.say = Answer("GK", FALSE) /\ ~(Answer("GK", FALSE)[1].v = 49)
        /\ Answer("GK", FALSE) \in Seq(Bytes)
    BY <1>1, <1>3, <1>6, <2>1, AnswerShape DEF ToModule
  <2>3. in_buffer' = <<>> /\ rx' = <<>>
    BY <1>1, <1>4
  <2>4. <<>> \o (<<>> \o Answer("GK", FALSE)) = Answer("GK", FALSE)
    BY <2>2, ConcatEmptySeq
  <2>5. in_buffer' \o (rx' \o module'.say) = Answer("GK", FALSE)
    BY <2>2, <2>3, <2>4
  <2> QED BY <1>1, <2>1, <2>2, <2>5 DEF StillLinked
<1>9. pc = "check.exit" => (StillLinked' <=> StillLinked)
  BY <1>1 DEF StillLinked
<1>10. Stage' = Stage
  BY <1>1, <1>2, <1>8, <1>9, PcDistinct DEF Stage, Checking
<1>11. Distance' = 16 * Stage + 2 * Len(module'.say) + Len(rx)
  BY <1>2, <1>5, <1>7, <1>10, DistanceTypes, DistanceUntornNext DEF DistanceTerms
<1>12. Distance = 16 * Stage + 15 + Len(rx)
  BY <1>2, <1>5, DistanceTypes, DistanceUntorn DEF DistanceTerms
<1> QED BY <1>7, <1>11, <1>12, DistanceTypes DEF DistanceTerms

\* A message that is complete was sent whole.
LEMMA MessageCountsDown ==
  ASSUME LinkInv, LinkInv', ReceiveHeader \/ ReceiveBody \/ HandleMessage, in_session', ~torn
  PROVE  Distance' < Distance
<1>1. UNCHANGED <<rx, to_module, module>> /\ ~torn'
  <2>1. torn' = torn \/ torn' = (torn /\ (rx' # <<>> \/ outgoing' # <<>>))
    BY DEF ReceiveHeader, ReceiveBody, HandleMessage, historyVars, Mend
  <2>2. UNCHANGED <<rx, to_module, module>>
    BY DEF ReceiveHeader, ReceiveBody, HandleMessage, Idle
  <2>3. ~torn'
    BY <2>1
  <2> QED BY <2>2, <2>3
<1>2. SUFFICES Stage' < Stage
  BY <1>1, DistanceTypes, DistanceTypesNext, DistanceUntorn, DistanceUntornNext DEF DistanceTerms
<1>3. ASSUME NEW m \in Messages, sent = Append(handled, m) PROVE sent # handled
  BY <1>3, AppendProperties, LenProperties DEF LinkInv, LinkTypes
<1>4. CASE ReceiveHeader
  <2>1. /\ pc = "header" /\ Len(in_buffer) = 3
        /\ IF BodySize = 0 THEN pc' = "handle" ELSE pc' = "body"
    BY <1>4 DEF ReceiveHeader, Full, LinkInv, ReadInv
  <2>2. CASE pc' = "body"
    BY <1>4, <2>1, <2>2 DEF Stage, ReceiveHeader, Idle, phoneVars, historyVars
  <2>3. CASE pc' = "handle"
    <3>1. sent' = Append(handled', in_buffer') /\ in_buffer' \in Messages
      BY <1>1, <2>3 DEF LinkInv, CarryInv
    <3>2. sent = Append(handled, in_buffer') /\ UNCHANGED <<sent, handled>>
      BY <1>4, <3>1 DEF ReceiveHeader, Idle, phoneVars, historyVars
    <3>3. sent # handled
      BY <1>3, <3>1, <3>2
    <3> QED BY <2>1, <2>3, <3>3 DEF Stage
  <2> QED BY <2>1, <2>2, <2>3
<1>5. CASE ReceiveBody
  <2>1. pc = "body" /\ pc' = "handle" /\ UNCHANGED <<sent, handled>>
    BY <1>5 DEF ReceiveBody, Full, Idle, phoneVars, historyVars
  <2>2. sent' = Append(handled', in_buffer') /\ in_buffer' \in Messages
    BY <1>1, <2>1 DEF LinkInv, CarryInv
  <2>3. sent # handled
    BY <1>3, <2>1, <2>2
  <2> QED BY <2>1, <2>3 DEF Stage
<1>6. CASE HandleMessage
  <2>1. pc = "handle" /\ handled' = Append(handled, in_buffer) /\ sent' = sent
    BY <1>6 DEF HandleMessage
  <2>2. sent' = handled'
    BY <2>1 DEF LinkInv, CarryInv
  <2>3. pc' = "header"
    BY <1>6 DEF HandleMessage, Listen
  <2> QED BY <2>1, <2>2, <2>3 DEF Stage
<1> QED BY <1>4, <1>5, <1>6

\* On a torn line a message is made up of bytes that are then gone.
LEMMA TornCountsDown ==
  ASSUME LinkInv, LinkInv', ReceiveHeader \/ ReceiveBody \/ HandleMessage, in_session', torn
  PROVE  Distance' < Distance
<1>1. DistanceTerms /\ DistanceTerms'
  BY DistanceTypes, DistanceTypesNext
<1>2. CASE ReceiveHeader \/ ReceiveBody
  <2>1. /\ UNCHANGED <<in_buffer, rx, torn>>
        /\ \/ pc = "header" /\ pc' \in {"body", "handle"}
           \/ pc = "body" /\ pc' = "handle"
    BY <1>2 DEF ReceiveHeader, ReceiveBody, Full, Idle, historyVars
  <2> QED BY <1>1, <2>1 DEF Distance, DistanceTerms
<1>3. CASE HandleMessage
  <2>1. /\ pc = "handle" /\ pc' = "header" /\ in_buffer' = <<>>
        /\ UNCHANGED <<rx, sent, handled>> /\ torn' = (rx # <<>> \/ outgoing # <<>>)
    BY <1>3 DEF HandleMessage, Listen, Ask, Mend
  <2>2. Len(in_buffer) >= 3 /\ Len(in_buffer') = 0
    BY <2>1 DEF LinkInv, ReadInv
  <2>3. CASE torn'
    BY <1>1, <2>1, <2>2, <2>3 DEF Distance, DistanceTerms
  <2>4. CASE ~torn'
    <3>1. Len(rx') = 0 /\ Len(to_module') = 0 /\ Len(module'.say) = 0
      <4>1. rx' = <<>> /\ to_module' = <<>> /\ module'.say = <<>>
        BY <2>1, <2>4, PcDistinct DEF LinkInv, CheckInv
      <4> QED BY <4>1
    <3>2. sent' = handled'
      BY <2>1 DEF LinkInv, TornInv
    <3>3. Stage' = 4
      BY <2>1, <3>2 DEF Stage
    <3>4. Distance' = 64
      BY <2>4, <3>1, <3>3, DistanceUntornNext
    <3>5. Distance >= 160 /\ Distance \in Int
      BY <1>1 DEF Distance, DistanceTerms
    <3> QED BY <3>4, <3>5
  <2> QED BY <2>3, <2>4
<1> QED BY <1>2, <1>3

\* The steps of a connection check: a command is given at the price of a stage.
LEMMA CheckCountsDown ==
  ASSUME LinkInv, LinkInv', in_session, in_session',
         Timeout \/ check_connection \/ exit_cmd_mode \/ bluetooth_connected
  PROVE  Distance' < Distance
<1>1. UNCHANGED <<rx, module, sent, handled>> /\ ~torn'
  <2>1. CASE Timeout
    BY <2>1 DEF Timeout, Idle, phoneVars, Mend
  <2>2. CASE check_connection \/ exit_cmd_mode \/ bluetooth_connected
    <3>1. ~torn
      BY <2>2, PcDistinct DEF check_connection, exit_cmd_mode, bluetooth_connected, Full, LinkInv, TornInv
    <3> QED BY <2>2, <3>1 DEF check_connection, exit_cmd_mode, bluetooth_connected, Idle, phoneVars,
      historyVars
  <2> QED BY <2>1, <2>2
<1>2. ASSUME NEW command, NEW n, NEW at, Tell(command, n, at), to_module = <<>>, Stage' < Stage, ~torn
      PROVE  Distance' < Distance
  <2>1. to_module' = <<command>>
    BY <1>2 DEF Tell
  <2>2. Len(to_module) = 0 /\ Len(to_module') = 1
    BY <1>2, <2>1
  <2> QED BY <1>1, <1>2, <2>2, DistanceTypes, DistanceTypesNext, DistanceUntorn, DistanceUntornNext
    DEF DistanceTerms
<1>3. CASE Timeout
  <2>1. pc = "header" /\ sent = handled /\ to_module = <<>>
    BY <1>3, SilenceMeansNothingSent, PcDistinct DEF Timeout, LinkInv, CheckInv
  <2>2. Tell("$$$", 5, "check.enter") /\ pc' = "check.enter"
    BY <1>3 DEF Timeout, Tell
  <2>3. CASE ~torn
    <3>1. Stage' < Stage
      BY <2>1, <2>2 DEF Stage
    <3> QED BY <1>2, <2>1, <2>2, <2>3, <3>1
  <2>4. CASE torn
    <3>1. Len(rx') = 0 /\ Len(to_module') = 1 /\ Len(module'.say) = 0
      <4>1. rx' = <<>> /\ to_module' = <<"$$$">> /\ module'.say = <<>>
        BY <1>1, <1>3, <2>1, <2>2, PcDistinct DEF Timeout, Tell, LinkInv, CheckInv
      <4> QED BY <4>1
    <3>2. Stage' = 2
      BY <2>2 DEF Stage
    <3>3. Distance' = 47
      BY <1>1, <3>1, <3>2, DistanceUntornNext
    <3>4. Distance >= 160
      BY <2>4, DistanceTypes DEF Distance, DistanceTerms
    <3>5. Distance \in Int
      BY <2>4, DistanceTypes DEF Distance, DistanceTerms
    <3> QED BY <3>3, <3>4, <3>5
  <2> QED BY <2>3, <2>4
<1>4. CASE check_connection
  <2>1. /\ pc = "check.enter" /\ Len(in_buffer) = need /\ Tell("GK", 7, "check.get") /\ pc' = "check.get"
    BY <1>4 DEF check_connection, Full, Tell
  <2>2. Exchange("$$$", 5) /\ need = 5
    BY <2>1 DEF LinkInv, CheckInv, Exchange
  <2>3. to_module = <<>>
    BY <2>1, <2>2, AnswerRead DEF ToModule
  <2>4. to_module' # <<>>
    BY <2>1, <2>3 DEF Tell
  <2>5. Stage' < Stage /\ ~torn
    BY <2>1, <2>4, PcDistinct DEF Stage, StillLinked, LinkInv, TornInv
  <2> QED BY <1>2, <2>1, <2>3, <2>5
<1>5. CASE exit_cmd_mode
  <2>1. /\ pc = "check.get" /\ Len(in_buffer) = need /\ Tell("---", 5, "check.exit") /\ pc' = "check.exit"
        /\ result' = (in_buffer[1].v = 49)
    BY <1>5 DEF exit_cmd_mode, Full, Tell
  <2>2. Exchange("GK", 7) /\ need = 7
    BY <2>1 DEF LinkInv, CheckInv, Exchange
  <2>3. rx = <<>> /\ module.say = <<>> /\ to_module = <<>>
    BY <2>1, <2>2, AnswerRead DEF ToModule
  <2>4. in_buffer \o (rx \o module.say) = in_buffer
    <3>1. in_buffer \in Seq(Bytes)
      BY DEF LinkInv, LinkTypes
    <3>2. <<>> \o <<>> = <<>> /\ in_buffer \o <<>> = in_buffer
      BY <3>1, ConcatEmptySeq, EmptySeq
    <3> QED BY <2>3, <3>2
  <2>5. StillLinked' <=> StillLinked
    BY <2>1, <2>3, <2>4 DEF StillLinked
  <2>6. Stage' < Stage /\ ~torn
    BY <2>1, <2>5, PcDistinct DEF Stage, LinkInv, TornInv
  <2> QED BY <1>2, <2>1, <2>3, <2>6
<1>6. CASE bluetooth_connected
  <2>1. pc = "check.exit" /\ pc' = "header" /\ result /\ UNCHANGED to_module
    BY <1>6 DEF bluetooth_connected, Full, Listen
  <2>2. sent' = handled' /\ ~torn
    BY <1>1, <2>1, PcDistinct DEF LinkInv, CarryInv, TornInv
  <2>3. Stage' < Stage
    BY <2>1, <2>2 DEF Stage, StillLinked
  <2>4. UNCHANGED <<rx, to_module, module>>
    BY <1>1, <2>1
  <2> QED BY <1>1, <2>2, <2>3, <2>4, DistanceTypes, DistanceTypesNext, DistanceUntorn, DistanceUntornNext
    DEF DistanceTerms
<1> QED BY <1>3, <1>4, <1>5, <1>6

(* Once the phone is gone every step brings the end of the session nearer: *)
(* there is no endless round of timeouts, checks and answers that are out  *)
(* of date.  With OnlyCutOffBlocks this is GoneIsNoticed without its       *)
(* fairness (main.c:416-433, bluetooth.c:66-75,139-149).                   *)
THEOREM GoneSessionCountsDown == Spec => GoneCountsDown
<1>1. Init => SessionInv
  BY LinkBase DEF Init, SessionInv
<1>2. SessionInv /\ SessionInv' /\ [Next]_vars
        => [in_session /\ ~connected /\ (in_session /\ ~connected)' => Distance' < Distance]_vars
  <2> SUFFICES ASSUME SessionInv, SessionInv', Next, in_session, ~connected, in_session', ~connected'
               PROVE  Distance' < Distance
    OBVIOUS
  <2>1. LinkInv /\ LinkInv' /\ pc \notin {"off", "flush"} /\ outgoing = <<>>
    BY DEF SessionInv, LinkInv, GoneInv
  <2>2. ~PhoneSend /\ ~PhoneLeaves /\ ~PhoneReturns /\ ~PhoneByte
    BY <2>1 DEF PhoneSend, PhoneLeaves, PhoneReturns, PhoneByte
  <2>3. ~bluetooth_callback /\ ~flush_buffer
    BY <2>1 DEF bluetooth_callback, flush_buffer
  <2> QED BY <2>1, <2>2, <2>3, BytesCountDown, CommandCountsDown, MessageCountsDown, TornCountsDown,
    CheckCountsDown     DEF Next, Line, Thread
<1> QED BY <1>1, <1>2, SessionStep, PTL DEF Spec, GoneCountsDown

-----------------------------------------------------------------------------
(* The line implements Mailbox.                                            *)

LEMMA MailSend ==
  ASSUME LinkInv, PhoneSend
  PROVE  Box!Next \/ UNCHANGED Box!mailVars
<1>1. PICK id \in {ID_ANDROID_HANDSHAKE, ID_COMMAND}, size \in Sizes :
        sent' = IF torn THEN sent ELSE Append(sent, Message(id, size))
  BY DEF PhoneSend
<1>2. connected /\ ~waiting /\ pc \in {"header", "body"} /\ UNCHANGED <<handled, connected, torn>>
  BY DEF PhoneSend, historyVars
<1>3. CASE torn
  BY <1>1, <1>2, <1>3 DEF Box!mailVars
<1>4. CASE ~torn
  <2>1. sent = handled
    BY <1>2, <1>4, LineIsEmpty DEF Nothing
  <2> QED BY <1>1, <1>2, <1>4, <2>1 DEF Box!Next, Box!Send, Box!Empty
<1> QED BY <1>3, <1>4

LEMMA MailHandle ==
  ASSUME LinkInv, HandleMessage
  PROVE  Box!Next \/ UNCHANGED Box!mailVars
<1>1. /\ pc = "handle" /\ handled' = (IF torn THEN handled ELSE Append(handled, in_buffer))
      /\ torn' = (torn /\ (rx' # <<>> \/ outgoing' # <<>>)) /\ UNCHANGED <<sent, connected>>
  BY DEF HandleMessage, Mend
<1>2. CASE torn
  <2>1. torn' = torn \/ torn' = FALSE
    <3>1. torn = TRUE /\ (torn' = TRUE \/ torn' = FALSE)
      BY <1>1, <1>2 DEF LinkInv, LinkTypes
    <3> QED BY <3>1
  <2>2. UNCHANGED <<sent, handled, connected>>
    BY <1>1, <1>2
  <2>3. torn' = torn => UNCHANGED Box!mailVars
    BY <2>2 DEF Box!mailVars
  <2>4. torn' = FALSE => Box!Mend
    BY <1>2, <2>2 DEF Box!Mend
  <2> QED BY <2>1, <2>3, <2>4 DEF Box!Next
<1>3. CASE ~torn
  <2>1. sent = Append(handled, in_buffer) /\ in_buffer \in Messages /\ handled \in Seq(Messages)
    BY <1>1, <1>3 DEF LinkInv, LinkTypes, CarryInv
  <2>2. sent # handled
    BY <2>1, AppendProperties, LenProperties
  <2>3. torn' = torn
    <3>1. torn = FALSE /\ torn' = FALSE
      BY <1>1, <1>3 DEF LinkInv, LinkTypes
    <3> QED BY <3>1
  <2>4. handled' = sent /\ UNCHANGED <<sent, connected>>
    BY <1>1, <1>3, <2>1
  <2>5. Box!Handle
    BY <1>3, <2>2, <2>3, <2>4 DEF Box!Handle, Box!Empty
  <2> QED BY <2>5 DEF Box!Next
<1> QED BY <1>2, <1>3

LEMMA MailLeave ==
  ASSUME LinkInv, PhoneLeaves
  PROVE  Box!Next
<1>1. /\ connected /\ connected' = FALSE /\ UNCHANGED <<handled, torn>>
      /\ sent' = (IF torn \/ outgoing = <<>> THEN sent ELSE Front(sent))
  BY DEF PhoneLeaves
<1>2. ASSUME ~torn, outgoing # <<>> PROVE sent' = handled
  <2>1. PICK m \in Messages : Whole(m)
    BY <1>1, <1>2, PcDistinct DEF LinkInv, LinkTypes, CarryInv, Nothing, Cut
  <2>2. sent = Append(handled, m) /\ handled \in Seq(Messages)
    BY <2>1 DEF Whole, LinkInv, LinkTypes
  <2> QED BY <1>1, <1>2, <2>2, FrontOfAppend
<1> QED BY <1>1, <1>2 DEF Box!Next, Box!Leave

LEMMA MailReturn ==
  ASSUME LinkInv, PhoneReturns
  PROVE  Box!Next
<1>1. /\ ~connected /\ connected' = TRUE
      /\ torn' = (torn \/ (pc \in {"header", "body"} /\ in_buffer \o rx # <<>>))
      /\ IF torn' THEN sent' = <<>> /\ handled' = <<>> ELSE UNCHANGED <<sent, handled>>
      /\ torn \in BOOLEAN
  BY DEF PhoneReturns, LinkInv, LinkTypes
<1>2. CASE torn'
  <2>1. torn' = TRUE
    BY <1>1, <1>2
  <2> QED BY <1>1, <1>2, <2>1 DEF Box!Next, Box!Return
<1>3. CASE ~torn'
  <2>1. torn' = torn
    <3>1. torn = FALSE /\ torn' = FALSE
      BY <1>1, <1>3
    <3> QED BY <3>1
  <2>2. ~connected /\ connected' = TRUE /\ UNCHANGED <<sent, handled>>
    BY <1>1, <1>3
  <2>3. Box!Return
    BY <2>1, <2>2 DEF Box!Return
  <2> QED BY <2>3 DEF Box!Next
<1> QED BY <1>2, <1>3

\* A read begins with nothing left on the line.
LEMMA MailMend ==
  ASSUME LinkInv, flush_buffer \/ Timeout
  PROVE  Box!Next \/ UNCHANGED Box!mailVars
<1>1. /\ UNCHANGED <<sent, handled, connected>> /\ torn \in BOOLEAN
      /\ torn' = (torn /\ (rx' # <<>> \/ outgoing' # <<>>))
  BY DEF flush_buffer, Timeout, Idle, phoneVars, Mend, LinkInv, LinkTypes
<1>2. torn' = torn \/ (torn /\ torn' = FALSE)
  <2>1. /\ torn = TRUE \/ torn = FALSE
        /\ torn' = TRUE \/ torn' = FALSE
        /\ torn' = TRUE => torn = TRUE
    BY <1>1
  <2> QED BY <2>1
<1>3. UNCHANGED <<sent, handled, connected>>
  BY <1>1
<1>4. torn' = torn => UNCHANGED Box!mailVars
  BY <1>3 DEF Box!mailVars
<1>5. torn /\ torn' = FALSE => Box!Mend
  BY <1>3 DEF Box!Mend
<1> QED BY <1>2, <1>4, <1>5 DEF Box!Next

(* Framing: the line carries whole messages, each handled once and in      *)
(* order, and loses only one that the phone did not finish, for as long as *)
(* no phone comes back onto bytes of its past: it implements Mailbox       *)
(* (bluetooth.c:93-106, main.c:416-433).                                   *)
THEOREM LineIsMailbox == Spec => CarriesMessages
<1>1. Init => Box!Init
  BY DEF Init, Box!Init
<1>2. LinkInv /\ [Next]_vars => [Box!Next]_(Box!mailVars)
  <2> SUFFICES ASSUME LinkInv, [Next]_vars
               PROVE  Box!Next \/ UNCHANGED Box!mailVars
    OBVIOUS
  <2>1. CASE PhoneSend \/ PhoneLeaves \/ PhoneReturns \/ HandleMessage \/ flush_buffer \/ Timeout
    BY <2>1, MailSend, MailLeave, MailReturn, MailHandle, MailMend
  <2>2. CASE Line \/ bluetooth_callback
    BY <2>2 DEF Line, PhoneByte, ModuleCommand, ModuleByte, bluetooth_callback, Idle, phoneVars,
      historyVars, Box!mailVars
  <2>3. CASE ReadByte \/ ReceiveHeader \/ ReceiveBody
    BY <2>3 DEF ReadByte, ReceiveHeader, ReceiveBody, Idle, phoneVars, historyVars, Box!mailVars
  <2>4. CASE check_connection \/ exit_cmd_mode \/ bluetooth_connected
    BY <2>4 DEF check_connection, exit_cmd_mode, bluetooth_connected, Idle, phoneVars, historyVars,
      Box!mailVars
  <2>5. CASE UNCHANGED vars
    BY <2>5 DEF vars, phoneVars, historyVars, Box!mailVars
  <2> QED BY <2>1, <2>2, <2>3, <2>4, <2>5 DEF Next, Thread
<1> QED BY <1>1, <1>2, LinkInduction, PTL DEF Spec, CarriesMessages, Box!Spec
=============================================================================
