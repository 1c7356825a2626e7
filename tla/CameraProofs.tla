---------------------------- MODULE CameraProofs ----------------------------
(***************************************************************************)
(* The camera's protocol, for every set of resolutions, length of a motion *)
(* report and depth of the UART: an acknowledged command was executed, an  *)
(* accepted answer is that of the command just sent, and a motion is one   *)
(* of the current watch.                                                   *)
(*                                                                         *)
(* What is on its way - in the camera, in the UART, in camera_buffer - is  *)
(* described by the set its bytes come from; reading, losing and sending   *)
(* move bytes without leaving it.                                          *)
(***************************************************************************)
EXTENDS Camera, SequenceTheorems, TLAPS

CommandCodes ==
  {"COMMAND_FBUF_CTRL", "COMMAND_GET_FBUF_LEN", "MOTION_CTRL", "COMMAND_MOTION_CTRL",
   "COMMAND_MOTION_STATUS", "COMMAND_WRITE_DATA", "COMMAND_READ_DATA", "COMMAND_RESET"}

\* The commands that the functions run, but for those that set a resolution.
Fixed ==
  {Cmd("COMMAND_FBUF_CTRL", "STOPCURRENTFRAME", 5), Cmd("COMMAND_FBUF_CTRL", "RESUMEFRAME", 5),
   Cmd("COMMAND_GET_FBUF_LEN", "", 9), Cmd("MOTION_CTRL", "", 5),
   Cmd("COMMAND_MOTION_CTRL", "on", 5), Cmd("COMMAND_MOTION_CTRL", "off", 5),
   Cmd("COMMAND_MOTION_STATUS", "", 6), Cmd("COMMAND_READ_DATA", "", 6),
   Cmd("COMMAND_RESET", "", 5)}

Commands == Fixed \cup {Cmd("COMMAND_WRITE_DATA", r, 5) : r \in Resolutions}

Bytes == [code : CommandCodes \cup {REPORT, "error"}, at : Nat, fresh : BOOLEAN]
FreshBytes == {b \in Bytes : b.fresh}

\* What is not the fourth byte of an acknowledgement of c.
OtherBytes(c) == {b \in Bytes : ~(b.code = c.code /\ b.at = 4)}

\* All that is received or on its way comes from S.
Carries(S) == got \in Seq(S) /\ rx \in Seq(S) /\ say \in Seq(S)

LastCommand(o) == o.run[Len(o.run)]

\* The camera's state is the one that c asks for.
Done(c) ==
  /\ c.code = "MOTION_CTRL" => camera.uart_motion
  /\ c.arg = "STOPCURRENTFRAME" => camera.frozen
  /\ c.arg = "RESUMEFRAME" => ~camera.frozen
  /\ c.code = "COMMAND_MOTION_CTRL" => camera.motion = (c.arg = "on")
  /\ c.code = "COMMAND_WRITE_DATA" => camera.resolution = c.arg

CameraStates ==
  [frozen : BOOLEAN, uart_motion : BOOLEAN, motion : BOOLEAN,
   resolution : Resolutions \cup {"UNDEFINED"}]

CameraTypes ==
  /\ pc \in {"idle", "flush", "reply", "watch"}
  /\ Carries(Bytes)
  /\ camera \in CameraStates

\* While a function runs, its last command is still to be done.
RunInv ==
  /\ pc \in {"flush", "reply"} =>
       op \in Operations /\ (todo = op.run \/ todo = <<LastCommand(op)>>)
  /\ pc = "watch" => op = Watch

\* An acknowledgement comes from a camera that executed the command.
AckInv == pc = "reply" => Done(Head(todo)) \/ Carries(OtherBytes(Head(todo)))

\* The second command of set_motion_detect runs only after the first is done.
HalfInv ==
  pc \in {"flush", "reply"} /\ op.name = "set_motion_detect" /\ Len(todo) = 1 =>
    camera.uart_motion

DoneInv ==
  pc = "idle" /\ ret = 1 /\ op # Watch =>
    /\ op \in Operations /\ Done(LastCommand(op))
    /\ op.name = "set_motion_detect" => camera.uart_motion

\* Old bytes are on the line during a flush only.
FreshInv == got \in Seq(FreshBytes) /\ (pc # "flush" => Carries(FreshBytes))

\* A success rests on four bytes at least.
LengthInv == pc = "idle" /\ ret = 1 => Len(got) >= 4

CameraInv ==
  CameraTypes /\ RunInv /\ AckInv /\ HalfInv /\ DoneInv /\ FreshInv /\ LengthInv

-----------------------------------------------------------------------------
(* Operations and messages.                                                *)

\* One command, and two.
LEMMA Tuples ==
  ASSUME NEW c, NEW d
  PROVE  /\ <<c>> # <<>> /\ Len(<<c>>) = 1 /\ Head(<<c>>) = c /\ <<c>>[1] = c
         /\ <<c, d>> # <<>> /\ Len(<<c, d>>) = 2 /\ Head(<<c, d>>) = c /\ <<c, d>>[2] = d
         /\ Tail(<<c, d>>) = <<d>>
  OBVIOUS

\* The fields of the commands that set no resolution, and of those that do.
LEMMA FixedFields ==
  ASSUME NEW c \in Fixed
  PROVE  /\ c.code \in CommandCodes \ {"COMMAND_WRITE_DATA"} /\ c.len \in 5 .. 9
         /\ c.arg \in {"STOPCURRENTFRAME", "RESUMEFRAME"} => c.code = "COMMAND_FBUF_CTRL"
         /\ c.code = "COMMAND_MOTION_CTRL" => c.arg \in {"on", "off"}
<1> DEFINE Good(x) == /\ x.code \in CommandCodes \ {"COMMAND_WRITE_DATA"} /\ x.len \in 5 .. 9
                      /\ x.arg \in {"STOPCURRENTFRAME", "RESUMEFRAME"} => x.code = "COMMAND_FBUF_CTRL"
                      /\ x.code = "COMMAND_MOTION_CTRL" => x.arg \in {"on", "off"}
<1>1. /\ Good(Cmd("COMMAND_FBUF_CTRL", "STOPCURRENTFRAME", 5))
      /\ Good(Cmd("COMMAND_FBUF_CTRL", "RESUMEFRAME", 5))
      /\ Good(Cmd("COMMAND_GET_FBUF_LEN", "", 9)) /\ Good(Cmd("MOTION_CTRL", "", 5))
      /\ Good(Cmd("COMMAND_MOTION_CTRL", "on", 5)) /\ Good(Cmd("COMMAND_MOTION_CTRL", "off", 5))
      /\ Good(Cmd("COMMAND_MOTION_STATUS", "", 6)) /\ Good(Cmd("COMMAND_READ_DATA", "", 6))
      /\ Good(Cmd("COMMAND_RESET", "", 5))
  BY DEF Cmd, CommandCodes
<1> HIDE DEF Good
<1>2. Good(c)
  BY <1>1 DEF Fixed
<1> QED BY <1>2 DEF Good

LEMMA CommandTypes ==
  ASSUME NEW c \in Commands
  PROVE  c.code \in CommandCodes /\ c.len \in 5 .. 9
<1>1. CASE c \in Fixed
  BY <1>1, FixedFields
<1>2. CASE \E r \in Resolutions : c = Cmd("COMMAND_WRITE_DATA", r, 5)
  BY <1>2 DEF Cmd, CommandCodes
<1> QED BY <1>1, <1>2 DEF Commands

\* An operation runs one command, or two.
LEMMA OperationShape ==
  ASSUME NEW o \in Operations
  PROVE  \/ \E c \in Commands : o.run = <<c>>
         \/ \E c \in Commands, d \in Commands : o.run = <<c, d>>
<1>1. \/ o.run \in {take_picture, resume_picture, frame_length, get_motion_detect,
                    get_image_resolution, camera_reset}
      \/ o.run \in {set_motion_detect("on"), set_motion_detect("off")}
      \/ \E r \in Resolutions : o.run = set_image_resolution(r)
  BY DEF Operations
<1> USE DEF Commands
<1>2. CASE o.run \in {take_picture, resume_picture, frame_length, get_motion_detect,
                      get_image_resolution, camera_reset}
  BY <1>2 DEF Fixed, take_picture, resume_picture, frame_length, get_motion_detect,
              get_image_resolution, camera_reset
<1>3. CASE o.run \in {set_motion_detect("on"), set_motion_detect("off")}
  BY <1>3 DEF Fixed, set_motion_detect
<1>4. CASE \E r \in Resolutions : o.run = set_image_resolution(r)
  BY <1>4 DEF set_image_resolution
<1> QED BY <1>1, <1>2, <1>3, <1>4

\* set_motion_detect runs two commands.
LEMMA MotionShape ==
  ASSUME NEW o \in Operations, o.name = "set_motion_detect"
  PROVE  /\ Len(o.run) = 2 /\ Head(o.run).code = "MOTION_CTRL"
         /\ LastCommand(o).code = "COMMAND_MOTION_CTRL" /\ LastCommand(o).arg \in {"on", "off"}
<1>1. PICK flag \in {"on", "off"} : o.run = set_motion_detect(flag)
  BY DEF Operations
<1> DEFINE c == Cmd("MOTION_CTRL", "", 5)
           d == Cmd("COMMAND_MOTION_CTRL", flag, 5)
<1>2. c.code = "MOTION_CTRL" /\ d.code = "COMMAND_MOTION_CTRL" /\ d.arg = flag
  BY DEF Cmd
<1>3. o.run = <<c, d>>
  BY <1>1 DEF set_motion_detect
<1> HIDE DEF c, d
<1>4. Len(o.run) = 2 /\ Head(o.run) = c /\ LastCommand(o) = d
  BY <1>3, Tuples DEF LastCommand
<1> QED BY <1>2, <1>4

\* What is still to be done, while a function runs.
LEMMA TodoShape ==
  ASSUME RunInv, pc \in {"flush", "reply"}
  PROVE  /\ op \in Operations /\ todo # <<>> /\ Head(todo) \in Commands /\ Len(todo) \in {1, 2}
         /\ Len(todo) = 1 => Head(todo) = LastCommand(op)
         /\ Len(todo) = 2 => Tail(todo) = <<LastCommand(op)>>
<1>1. op \in Operations /\ (todo = op.run \/ todo = <<LastCommand(op)>>)
  BY DEF RunInv
<1>2. CASE \E c \in Commands : op.run = <<c>>
  <2>1. PICK c \in Commands : op.run = <<c>>
    BY <1>2
  <2>2. LastCommand(op) = c
    BY <2>1, Tuples DEF LastCommand
  <2> QED BY <1>1, <2>1, <2>2, Tuples
<1>3. CASE \E c \in Commands, d \in Commands : op.run = <<c, d>>
  <2>1. PICK c \in Commands, d \in Commands : op.run = <<c, d>>
    BY <1>3
  <2>2. LastCommand(op) = d
    BY <2>1, Tuples DEF LastCommand
  <2>3. CASE todo = <<c, d>>
    BY <1>1, <2>2, <2>3, Tuples
  <2>4. CASE todo = <<d>>
    BY <1>1, <2>2, <2>4, Tuples
  <2> QED BY <1>1, <2>1, <2>2, <2>3, <2>4
<1> QED BY <1>1, <1>2, <1>3, OperationShape

\* The bytes of a message.
LEMMA MessageIsSeq ==
  ASSUME NEW S, NEW code, NEW n \in Nat, \A i \in 1 .. n : Byte(code, i) \in S
  PROVE  MessageBytes(code, n) \in Seq(S)
  BY DEF MessageBytes

\* A report in front of an answer.
LEMMA ReportIsSeq ==
  ASSUME NEW S, \A i \in Nat : Byte(REPORT, i) \in S
  PROVE  MessageBytes(REPORT, ReportLength) \in Seq(S)
<1>1. ReportLength \in Nat
  BY CameraAssumption
<1> QED BY <1>1, MessageIsSeq

\* Fresh bytes are bytes, and so are those that acknowledge nothing.
LEMMA Subsets ==
  /\ FreshBytes \subseteq Bytes
  /\ \A c : OtherBytes(c) \subseteq Bytes
  /\ \A i \in Nat : Byte(REPORT, i) \in FreshBytes
  /\ \A c \in Commands, i \in Nat : Byte(REPORT, i) \in OtherBytes(c)
  BY CommandTypes DEF FreshBytes, OtherBytes, Bytes, Byte, REPORT, CommandCodes

\* What the camera may say to a command: fresh bytes; no acknowledgement if
\* the command was not executed.
LEMMA Replies ==
  ASSUME NEW c \in Commands
  PROVE  LET answer == MessageBytes(c.code, c.len)
             report == MessageBytes(REPORT, ReportLength)
             refusal == [answer EXCEPT ![4] = Byte("error", 4)]
         IN /\ <<>> \in Seq(FreshBytes) /\ answer \in Seq(FreshBytes)
            /\ report \o answer \in Seq(FreshBytes) /\ refusal \in Seq(FreshBytes)
            /\ <<>> \in Seq(OtherBytes(c)) /\ refusal \in Seq(OtherBytes(c))
<1> DEFINE answer == MessageBytes(c.code, c.len)
           report == MessageBytes(REPORT, ReportLength)
           refusal == [answer EXCEPT ![4] = Byte("error", 4)]
           R(i) == IF i = 4 THEN Byte("error", 4) ELSE Byte(c.code, i)
<1>1. c.code \in CommandCodes /\ c.len \in 5 .. 9
  BY CommandTypes
<1>2. \A i \in Nat : Byte(c.code, i) \in FreshBytes
  BY <1>1 DEF FreshBytes, Bytes, Byte
<1>3. answer \in Seq(FreshBytes)
  BY <1>1, <1>2, MessageIsSeq
<1>4. report \in Seq(FreshBytes)
  BY Subsets, ReportIsSeq
<1>5. refusal = [i \in 1 .. c.len |-> R(i)]
  <2>1. answer = [i \in 1 .. c.len |-> Byte(c.code, i)]
    BY DEF MessageBytes
  <2>2. c.len \in Int /\ c.len >= 5
    BY <1>1
  <2>3. 4 \in 1 .. c.len
    BY <2>2
  <2> HIDE DEF answer
  <2> QED BY <2>1, <2>3
<1>6. \A i \in 1 .. c.len : R(i) \in FreshBytes /\ R(i) \in OtherBytes(c)
  BY <1>1 DEF FreshBytes, OtherBytes, Bytes, Byte, CommandCodes, REPORT
<1> HIDE DEF R, refusal, answer, report
<1>7. refusal \in Seq(FreshBytes) /\ refusal \in Seq(OtherBytes(c))
  BY <1>1, <1>5, <1>6
<1>8. report \o answer \in Seq(FreshBytes)
  BY <1>3, <1>4, ConcatProperties
<1> QED BY <1>3, <1>7, <1>8 DEF answer, report, refusal

\* Growing old does not change what a byte is.
LEMMA StaleIsSeq ==
  ASSUME NEW s \in Seq(Bytes)
  PROVE  StaleReports(s) \in Seq(Bytes)
<1> DEFINE Old(i) == [s[i] EXCEPT !.fresh = s[i].fresh /\ s[i].code # REPORT]
<1>1. ASSUME NEW i \in 1 .. Len(s) PROVE Old(i) \in Bytes
  <2>1. s[i] \in Bytes
    BY ElementOfSeq
  <2> QED BY <2>1 DEF Bytes
<1>2. StaleReports(s) = [i \in 1 .. Len(s) |-> Old(i)]
  BY DEF StaleReports
<1>3. Len(s) \in Nat
  OBVIOUS
<1> HIDE DEF Old
<1> QED BY <1>1, <1>2, <1>3

LEMMA NothingGetsOld == StaleAnswers(<<>>) = <<>>
  BY DEF StaleAnswers

-----------------------------------------------------------------------------
(* Steps that move bytes.                                                  *)

\* The line and the reader move a byte; it stays one of those it came from.
LEMMA BytesMove ==
  ASSUME NEW S, Carries(S), Line \/ ReadByte \/ FlushByte
  PROVE  Carries(S)'
<1> USE DEF Carries
<1>1. CASE Line
  <2>1. Head(say) \in S /\ Tail(say) \in Seq(S)
    BY <1>1, HeadTailProperties DEF Line
  <2> QED BY <1>1, <2>1 DEF Line, threadVars
<1>2. CASE ReadByte
  <2>1. Head(rx) \in S /\ Tail(rx) \in Seq(S)
    BY <1>2, HeadTailProperties DEF ReadByte
  <2> QED BY <1>2, <2>1 DEF ReadByte
<1>3. CASE FlushByte
  BY <1>3, HeadTailProperties DEF FlushByte, threadVars
<1> QED BY <1>1, <1>2, <1>3

LEMMA MovingKeepsInv ==
  ASSUME CameraInv, Line \/ ReadByte \/ FlushByte
  PROVE  CameraInv'
<1>1. UNCHANGED <<op, ret, pc, todo, camera>>
  BY DEF Line, ReadByte, FlushByte, threadVars
<1>2. \A S : Carries(S) => Carries(S)'
  BY BytesMove
<1>3. CameraTypes'
  BY <1>1, <1>2 DEF CameraInv, CameraTypes
<1>4. RunInv' /\ HalfInv' /\ DoneInv'
  BY <1>1 DEF CameraInv, RunInv, HalfInv, DoneInv, Done
<1>5. AckInv'
  <2> SUFFICES ASSUME pc = "reply"
               PROVE  Done(Head(todo))' \/ Carries(OtherBytes(Head(todo)))'
    BY <1>1 DEF AckInv
  <2>1. CASE Done(Head(todo))
    BY <1>1, <2>1 DEF Done
  <2>2. CASE Carries(OtherBytes(Head(todo)))
    <3>1. OtherBytes(Head(todo))' = OtherBytes(Head(todo))
      BY <1>1 DEF OtherBytes
    <3> QED BY <1>2, <2>2, <3>1 DEF Carries
  <2> QED BY <2>1, <2>2 DEF CameraInv, AckInv
<1>6. FreshInv' /\ LengthInv'
  <2>1. pc # "flush" => Carries(FreshBytes)'
    BY <1>2 DEF CameraInv, FreshInv
  <2>2. pc \in {"idle", "flush"} => got' = got
    BY DEF Line, ReadByte, FlushByte, threadVars
  <2> QED BY <1>1, <2>1, <2>2 DEF CameraInv, FreshInv, LengthInv, CameraTypes, Carries
<1> QED BY <1>3, <1>4, <1>5, <1>6 DEF CameraInv

\* A motion report is fresh, and acknowledges nothing.
LEMMA ReportKeepsInv ==
  ASSUME CameraInv, Report
  PROVE  CameraInv'
<1>1. UNCHANGED <<op, ret, pc, todo, got, rx, camera>>
  BY DEF Report, threadVars
<1>2. \A S : Carries(S) /\ (\A i \in Nat : Byte(REPORT, i) \in S) => Carries(S)'
  BY <1>1, ReportIsSeq DEF Report, Carries
<1>3. \A i \in Nat : Byte(REPORT, i) \in Bytes
  BY Subsets
<1>4. CameraTypes'
  BY <1>1, <1>2, <1>3 DEF CameraInv, CameraTypes
<1>5. RunInv' /\ HalfInv' /\ DoneInv' /\ LengthInv'
  BY <1>1 DEF CameraInv, RunInv, HalfInv, DoneInv, LengthInv, Done
<1>6. AckInv'
  <2> SUFFICES ASSUME pc = "reply"
               PROVE  Done(Head(todo))' \/ Carries(OtherBytes(Head(todo)))'
    BY <1>1 DEF AckInv
  <2>1. CASE Done(Head(todo))
    BY <1>1, <2>1 DEF Done
  <2>2. CASE Carries(OtherBytes(Head(todo)))
    <3>1. OtherBytes(Head(todo))' = OtherBytes(Head(todo))
      BY <1>1 DEF OtherBytes
    <3>2. Head(todo) \in Commands
      BY TodoShape DEF CameraInv
    <3>3. \A i \in Nat : Byte(REPORT, i) \in OtherBytes(Head(todo))
      BY <3>2, Subsets
    <3> QED BY <1>2, <2>2, <3>1, <3>3 DEF Carries
  <2> QED BY <2>1, <2>2 DEF CameraInv, AckInv
<1>7. FreshInv'
  <2>1. pc # "flush" => Carries(FreshBytes)'
    BY <1>2, Subsets DEF CameraInv, FreshInv
  <2> QED BY <1>1, <2>1 DEF CameraInv, FreshInv, Carries
<1> QED BY <1>4, <1>5, <1>6, <1>7 DEF CameraInv

-----------------------------------------------------------------------------
(* Steps of the functions.                                                 *)

\* A call starts from nothing: camera_buffer is empty, nothing succeeded.
LEMMA CallKeepsInv ==
  ASSUME CameraInv, Call
  PROVE  CameraInv'
<1>1. PICK o \in Operations :
        /\ Start(o) /\ todo' = o.run /\ pc' = "flush"
        /\ IF o.run = set_motion_detect("on")
           THEN rx' = StaleReports(rx) /\ say' = StaleReports(say)
           ELSE UNCHANGED <<rx, say>>
        /\ UNCHANGED camera
  BY DEF Call
<1>2. rx' \in Seq(Bytes) /\ say' \in Seq(Bytes)
  BY <1>1, StaleIsSeq DEF CameraInv, CameraTypes, Carries
<1>3. got' = <<>> /\ op' = o /\ ret' = 0
  BY <1>1 DEF Start
<1>4. CameraTypes'
  BY <1>1, <1>2, <1>3 DEF CameraInv, CameraTypes, Carries
<1>5. RunInv' /\ DoneInv' /\ LengthInv' /\ AckInv'
  BY <1>1, <1>3 DEF RunInv, DoneInv, LengthInv, AckInv
<1>7. HalfInv'
  <2> SUFFICES ASSUME o.name = "set_motion_detect" PROVE Len(o.run) # 1
    BY <1>1, <1>3 DEF HalfInv
  <2> QED BY MotionShape, Tuples
<1>6. FreshInv'
  BY <1>1, <1>3 DEF FreshInv
<1> QED BY <1>4, <1>5, <1>6, <1>7 DEF CameraInv

\* The watch has no command; what it will read is fresh.
LEMMA WatchKeepsInv ==
  ASSUME CameraInv, motion_detected
  PROVE  CameraInv'
<1>1. /\ pc = "idle" /\ pc' = "watch" /\ op' = Watch /\ got' = <<>> /\ ret' = 0
      /\ UNCHANGED <<rx, say, camera>>
  BY DEF motion_detected, Start
<1>2. CameraTypes'
  BY <1>1 DEF CameraInv, CameraTypes, Carries
<1>3. RunInv' /\ HalfInv' /\ DoneInv' /\ LengthInv' /\ AckInv'
  BY <1>1 DEF RunInv, HalfInv, DoneInv, LengthInv, AckInv
<1>4. FreshInv'
  BY <1>1 DEF CameraInv, FreshInv, Carries
<1> QED BY <1>2, <1>3, <1>4 DEF CameraInv

\* A command that is executed is done.
LEMMA ExecuteDoes ==
  ASSUME CameraTypes, NEW c \in Commands, camera' = Execute(c)
  PROVE  /\ Done(c)'
         /\ camera' \in CameraStates
<1> USE DEF Execute, Done, CameraTypes, CameraStates, PowerOn
<1>1. CASE c \in Fixed
  <2>1. /\ c.code # "COMMAND_WRITE_DATA"
        /\ c.arg \in {"STOPCURRENTFRAME", "RESUMEFRAME"} => c.code = "COMMAND_FBUF_CTRL"
        /\ c.code = "COMMAND_MOTION_CTRL" => c.arg \in {"on", "off"}
    BY <1>1, FixedFields
  <2> QED BY <2>1
<1>2. CASE \E r \in Resolutions : c = Cmd("COMMAND_WRITE_DATA", r, 5)
  <2>1. /\ c.code = "COMMAND_WRITE_DATA" /\ c.arg \in Resolutions
        /\ c.arg \notin {"STOPCURRENTFRAME", "RESUMEFRAME"}
    BY <1>2, CameraAssumption DEF Cmd
  <2> QED BY <2>1
<1> QED BY <1>1, <1>2 DEF Commands

\* The command goes out on an empty line, to a camera that executes it or
\* says nothing that acknowledges it.
LEMMA FlushEndKeepsInv ==
  ASSUME CameraInv, NEW executed \in BOOLEAN, NEW reply \in Seq(FreshBytes),
         FlushEnd(executed, reply), executed \/ reply \in Seq(OtherBytes(Head(todo)))
  PROVE  CameraInv'
<1>1. /\ pc = "flush" /\ pc' = "reply" /\ got' = <<>> /\ rx' = StaleAnswers(<<>>)
      /\ say' = StaleAnswers(<<>>) \o reply /\ UNCHANGED <<op, ret, todo>>
      /\ camera' = IF executed THEN Execute(Head(todo)) ELSE camera
  BY DEF FlushEnd, SendCommand
<1>2. rx' = <<>> /\ say' = reply
  BY <1>1, NothingGetsOld, ConcatEmptySeq
<1>3. Head(todo) \in Commands /\ todo # <<>>
  BY <1>1, TodoShape DEF CameraInv
<1>4. /\ camera' \in CameraStates
      /\ executed => Done(Head(todo))'
  <2>1. CASE executed
    <3>1. camera' = Execute(Head(todo))
      BY <1>1, <2>1
    <3> QED BY <1>1, <1>3, <3>1, ExecuteDoes DEF CameraInv, Done
  <2>2. CASE ~executed
    BY <1>1, <2>2 DEF CameraInv, CameraTypes
  <2> QED BY <2>1, <2>2
<1>5. reply \in Seq(Bytes)
  BY Subsets, SeqMonotonic
<1>e. \A S : <<>> \in Seq(S)
  BY EmptySeq
<1>6. CameraTypes'
  BY <1>1, <1>2, <1>4, <1>5, <1>e DEF CameraInv, CameraTypes, Carries
<1>7. RunInv' /\ DoneInv' /\ LengthInv'
  BY <1>1 DEF CameraInv, RunInv, DoneInv, LengthInv
<1>8. AckInv'
  <2>1. OtherBytes(Head(todo))' = OtherBytes(Head(todo))
    BY <1>1 DEF OtherBytes
  <2> QED BY <1>1, <1>2, <1>4, <1>e, <2>1 DEF AckInv, Carries
<1>9. FreshInv'
  BY <1>1, <1>2, <1>e DEF FreshInv, Carries
<1>h. HalfInv'
  <2> SUFFICES ASSUME op.name = "set_motion_detect", Len(todo) = 1
               PROVE  camera'.uart_motion
    BY <1>1 DEF HalfInv
  <2>1. Head(todo).code = "COMMAND_MOTION_CTRL" /\ Head(todo).arg \in {"on", "off"}
    <3>1. op \in Operations /\ Head(todo) = LastCommand(op)
      BY <1>1, TodoShape DEF CameraInv
    <3> QED BY <3>1, MotionShape
  <2>2. camera.uart_motion
    BY <1>1 DEF CameraInv, HalfInv
  <2> QED BY <1>1, <2>1, <2>2 DEF Execute, CameraInv, CameraTypes, CameraStates
<1> QED BY <1>6, <1>7, <1>8, <1>9, <1>h DEF CameraInv

LEMMA SendKeepsInv ==
  ASSUME CameraInv, pc = "flush", Send
  PROVE  CameraInv'
<1> DEFINE c == Head(todo)
           answer == MessageBytes(c.code, c.len)
           report == MessageBytes(REPORT, ReportLength)
           refusal == [answer EXCEPT ![4] = Byte("error", 4)]
<1>1. c \in Commands
  BY TodoShape DEF CameraInv
<1>2. /\ <<>> \in Seq(FreshBytes) /\ answer \in Seq(FreshBytes)
      /\ report \o answer \in Seq(FreshBytes) /\ refusal \in Seq(FreshBytes)
      /\ <<>> \in Seq(OtherBytes(c)) /\ refusal \in Seq(OtherBytes(c))
  BY <1>1, Replies
<1>3. \/ FlushEnd(FALSE, <<>>) \/ FlushEnd(FALSE, refusal)
      \/ FlushEnd(TRUE, <<>>) \/ FlushEnd(TRUE, answer) \/ FlushEnd(TRUE, report \o answer)
  BY DEF Send
<1> HIDE DEF answer, report, refusal
<1> QED BY <1>2, <1>3, FlushEndKeepsInv

\* An answer that is verified has the fourth byte, so the command is done.
LEMMA VerifiedIsDone ==
  ASSUME CameraInv, pc = "reply", Len(got) = Head(todo).len, verify_response(Head(todo).code)
  PROVE  Done(Head(todo))
<1> DEFINE c == Head(todo)
<1>1. c \in Commands /\ c.len \in 5 .. 9
  BY TodoShape, CommandTypes DEF CameraInv
<1>2. got \in Seq(Bytes) /\ 4 \in 1 .. Len(got)
  BY <1>1 DEF CameraInv, CameraTypes, Carries
<1>3. got[4].code = c.code /\ got[4].at = 4
  BY DEF verify_response
<1>4. ~(got \in Seq(OtherBytes(c)))
  BY <1>2, <1>3, ElementOfSeq DEF OtherBytes
<1> QED BY <1>4 DEF CameraInv, AckInv, Carries

LEMMA ReplyEndKeepsInv ==
  ASSUME CameraInv, ReplyEnd
  PROVE  CameraInv'
<1>1. /\ pc = "reply" /\ Len(got) = Head(todo).len /\ todo' = Tail(todo)
      /\ UNCHANGED <<op, got, rx, say, camera>>
  BY DEF ReplyEnd
<1>2. /\ op \in Operations /\ todo # <<>> /\ Head(todo) \in Commands /\ Len(todo) \in {1, 2}
      /\ Len(todo) = 1 => Head(todo) = LastCommand(op)
      /\ Len(todo) = 2 => Tail(todo) = <<LastCommand(op)>>
  BY <1>1, TodoShape DEF CameraInv
<1>3. Len(got) >= 4
  BY <1>1, <1>2, CommandTypes
<1>4. CASE ~verify_response(Head(todo).code)
  <2>1. pc' = "idle" /\ ret' = 0
    BY <1>4 DEF ReplyEnd, Return
  <2> QED
    BY <1>1, <2>1
    DEF CameraInv, CameraTypes, Carries, RunInv, AckInv, HalfInv, DoneInv, FreshInv, LengthInv
<1>5. CASE verify_response(Head(todo).code) /\ Len(todo) = 2
  <2>1. pc' = "flush" /\ ret' = ret
    BY <1>5 DEF ReplyEnd
  <2>2. camera.uart_motion \/ op.name # "set_motion_detect"
    <3> SUFFICES ASSUME op.name = "set_motion_detect" PROVE camera.uart_motion
      OBVIOUS
    <3>1. todo = op.run
      BY <1>1, <1>5, Tuples DEF CameraInv, RunInv
    <3>2. Head(todo).code = "MOTION_CTRL"
      BY <1>2, <3>1, MotionShape
    <3> QED BY <1>1, <1>5, <3>2, VerifiedIsDone DEF Done
  <2> QED
    BY <1>1, <1>2, <1>5, <2>1, <2>2
    DEF CameraInv, CameraTypes, Carries, RunInv, AckInv, HalfInv, DoneInv, FreshInv, LengthInv
<1>6. CASE verify_response(Head(todo).code) /\ Len(todo) = 1
  <2>1. pc' = "idle" /\ ret' = 1
    BY <1>6 DEF ReplyEnd, Return
  <2>2. Done(LastCommand(op))
    BY <1>1, <1>2, <1>6, VerifiedIsDone
  <2>3. DoneInv'
    BY <1>1, <1>2, <1>6, <2>2 DEF DoneInv, Done, LastCommand, CameraInv, HalfInv
  <2> QED
    BY <1>1, <1>3, <2>1, <2>3
    DEF CameraInv, CameraTypes, Carries, RunInv, AckInv, HalfInv, FreshInv, LengthInv
<1> QED BY <1>2, <1>4, <1>5, <1>6

LEMMA TimeoutKeepsInv ==
  ASSUME CameraInv, Timeout
  PROVE  CameraInv'
<1>1. /\ pc \in {"reply", "watch"} /\ pc' = "idle" /\ ret' = 0
      /\ UNCHANGED <<op, todo, got, rx, say, camera>>
  BY DEF Timeout, Return
<1> QED
  BY <1>1
    DEF CameraInv, CameraTypes, Carries, RunInv, AckInv, HalfInv, DoneInv, FreshInv, LengthInv

LEMMA WatchEndKeepsInv ==
  ASSUME CameraInv, WatchEnd
  PROVE  CameraInv'
<1>1. /\ pc = "watch" /\ pc' = "idle" /\ Len(got) = 4
      /\ UNCHANGED <<op, todo, got, rx, say, camera>>
  BY DEF WatchEnd, Return
<1>2. op = Watch
  BY <1>1 DEF CameraInv, RunInv
<1>3. CameraTypes' /\ FreshInv'
  BY <1>1 DEF CameraInv, CameraTypes, Carries, FreshInv
<1>4. RunInv' /\ AckInv' /\ HalfInv' /\ DoneInv' /\ LengthInv'
  BY <1>1, <1>2 DEF RunInv, AckInv, HalfInv, DoneInv, LengthInv
<1> QED BY <1>3, <1>4 DEF CameraInv

-----------------------------------------------------------------------------
(* The theorems.                                                           *)

LEMMA CameraBase == Init => CameraInv
<1> SUFFICES ASSUME Init PROVE CameraInv
  OBVIOUS
<1>1. pc = "idle" /\ ret = 0 /\ got = <<>> /\ rx = <<>> /\ say = <<>> /\ camera = PowerOn
  BY DEF Init
<1>2. \A S : <<>> \in Seq(S)
  BY EmptySeq
<1> QED
  BY <1>1, <1>2
    DEF CameraInv, CameraTypes, Carries, RunInv, AckInv, HalfInv, DoneInv, FreshInv, LengthInv, PowerOn, CameraStates

LEMMA CameraInduction == CameraInv /\ [Next]_vars => CameraInv'
<1> SUFFICES ASSUME CameraInv, [Next]_vars PROVE CameraInv'
  OBVIOUS
<1>1. CASE UNCHANGED vars
  <2>1. UNCHANGED <<op, ret, pc, todo, got, rx, say, camera>>
    BY <1>1 DEF vars, threadVars
  <2> QED
    BY <2>1 DEF CameraInv, CameraTypes, Carries, RunInv, AckInv, HalfInv, DoneInv, Done, FreshInv, LengthInv,
                OtherBytes
<1>2. CASE Line \/ ReadByte \/ FlushByte
  BY <1>2, MovingKeepsInv
<1>3. CASE Report
  BY <1>3, ReportKeepsInv
<1>4. CASE Call
  BY <1>4, CallKeepsInv
<1>5. CASE pc = "flush" /\ Send
  BY <1>5, SendKeepsInv
<1>6. CASE ReplyEnd
  BY <1>6, ReplyEndKeepsInv
<1>7. CASE Timeout
  BY <1>7, TimeoutKeepsInv
<1>8. CASE motion_detected
  BY <1>8, WatchKeepsInv
<1>9. CASE WatchEnd
  BY <1>9, WatchEndKeepsInv
<1> QED BY <1>1, <1>2, <1>3, <1>4, <1>5, <1>6, <1>7, <1>8, <1>9 DEF Next

\* The first four bytes of a success are fresh.
LEMMA SuccessIsFresh ==
  ASSUME CameraInv, pc = "idle", ret = 1
  PROVE  \A i \in 1 .. 4 : got[i].fresh
<1>1. got \in Seq(FreshBytes) /\ Len(got) >= 4 /\ Len(got) \in Nat
  BY DEF CameraInv, FreshInv, LengthInv
<1>2. \A i \in 1 .. 4 : got[i] \in FreshBytes
  BY <1>1, ElementOfSeq
<1> QED BY <1>2 DEF FreshBytes

\* What a function's last command asked for is what the function is for.
LEMMA LastIsWhatFor ==
  ASSUME DoneInv
  PROVE  SuccessMeansDone
<1> SUFFICES ASSUME pc = "idle", ret = 1
             PROVE  /\ op.name = "take_picture" => camera.frozen
                    /\ op.name = "resume_picture" => ~camera.frozen
                    /\ op.name = "set_motion_detect" =>
                         camera.uart_motion /\ camera.motion = (op.run = set_motion_detect("on"))
                    /\ op.name = "set_image_resolution" =>
                         op.run = set_image_resolution(camera.resolution)
  BY DEF SuccessMeansDone, Succeeded
<1>1. CASE op = Watch
  BY <1>1 DEF Watch
<1>2. CASE op # Watch
  <2>1. op \in Operations /\ Done(LastCommand(op))
    BY <1>2 DEF DoneInv
  <2>2. ASSUME op.name = "take_picture" PROVE camera.frozen
    <3>1. op.run = take_picture
      BY <2>1, <2>2 DEF Operations
    <3>2. LastCommand(op).arg = "STOPCURRENTFRAME"
      BY <3>1, Tuples DEF LastCommand, take_picture, Cmd
    <3> QED BY <2>1, <3>2 DEF Done
  <2>3. ASSUME op.name = "resume_picture" PROVE ~camera.frozen
    <3>1. op.run = resume_picture
      BY <2>1, <2>3 DEF Operations
    <3>2. LastCommand(op).arg = "RESUMEFRAME"
      BY <3>1, Tuples DEF LastCommand, resume_picture, Cmd
    <3> QED BY <2>1, <3>2 DEF Done
  <2>4. ASSUME op.name = "set_motion_detect"
        PROVE  camera.uart_motion /\ camera.motion = (op.run = set_motion_detect("on"))
    <3>1. op.run = set_motion_detect("on") \/ op.run = set_motion_detect("off")
      BY <2>1, <2>4 DEF Operations
    <3>2. \A flag : set_motion_detect(flag)[2].arg = flag /\ set_motion_detect(flag)[2].code = "COMMAND_MOTION_CTRL"
                    /\ Len(set_motion_detect(flag)) = 2
      BY DEF set_motion_detect, Cmd
    <3>0. camera.uart_motion
      BY <1>2, <2>4 DEF DoneInv
    <3>3. CASE op.run = set_motion_detect("on")
      BY <2>1, <3>0, <3>2, <3>3 DEF Done, LastCommand
    <3>4. CASE op.run = set_motion_detect("off")
      <4>1. op.run # set_motion_detect("on")
        BY <3>2, <3>4
      <4> QED BY <2>1, <3>0, <3>2, <3>4, <4>1 DEF Done, LastCommand
    <3> QED BY <3>1, <3>3, <3>4
  <2>5. ASSUME op.name = "set_image_resolution"
        PROVE  op.run = set_image_resolution(camera.resolution)
    <3>1. PICK r \in Resolutions : op.run = set_image_resolution(r)
      BY <2>1, <2>5 DEF Operations
    <3>2. LastCommand(op).arg = r /\ LastCommand(op).code = "COMMAND_WRITE_DATA"
      BY <3>1, Tuples DEF LastCommand, set_image_resolution, Cmd
    <3> QED BY <2>1, <3>1, <3>2 DEF Done
  <2> QED BY <2>2, <2>3, <2>4, <2>5
<1> QED BY <1>1, <1>2

(***************************************************************************)
(* For every depth of the UART, length of a report and set of resolutions: *)
(* what a function of camera.c reports as done the camera has done         *)
(* (camera.c:133-148,226-263).                                             *)
(***************************************************************************)
THEOREM SuccessIsEarned == Spec => []SuccessMeansDone
<1>1. CameraInv => SuccessMeansDone
  BY LastIsWhatFor DEF CameraInv
<1> QED BY <1>1, CameraBase, CameraInduction, PTL DEF Spec

(***************************************************************************)
(* An accepted answer is that of the command just sent, since what came    *)
(* before it was flushed (camera.c:133-148).                               *)
(***************************************************************************)
THEOREM AnswersAreCurrent == Spec => []AnswerIsForThisCommand
<1>1. CameraInv => AnswerIsForThisCommand
  BY SuccessIsFresh DEF AnswerIsForThisCommand
<1> QED BY <1>1, CameraBase, CameraInduction, PTL DEF Spec

(***************************************************************************)
(* A motion that triggers a shot was reported after the watch began        *)
(* (camera.c:254-284).                                                     *)
(***************************************************************************)
THEOREM MotionsAreCurrent == Spec => []MotionIsOfThisWatch
<1>1. CameraInv => MotionIsOfThisWatch
  BY SuccessIsFresh DEF MotionIsOfThisWatch, Succeeded
<1> QED BY <1>1, CameraBase, CameraInduction, PTL DEF Spec
=============================================================================
