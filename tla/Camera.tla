------------------------------- MODULE Camera -------------------------------
(***************************************************************************)
(* The command protocol of the serial camera (camera.c) over the polled    *)
(* UART: flush, send, read a fixed number of bytes, verify the first four. *)
(* The camera may lose a command, refuse it, execute it without answering, *)
(* answer after the reader gave up, and - while its motion monitoring is   *)
(* on - send a motion report at any moment, also in front of an answer.    *)
(*                                                                         *)
(* Assumed of the camera: it sends whole messages, and an answer that is   *)
(* late for its own command is over when the next command's flush has      *)
(* waited another STD_WAIT in vain.                                        *)
(***************************************************************************)
EXTENDS Integers, Sequences, SequencesExt

CONSTANTS
  Resolutions,    \* resolutions asked for
  ReportLength,   \* bytes of a motion report; the code reads four
  RxDepth         \* bytes the UART holds; more are lost

ASSUME CameraAssumption ==
  /\ Resolutions \subseteq {"FRAME_640x480", "FRAME_320x240", "FRAME_160x120"}
  /\ ReportLength \in 4 .. 6 /\ RxDepth \in Nat \ {0}

\* camera.h's enumeration.
resolution == [FRAME_640x480 |-> 0, FRAME_320x240 |-> 17, FRAME_160x120 |-> 34, UNDEFINED |-> 255]

VARIABLES
  op, ret,     \* the public function running, or last run, and its success
  pc, todo,    \* where it is, and the commands it still has to run
  got,         \* camera_buffer: bytes read for the current command
  rx,          \* received by the UART, not yet read
  say,         \* bytes the camera is about to send
  camera       \* what the camera does

threadVars == <<op, ret, pc, todo, got>>
vars == <<threadVars, rx, say, camera>>

REPORT == "COMMAND_MOTION_DETECTED"

\* A command: its code, its argument and the length of its answer.
Cmd(code, arg, len) == [code |-> code, arg |-> arg, len |-> len]

take_picture == <<Cmd("COMMAND_FBUF_CTRL", "STOPCURRENTFRAME", 5)>>
resume_picture == <<Cmd("COMMAND_FBUF_CTRL", "RESUMEFRAME", 5)>>
frame_length == <<Cmd("COMMAND_GET_FBUF_LEN", "", 9)>>
set_motion_detect(flag) ==
  <<Cmd("MOTION_CTRL", "", 5), Cmd("COMMAND_MOTION_CTRL", flag, 5)>>
get_motion_detect == <<Cmd("COMMAND_MOTION_STATUS", "", 6)>>
set_image_resolution(r) == <<Cmd("COMMAND_WRITE_DATA", r, 5)>>
get_image_resolution == <<Cmd("COMMAND_READ_DATA", "", 6)>>
camera_reset == <<Cmd("COMMAND_RESET", "", 5)>>

\* The public functions and the commands each runs, in order.
Operations ==
  [name : {"take_picture"}, run : {take_picture}]
  \cup [name : {"resume_picture"}, run : {resume_picture}]
  \cup [name : {"frame_length"}, run : {frame_length}]
  \cup [name : {"set_motion_detect"}, run : {set_motion_detect("on"), set_motion_detect("off")}]
  \cup [name : {"get_motion_detect"}, run : {get_motion_detect}]
  \cup [name : {"set_image_resolution"}, run : {set_image_resolution(r) : r \in Resolutions}]
  \cup [name : {"get_image_resolution"}, run : {get_image_resolution}]
  \cup [name : {"camera_reset"}, run : {camera_reset}]

NoOperation == [name |-> "none", run |-> <<>>]
Watch == [name |-> "motion_detected", run |-> <<>>]

\* A byte: the message it belongs to and its place in it.  fresh is history:
\* an answer to the last command sent, or a report of the current watch.
Byte(code, at) == [code |-> code, at |-> at, fresh |-> TRUE]
MessageBytes(code, len) == [i \in 1 .. len |-> Byte(code, i)]

Reading == {"flush", "reply", "watch"}

\* uart_motion: told to report motions over the serial line.
PowerOn ==
  [frozen |-> FALSE, uart_motion |-> FALSE, motion |-> FALSE, resolution |-> "UNDEFINED"]

Init ==
  /\ op = NoOperation /\ ret = 0 /\ pc = "idle" /\ todo = <<>> /\ got = <<>>
  /\ rx = <<>> /\ say = <<>>
  /\ camera = PowerOn

-----------------------------------------------------------------------------
(* The camera and the line.                                                *)

\* A thread that polls keeps up; otherwise bytes beyond RxDepth are lost.
Line ==
  /\ say # <<>>
  /\ pc \in Reading => Len(rx) < RxDepth
  /\ rx' = IF Len(rx) < RxDepth THEN Append(rx, Head(say)) ELSE rx
  /\ say' = Tail(say)
  /\ UNCHANGED <<threadVars, camera>>

Report ==
  /\ camera.motion /\ say = <<>>
  /\ say' = MessageBytes(REPORT, ReportLength)
  /\ UNCHANGED <<threadVars, rx, camera>>

Execute(c) ==
  CASE c.arg = "STOPCURRENTFRAME" -> [camera EXCEPT !.frozen = TRUE]
    [] c.arg = "RESUMEFRAME" -> [camera EXCEPT !.frozen = FALSE]
    [] c.code = "MOTION_CTRL" -> [camera EXCEPT !.uart_motion = TRUE]
    [] c.code = "COMMAND_MOTION_CTRL" -> [camera EXCEPT !.motion = (c.arg = "on")]
    [] c.code = "COMMAND_WRITE_DATA" -> [camera EXCEPT !.resolution = c.arg]
    [] c.code = "COMMAND_RESET" -> PowerOn
    [] OTHER -> camera

\* History: the bytes of answers, or those of reports, get old.
StaleAnswers(s) == [i \in DOMAIN s |-> [s[i] EXCEPT !.fresh = @ /\ s[i].code = REPORT]]
StaleReports(s) == [i \in DOMAIN s |-> [s[i] EXCEPT !.fresh = @ /\ s[i].code # REPORT]]

-----------------------------------------------------------------------------
(* run_command.                                                            *)

Start(o) ==
  /\ pc = "idle" /\ op' = o /\ ret' = 0 /\ got' = <<>>

\* A function of Operations begins; turning motion detection on begins a watch.
Call ==
  \E o \in Operations :
    /\ Start(o)
    /\ todo' = o.run
    /\ pc' = "flush"
    /\ IF o.run = set_motion_detect("on")
       THEN rx' = StaleReports(rx) /\ say' = StaleReports(say)
       ELSE UNCHANGED <<rx, say>>
    /\ UNCHANGED camera

\* flush_buffer: what is on the line is read and dropped ...
FlushByte ==
  /\ pc = "flush" /\ rx # <<>>
  /\ rx' = Tail(rx)
  /\ UNCHANGED <<threadVars, say, camera>>

\* The command goes out; what was on the line is not its answer.
SendCommand(executed, reply) ==
  /\ pc' = "reply" /\ got' = <<>>
  /\ camera' = IF executed THEN Execute(Head(todo)) ELSE camera
  /\ rx' = StaleAnswers(rx)
  /\ say' = StaleAnswers(say) \o reply
  /\ UNCHANGED <<op, ret, todo>>

\* Mutant: the flush ends without waiting for what is still to come.
MutFlushEnd(executed, reply) ==
  /\ pc = "flush" /\ rx = <<>> /\ Len(say) <= ReportLength
  /\ SendCommand(executed, reply)

\* Mutant: a report that is still to come is not waited for.
MutFlushEndReports(executed, reply) ==
  /\ pc = "flush" /\ rx = <<>> /\ \A i \in DOMAIN say : say[i].code = REPORT
  /\ SendCommand(executed, reply)

\* ... until nothing comes any more; then the command is sent.
FlushEnd(executed, reply) ==
  /\ pc = "flush" /\ rx = <<>> /\ say = <<>>
  /\ SendCommand(executed, reply)

\* The camera may not get the command, refuse it with another fourth byte,
\* not answer it, or report a motion first.
Send ==
  LET c == Head(todo)
      answer == MessageBytes(c.code, c.len)
      report == MessageBytes(REPORT, ReportLength)
  IN \/ \E reply \in {<<>>, [answer EXCEPT ![4] = Byte("error", 4)]} : FlushEnd(FALSE, reply)
     \/ \E reply \in {<<>>, answer} \cup {r \in {report \o answer} : camera.motion} :
          FlushEnd(TRUE, reply)

ReadByte ==
  /\ pc \in {"reply", "watch"} /\ rx # <<>>
  /\ Len(got) < IF pc = "watch" THEN 4 ELSE Head(todo).len
  /\ got' = Append(got, Head(rx))
  /\ rx' = Tail(rx)
  /\ UNCHANGED <<op, ret, pc, todo, say, camera>>

\* Mutant: the fourth byte, by which the camera refuses, is not looked at.
MutVerifyResponse(code) == \A i \in 1 .. 3 : got[i].code = code /\ got[i].at = i

\* Only the first four bytes are looked at.
verify_response(code) == \A i \in 1 .. 4 : got[i].code = code /\ got[i].at = i

Return(value) == pc' = "idle" /\ ret' = value

\* All bytes came: the next command, or the end of the function.
ReplyEnd ==
  /\ pc = "reply" /\ Len(got) = Head(todo).len
  /\ todo' = Tail(todo)
  /\ IF verify_response(Head(todo).code)
     THEN IF Len(todo) > 1 THEN pc' = "flush" /\ UNCHANGED ret ELSE Return(1)
     ELSE Return(0)
  /\ UNCHANGED <<op, got, rx, say, camera>>

\* No byte for STD_WAIT, or for the watch's timeout.
Timeout ==
  /\ pc \in {"reply", "watch"} /\ rx = <<>>
  /\ Len(got) < IF pc = "watch" THEN 4 ELSE Head(todo).len
  /\ Return(0)
  /\ UNCHANGED <<op, todo, got, rx, say, camera>>

-----------------------------------------------------------------------------
(* motion_detected: no flush and no command, just four bytes.              *)

motion_detected ==
  /\ Start(Watch)
  /\ pc' = "watch" /\ todo' = <<>>
  /\ UNCHANGED <<rx, say, camera>>

WatchEnd ==
  /\ pc = "watch" /\ Len(got) = 4
  /\ Return(IF verify_response(REPORT) THEN 1 ELSE 0)
  /\ UNCHANGED <<op, todo, got, rx, say, camera>>

-----------------------------------------------------------------------------
Next ==
  \/ Line \/ Report
  \/ Call \/ FlushByte
  \/ pc = "flush" /\ Send
  \/ ReadByte \/ ReplyEnd \/ Timeout
  \/ motion_detected \/ WatchEnd

Spec == Init /\ [][Next]_vars

-----------------------------------------------------------------------------
Succeeded(name) == pc = "idle" /\ ret = 1 /\ op.name = name

(***************************************************************************)
(* An answer is accepted only for the command just sent: never a late      *)
(* answer to an earlier one with the same code (stopping and resuming the  *)
(* frame share one), never a motion report (camera.c:108-148).             *)
(***************************************************************************)
AnswerIsForThisCommand ==
  pc = "idle" /\ ret = 1 /\ op # Watch => \A i \in 1 .. 4 : got[i].fresh

(***************************************************************************)
(* What a function reports as done the camera has done: stopped or         *)
(* resumed the frame, switched its motion monitoring and, before, told to  *)
(* report over the serial line, changed its resolution (camera.c:226-263). *)
(***************************************************************************)
SuccessMeansDone ==
  /\ Succeeded("take_picture") => camera.frozen
  /\ Succeeded("resume_picture") => ~camera.frozen
  /\ Succeeded("set_motion_detect") =>
       camera.uart_motion /\ camera.motion = (op.run = set_motion_detect("on"))
  /\ Succeeded("set_image_resolution") => op.run = set_image_resolution(camera.resolution)

(***************************************************************************)
(* A motion that triggers a shot is one the camera reported after the last *)
(* set_motion_detect(1), never one left on the line from before it         *)
(* (camera.c:254-284, main.c:129-138).                                     *)
(***************************************************************************)
MotionIsOfThisWatch ==
  Succeeded("motion_detected") => \A i \in 1 .. 4 : got[i].fresh

(***************************************************************************)
(* camera.h:43: set_image_resolution "returns the current set resolution   *)
(* for the camera as a resolution enum value".  The code returns 1 for an  *)
(* acknowledged change, 0 for a failed one.                                *)
(***************************************************************************)
ReturnsResolution ==
  Succeeded("set_image_resolution") => ret = resolution[camera.resolution]
=============================================================================
