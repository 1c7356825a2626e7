------------------------------ MODULE PhotoRead ------------------------------
(***************************************************************************)
(* Reading a picture out of the camera chunk by chunk into a buffer        *)
(* allocated for it (camera.c, read_full_picture and read_picture_to_ptr), *)
(* between take_picture and resume_picture, and the photos a touch starts  *)
(* in between (main.c, photo_callback).  Each chunk is answered by five    *)
(* bytes, the data, and the same five bytes again; the second five land in *)
(* the buffer behind the data and the next chunk overwrites them.  In      *)
(* automatic mode motion detection is on (main.c:160-175) and a motion     *)
(* report may come in front of any answer.                                 *)
(*                                                                         *)
(* Assumed of the camera: it sends whole messages, never a report inside   *)
(* an answer.                                                              *)
(***************************************************************************)
EXTENDS Integers, Sequences

CONSTANTS
  CHUNK,        \* bytes asked for at once: 128
  MARK,         \* bytes in front of and behind the data: 5
  SPARE,        \* bytes allocated beyond the frame: 10
  REPORT_BYTES, \* bytes of a motion report
  PTR_RANGE,    \* frame_ptr is an integer below this: 65536
  Sizes,        \* frame sizes the camera tells
  MaxDepth      \* photos nested

ASSUME PhotoAssumption ==
  /\ CHUNK \in Nat \ {0} /\ PTR_RANGE \in Nat \ {0} /\ REPORT_BYTES \in Nat \ {0}
  /\ MARK \in Nat /\ SPARE \in Nat /\ MARK <= SPARE
  /\ Sizes \subseteq Nat /\ MaxDepth \in Nat

VARIABLES
  stage, depth,            \* where the innermost photo is, and how many there are
  frame_ptr,
  ret_size, remaining,  \* read_full_picture's locals
  jpeg_buffer,          \* what each allocated byte holds
  line,                 \* bytes the camera has sent or is about to send
  late, lost,           \* the camera may be late; a chunk has failed
  disturbed             \* history: a motion report came while the frame was read

photoVars ==
  <<stage, depth, frame_ptr, ret_size, remaining, jpeg_buffer, line, late, lost, disturbed>>

Nothing == [kind |-> "nothing", at |-> 0]
Frame(i) == [kind |-> "frame", at |-> i]
Marks == [i \in 1 .. MARK |-> [kind |-> "mark", at |-> i]]
MotionReport == [i \in 1 .. REPORT_BYTES |-> [kind |-> "report", at |-> i]]

\* What a report in front of frame_length's answer leaves of it unread.
LengthRest == [i \in 1 .. REPORT_BYTES |-> [kind |-> "length", at |-> i]]

\* Mutant: exactly the frame is allocated.
MutAllocated(size) == 0 .. size - 1

\* Bytes of jpeg_buffer.
Allocated(size) == 0 .. size + SPARE - 1

\* The bytes asked for next.
n == IF remaining > CHUNK THEN CHUNK ELSE remaining

PhotoInit ==
  /\ stage = "idle" /\ depth = 0 /\ frame_ptr = 0
  /\ ret_size = 0 /\ remaining = 0 /\ jpeg_buffer = <<>>
  /\ line = <<>> /\ late \in BOOLEAN /\ lost = FALSE /\ disturbed = FALSE

\* take_picture, in a photo of its own or inside another one that has not
\* read its frame yet.  run_command flushes the line; what its own answer
\* may leave there the flush of frame_length drops.
TakePicture ==
  /\ stage \in {"idle", "taken"} /\ depth < MaxDepth
  /\ stage' = "taken" /\ depth' = depth + 1
  /\ frame_ptr' = 0 /\ line' = <<>>
  /\ UNCHANGED <<ret_size, remaining, jpeg_buffer, late, lost, disturbed>>

\* The buffer for a frame of that length.
Allocate(size) ==
  /\ ret_size' = size /\ remaining' = size
  /\ jpeg_buffer' = [i \in Allocated(size) |-> Nothing]
  /\ stage' = "command"

\* frame_length fails with size 0, also for a report in front of its answer;
\* malloc fails with no buffer.
read_full_picture ==
  /\ stage = "taken"
  /\ lost' = FALSE
  /\ \/ /\ \E size \in Sizes \cup {0} : Allocate(size)
        /\ line' = <<>> /\ disturbed' = FALSE
     \/ /\ Allocate(0)
        /\ line' = LengthRest /\ disturbed' = TRUE
     \/ /\ ret_size' = 0 /\ remaining' = 0 /\ jpeg_buffer' = <<>>
        /\ stage' = "done"
        /\ line' = <<>> /\ disturbed' = FALSE
  /\ UNCHANGED <<depth, frame_ptr, late>>

\* serial_read_timeout: the bytes there are up to the number asked for; fewer
\* if the camera is late.
Received(bytes, wanted) ==
  {k \in 0 .. wanted : k <= Len(bytes) /\ (late \/ k = wanted \/ k = Len(bytes))}

Rest(bytes, k) == SubSeq(bytes, k + 1, Len(bytes))

VerifyMarks(bytes) == \A i \in 1 .. MARK - 1 : bytes[i] = Marks[i]

\* Mutant: a single last byte is not read.
MutNextChunkShort ==
  IF remaining > CHUNK + 1
  THEN stage' = "command" /\ remaining' = remaining - CHUNK
  ELSE stage' = "done" /\ UNCHANGED remaining

NextChunk ==
  IF remaining > CHUNK
  THEN stage' = "command" /\ remaining' = remaining - CHUNK
  ELSE stage' = "done" /\ UNCHANGED remaining

\* The first half of read_picture_to_ptr: no flush, so that bytes left over
\* are taken for the answer, and so is a motion report in front of it.  A
\* failed chunk is skipped.
RequestChunk(answered, reported) ==
  LET report == IF reported THEN MotionReport ELSE <<>>
      answer == IF answered
                THEN Marks \o [i \in 1 .. n |-> Frame(frame_ptr + i - 1)] \o Marks
                ELSE <<>>
      sent == (line \o report) \o answer
  IN /\ stage = "command"
     /\ \E k \in Received(sent, MARK) :
          /\ line' = Rest(sent, k)
          /\ IF k = MARK /\ VerifyMarks(sent)
             THEN stage' = "data" /\ UNCHANGED <<remaining, lost>>
             ELSE NextChunk /\ lost' = TRUE
     /\ disturbed' = (disturbed \/ reported)
     /\ UNCHANGED <<depth, frame_ptr, ret_size, jpeg_buffer, late>>

\* Mutant: the pointer counts the bytes behind the data too.
MutReadChunk ==
  /\ stage = "data"
  /\ \E k \in Received(line, n + MARK) :
       /\ jpeg_buffer' = [i \in DOMAIN jpeg_buffer |->
            IF i \in frame_ptr .. frame_ptr + k - 1 THEN line[i - frame_ptr + 1] ELSE jpeg_buffer[i]]
       /\ line' = Rest(line, k)
  /\ frame_ptr' = (frame_ptr + n + MARK) % PTR_RANGE
  /\ NextChunk
  /\ UNCHANGED <<depth, ret_size, late, lost, disturbed>>

\* The second half: the number of bytes that came is not looked at.
ReadChunk ==
  /\ stage = "data"
  /\ \E k \in Received(line, n + MARK) :
       /\ jpeg_buffer' = [i \in DOMAIN jpeg_buffer |->
            IF i \in frame_ptr .. frame_ptr + k - 1 THEN line[i - frame_ptr + 1] ELSE jpeg_buffer[i]]
       /\ line' = Rest(line, k)
  /\ frame_ptr' = (frame_ptr + n) % PTR_RANGE
  /\ NextChunk
  /\ UNCHANGED <<depth, ret_size, late, lost, disturbed>>

\* The photo is over: an empty one returns at once, a good one resumes the
\* camera.
ResumePicture ==
  /\ stage = "done"
  /\ frame_ptr' = IF ret_size = 0 THEN frame_ptr ELSE 0
  /\ line' = IF ret_size = 0 THEN line ELSE <<>>
  /\ depth' = depth - 1
  /\ stage' = IF depth = 1 THEN "idle" ELSE "taken"
  /\ UNCHANGED <<ret_size, remaining, jpeg_buffer, late, lost, disturbed>>

PhotoNext ==
  \/ TakePicture \/ read_full_picture
  \/ \E answered, reported \in BOOLEAN : RequestChunk(answered, reported)
  \/ ReadChunk \/ ResumePicture

PhotoSpec == PhotoInit /\ [][PhotoNext]_photoVars

-----------------------------------------------------------------------------
PhotoTypeOK ==
  /\ stage \in {"idle", "taken", "command", "data", "done"}
  /\ depth \in Nat /\ (depth = 0 <=> stage = "idle")
  /\ frame_ptr \in Nat /\ ret_size \in Nat /\ remaining \in Nat

(***************************************************************************)
(* No read asks for more bytes than fit behind frame_ptr, whichever chunks *)
(* fail and however late the camera is: the five marks behind the last     *)
(* chunk are within the ten spare bytes (camera.c:316-344).                *)
(***************************************************************************)
WritesInBounds ==
  stage = "data" => frame_ptr .. frame_ptr + n + MARK - 1 \subseteq DOMAIN jpeg_buffer

(***************************************************************************)
(* If the camera may drop requests but answers in time, and reports no     *)
(* motion while the frame is read, every byte in front of frame_ptr is the *)
(* byte of the frame with that number: a failed chunk is asked for again   *)
(* and shifts nothing (camera.c:306-346).  Each photo, nested or not,      *)
(* reads from the frame's first byte.  A report in front of an answer      *)
(* makes verify_response refuse it; the answer then stays on the line, is  *)
(* taken for the next chunk's, and the bytes do get out of place.          *)
(***************************************************************************)
BytesInPlace ==
  ~late /\ ~disturbed /\ stage \in {"command", "data", "done"} =>
    \A i \in 0 .. frame_ptr - 1 : jpeg_buffer[i] = Frame(i)

(***************************************************************************)
(* If no chunk failed and the camera was in time, the buffer holds the     *)
(* whole frame when it is decoded or sent (camera.c:326-347), provided     *)
(* frame_ptr can count its bytes.  A motion report never goes unnoticed:   *)
(* it fails the chunk it comes in front of, or the frame's length.         *)
(***************************************************************************)
PhotoIsFrame ==
  stage = "done" /\ ~late /\ ~lost /\ ret_size <= PTR_RANGE =>
    \A i \in 0 .. ret_size - 1 : jpeg_buffer[i] = Frame(i)

(***************************************************************************)
(* The inductive invariant behind WritesInBounds: what is still to be read *)
(* fits behind frame_ptr, whose count never runs ahead of the loop's.      *)
(***************************************************************************)
RoomLeft ==
  /\ stage = "taken" => frame_ptr = 0
  /\ stage \in {"command", "data"} =>
       /\ frame_ptr + remaining <= ret_size
       /\ DOMAIN jpeg_buffer = Allocated(ret_size)
  /\ stage = "done" /\ ret_size = 0 => frame_ptr = 0
=============================================================================
