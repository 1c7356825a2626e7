--------------------------- MODULE PhotoReadProofs ---------------------------
(***************************************************************************)
(* For every chunk size, number of marks, pointer width and frame size the *)
(* bytes read into jpeg_buffer stay within what was allocated and, from a  *)
(* camera in time, are the frame's bytes in their places.                  *)
(***************************************************************************)
EXTENDS PhotoRead, SequenceTheorems, TLAPS

PhotoInv == PhotoTypeOK /\ RoomLeft

\* Wrapping frame_ptr never makes it larger.
LEMMA WrapShrinks ==
  ASSUME NEW a \in Nat, NEW r \in Nat \ {0}
  PROVE  a % r \in Nat /\ a % r <= a
<1>1. CASE a < r
  <2>1. a % r = a
    BY <1>1
  <2> QED BY <2>1
<1>2. CASE ~(a < r)
  <2>1. a % r \in 0 .. r - 1
    OBVIOUS
  <2> QED BY <1>2, <2>1
<1> QED BY <1>1, <1>2

\* ... and leaves what it can count.
LEMMA SmallMod ==
  ASSUME NEW a \in Nat, NEW r \in Nat \ {0}, a < r PROVE a % r = a
OBVIOUS

\* The chunk asked for is part of what remains.
LEMMA ChunkFits ==
  ASSUME remaining \in Nat
  PROVE  n \in Nat /\ n <= remaining /\ (remaining > CHUNK => n = CHUNK)
BY PhotoAssumption DEF n

\* Before the first photo nothing has been asked for.
LEMMA InitInv == PhotoInit => PhotoInv
BY DEF PhotoInit, PhotoInv, PhotoTypeOK, RoomLeft

\* What NextChunk leaves: the loop goes on with CHUNK bytes less, or ends.
LEMMA NextChunkStep ==
  ASSUME PhotoTypeOK, NextChunk
  PROVE  \/ stage' = "command" /\ remaining > CHUNK /\ remaining' = remaining - CHUNK
                            /\ remaining' \in Nat
         \/ stage' = "done" /\ remaining' = remaining
BY PhotoAssumption DEF NextChunk, PhotoTypeOK

\* Every step keeps room for what remains.
LEMMA StepInv == PhotoInv /\ [PhotoNext]_photoVars => PhotoInv'
<1> SUFFICES ASSUME PhotoTypeOK, RoomLeft, [PhotoNext]_photoVars
             PROVE  PhotoTypeOK' /\ RoomLeft'
  BY DEF PhotoInv
<1>1. CASE TakePicture
  BY <1>1 DEF TakePicture, PhotoTypeOK, RoomLeft
<1>2. CASE read_full_picture
  BY <1>2, PhotoAssumption DEF read_full_picture, Allocate, PhotoTypeOK, RoomLeft, Allocated
<1>3. ASSUME NEW answered \in BOOLEAN, NEW reported \in BOOLEAN,
             RequestChunk(answered, reported)
      PROVE  PhotoTypeOK' /\ RoomLeft'
  <2>1. /\ stage = "command"
        /\ UNCHANGED <<depth, frame_ptr, ret_size, jpeg_buffer>>
        /\ \/ stage' = "data" /\ remaining' = remaining
           \/ NextChunk
    BY <1>3 DEF RequestChunk
  <2>2. CASE stage' = "data" /\ remaining' = remaining
    BY <2>1, <2>2 DEF PhotoTypeOK, RoomLeft
  <2>3. CASE NextChunk
    BY <2>1, <2>3, NextChunkStep, PhotoAssumption DEF PhotoTypeOK, RoomLeft
  <2> QED BY <2>1, <2>2, <2>3
<1>4. CASE ReadChunk
  <2>1. /\ stage = "data"
        /\ UNCHANGED <<depth, ret_size>>
        /\ frame_ptr' = (frame_ptr + n) % PTR_RANGE
        /\ DOMAIN jpeg_buffer' = DOMAIN jpeg_buffer
        /\ NextChunk
    BY <1>4 DEF ReadChunk
  <2>2. frame_ptr' \in Nat /\ frame_ptr' <= frame_ptr + n
    BY <2>1, ChunkFits, WrapShrinks, PhotoAssumption DEF PhotoTypeOK
  <2>3. PhotoTypeOK'
    BY <2>1, <2>2, NextChunkStep DEF PhotoTypeOK
  <2>4. CASE stage' = "command" /\ remaining > CHUNK /\ remaining' = remaining - CHUNK
    BY <2>1, <2>2, <2>4, ChunkFits, PhotoAssumption DEF PhotoTypeOK, RoomLeft
  <2>5. CASE stage' = "done" /\ remaining' = remaining
    BY <2>1, <2>2, <2>5, ChunkFits DEF PhotoTypeOK, RoomLeft
  <2> QED BY <2>1, <2>3, <2>4, <2>5, NextChunkStep
<1>5. CASE ResumePicture
  BY <1>5 DEF ResumePicture, PhotoTypeOK, RoomLeft
<1>6. CASE UNCHANGED photoVars
  BY <1>6 DEF photoVars, PhotoTypeOK, RoomLeft
<1> QED BY <1>1, <1>2, <1>3, <1>4, <1>5, <1>6 DEF PhotoNext

\* What was allocated has room for the chunk and the marks behind it.
LEMMA RoomIsInBounds == PhotoInv => WritesInBounds
<1> SUFFICES ASSUME PhotoTypeOK, RoomLeft, stage = "data"
             PROVE  frame_ptr .. frame_ptr + n + MARK - 1 \subseteq DOMAIN jpeg_buffer
  BY DEF PhotoInv, WritesInBounds
<1>1. frame_ptr + n <= ret_size /\ n \in Nat
  BY ChunkFits DEF RoomLeft, PhotoTypeOK
<1>2. DOMAIN jpeg_buffer = 0 .. ret_size + SPARE - 1
  BY DEF RoomLeft, Allocated
<1> QED BY <1>1, <1>2, PhotoAssumption DEF PhotoTypeOK

(***************************************************************************)
(* The locals of read_full_picture keep their types: remaining, unsigned   *)
(* in the code, never wraps below zero (camera.c:335-341).                 *)
(***************************************************************************)
THEOREM PhotoTypeCorrect == PhotoSpec => []PhotoTypeOK
<1>1. PhotoInv => PhotoTypeOK
  BY DEF PhotoInv
<1> QED BY <1>1, InitInv, StepInv, PTL DEF PhotoSpec

(***************************************************************************)
(* No chunk is written outside jpeg_buffer: the spare bytes cover the      *)
(* marks behind the last one (camera.c:316-344).                           *)
(***************************************************************************)
THEOREM WritesStayInBounds == PhotoSpec => []WritesInBounds
BY InitInv, StepInv, RoomIsInBounds, PTL DEF PhotoSpec

-----------------------------------------------------------------------------
(* What the buffer holds.                                                  *)

Bytes == [kind : {"nothing", "frame", "mark", "report"}, at : Int]

\* The data of the chunk asked for next.
Chunk == [i \in 1 .. n |-> Frame(frame_ptr + i - 1)]

InPlace(size) == \A i \in 0 .. size - 1 : jpeg_buffer[i] = Frame(i)

\* A report never goes unnoticed.
Noticed == disturbed => lost \/ ret_size = 0

WholeSoFar ==
  /\ stage = "command" => line = <<>>
  /\ stage = "data" => line = Chunk \o Marks
  /\ stage \in {"command", "data", "done"} => InPlace(frame_ptr)
  /\ ~lost /\ ret_size <= PTR_RANGE =>
       /\ stage \in {"command", "data"} => frame_ptr + remaining = ret_size
       /\ stage = "done" => InPlace(ret_size)

FrameInv ==
  ~late =>
    /\ stage \in {"command", "data", "done"} => Noticed
    /\ ~disturbed => WholeSoFar

\* The camera's answer: marks, data, marks.
LEMMA AnswerBytes ==
  ASSUME n \in Nat, frame_ptr \in Nat
  PROVE  /\ Marks \in Seq(Bytes) /\ Len(Marks) = MARK
         /\ Chunk \in Seq(Bytes) /\ Len(Chunk) = n
         /\ Chunk \o Marks \in Seq(Bytes) /\ Len(Chunk \o Marks) = n + MARK
<1>1. \A i \in 1 .. MARK : [kind |-> "mark", at |-> i] \in Bytes
  BY DEF Bytes
<1>2. Marks \in [1 .. MARK -> Bytes] /\ MARK \in Nat
  BY <1>1, PhotoAssumption DEF Marks
<1>3. \A i \in 1 .. n : Frame(frame_ptr + i - 1) \in Bytes
  BY DEF Frame, Bytes
<1>4. Chunk \in [1 .. n -> Bytes]
  BY <1>3 DEF Chunk
<1>5. Marks \in Seq(Bytes) /\ Len(Marks) = MARK
  BY <1>2
<1>6. Chunk \in Seq(Bytes) /\ Len(Chunk) = n
  BY <1>4
<1>7. Chunk \o Marks \in Seq(Bytes) /\ Len(Chunk \o Marks) = Len(Chunk) + Len(Marks)
  BY <1>5, <1>6, ConcatProperties
<1> QED BY <1>5, <1>6, <1>7

\* Taking all of a first part off leaves the second.
LEMMA RestOfConcat ==
  ASSUME NEW s \in Seq(Bytes), NEW t \in Seq(Bytes)
  PROVE  Rest(s \o t, Len(s)) = t /\ Rest(s, Len(s)) = <<>>
<1> DEFINE a == Len(s)
           b == Len(t)
<1>1. a \in Nat /\ b \in Nat
  BY LenProperties
<1>2. Len(s \o t) = a + b
  BY ConcatProperties
<1>3. Rest(s, Len(s)) = <<>>
  BY <1>1, SubSeqEmpty DEF Rest
<1>4. CASE b = 0
  <2>1. t = <<>>
    BY <1>4, EmptySeq
  <2>2. s \o t = s
    BY <2>1, ConcatEmptySeq
  <2> QED BY <1>3, <2>1, <2>2
<1>5. CASE b # 0
  <2>1. a + 1 \in a + 1 .. a + b /\ a + b \in a + 1 .. a + b
    BY <1>1, <1>5
  <2>2. SubSeq(s \o t, a + 1, a + b) = SubSeq(t, (a + 1) - a, (a + b) - a)
    BY <2>1, SubSeqOfConcat2
  <2>3. (a + 1) - a = 1 /\ (a + b) - a = b
    BY <1>1
  <2>4. SubSeq(t, 1, b) = t
    BY SubSeqFull
  <2> QED BY <1>2, <1>3, <2>2, <2>3, <2>4 DEF Rest
<1> QED BY <1>4, <1>5

\* A camera in time: an answered request leaves exactly data and marks, an
\* unanswered one nothing.
LEMMA RequestInTime ==
  ASSUME MARK > 1, PhotoInv, FrameInv, ~late, ~disturbed, NEW answered \in BOOLEAN,
         RequestChunk(answered, FALSE)
  PROVE  \/ stage' = "data" /\ UNCHANGED <<remaining, lost>> /\ line' = Chunk \o Marks
         \/ NextChunk /\ lost' = TRUE /\ line' = <<>>
<1>1. stage = "command" /\ line = <<>> /\ n \in Nat /\ frame_ptr \in Nat /\ MARK \in Nat
  BY ChunkFits, PhotoAssumption DEF RequestChunk, FrameInv, WholeSoFar, PhotoInv, PhotoTypeOK
<1>2. CASE answered
  <2> DEFINE tail == Chunk \o Marks
             sent == Marks \o tail
  <2>1. Marks \in Seq(Bytes) /\ Len(Marks) = MARK /\ tail \in Seq(Bytes) /\ Len(tail) = n + MARK
    BY <1>1, AnswerBytes
  <2>2. (line \o <<>>) \o (Marks \o [i \in 1 .. n |-> Frame(frame_ptr + i - 1)] \o Marks) = sent
    <3>1. <<>> \o sent = sent /\ <<>> \o <<>> = <<>>
      <4>1. sent \in Seq(Bytes)
        BY <2>1, ConcatProperties
      <4> HIDE DEF sent
      <4> QED BY <4>1, ConcatEmptySeq
    <3>2. Chunk \in Seq(Bytes)
      BY <1>1, AnswerBytes
    <3>3. (Marks \o Chunk) \o Marks = Marks \o (Chunk \o Marks)
      BY <2>1, <3>2, ConcatAssociative
    <3> QED BY <1>1, <3>1, <3>3 DEF Chunk
  <2> HIDE DEF tail
  <2>3. Len(sent) = MARK + (n + MARK) /\ \A i \in 1 .. MARK : sent[i] = Marks[i]
    <3>1. Len(sent) = Len(Marks) + Len(tail)
      BY <2>1, ConcatProperties
    <3>2. \A i \in 1 .. MARK : sent[i] = Marks[i]
      BY <1>1, <2>1, ConcatProperties
    <3> QED BY <2>1, <3>1, <3>2
  <2>4. Rest(sent, MARK) = tail
    BY <2>1, RestOfConcat
  <2> HIDE DEF sent
  <2>5. PICK k \in Received(sent, MARK) :
          /\ line' = Rest(sent, k)
          /\ IF k = MARK /\ VerifyMarks(sent)
             THEN stage' = "data" /\ UNCHANGED <<remaining, lost>>
             ELSE NextChunk /\ lost' = TRUE
    BY <1>2, <2>2 DEF RequestChunk
  <2>6. k = MARK
    <3>1. k \in 0 .. MARK /\ (k = MARK \/ k = Len(sent))
      BY <2>5 DEF Received
    <3>2. Len(sent) > MARK
      BY <1>1, <2>3
    <3> QED BY <1>1, <3>1, <3>2
  <2>7. VerifyMarks(sent)
    BY <1>1, <2>3 DEF VerifyMarks
  <2> QED BY <2>4, <2>5, <2>6, <2>7 DEF tail
<1>3. CASE ~answered
  <2>0. (line \o <<>>) \o <<>> = line
    BY <1>1, ConcatEmptySeq
  <2>1. PICK k \in Received(line, MARK) :
          /\ line' = Rest(line, k)
          /\ IF k = MARK /\ VerifyMarks(line)
             THEN stage' = "data" /\ UNCHANGED <<remaining, lost>>
             ELSE NextChunk /\ lost' = TRUE
    BY <1>3, <2>0 DEF RequestChunk
  <2>2. Len(line) = 0 /\ line \in Seq(Bytes)
    BY <1>1, EmptySeq
  <2>3. k = 0
    BY <2>1, <2>2 DEF Received
  <2>4. Rest(line, Len(line)) = <<>>
    BY <2>2, RestOfConcat
  <2> QED BY <1>1, <2>1, <2>2, <2>3, <2>4
<1> QED BY <1>2, <1>3

\* A report in front of the answer is refused: the chunk fails.
LEMMA ReportFails ==
  ASSUME MARK > 1, line = <<>>, NEW answered \in BOOLEAN, RequestChunk(answered, TRUE)
  PROVE  lost' = TRUE
<1> DEFINE answer == IF answered
                     THEN Marks \o [i \in 1 .. n |-> Frame(frame_ptr + i - 1)] \o Marks
                     ELSE <<>>
           sent == (line \o MotionReport) \o answer
<1>1. PICK k \in Received(sent, MARK) :
        IF k = MARK /\ VerifyMarks(sent)
        THEN stage' = "data" /\ UNCHANGED <<remaining, lost>>
        ELSE NextChunk /\ lost' = TRUE
  BY DEF RequestChunk
<1>2. sent[1] = [kind |-> "report", at |-> 1]
  BY PhotoAssumption DEF MotionReport
<1>3. 1 \in 1 .. MARK - 1 /\ Marks[1] = [kind |-> "mark", at |-> 1]
  BY PhotoAssumption DEF Marks
<1> HIDE DEF sent
<1>4. sent[1] # Marks[1]
  BY <1>2, <1>3
<1>5. ~VerifyMarks(sent)
  BY <1>3, <1>4 DEF VerifyMarks
<1> QED BY <1>1, <1>5

\* A chunk of a camera in time lands where frame_ptr points.
LEMMA ChunkInTime ==
  ASSUME PhotoInv, FrameInv, ~late, ~disturbed, ReadChunk
  PROVE  line' = <<>> /\ \A i \in 0 .. frame_ptr + n - 1 : jpeg_buffer'[i] = Frame(i)
<1>1. /\ stage = "data" /\ n \in Nat /\ frame_ptr \in Nat /\ MARK \in Nat
      /\ line = Chunk \o Marks /\ InPlace(frame_ptr)
  BY ChunkFits, PhotoAssumption DEF ReadChunk, FrameInv, WholeSoFar, PhotoInv, PhotoTypeOK
<1>2. Len(line) = n + MARK /\ line \in Seq(Bytes)
  BY <1>1, AnswerBytes
<1>3. \A j \in 1 .. n : line[j] = Frame(frame_ptr + j - 1)
  <2>1. Chunk \in Seq(Bytes) /\ Marks \in Seq(Bytes) /\ Len(Chunk) = n /\ Len(Marks) = MARK
    BY <1>1, AnswerBytes
  <2>2. \A j \in 1 .. n : (Chunk \o Marks)[j] = Chunk[j]
    BY <1>1, <2>1, ConcatProperties
  <2> QED BY <1>1, <2>2 DEF Chunk
<1>4. PICK k \in Received(line, n + MARK) :
        /\ jpeg_buffer' = [i \in DOMAIN jpeg_buffer |->
             IF i \in frame_ptr .. frame_ptr + k - 1 THEN line[i - frame_ptr + 1] ELSE jpeg_buffer[i]]
        /\ line' = Rest(line, k)
  BY DEF ReadChunk
<1>5. k = n + MARK
  BY <1>1, <1>2, <1>4 DEF Received
<1>6. line' = <<>>
  BY <1>2, <1>4, <1>5, RestOfConcat
<1>7. frame_ptr + n <= ret_size /\ DOMAIN jpeg_buffer = 0 .. ret_size + SPARE - 1 /\ ret_size \in Nat
  BY <1>1, ChunkFits DEF PhotoInv, RoomLeft, PhotoTypeOK, Allocated
<1>8. ASSUME NEW i \in 0 .. frame_ptr + n - 1 PROVE jpeg_buffer'[i] = Frame(i)
  <2>1. i \in DOMAIN jpeg_buffer /\ i \in Int
    BY <1>1, <1>7, PhotoAssumption
  <2>2. CASE i < frame_ptr
    BY <1>1, <1>4, <2>1, <2>2 DEF InPlace
  <2>3. CASE ~(i < frame_ptr)
    <3> DEFINE j == i - frame_ptr + 1
    <3>1. j \in 1 .. n /\ frame_ptr + j - 1 = i /\ i \in frame_ptr .. frame_ptr + k - 1
      BY <1>1, <1>5, <2>1, <2>3
    <3>2. jpeg_buffer'[i] = line[j]
      BY <1>4, <2>1, <3>1
    <3> HIDE DEF j
    <3> QED BY <1>3, <3>1, <3>2
  <2> QED BY <2>2, <2>3
<1> QED BY <1>6, <1>8

\* No step hides that a report came.
LEMMA NoticedKept ==
  ASSUME MARK > 1, FrameInv, ~late, [PhotoNext]_photoVars
  PROVE  (stage \in {"command", "data", "done"} => Noticed)'
<1>1. CASE TakePicture
  BY <1>1 DEF TakePicture
<1>2. CASE read_full_picture
  BY <1>2 DEF read_full_picture, Allocate, Noticed
<1>3. ASSUME NEW answered \in BOOLEAN, NEW reported \in BOOLEAN, RequestChunk(answered, reported)
      PROVE  Noticed'
  <2>1. /\ stage = "command" /\ UNCHANGED ret_size /\ lost' \in {lost, TRUE}
        /\ disturbed' = (disturbed \/ reported)
    BY <1>3 DEF RequestChunk
  <2>2. CASE disturbed
    BY <2>1, <2>2 DEF Noticed, FrameInv
  <2>3. CASE ~disturbed /\ reported
    <3>1. lost' = TRUE
      BY <1>3, <2>1, <2>3, ReportFails DEF FrameInv, WholeSoFar
    <3> QED BY <3>1 DEF Noticed
  <2>4. CASE ~disturbed /\ ~reported
    BY <2>1, <2>4 DEF Noticed
  <2> QED BY <2>2, <2>3, <2>4
<1>4. CASE ReadChunk
  BY <1>4 DEF ReadChunk, FrameInv, Noticed
<1>5. CASE ResumePicture
  BY <1>5 DEF ResumePicture
<1>6. CASE UNCHANGED photoVars
  BY <1>6 DEF photoVars, FrameInv, Noticed
<1> QED BY <1>1, <1>2, <1>3, <1>4, <1>5, <1>6 DEF PhotoNext

\* Every step of the loop keeps what the buffer holds.
LEMMA FrameInvKept ==
  ASSUME MARK > 1, PhotoInv, FrameInv, [PhotoNext]_photoVars PROVE FrameInv'
<1> SUFFICES ASSUME ~late, ~disturbed' PROVE WholeSoFar'
  <2>1. UNCHANGED late
    BY DEF PhotoNext, photoVars, TakePicture, read_full_picture, RequestChunk, ReadChunk, ResumePicture
  <2> QED BY <2>1, NoticedKept DEF FrameInv
<1>1. CASE TakePicture
  BY <1>1 DEF TakePicture, WholeSoFar
<1>2. CASE read_full_picture
  <2>1. frame_ptr = 0 /\ UNCHANGED frame_ptr /\ line' = <<>> /\ stage' \in {"command", "done"}
    BY <1>2 DEF read_full_picture, Allocate, PhotoInv, RoomLeft
  <2>2. stage' = "command" => remaining' = ret_size' /\ ret_size' \in Nat
    BY <1>2, PhotoAssumption DEF read_full_picture, Allocate
  <2>3. stage' = "done" => ret_size' = 0
    BY <1>2 DEF read_full_picture, Allocate
  <2> QED BY <2>1, <2>2, <2>3 DEF WholeSoFar, InPlace
<1>3. ASSUME NEW answered \in BOOLEAN, NEW reported \in BOOLEAN, RequestChunk(answered, reported)
      PROVE  WholeSoFar'
  <2>0. ~disturbed /\ ~reported /\ RequestChunk(answered, FALSE) /\ WholeSoFar
    <3>1. ~disturbed /\ ~reported
      BY <1>3 DEF RequestChunk
    <3>2. reported = FALSE
      BY <3>1
    <3> QED BY <1>3, <3>1, <3>2 DEF FrameInv
  <2>1. /\ stage = "command" /\ UNCHANGED <<frame_ptr, ret_size, jpeg_buffer>>
        /\ InPlace(frame_ptr)
        /\ ~lost /\ ret_size <= PTR_RANGE => frame_ptr + remaining = ret_size
    BY <2>0 DEF RequestChunk, WholeSoFar
  <2>2. InPlace(frame_ptr)'
    BY <2>1 DEF InPlace
  <2>3. CASE stage' = "data" /\ UNCHANGED <<remaining, lost>> /\ line' = Chunk \o Marks
    BY <2>1, <2>2, <2>3 DEF WholeSoFar, Chunk, n
  <2>4. CASE NextChunk /\ lost' = TRUE /\ line' = <<>>
    BY <2>2, <2>4 DEF WholeSoFar, NextChunk
  <2> QED BY <2>0, <2>3, <2>4, RequestInTime
<1>4. CASE ReadChunk
  <2>0. ~disturbed /\ WholeSoFar
    BY <1>4 DEF ReadChunk, FrameInv
  <2>1. /\ stage = "data" /\ UNCHANGED <<ret_size, lost>> /\ NextChunk
        /\ frame_ptr' = (frame_ptr + n) % PTR_RANGE
        /\ ~lost /\ ret_size <= PTR_RANGE => frame_ptr + remaining = ret_size
    BY <1>4, <2>0 DEF ReadChunk, WholeSoFar
  <2>2. /\ frame_ptr \in Nat /\ remaining \in Nat /\ ret_size \in Nat /\ n \in Nat /\ n <= remaining
        /\ CHUNK \in Nat \ {0} /\ PTR_RANGE \in Nat \ {0}
    BY ChunkFits, PhotoAssumption DEF PhotoInv, PhotoTypeOK
  <2>3. line' = <<>> /\ \A i \in 0 .. frame_ptr + n - 1 : jpeg_buffer'[i] = Frame(i)
    BY <1>4, <2>0, ChunkInTime
  <2>4. frame_ptr' \in Nat /\ frame_ptr' <= frame_ptr + n
    BY <2>1, <2>2, WrapShrinks
  <2>5. InPlace(frame_ptr)'
    <3>1. \A i \in 0 .. frame_ptr' - 1 : i \in 0 .. frame_ptr + n - 1
      <4>1. \A a, b, c \in Nat : c <= a + b => \A i \in 0 .. c - 1 : i \in 0 .. a + b - 1
        OBVIOUS
      <4> QED BY <2>2, <2>4, <4>1
    <3> QED BY <2>3, <3>1 DEF InPlace
  <2>6. CASE stage' = "command" /\ remaining > CHUNK /\ remaining' = remaining - CHUNK
    <3>1. n = CHUNK
      BY <2>6 DEF n
    <3>2. ASSUME ~lost, ret_size <= PTR_RANGE PROVE frame_ptr' + remaining' = ret_size
      <4>1. frame_ptr + n < PTR_RANGE
        BY <2>1, <2>2, <2>6, <3>1, <3>2
      <4>2. frame_ptr' = frame_ptr + n
        BY <2>1, <2>2, <4>1, SmallMod
      <4> QED BY <2>1, <2>2, <2>6, <3>1, <3>2, <4>2
    <3> QED BY <2>1, <2>3, <2>5, <2>6, <3>2 DEF WholeSoFar
  <2>7. CASE stage' = "done" /\ ~(remaining > CHUNK) /\ UNCHANGED remaining
    <3>1. n = remaining
      BY <2>7 DEF n
    <3>2. ~lost /\ ret_size <= PTR_RANGE => InPlace(ret_size)'
      <4> SUFFICES ASSUME ~lost, ret_size <= PTR_RANGE PROVE InPlace(ret_size)'
        OBVIOUS
      <4>1. \A i : i \in 0 .. ret_size' - 1 => i \in 0 .. frame_ptr + n - 1
        <5>1. frame_ptr + n = ret_size'
          BY <2>1, <3>1
        <5>2. \A a, b, c \in Nat : a + b = c => \A i : i \in 0 .. c - 1 => i \in 0 .. a + b - 1
          OBVIOUS
        <5>3. frame_ptr \in Nat /\ n \in Nat /\ ret_size' \in Nat
          BY <2>1, <2>2
        <5> QED BY <5>1, <5>2, <5>3
      <4>2. \A i \in 0 .. ret_size' - 1 : jpeg_buffer'[i] = Frame(i)
        BY <2>3, <4>1
      <4> QED BY <4>2 DEF InPlace
    <3> QED BY <2>1, <2>5, <2>7, <3>2 DEF WholeSoFar
  <2> QED BY <2>1, <2>6, <2>7 DEF NextChunk
<1>5. CASE ResumePicture
  BY <1>5 DEF ResumePicture, WholeSoFar
<1>6. CASE UNCHANGED photoVars
  BY <1>6 DEF photoVars, FrameInv, WholeSoFar, InPlace, Chunk, n
<1> QED BY <1>1, <1>2, <1>3, <1>4, <1>5, <1>6 DEF PhotoNext

\* Before the first photo there is nothing to say.
LEMMA FrameInvInit == PhotoInit => FrameInv
BY DEF PhotoInit, FrameInv, WholeSoFar, Noticed

(***************************************************************************)
(* Of a camera in time that reports no motion meanwhile, every byte in     *)
(* front of frame_ptr is the frame's, whichever requests it drops and      *)
(* however frame_ptr wraps, for every chunk and frame size                 *)
(* (camera.c:306-346).  A mark must be looked at: verify_response compares *)
(* one byte less than it read.                                             *)
(***************************************************************************)
THEOREM BytesStayInPlace ==
  ASSUME MARK > 1 PROVE PhotoSpec => []BytesInPlace
<1>1. PhotoInit => PhotoInv /\ FrameInv
  BY InitInv, FrameInvInit
<1>2. PhotoInv /\ FrameInv /\ [PhotoNext]_photoVars => PhotoInv' /\ FrameInv'
  BY StepInv, FrameInvKept
<1>3. PhotoInv /\ FrameInv => BytesInPlace
  BY DEF FrameInv, WholeSoFar, BytesInPlace, InPlace
<1> QED BY <1>1, <1>2, <1>3, PTL DEF PhotoSpec

(***************************************************************************)
(* A photo whose requests were all answered in time is the whole frame, as *)
(* long as frame_ptr can count its bytes (camera.c:326-347).  A report     *)
(* cannot spoil it unseen: the chunk it comes in front of fails.           *)
(***************************************************************************)
THEOREM PhotosAreFrames ==
  ASSUME MARK > 1 PROVE PhotoSpec => []PhotoIsFrame
<1>1. PhotoInit => PhotoInv /\ FrameInv
  BY InitInv, FrameInvInit
<1>2. PhotoInv /\ FrameInv /\ [PhotoNext]_photoVars => PhotoInv' /\ FrameInv'
  BY StepInv, FrameInvKept
<1>3. PhotoInv /\ FrameInv => PhotoIsFrame
  BY DEF FrameInv, WholeSoFar, Noticed, PhotoIsFrame, InPlace
<1> QED BY <1>1, <1>2, <1>3, PTL DEF PhotoSpec
=============================================================================
