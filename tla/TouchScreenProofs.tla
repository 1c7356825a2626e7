-------------------------- MODULE TouchScreenProofs --------------------------
(***************************************************************************)
(* The layout of the screen: no point belongs to two buttons.  And, for    *)
(* every set of positions, what is pressed was touched: bytes that do not  *)
(* belong together never make up a point.                                  *)
(***************************************************************************)
EXTENDS TouchScreen, SequenceTheorems, TLAPS

\* Button b lies wholly on one side of button c.
Apart(b, c) ==
  \/ button_array[b].x1 < button_array[c].x0 \/ button_array[c].x1 < button_array[b].x0
  \/ button_array[b].y1 < button_array[c].y0 \/ button_array[c].y1 < button_array[b].y0

\* The buttons by name, for the prover to go through.
LEMMA ButtonNames ==
  Buttons = {"MANUAL_BUTTON", "AUTOMATIC_BUTTON", "SECURITY_BUTTON", "BLUETOOTH_BUTTON",
             "FIRE_BUTTON", "LEFT_BUTTON", "RIGHT_BUTTON", "UP_BUTTON", "DOWN_BUTTON",
             "CAMERA_BUTTON"}
BY DEF Buttons, button_array

\* Every two boxes are apart.
LEMMA BoxesAreApart == \A b, c \in Buttons : b # c => Apart(b, c)
BY ButtonNames DEF Apart, button_array, Box

\* The corners are integers.
LEMMA BoxesAreIntegers ==
  \A b \in Buttons : /\ button_array[b].x0 \in Int /\ button_array[b].x1 \in Int
                     /\ button_array[b].y0 \in Int /\ button_array[b].y1 \in Int
BY ButtonNames DEF button_array, Box

(***************************************************************************)
(* A point of the screen lies on at most one button, so that poll_touch's  *)
(* order of search does not matter (gui.c:62-69,174-310).                  *)
(***************************************************************************)
THEOREM ButtonsDisjoint ==
  ASSUME NEW p \in Int \X Int, NEW b \in ButtonsAt(p), NEW c \in ButtonsAt(p)
  PROVE  b = c
<1>1. b \in Buttons /\ c \in Buttons
  BY DEF ButtonsAt
<1>2. check_if_pressed(b, p) /\ check_if_pressed(c, p)
  BY DEF ButtonsAt
<1>3. p[1] \in Int /\ p[2] \in Int
  OBVIOUS
<1>4. ~Apart(b, c)
  BY <1>1, <1>2, <1>3, BoxesAreIntegers DEF check_if_pressed, Apart
<1> QED BY <1>1, <1>4, BoxesAreApart

-----------------------------------------------------------------------------
(* What is pressed was touched.                                            *)

Bytes == [v : Nat, of : Nat]
Headers == {PEN_UP, PEN_DOWN}

\* A number of twelve bits falls into a part of five and one of seven.
LEMMA Halves ==
  ASSUME NEW n \in Nat, n < 4096
  PROVE  /\ n % 128 \in Nat /\ n \div 128 \in Nat
         /\ n % 128 < 128 /\ n \div 128 < 32
         /\ n = 128 * (n \div 128) + (n % 128)
OBVIOUS

\* Masking what is small enough changes nothing.
LEMMA SmallMod ==
  ASSUME NEW k \in Nat, NEW m \in Nat, k < m PROVE k % m = k
OBVIOUS

\* get_raw_coordinates puts the halves together again.
LEMMA HalvesJoined ==
  ASSUME NEW n \in Nat, n < 4096
  PROVE  get_raw_coordinates(n \div 128, n % 128) = n
<1>1. (n \div 128) % 32 = n \div 128
  BY Halves, SmallMod
<1>2. (n % 128) % 128 = n % 128
  BY Halves, SmallMod
<1>3. n \div 128 \in Nat /\ n % 128 \in Nat /\ n = 128 * (n \div 128) + (n % 128)
  BY Halves
<1> QED BY <1>1, <1>2, <1>3 DEF get_raw_coordinates

\* Both coordinates have twelve bits.
LEMMA PositionBits ==
  ASSUME NEW raw \in Positions
  PROVE  raw[1] \in Nat /\ raw[1] < 4096 /\ raw[2] \in Nat /\ raw[2] < 4096
<1>1. raw[1] \in 0 .. 4095 /\ raw[2] \in 0 .. 4095
  BY DEF Positions
<1>2. ASSUME NEW n \in 0 .. 4095 PROVE n \in Nat /\ n < 4096
  OBVIOUS
<1> DEFINE x == raw[1]
           y == raw[2]
<1>3. x \in 0 .. 4095 /\ y \in 0 .. 4095
  BY <1>1
<1> HIDE DEF x, y
<1>4. x \in Nat /\ x < 4096 /\ y \in Nat /\ y < 4096
  BY <1>2, <1>3
<1> QED BY <1>4 DEF x, y

\* A report is a header, which has the eighth bit, and four bytes.
LEMMA ReportBytes ==
  ASSUME NEW raw \in Positions, NEW header \in Headers
  PROVE  /\ Report(header, raw) \in Seq(Bytes) /\ Len(Report(header, raw)) = 5
         /\ Report(header, raw)[1].v >= 128
<1>1. /\ raw[1] % 128 \in Nat /\ raw[1] \div 128 \in Nat
      /\ raw[2] % 128 \in Nat /\ raw[2] \div 128 \in Nat
  BY PositionBits, Halves
<1>2. header \in Nat /\ header >= 128
  BY DEF Headers, PEN_UP, PEN_DOWN
<1> QED BY <1>1, <1>2 DEF Report, Bytes

\* Its four bytes say the position.
LEMMA ReportDecoded ==
  ASSUME NEW raw \in Positions, NEW header \in Headers
  PROVE  /\ get_raw_coordinates(Report(header, raw)[3].v, Report(header, raw)[2].v) = raw[1]
         /\ get_raw_coordinates(Report(header, raw)[5].v, Report(header, raw)[4].v) = raw[2]
<1>1. /\ Report(header, raw)[2].v = raw[1] % 128 /\ Report(header, raw)[3].v = raw[1] \div 128
      /\ Report(header, raw)[4].v = raw[2] % 128 /\ Report(header, raw)[5].v = raw[2] \div 128
  BY DEF Report
<1> QED BY <1>1, PositionBits, HalvesJoined

\* Sequences put together.
LEMMA Joined ==
  ASSUME NEW a \in Seq(Bytes), NEW b \in Seq(Bytes)
  PROVE  /\ a \o b \in Seq(Bytes) /\ Len(a \o b) = Len(a) + Len(b)
         /\ \A i \in 1 .. Len(a) : (a \o b)[i] = a[i]
         /\ Len(b) > 0 => (a \o b)[Len(a) + 1] = b[1]
<1>1. Len(a) \in Nat /\ Len(b) \in Nat
  OBVIOUS
<1> QED BY <1>1, ConcatProperties

\* ... in any grouping.
LEMMA Regrouped ==
  ASSUME NEW a \in Seq(Bytes), NEW b \in Seq(Bytes), NEW c \in Seq(Bytes)
  PROVE  a \o (b \o c) = (a \o b) \o c
BY ConcatAssociative

\* A byte that moves from the front of one sequence to the end of the one
\* before it.
LEMMA ByteMoved ==
  ASSUME NEW a \in Seq(Bytes), NEW c \in Seq(Bytes), c # <<>>
  PROVE  Append(a, Head(c)) \o Tail(c) = a \o c
<1>1. Head(c) \in Bytes /\ Tail(c) \in Seq(Bytes)
  BY HeadTailProperties
<1>2. Append(a, Head(c)) = a \o <<Head(c)>> /\ <<Head(c)>> \in Seq(Bytes)
  BY <1>1, AppendIsConcat
<1>3. c = <<Head(c)>> \o Tail(c)
  <2>1. SubSeq(c, 1, Len(c)) = <<c[1]>> \o SubSeq(c, 2, Len(c))
    <3>1. Len(c) \in Nat /\ Len(c) # 0 /\ 1 \in 1 .. Len(c) /\ Len(c) \in 1 .. Len(c)
      OBVIOUS
    <3> QED BY <3>1, SubSeqRecursiveFirst
  <2> QED BY <2>1, SubSeqFull, TailIsSubSeq
<1>4. (a \o <<Head(c)>>) \o Tail(c) = a \o (<<Head(c)>> \o Tail(c))
  BY <1>1, <1>2, ConcatAssociative
<1> QED BY <1>2, <1>3, <1>4

\* The bytes still to come end a report of a touched position.
EndOf(s, R) == Len(s) <= 5 /\ \A i \in 1 .. Len(s) : s[i] = R[5 - Len(s) + i]
Pending(s) ==
  s = <<>> \/ \E raw \in touched, header \in Headers : EndOf(s, Report(header, raw))

\* What a poll that has taken a header has read and is about to read is the
\* body of one report, or has a header too early in it, or is so little that
\* the next header will come too early.
Stream == touch_report \o (rx \o report)

BodyOf(s, R) == \A i \in 1 .. 4 : s[i] = R[i + 1]
WholeBody(s) ==
  Len(s) >= 4 /\ \E raw \in touched, header \in Headers : BodyOf(s, Report(header, raw))
HeaderInside(s) == \E i \in 1 .. 4 : i <= Len(s) /\ s[i].v >= 128
BodyInv(s) == WholeBody(s) \/ HeaderInside(s) \/ Len(s) < 4

TouchTypes ==
  /\ pc \in {"elsewhere", "header", "body"}
  /\ touch_report \in Seq(Bytes) /\ rx \in Seq(Bytes) /\ report \in Seq(Bytes)
  /\ Len(rx) <= 1
  /\ touched \subseteq Positions
  /\ pc = "header" => touch_report = <<>>

TouchInv ==
  /\ TouchTypes
  /\ Pending(report)
  /\ pc = "body" => BodyInv(Stream)
  /\ PressedWasTouched

\* What has been said of positions touched stays true as more are touched.
LEMMA MoreTouched ==
  ASSUME touched \subseteq touched'
  PROVE  /\ \A s : BodyInv(s) => BodyInv(s)'
         /\ UNCHANGED button /\ PressedWasTouched => PressedWasTouched'
BY DEF BodyInv, WholeBody, HeaderInside, PressedWasTouched

\* The stream is a sequence of bytes.
LEMMA StreamIsBytes == TouchTypes => rx \o report \in Seq(Bytes) /\ Stream \in Seq(Bytes)
BY Joined DEF TouchTypes, Stream

\* A report put behind a stream keeps what has been said of it: its header
\* comes too early if the stream was short.
LEMMA ReportBehind ==
  ASSUME NEW s \in Seq(Bytes), NEW R \in Seq(Bytes), Len(R) = 5, R[1].v >= 128, BodyInv(s)
  PROVE  BodyInv(s \o R)
<1>1. /\ Len(s) \in Nat /\ Len(s \o R) = Len(s) + 5
      /\ \A i \in 1 .. Len(s) : (s \o R)[i] = s[i]
      /\ (s \o R)[Len(s) + 1] = R[1]
  <2>1. Len(s) \in Nat
    BY LenProperties
  <2>2. /\ Len(s \o R) = Len(s) + Len(R)
        /\ \A i \in 1 .. Len(s) : (s \o R)[i] = s[i]
        /\ Len(R) > 0 => (s \o R)[Len(s) + 1] = R[1]
    BY Joined
  <2>3. Len(R) > 0
    OBVIOUS
  <2> QED BY <2>1, <2>2, <2>3
<1>2. CASE WholeBody(s)
  <2>1. Len(s) >= 4 /\ \A i \in 1 .. 4 : (s \o R)[i] = s[i]
    BY <1>1, <1>2 DEF WholeBody
  <2>2. Len(s \o R) >= 4
    BY <1>1, <2>1
  <2> QED BY <1>2, <2>1, <2>2 DEF WholeBody, BodyInv, BodyOf
<1>3. CASE HeaderInside(s)
  <2>1. PICK i \in 1 .. 4 : i <= Len(s) /\ s[i].v >= 128
    BY <1>3 DEF HeaderInside
  <2>2. (s \o R)[i] = s[i] /\ i <= Len(s \o R)
    BY <1>1, <2>1
  <2> QED BY <2>1, <2>2 DEF HeaderInside, BodyInv
<1>4. CASE Len(s) < 4
  <2>1. Len(s) + 1 \in 1 .. 4 /\ Len(s) + 1 <= Len(s \o R)
    BY <1>1, <1>4
  <2>2. (s \o R)[Len(s) + 1].v >= 128
    BY <1>1
  <2> QED BY <2>1, <2>2 DEF HeaderInside, BodyInv
<1> QED BY <1>2, <1>3, <1>4 DEF BodyInv

\* A whole report ends itself.
LEMMA ReportEndsItself ==
  ASSUME NEW R \in Seq(Bytes), Len(R) = 5 PROVE EndOf(R, R)
<1>1. \A i \in 1 .. 5 : 5 - 5 + i = i
  OBVIOUS
<1> QED BY <1>1 DEF EndOf

\* A report that begins puts its header behind what is left of the last one.
LEMMA NewReport ==
  ASSUME TouchInv, report = <<>>, NEW raw \in touched', NEW header \in Headers,
         touched \subseteq touched', touched' \subseteq Positions,
         report' = Report(header, raw),
         UNCHANGED <<pc, touch_report, button, rx>>
  PROVE  TouchInv'
<1>1. report' \in Seq(Bytes) /\ Len(report') = 5 /\ report'[1].v >= 128
  BY ReportBytes
<1>2. TouchTypes'
  BY <1>1 DEF TouchInv, TouchTypes
<1>3. Pending(report)'
  BY <1>1, ReportEndsItself DEF Pending
<1>4. pc = "body" => BodyInv(Stream)'
  <2> SUFFICES ASSUME pc = "body" PROVE BodyInv(Stream)'
    OBVIOUS
  <2>1. touch_report \in Seq(Bytes) /\ rx \in Seq(Bytes) /\ BodyInv(Stream)
    BY DEF TouchInv, TouchTypes
  <2>2. Stream = touch_report \o rx
    <3>1. rx \o <<>> = rx
      BY <2>1, ConcatEmptySeq
    <3> QED BY <3>1 DEF Stream
  <2>3. Stream' = Stream \o report'
    <3>1. Stream' = touch_report \o (rx \o report')
      BY DEF Stream
    <3>2. touch_report \o (rx \o report') = (touch_report \o rx) \o report'
      BY <1>1, <2>1, Regrouped
    <3> QED BY <2>2, <3>1, <3>2
  <2>4. Stream \in Seq(Bytes)
    BY StreamIsBytes DEF TouchInv
  <2>5. BodyInv(Stream \o report')
    BY <1>1, <2>1, <2>4, ReportBehind
  <2> QED BY <2>3, <2>5, MoreTouched DEF BodyInv, WholeBody, HeaderInside
<1>5. PressedWasTouched'
  BY MoreTouched DEF TouchInv
<1> QED BY <1>2, <1>3, <1>4, <1>5 DEF TouchInv

\* Less of a report is still the end of it.
LEMMA EndOfTail ==
  ASSUME NEW s \in Seq(Bytes), s # <<>>, NEW R, EndOf(s, R) PROVE EndOf(Tail(s), R)
<1>1. Len(s) \in Nat /\ Len(s) > 0 /\ Len(Tail(s)) = Len(s) - 1
  OBVIOUS
<1>2. ASSUME NEW i \in 1 .. Len(s) - 1 PROVE Tail(s)[i] = R[5 - (Len(s) - 1) + i]
  <2>1. Tail(s)[i] = s[i + 1] /\ i + 1 \in 1 .. Len(s)
    BY <1>1, HeadTailProperties
  <2>2. 5 - Len(s) + (i + 1) = 5 - (Len(s) - 1) + i
    BY <1>1
  <2>3. s[i + 1] = R[5 - Len(s) + (i + 1)]
    BY <2>1 DEF EndOf
  <2> QED BY <2>1, <2>2, <2>3
<1> QED BY <1>1, <1>2 DEF EndOf

\* What is behind a header: the body, if the header came with it; else less
\* than a body, or the next report.
LEMMA BehindHeader ==
  ASSUME NEW s \in Seq(Bytes), Pending(s), touched \subseteq Positions
  PROVE  BodyInv(s)
<1> SUFFICES ASSUME s # <<>> PROVE BodyInv(s)
  BY EmptySeq DEF BodyInv
<1>1. PICK raw \in touched, header \in Headers : EndOf(s, Report(header, raw))
  BY DEF Pending
<1> DEFINE R == Report(header, raw)
<1>2. R[1].v >= 128
  BY ReportBytes
<1>3. EndOf(s, R)
  BY <1>1
<1>4. BodyOf(s, R) => \E h \in Headers, p \in touched : BodyOf(s, Report(h, p))
  BY <1>1
<1> HIDE DEF R
<1>5. CASE Len(s) = 5
  <2>1. s[1] = R[1]
    BY <1>3, <1>5 DEF EndOf
  <2> QED BY <1>2, <1>5, <2>1 DEF BodyInv, HeaderInside
<1>6. CASE Len(s) = 4
  <2>1. BodyOf(s, R)
    BY <1>3, <1>6 DEF EndOf, BodyOf
  <2> QED BY <1>4, <1>6, <2>1 DEF BodyInv, WholeBody
<1>7. Len(s) \in Nat /\ Len(s) <= 5
  <2>1. Len(s) \in Nat
    BY LenProperties
  <2>2. Len(s) <= 5
    BY <1>3 DEF EndOf
  <2> QED BY <2>1, <2>2
<1>8. \A n \in Nat : n <= 5 => n = 5 \/ n = 4 \/ n < 4
  OBVIOUS
<1> QED BY <1>5, <1>6, <1>7, <1>8 DEF BodyInv

\* Four bytes without a header among them are the body of one report.
LEMMA VerifiedIsWhole ==
  ASSUME TouchInv, pc = "body", Len(touch_report) = 4, verify_touch_report
  PROVE  \E raw \in touched :
           /\ get_raw_coordinates(touch_report[2].v, touch_report[1].v) = raw[1]
           /\ get_raw_coordinates(touch_report[4].v, touch_report[3].v) = raw[2]
<1>1. BodyInv(Stream) /\ touch_report \in Seq(Bytes) /\ rx \o report \in Seq(Bytes)
      /\ touched \subseteq Positions
  BY StreamIsBytes DEF TouchInv, TouchTypes
<1> DEFINE t == rx \o report
<1>2. Stream = touch_report \o t /\ t \in Seq(Bytes)
  BY <1>1 DEF Stream
<1> HIDE DEF t
<1>3. Len(Stream) >= 4 /\ \A i \in 1 .. 4 : Stream[i] = touch_report[i]
  <2>1. /\ Len(touch_report \o t) = Len(touch_report) + Len(t)
        /\ \A i \in 1 .. Len(touch_report) : (touch_report \o t)[i] = touch_report[i]
    BY <1>1, <1>2, Joined
  <2>2. Len(t) \in Nat
    BY <1>2, LenProperties
  <2>3. Len(touch_report) = 4
    OBVIOUS
  <2>4. Len(touch_report \o t) >= 4
    BY <2>1, <2>2, <2>3
  <2>5. \A i \in 1 .. 4 : (touch_report \o t)[i] = touch_report[i]
    BY <2>1, <2>3
  <2> QED BY <1>2, <2>4, <2>5
<1>4. \A i \in 1 .. 4 : touch_report[i].v < 128 /\ touch_report[i].v \in Nat
  <2>1. DOMAIN touch_report = 1 .. 4 /\ \A i \in 1 .. 4 : touch_report[i] \in Bytes
    BY <1>1, LenProperties, ElementOfSeq
  <2> QED BY <2>1 DEF verify_touch_report, Bytes
<1>5. ~HeaderInside(Stream)
  BY <1>3, <1>4 DEF HeaderInside
<1>6. PICK raw \in touched, header \in Headers : BodyOf(Stream, Report(header, raw))
  BY <1>1, <1>3, <1>5 DEF BodyInv, WholeBody
<1>7. /\ touch_report[1] = Report(header, raw)[2] /\ touch_report[2] = Report(header, raw)[3]
      /\ touch_report[3] = Report(header, raw)[4] /\ touch_report[4] = Report(header, raw)[5]
  BY <1>3, <1>6 DEF BodyOf
<1> QED BY <1>1, <1>7, ReportDecoded

\* A point of the screen is a pair of integers.
LEMMA PointIsInteger ==
  ASSUME NEW raw \in Positions PROVE Point(raw[1], raw[2]) \in Int \X Int
BY PositionBits DEF Point

\* What is pressed at a verified point was touched.
LEMMA PressIsOfTouched ==
  ASSUME TouchInv, Return PROVE PressedWasTouched'
<1> SUFFICES ASSUME button' # NoButton PROVE PressedWasTouched'
  BY DEF PressedWasTouched
<1>1. pc = "body" /\ Len(touch_report) = 4 /\ UNCHANGED touched
  BY DEF Return
<1> DEFINE p == Point(get_raw_coordinates(touch_report[2].v, touch_report[1].v),
                      get_raw_coordinates(touch_report[4].v, touch_report[3].v))
<1>2. verify_touch_report /\ button' \in ButtonsAt(p)
  BY DEF Return
<1>3. PICK raw \in touched : p = Point(raw[1], raw[2])
  BY <1>1, <1>2, VerifiedIsWhole
<1> HIDE DEF p
<1>4. p \in Int \X Int
  BY <1>3, PointIsInteger DEF TouchInv, TouchTypes
<1>5. ButtonsAt(p) = {button'}
  BY <1>2, <1>4, ButtonsDisjoint
<1> QED BY <1>1, <1>3, <1>5 DEF PressedWasTouched

\* With one byte of memory every step keeps the invariant.
LEMMA TouchInvKept ==
  ASSUME RxDepth = 1, TouchInv, [Next]_vars PROVE TouchInv'
<1>1. TouchTypes /\ Pending(report) /\ (pc = "body" => BodyInv(Stream)) /\ PressedWasTouched
  BY DEF TouchInv
<1>2. UNCHANGED <<touched, button>> => PressedWasTouched'
  BY <1>1 DEF PressedWasTouched
<1>3. UNCHANGED <<touched, report>> => Pending(report)'
  BY <1>1 DEF Pending
<1>4. ASSUME Stream' = Stream, UNCHANGED touched, BodyInv(Stream) PROVE BodyInv(Stream)'
  BY <1>4 DEF BodyInv, WholeBody, HeaderInside
<1>5. CASE Touch
  <2>1. PICK raw \in Raws : report' = Report(PEN_DOWN, raw) /\ touched' = touched \cup {raw}
    BY <1>5 DEF Touch
  <2>2. raw \in Positions /\ PEN_DOWN \in Headers
    BY TouchAssumption DEF Headers
  <2> QED BY <1>1, <1>5, <2>1, <2>2, NewReport DEF Touch, TouchTypes
<1>6. CASE Lift
  <2>1. PICK raw \in touched : report' = Report(PEN_UP, raw)
    BY <1>6 DEF Lift
  <2>2. PEN_UP \in Headers
    BY DEF Headers
  <2> QED BY <1>1, <1>6, <2>1, <2>2, NewReport DEF Lift, TouchTypes
<1>7. CASE Line
  <2>1. /\ report # <<>> /\ report' = Tail(report)
        /\ UNCHANGED <<pc, touch_report, button, touched>>
        /\ rx' = IF Len(rx) < 1 THEN Append(rx, Head(report)) ELSE rx
        /\ pc = "body" => Len(rx) < 1
    BY <1>7 DEF Line, Polling
  <2>2. Head(report) \in Bytes /\ Tail(report) \in Seq(Bytes)
    BY <1>1, <2>1, HeadTailProperties DEF TouchTypes
  <2>3. TouchTypes'
    BY <1>1, <2>1, <2>2 DEF TouchTypes
  <2>4. Pending(report)'
    BY <1>1, <2>1, EndOfTail DEF Pending, TouchTypes
  <2>5. pc = "body" => Stream' = Stream
    <3> SUFFICES ASSUME pc = "body" PROVE Stream' = Stream
      OBVIOUS
    <3>1. rx' = Append(rx, Head(report))
      BY <2>1
    <3>2. rx' \o report' = rx \o report
      BY <1>1, <2>1, <3>1, ByteMoved DEF TouchTypes
    <3> QED BY <2>1, <3>2 DEF Stream
  <2> QED BY <1>1, <1>2, <1>4, <2>1, <2>3, <2>4, <2>5 DEF TouchInv
<1>8. CASE poll_touch
  <2>1. pc' = "header" /\ touch_report' = <<>> /\ button' = NoButton /\ UNCHANGED <<rx, report, touched>>
    BY <1>8 DEF poll_touch
  <2>2. TouchTypes' /\ PressedWasTouched'
    BY <1>1, <2>1 DEF TouchTypes, PressedWasTouched
  <2> QED BY <1>3, <2>1, <2>2 DEF TouchInv
<1>9. CASE ReadHeader
  <2>1. /\ pc = "header" /\ rx # <<>> /\ rx' = Tail(rx) /\ pc' \in {"header", "body"}
        /\ UNCHANGED <<touch_report, button, report, touched>>
    BY <1>9 DEF ReadHeader
  <2>2. touch_report = <<>> /\ rx' = <<>>
    <3>1. rx \in Seq(Bytes) /\ Len(rx) <= 1 /\ touch_report = <<>>
      BY <1>1, <2>1 DEF TouchTypes
    <3>2. Len(rx) = 1
      <4>1. Len(rx) \in Nat \ {0}
        BY <2>1, <3>1, EmptySeq
      <4>2. Len(rx) <= 1
        BY <3>1
      <4> QED BY <4>1, <4>2
    <3>3. Tail(rx) \in Seq(Bytes) /\ Len(Tail(rx)) = 0
      BY <2>1, <3>1, <3>2, HeadTailProperties
    <3> QED BY <2>1, <3>1, <3>3, EmptySeq
  <2>3. TouchTypes'
    BY <1>1, <2>1, <2>2 DEF TouchTypes
  <2>4. Stream' = report'
    BY <2>1, <2>2, <2>3, ConcatEmptySeq DEF Stream, TouchTypes
  <2>5. BodyInv(report)
    BY <1>1, BehindHeader DEF TouchTypes
  <2>6. BodyInv(Stream)'
    BY <2>1, <2>4, <2>5 DEF BodyInv, WholeBody, HeaderInside
  <2> QED BY <1>2, <1>3, <2>1, <2>3, <2>6 DEF TouchInv
<1>10. CASE ReadBody
  <2>1. /\ pc = "body" /\ rx # <<>> /\ rx' = Tail(rx) /\ touch_report' = Append(touch_report, Head(rx))
        /\ UNCHANGED <<pc, button, report, touched>>
    BY <1>10 DEF ReadBody
  <2>2. Head(rx) \in Bytes /\ Tail(rx) \in Seq(Bytes) /\ Len(Tail(rx)) <= 1
    BY <1>1, <2>1, HeadTailProperties DEF TouchTypes
  <2>3. TouchTypes'
    BY <1>1, <2>1, <2>2, AppendProperties DEF TouchTypes
  <2>4. Stream' = Stream
    <3>1. Stream = (touch_report \o rx) \o report
      <4>1. touch_report \in Seq(Bytes) /\ rx \in Seq(Bytes) /\ report \in Seq(Bytes)
        BY <1>1 DEF TouchTypes
      <4> QED BY <4>1, Regrouped DEF Stream
    <3>3. Stream' = (touch_report' \o rx') \o report'
      <4>1. touch_report' \in Seq(Bytes) /\ rx' \in Seq(Bytes) /\ report' \in Seq(Bytes)
        BY <2>3 DEF TouchTypes
      <4>2. Stream' = touch_report' \o (rx' \o report')
        BY DEF Stream
      <4>3. touch_report' \o (rx' \o report') = (touch_report' \o rx') \o report'
        BY <4>1, Regrouped
      <4> QED BY <4>2, <4>3
    <3>2. touch_report' \o rx' = touch_report \o rx
      BY <1>1, <2>1, ByteMoved DEF TouchTypes
    <3> QED BY <2>1, <3>1, <3>2, <3>3
  <2> QED BY <1>1, <1>2, <1>3, <1>4, <2>1, <2>3, <2>4 DEF TouchInv
<1>11. CASE Timeout
  <2>1. pc' = "elsewhere" /\ UNCHANGED <<touch_report, button, rx, report, touched>>
    BY <1>11 DEF Timeout
  <2>2. TouchTypes'
    BY <1>1, <2>1 DEF TouchTypes
  <2> QED BY <1>2, <1>3, <2>1, <2>2 DEF TouchInv
<1>12. CASE Return
  <2>1. pc' = "elsewhere" /\ UNCHANGED <<touch_report, rx, report, touched>>
    BY <1>12 DEF Return
  <2>2. TouchTypes'
    BY <1>1, <2>1 DEF TouchTypes
  <2> QED BY <1>3, <1>12, <2>1, <2>2, PressIsOfTouched DEF TouchInv
<1>13. CASE UNCHANGED vars
  <2>1. TouchTypes' /\ UNCHANGED <<touched, button, report, pc>> /\ Stream' = Stream
    BY <1>1, <1>13 DEF vars, TouchTypes, Stream
  <2> QED BY <1>1, <1>2, <1>3, <1>4, <2>1 DEF TouchInv
<1> QED BY <1>5, <1>6, <1>7, <1>8, <1>9, <1>10, <1>11, <1>12, <1>13 DEF Next

(***************************************************************************)
(* With the one-byte receiver the hardware has, a button reported pressed  *)
(* is one the finger has been on, wherever the finger goes and whatever    *)
(* bytes are lost between polls (touch_screen.c:26-48,83-112).  A receiver *)
(* of two bytes would keep the start of one report for the end of another. *)
(***************************************************************************)
THEOREM PressesWereTouched ==
  ASSUME RxDepth = 1 PROVE Spec => []PressedWasTouched
<1>1. Init => TouchInv
  <2> SUFFICES ASSUME Init PROVE TouchInv
    OBVIOUS
  <2> QED BY DEF Init, TouchInv, TouchTypes, Pending, PressedWasTouched
<1>2. TouchInv /\ [Next]_vars => TouchInv'
  BY TouchInvKept
<1>3. TouchInv => PressedWasTouched
  BY DEF TouchInv
<1> QED BY <1>1, <1>2, <1>3, PTL DEF Spec
=============================================================================
