----------------------------- MODULE JtagProofs -----------------------------
(***************************************************************************)
(* The console driver for rings and FIFOs of every size: types, with the   *)
(* hardware FIFO never overrun; the two invariants that keep output and    *)
(* input from standing still; and that each of its two ways implements     *)
(* ByteQueue.                                                              *)
(***************************************************************************)
EXTENDS JtagUart, SequenceTheorems, TLAPS

\* A remainder is a slot.
LEMMA ModInSlots ==
  ASSUME NEW a \in Nat
  PROVE  a % BUF_LEN \in Slots
  BY JtagAssumption DEF Slots

\* What can be moved without wrapping around never reaches the ring's length.
LEMMA RoomBounds ==
  ASSUME NEW i \in Slots, NEW o \in Slots
  PROVE  /\ Next1(i) \in Slots
         /\ TxRoom(i, o) \in 0 .. BUF_LEN - 1
         /\ RxData(i, o) \in 0 .. BUF_LEN - 1
  BY JtagAssumption, ModInSlots DEF Slots, TxRoom, RxData, Next1

-----------------------------------------------------------------------------
(* Types.                                                                  *)

\* The types, and why they last: the routine's idea of the FIFO's space is at
\* most the space there is, since only the routine fills the FIFO.
ByteTypes ==
  /\ tx_buf \in [Slots -> Nat] /\ rx_buf \in [Slots -> Nat]
  /\ tx_fifo \in Seq(Nat) /\ rx_fifo \in Seq(Nat)
  /\ written \in Nat /\ typed \in Nat

RingTypes ==
  /\ tx_in \in Slots /\ tx_out \in Slots /\ rx_in \in Slots /\ rx_out \in Slots
  /\ in \in Slots /\ out \in Slots

ThreadTypes ==
  /\ pc \in {"idle", "close"} \cup WritePcs \cup ReadPcs
  /\ n \in 0 .. BUF_LEN - 1 /\ count \in Nat /\ moved \in Nat
  /\ pc \in {"copy", "take"} => n <= count
  /\ result \in {"none", "count", "EWOULDBLOCK", "EIO", "closed"}

DriverTypes ==
  /\ irq_enable \subseteq {"RE", "WE"} /\ host_inactive \in 0 .. TIMEOUT
  /\ isr \in {"off", "control", "rx", "tx"} /\ space \in 0 .. FIFO_LEN
  /\ Len(tx_fifo) <= FIFO_LEN /\ Len(rx_fifo) <= FIFO_LEN
  /\ isr \in {"rx", "tx"} => Len(tx_fifo) + space <= FIFO_LEN

TypeInv == ByteTypes /\ RingTypes /\ ThreadTypes /\ DriverTypes

\* The types hold at the start.
LEMMA TypeInvInit == Init => TypeInv
  BY JtagAssumption DEF Init, TypeInv, ByteTypes, RingTypes, ThreadTypes, DriverTypes, Slots

\* Appending a byte to a FIFO, and taking one from it.
LEMMA FifoStep ==
  ASSUME NEW s \in Seq(Nat), NEW b \in Nat
  PROVE  /\ Append(s, b) \in Seq(Nat) /\ Len(Append(s, b)) = Len(s) + 1
         /\ s # <<>> => Head(s) \in Nat /\ Tail(s) \in Seq(Nat) /\ Len(Tail(s)) = Len(s) - 1
         /\ Len(s) \in Nat
  OBVIOUS

\* The host and the hardware keep the types.
LEMMA HostKeepsTypes ==
  ASSUME TypeInv, Host PROVE TypeInv'
<1> USE DEF TypeInv, ByteTypes, DriverTypes
<1>1. RingTypes' /\ ThreadTypes'
  BY DEF RingTypes, ThreadTypes, Host, HostReads, HostTypes, HostPolls, HostComesOrGoes,
    threadVars, argVars, localVars, txVars, rxVars
<1>2. CASE HostReads
  <2>1. /\ tx_fifo' \in Seq(Nat) /\ Len(tx_fifo') = Len(tx_fifo) - 1
        /\ Len(tx_fifo) \in Nat
    BY <1>2, FifoStep DEF HostReads
  <2>2. ByteTypes'
    BY <1>2, <2>1 DEF HostReads, txVars, rxVars
  <2>3. DriverTypes'
    BY <1>2, <2>1, JtagAssumption DEF HostReads, driverVars, isrVars
  <2> QED BY <1>1, <2>2, <2>3
<1>3. CASE HostTypes
  <2>1. /\ rx_fifo' \in Seq(Nat) /\ Len(rx_fifo') = Len(rx_fifo) + 1
        /\ Len(rx_fifo) \in Nat /\ typed' \in Nat
    BY <1>3, FifoStep DEF HostTypes
  <2>2. ByteTypes'
    BY <1>3, <2>1 DEF HostTypes, txVars, rxVars
  <2>3. DriverTypes'
    BY <1>3, <2>1, JtagAssumption DEF HostTypes, driverVars, isrVars
  <2> QED BY <1>1, <2>2, <2>3
<1>4. CASE HostPolls \/ HostComesOrGoes
  BY <1>1, <1>4 DEF HostPolls, HostComesOrGoes, txVars, rxVars, driverVars, isrVars, historyVars
<1> QED BY <1>2, <1>3, <1>4 DEF Host

\* So does the interrupt routine.
LEMMA IsrKeepsTypes ==
  ASSUME TypeInv, Isr PROVE TypeInv'
<1> USE DEF TypeInv
<1>1. ThreadTypes'
  BY DEF ThreadTypes, Isr, Interrupt, IrqControl, IrqReceive, IrqReceiveEnd, IrqTransmit,
    IrqTransmitEnd, threadVars, argVars, localVars
<1>2. CASE Interrupt
  BY <1>1, <1>2 DEF Interrupt, ByteTypes, RingTypes, DriverTypes, threadVars, localVars, txVars,
    rxVars, driverVars, hardwareVars, historyVars
<1>3. CASE IrqControl
  <2>1. ByteTypes' /\ RingTypes'
    BY <1>3 DEF IrqControl, ByteTypes, RingTypes, threadVars, localVars, txVars, rxVars,
      hardwareVars, historyVars
  <2>2. Len(tx_fifo) \in Nat
    BY FifoStep DEF ByteTypes
  <2>3. space' \in 0 .. FIFO_LEN /\ Len(tx_fifo) + space' <= FIFO_LEN
    BY <1>3, <2>2, JtagAssumption DEF IrqControl, DriverTypes
  <2>4. DriverTypes'
    BY <1>3, <2>3 DEF IrqControl, DriverTypes, driverVars, hardwareVars
  <2> QED BY <1>1, <2>1, <2>4
<1>4. CASE IrqReceive
  <2>1. /\ Head(rx_fifo) \in Nat /\ Tail(rx_fifo) \in Seq(Nat)
        /\ Len(Tail(rx_fifo)) = Len(rx_fifo) - 1 /\ Len(rx_fifo) \in Nat
    BY <1>4, FifoStep DEF IrqReceive, ByteTypes
  <2>2. rx_in' \in Slots
    BY <1>4, RoomBounds DEF IrqReceive, RingTypes
  <2>3. RingTypes'
    BY <1>4, <2>2 DEF IrqReceive, RingTypes, threadVars, localVars, txVars
  <2>4. ByteTypes'
    BY <1>4, <2>1 DEF IrqReceive, ByteTypes, RingTypes, txVars, historyVars
  <2>5. DriverTypes'
    BY <1>4, <2>1, JtagAssumption DEF IrqReceive, DriverTypes, driverVars
  <2> QED BY <1>1, <2>3, <2>4, <2>5
<1>5. CASE IrqReceiveEnd
  BY <1>1, <1>5 DEF IrqReceiveEnd, IrqRxDone, ByteTypes, RingTypes, DriverTypes, threadVars,
    localVars, txVars, rxVars, hardwareVars, historyVars
<1>6. CASE IrqTransmit
  <2>1. tx_buf[tx_out] \in Nat
    BY DEF ByteTypes, RingTypes
  <2>2. tx_fifo' \in Seq(Nat) /\ Len(tx_fifo') = Len(tx_fifo) + 1 /\ Len(tx_fifo) \in Nat
    BY <1>6, <2>1, FifoStep DEF IrqTransmit, ByteTypes
  <2>3. tx_out' \in Slots
    BY <1>6, RoomBounds DEF IrqTransmit, RingTypes
  <2>4. RingTypes'
    BY <1>6, <2>3 DEF IrqTransmit, RingTypes, threadVars, localVars, rxVars
  <2>5. ByteTypes'
    BY <1>6, <2>2 DEF IrqTransmit, ByteTypes, rxVars, historyVars
  <2>6. DriverTypes'
    BY <1>6, <2>2, JtagAssumption DEF IrqTransmit, DriverTypes, driverVars
  <2> QED BY <1>1, <2>4, <2>5, <2>6
<1>7. CASE IrqTransmitEnd
  BY <1>1, <1>7 DEF IrqTransmitEnd, ByteTypes, RingTypes, DriverTypes, threadVars,
    localVars, txVars, rxVars, hardwareVars, historyVars
<1> QED BY <1>2, <1>3, <1>4, <1>5, <1>6, <1>7 DEF Isr

\* What is moved at once: no more than there is, and than was asked for.
LEMMA MinBounds ==
  ASSUME NEW a \in 0 .. BUF_LEN - 1, NEW b \in Nat
  PROVE  /\ Min2(a, b) \in 0 .. BUF_LEN - 1 /\ Min2(a, b) <= b
         /\ a # 0 /\ b # 0 => Min2(a, b) # 0
  BY JtagAssumption DEF Min2

\* The thread shares neither FIFO nor the routine's locals.
LEMMA ThreadKeepsDriverTypes ==
  ASSUME TypeInv, write \/ read_call \/ close \/ Running PROVE DriverTypes'
  BY DEF TypeInv, DriverTypes, write, read_call, close, Call, Running, WriteLoop, WriteCopy,
    WriteAdvance, WriteKick, WriteSpin, WriteCheck, ReadLoop, ReadTake, ReadRelease, ReadWait,
    ReadLook, ReadEnable, Close, driverVars, isrVars, hardwareVars

\* Of the bytes, only WriteCopy writes any.
LEMMA ThreadKeepsByteTypes ==
  ASSUME TypeInv, write \/ read_call \/ close \/ Running PROVE ByteTypes'
<1> USE DEF TypeInv, ByteTypes
<1>1. CASE WriteCopy
  <2>1. in \in Int /\ n \in Nat /\ written \in Nat
    BY JtagAssumption DEF RingTypes, ThreadTypes, Slots
  <2>2. written' \in Nat
    BY <1>1, <2>1 DEF WriteCopy
  <2>3. ASSUME NEW i \in Slots
        PROVE  (IF i \in in .. in + n - 1 THEN written + 1 + i - in ELSE tx_buf[i]) \in Nat
    BY <2>1, JtagAssumption DEF Slots
  <2> QED BY <1>1, <2>2, <2>3 DEF WriteCopy, rxVars, hardwareVars
<1>2. CASE write \/ read_call \/ close
  BY <1>2 DEF write, read_call, close, Call, txVars, rxVars, hardwareVars, historyVars
<1>3. CASE WriteLoop \/ WriteAdvance \/ WriteKick \/ WriteSpin \/ WriteCheck
  BY <1>3 DEF WriteLoop, WriteAdvance, WriteKick, WriteSpin, WriteCheck,
    txVars, rxVars, hardwareVars, historyVars
<1>4. CASE ReadLoop \/ ReadTake \/ ReadRelease \/ ReadWait \/ ReadLook \/ ReadEnable \/ Close
  BY <1>4 DEF ReadLoop, ReadTake, ReadRelease, ReadWait, ReadLook, ReadEnable, Close,
    txVars, rxVars, hardwareVars, historyVars
<1> QED BY <1>1, <1>2, <1>3, <1>4 DEF Running

\* Indices move modulo the ring's length.
LEMMA ThreadKeepsRingTypes ==
  ASSUME TypeInv, write \/ read_call \/ close \/ Running PROVE RingTypes'
<1> USE DEF TypeInv, RingTypes
<1>0. 0 \in Slots /\ in + n \in Nat /\ out + n \in Nat
  BY JtagAssumption DEF Slots, ThreadTypes
<1>1. CASE WriteAdvance \/ ReadRelease
  BY <1>0, <1>1, ModInSlots DEF WriteAdvance, ReadRelease, txVars, rxVars, localVars
<1>2. CASE write \/ read_call \/ close
  BY <1>2 DEF write, read_call, close, Call, txVars, rxVars
<1>3. CASE WriteLoop \/ WriteCopy \/ WriteKick \/ WriteSpin \/ WriteCheck
  BY <1>0, <1>3 DEF WriteLoop, WriteCopy, WriteKick, WriteSpin, WriteCheck, Goto, Return,
    txVars, rxVars, localVars
<1>4. CASE ReadLoop \/ ReadTake \/ ReadWait \/ ReadLook \/ ReadEnable \/ Close
  BY <1>0, <1>4 DEF ReadLoop, ReadTake, ReadWait, ReadLook, ReadEnable, Close, Goto, Return, Look,
    txVars, rxVars, localVars
<1> QED BY <1>1, <1>2, <1>3, <1>4 DEF Running

\* Nothing is moved that was not asked for.
LEMMA ThreadKeepsThreadTypes ==
  ASSUME TypeInv, write \/ read_call \/ close \/ Running PROVE ThreadTypes'
<1> USE DEF TypeInv, ThreadTypes, WritePcs, ReadPcs
<1>0. 0 \in 0 .. BUF_LEN - 1
  BY JtagAssumption
<1>1. CASE write \/ read_call \/ close
  <2>0. \A c \in Counts : c \in Nat
    BY JtagAssumption
  <2>1. count' \in Nat
    BY <1>1, <2>0 DEF write, read_call, close
  <2>2. pc' \in {"write", "read", "close"} /\ moved' = 0 /\ result' = "none" /\ n' = n
    BY <1>1 DEF write, read_call, close, Call
  <2> QED BY <2>1, <2>2
<1>2. CASE WriteLoop
  <2> DEFINE room == TxRoom(tx_in, tx_out)
  <2>1. Min2(room, count) \in 0 .. BUF_LEN - 1 /\ Min2(room, count) <= count
    BY RoomBounds, MinBounds DEF RingTypes
  <2> HIDE DEF room
  <2> QED BY <1>2, <2>1 DEF WriteLoop, argVars, room
<1>3. CASE WriteCopy \/ ReadTake
  <2>1. count - n \in Nat /\ moved + n \in Nat
    BY <1>3 DEF WriteCopy, ReadTake
  <2> QED BY <1>3, <2>1 DEF WriteCopy, ReadTake
<1>4. CASE WriteAdvance \/ WriteKick \/ WriteSpin \/ WriteCheck
  BY <1>0, <1>4 DEF WriteAdvance, WriteKick, WriteSpin, WriteCheck, Goto, Return, WriteResult,
    argVars, localVars
<1>5. CASE ReadLoop
  <2> DEFINE k == Min2(RxData(rx_in, rx_out), count)
  <2>1. k \in 0 .. BUF_LEN - 1 /\ k <= count
    BY RoomBounds, MinBounds DEF RingTypes
  <2>2. ReadLoop => \/ Look("take", k)
                    \/ Look("enable", 0)
                    \/ Return("EWOULDBLOCK")
                    \/ Look("wait", 0)
    BY DEF ReadLoop
  <2> HIDE DEF k
  <2> QED BY <1>0, <1>5, <2>1, <2>2 DEF Look, Return, argVars
<1>6. CASE ReadRelease \/ ReadWait \/ ReadLook \/ ReadEnable \/ Close
  BY <1>0, <1>6 DEF ReadRelease, ReadWait, ReadLook, ReadEnable, Close, Goto, Return, argVars,
    localVars
<1> QED BY <1>1, <1>2, <1>3, <1>4, <1>5, <1>6 DEF Running

\* Every step keeps the types.
LEMMA TypesKept ==
  ASSUME TypeInv, [Next]_vars PROVE TypeInv'
<1>1. CASE timeout
  <2>1. host_inactive' \in 0 .. TIMEOUT
    BY <1>1, JtagAssumption DEF timeout, TypeInv, DriverTypes
  <2>2. DriverTypes'
    BY <1>1, <2>1 DEF timeout, TypeInv, DriverTypes, isrVars
  <2>3. ByteTypes' /\ RingTypes' /\ ThreadTypes'
    BY <1>1 DEF timeout, TypeInv, ByteTypes, RingTypes, ThreadTypes, threadVars, argVars,
      localVars, txVars, rxVars, historyVars
  <2> QED BY <2>2, <2>3 DEF TypeInv
<1>2. CASE write \/ read_call \/ close \/ Running
  BY <1>2, ThreadKeepsDriverTypes, ThreadKeepsByteTypes, ThreadKeepsRingTypes,
    ThreadKeepsThreadTypes DEF TypeInv
<1>3. CASE UNCHANGED vars
  BY <1>3 DEF vars, TypeInv, ByteTypes, RingTypes, ThreadTypes, DriverTypes, threadVars, argVars,
    localVars, txVars, rxVars, driverVars, isrVars, hardwareVars, historyVars
<1> QED BY <1>1, <1>2, <1>3, HostKeepsTypes, IsrKeepsTypes DEF Next

(***************************************************************************)
(* The types last, and with them the bound of the hardware FIFO: the       *)
(* routine never writes to a full FIFO, where the character would be lost. *)
(***************************************************************************)
THEOREM JtagTypesAlways == Spec => []JtagTypeOK
<1>1. TypeInv => JtagTypeOK
  BY DEF TypeInv, RingTypes, ThreadTypes, DriverTypes, JtagTypeOK
<1>2. TypeInv /\ [Next]_vars => TypeInv'
  BY TypesKept
<1> QED BY TypeInvInit, <1>1, <1>2, PTL DEF Spec

-----------------------------------------------------------------------------
(***************************************************************************)
(* Output never stands still: bytes in the transmit ring have an interrupt *)
(* to move them.                                                           *)
(***************************************************************************)
THEOREM OutputMoves == Spec => []TransmitterNotStuck
<1>1. Init => TransmitterNotStuck
  BY DEF Init, TransmitterNotStuck
<1>2. TransmitterNotStuck /\ [Next]_vars => TransmitterNotStuck'
  <2> SUFFICES ASSUME TransmitterNotStuck, [Next]_vars PROVE TransmitterNotStuck'
    OBVIOUS
  <2> USE DEF TransmitterNotStuck
  <2>1. CASE Host
    BY <2>1 DEF Host, HostReads, HostTypes, HostPolls, HostComesOrGoes, threadVars, txVars, driverVars
  <2>2. CASE Isr
    <3>1. CASE Interrupt \/ IrqControl
      BY <3>1 DEF Interrupt, IrqControl, threadVars, txVars, driverVars
    <3>2. CASE IrqReceive \/ IrqReceiveEnd
      BY <3>2 DEF IrqReceive, IrqReceiveEnd, threadVars, txVars, driverVars
    <3>3. CASE IrqTransmit \/ IrqTransmitEnd
      BY <3>3 DEF IrqTransmit, IrqTransmitEnd, threadVars, txVars, driverVars
    <3> QED BY <2>2, <3>1, <3>2, <3>3 DEF Isr
  <2>3. CASE timeout
    BY <2>3 DEF timeout, threadVars, txVars
  <2>4. CASE write \/ read_call \/ close
    BY <2>4 DEF write, read_call, close, Call, txVars, driverVars
  <2>5. CASE Running
    <3>1. CASE WriteLoop \/ WriteCopy \/ WriteAdvance \/ WriteSpin \/ WriteCheck
      BY <3>1 DEF WriteLoop, WriteCopy, WriteAdvance, WriteSpin, WriteCheck, Goto, Return,
        txVars, driverVars
    <3>2. CASE WriteKick
      BY <3>2 DEF WriteKick
    <3>3. CASE ReadLoop \/ ReadTake \/ ReadRelease \/ ReadWait \/ ReadLook
      BY <3>3 DEF ReadLoop, ReadTake, ReadRelease, ReadWait, ReadLook, Look, Goto, Return,
        txVars, driverVars
    <3>4. CASE ReadEnable \/ Close
      BY <3>4 DEF ReadEnable, Close, Return, txVars, driverVars
    <3> QED BY <2>5, <3>1, <3>2, <3>3, <3>4 DEF Running
  <2>6. CASE UNCHANGED vars
    BY <2>6 DEF vars, threadVars, txVars, driverVars
  <2> QED BY <2>1, <2>2, <2>3, <2>4, <2>5, <2>6 DEF Next
<1> QED BY <1>1, <1>2, PTL DEF Spec

\* Why: at the start of a read, and until it has moved a character, read
\* interrupts are off only because the ring is full.
DeafInv ==
  /\ "RE" \notin irq_enable =>
       RxFull \/ pc \in {"release", "enable"} \/ (pc \in {"read", "take"} /\ moved > 0)
  /\ pc = "take" => n > 0
  /\ pc = "release" => moved > 0

\* The other actors leave it as it is, or turn interrupts off with the ring full.
LEMMA OthersKeepDeafInv ==
  ASSUME DeafInv, Host \/ Isr \/ timeout PROVE DeafInv'
<1> USE DEF DeafInv, RxFull
<1>1. CASE Host \/ timeout
  BY <1>1 DEF Host, HostReads, HostTypes, HostPolls, HostComesOrGoes, timeout, threadVars,
    localVars, rxVars, driverVars
<1>2. CASE Interrupt \/ IrqControl \/ IrqTransmit
  BY <1>2 DEF Interrupt, IrqControl, IrqTransmit, threadVars, localVars, rxVars, driverVars
<1>3. CASE IrqReceive \/ IrqReceiveEnd \/ IrqTransmitEnd
  BY <1>3 DEF IrqReceive, IrqReceiveEnd, IrqTransmitEnd, threadVars, localVars, rxVars, driverVars
<1> QED BY <1>1, <1>2, <1>3 DEF Isr

\* A reader that has moved a character ends by turning them on.
LEMMA ThreadKeepsDeafInv ==
  ASSUME TypeInv, DeafInv, write \/ read_call \/ close \/ Running PROVE DeafInv'
<1> USE DEF DeafInv, RxFull
<1>1. CASE write \/ read_call \/ close
  BY <1>1 DEF write, read_call, close, Call, rxVars, driverVars
<1>2. CASE WriteLoop \/ WriteCopy \/ WriteAdvance \/ WriteKick \/ WriteSpin \/ WriteCheck
  BY <1>2 DEF WriteLoop, WriteCopy, WriteAdvance, WriteKick, WriteSpin, WriteCheck, Goto, Return,
    rxVars, driverVars
<1>3. CASE ReadLoop
  <2> DEFINE k == Min2(RxData(rx_in, rx_out), count)
  <2>1. ReadLoop => \/ k > 0 /\ Look("take", k)
                    \/ moved > 0 /\ Look("enable", 0)
                    \/ moved = 0 /\ Return("EWOULDBLOCK")
                    \/ moved = 0 /\ Look("wait", 0)
    BY DEF ReadLoop
  <2>2. pc = "read" /\ UNCHANGED <<rxVars, driverVars>>
    BY <1>3 DEF ReadLoop
  <2> HIDE DEF k
  <2> QED BY <1>3, <2>1, <2>2 DEF Look, Return, rxVars, driverVars
<1>4. CASE ReadTake
  <2>1. moved' > 0
    BY <1>4 DEF ReadTake, TypeInv, ThreadTypes
  <2> QED BY <1>4, <2>1 DEF ReadTake, rxVars, driverVars
<1>5. CASE ReadRelease
  BY <1>5 DEF ReadRelease, argVars, localVars, driverVars
<1>6. CASE ReadWait \/ ReadLook
  BY <1>6 DEF ReadWait, ReadLook, Goto, Return, localVars, rxVars, driverVars
<1>7. CASE ReadEnable \/ Close
  BY <1>7 DEF ReadEnable, Close, Return, rxVars, driverVars
<1> QED BY <1>1, <1>2, <1>3, <1>4, <1>5, <1>6, <1>7 DEF Running

(***************************************************************************)
(* The receiver is never deaf beside an empty ring: read interrupts are    *)
(* off only while the ring is full or a reader is about to turn them on    *)
(* (read.c:188-195, init.c:156-166).                                       *)
(***************************************************************************)
THEOREM InputHeard == Spec => []ReceiverNotDeaf
<1>1. Init => TypeInv /\ DeafInv
  BY TypeInvInit DEF Init, DeafInv
<1>2. TypeInv /\ DeafInv /\ [Next]_vars => (TypeInv /\ DeafInv)'
  <2> SUFFICES ASSUME TypeInv, DeafInv, [Next]_vars PROVE TypeInv' /\ DeafInv'
    OBVIOUS
  <2>1. TypeInv'
    BY TypesKept
  <2>2. CASE UNCHANGED vars
    BY <2>1, <2>2 DEF DeafInv, RxFull, vars, threadVars, localVars, rxVars, driverVars
  <2> QED BY <2>1, <2>2, OthersKeepDeafInv, ThreadKeepsDeafInv DEF Next
<1>3. DeafInv => ReceiverNotDeaf
  BY DEF DeafInv, ReceiverNotDeaf
<1> QED BY <1>1, <1>2, <1>3, PTL DEF Spec

-----------------------------------------------------------------------------
(* The refinement.  A ring is a segment of its cells, taken modulo its     *)
(* length; the lemmas say how a segment splits and joins, and each step of *)
(* the driver then gives, takes, or moves bytes between the parts of one   *)
(* queue.                                                                  *)

\* Characters in a ring: from o on, up to i.
Live(i, o) == IF i >= o THEN i - o ELSE i - o + BUF_LEN

\* n characters of a ring, from o on.
Segment(buf, o, k) == [j \in 1 .. k |-> buf[(o + j - 1) % BUF_LEN]]

\* An index is wrapped at most once.
LEMMA Wrap ==
  ASSUME NEW o \in Slots, NEW k \in 0 .. BUF_LEN
  PROVE  /\ (o + k) % BUF_LEN = IF o + k < BUF_LEN THEN o + k ELSE o + k - BUF_LEN
         /\ (o + k) % BUF_LEN \in Slots
  BY JtagAssumption DEF Slots

\* The length of a ring, as its indices give it.
LEMMA RingLength ==
  ASSUME NEW i \in Slots, NEW o \in Slots
  PROVE  (i - o) % BUF_LEN = Live(i, o) /\ Live(i, o) \in 0 .. BUF_LEN - 1
  BY JtagAssumption DEF Slots, Live

\* A segment is a sequence of bytes.
LEMMA SegmentIsSeq ==
  ASSUME NEW buf \in [Slots -> Nat], NEW o \in Slots, NEW k \in 0 .. BUF_LEN
  PROVE  /\ Segment(buf, o, k) \in Seq(Nat) /\ Len(Segment(buf, o, k)) = k
         /\ \A j \in 1 .. k : Segment(buf, o, k)[j] = buf[(o + j - 1) % BUF_LEN]
<1>1. ASSUME NEW j \in 1 .. k PROVE buf[(o + j - 1) % BUF_LEN] \in Nat
  <2>1. o + j - 1 \in Nat
    BY JtagAssumption DEF Slots
  <2> QED BY <2>1, ModInSlots
<1> QED BY <1>1 DEF Segment

\* A ring is a segment: all that is live.
LEMMA RingIsSegment ==
  ASSUME NEW buf, NEW i \in Slots, NEW o \in Slots
  PROVE  Ring(buf, o, i) = Segment(buf, o, Live(i, o))
  BY RingLength DEF Ring, Segment

\* Two segments, one behind the other.
LEMMA SegmentsJoin ==
  ASSUME NEW buf \in [Slots -> Nat], NEW o \in Slots, NEW k \in Nat, NEW m \in Nat, k + m <= BUF_LEN
  PROVE  Segment(buf, o, k + m) = Segment(buf, o, k) \o Segment(buf, (o + k) % BUF_LEN, m)
<1> DEFINE p == (o + k) % BUF_LEN
<1>0. k \in 0 .. BUF_LEN /\ m \in 0 .. BUF_LEN /\ k + m \in 0 .. BUF_LEN
  BY JtagAssumption
<1>1. p = (IF o + k < BUF_LEN THEN o + k ELSE o + k - BUF_LEN)
  BY <1>0, Wrap
<1>2. p \in Slots
  BY <1>0, <1>1, JtagAssumption DEF Slots
<1>3. ASSUME NEW j \in 1 .. m
      PROVE  (p + j - 1) % BUF_LEN = (o + (k + j) - 1) % BUF_LEN
  <2>0. j - 1 \in 0 .. BUF_LEN /\ k + j - 1 \in 0 .. BUF_LEN
    BY <1>0, JtagAssumption
  <2>1. (p + (j - 1)) % BUF_LEN = IF p + (j - 1) < BUF_LEN THEN p + (j - 1) ELSE p + (j - 1) - BUF_LEN
    BY <1>2, <2>0, Wrap
  <2>2. (o + (k + j - 1)) % BUF_LEN
        = IF o + (k + j - 1) < BUF_LEN THEN o + (k + j - 1) ELSE o + (k + j - 1) - BUF_LEN
    BY <2>0, Wrap
  <2> HIDE DEF p
  <2>3. p + (j - 1) = p + j - 1 /\ o + (k + j - 1) = o + (k + j) - 1
    BY <1>2, JtagAssumption DEF Slots
  <2>4. (p + j - 1) % BUF_LEN = IF p + j - 1 < BUF_LEN THEN p + j - 1 ELSE p + j - 1 - BUF_LEN
    BY <2>1, <2>3
  <2>5. (o + (k + j) - 1) % BUF_LEN
        = IF o + (k + j) - 1 < BUF_LEN THEN o + (k + j) - 1 ELSE o + (k + j) - 1 - BUF_LEN
    BY <2>2, <2>3
  <2> QED BY <1>1, <1>2, <2>4, <2>5, JtagAssumption DEF Slots
<1> HIDE DEF p
<1> DEFINE A == Segment(buf, o, k)  B == Segment(buf, p, m)  C == Segment(buf, o, k + m)
<1>4. C \in Seq(Nat) /\ Len(C) = k + m /\ \A j \in 1 .. k + m : C[j] = buf[(o + j - 1) % BUF_LEN]
  BY <1>0, SegmentIsSeq
<1>5. A \in Seq(Nat) /\ Len(A) = k /\ \A j \in 1 .. k : A[j] = buf[(o + j - 1) % BUF_LEN]
  BY <1>0, SegmentIsSeq
<1>6. B \in Seq(Nat) /\ Len(B) = m /\ \A j \in 1 .. m : B[j] = buf[(p + j - 1) % BUF_LEN]
  BY <1>0, <1>2, SegmentIsSeq
<1> HIDE DEF A, B, C
<1>7. /\ A \o B \in Seq(Nat) /\ Len(A \o B) = k + m
      /\ \A j \in 1 .. k + m : (A \o B)[j] = IF j <= k THEN A[j] ELSE B[j - k]
  BY <1>5, <1>6, ConcatProperties
<1>8. ASSUME NEW j \in 1 .. k + m PROVE C[j] = (A \o B)[j]
  <2>1. CASE j <= k
    <3>1. j \in 1 .. k
      BY <2>1
    <3> QED BY <1>4, <1>5, <1>7, <2>1, <3>1
  <2>2. CASE ~(j <= k)
    <3>1. j - k \in 1 .. m /\ k + (j - k) = j
      BY <2>2
    <3>2. B[j - k] = buf[(o + j - 1) % BUF_LEN]
      BY <1>3, <1>6, <3>1
    <3> QED BY <1>4, <1>7, <2>2, <3>2
  <2> QED BY <2>1, <2>2
<1>9. C = A \o B
  BY <1>4, <1>7, <1>8, SeqEqual
<1> QED BY <1>9 DEF A, B, C, p

\* A step of either end of a ring.
LEMMA LiveSteps ==
  ASSUME NEW i \in Slots, NEW o \in Slots, NEW k \in 0 .. BUF_LEN
  PROVE  /\ k <= Live(i, o) => Live(i, (o + k) % BUF_LEN) = Live(i, o) - k
         /\ Live(i, o) + k <= BUF_LEN - 1 => Live((i + k) % BUF_LEN, o) = Live(i, o) + k
         /\ (o + Live(i, o)) % BUF_LEN = i
<1>1. (o + k) % BUF_LEN = IF o + k < BUF_LEN THEN o + k ELSE o + k - BUF_LEN
  BY Wrap
<1>2. (i + k) % BUF_LEN = IF i + k < BUF_LEN THEN i + k ELSE i + k - BUF_LEN
  BY Wrap
<1>3. Live(i, o) \in 0 .. BUF_LEN
  BY RingLength, JtagAssumption
<1>4. (o + Live(i, o)) % BUF_LEN
      = IF o + Live(i, o) < BUF_LEN THEN o + Live(i, o) ELSE o + Live(i, o) - BUF_LEN
  BY <1>3, Wrap
<1>5. o \in 0 .. BUF_LEN - 1 /\ i \in 0 .. BUF_LEN - 1 /\ BUF_LEN \in Nat
  BY JtagAssumption DEF Slots
<1>6. k <= Live(i, o) => Live(i, (o + k) % BUF_LEN) = Live(i, o) - k
  BY <1>1, <1>5 DEF Live
<1>7. Live(i, o) + k <= BUF_LEN - 1 => Live((i + k) % BUF_LEN, o) = Live(i, o) + k
  BY <1>2, <1>5 DEF Live
<1>8. (o + Live(i, o)) % BUF_LEN = i
  BY <1>4, <1>5 DEF Live
<1> QED BY <1>6, <1>7, <1>8

\* Characters leave a ring at the end at which they were put first.
LEMMA RingTake ==
  ASSUME NEW buf \in [Slots -> Nat], NEW i \in Slots, NEW o \in Slots, NEW k \in 0 .. Live(i, o)
  PROVE  Ring(buf, o, i) = Segment(buf, o, k) \o Ring(buf, (o + k) % BUF_LEN, i)
<1> DEFINE p == (o + k) % BUF_LEN  rest == Live(i, o) - k
<1>1. Live(i, o) \in 0 .. BUF_LEN - 1 /\ k \in 0 .. BUF_LEN /\ k \in Nat /\ rest \in Nat
  BY RingLength, JtagAssumption
<1>2. p \in Slots
  BY <1>1, Wrap
<1>3. Live(i, p) = rest
  BY <1>1, LiveSteps
<1>4. k + rest = Live(i, o) /\ k + rest <= BUF_LEN
  BY <1>1, JtagAssumption
<1>5. Segment(buf, o, k + rest) = Segment(buf, o, k) \o Segment(buf, p, rest)
  BY <1>1, <1>4, SegmentsJoin
<1> HIDE DEF p, rest
<1>6. Ring(buf, o, i) = Segment(buf, o, k + rest) /\ Ring(buf, p, i) = Segment(buf, p, rest)
  BY <1>2, <1>3, <1>4, RingIsSegment
<1>7. Ring(buf, o, i) = Segment(buf, o, k) \o Ring(buf, p, i)
  BY <1>5, <1>6
<1> QED BY <1>7 DEF p

\* Characters enter a ring at the other end.
LEMMA RingGive ==
  ASSUME NEW buf \in [Slots -> Nat], NEW i \in Slots, NEW o \in Slots, NEW k \in Nat,
         Live(i, o) + k <= BUF_LEN - 1
  PROVE  Ring(buf, o, (i + k) % BUF_LEN) = Ring(buf, o, i) \o Segment(buf, i, k)
<1> DEFINE p == (i + k) % BUF_LEN
<1>1. Live(i, o) \in 0 .. BUF_LEN - 1 /\ Live(i, o) \in Nat /\ k \in 0 .. BUF_LEN
      /\ Live(i, o) + k <= BUF_LEN
  BY RingLength, JtagAssumption
<1>2. p \in Slots
  BY <1>1, Wrap
<1>3. Live(p, o) = Live(i, o) + k /\ (o + Live(i, o)) % BUF_LEN = i
  BY <1>1, LiveSteps
<1>4. Segment(buf, o, Live(i, o) + k)
      = Segment(buf, o, Live(i, o)) \o Segment(buf, (o + Live(i, o)) % BUF_LEN, k)
  BY <1>1, SegmentsJoin
<1> HIDE DEF p
<1>5. Ring(buf, o, p) = Segment(buf, o, Live(i, o) + k)
  BY <1>2, <1>3, RingIsSegment
<1>6. Ring(buf, o, i) = Segment(buf, o, Live(i, o))
  BY RingIsSegment
<1> QED BY <1>3, <1>4, <1>5, <1>6 DEF p

\* What is written to free cells leaves the characters of a ring alone.
LEMMA RingSame ==
  ASSUME NEW b1 \in [Slots -> Nat], NEW b2 \in [Slots -> Nat], NEW i \in Slots, NEW o \in Slots,
         NEW k \in Nat, i + k <= BUF_LEN, Live(i, o) + k <= BUF_LEN - 1,
         \A c \in Slots : c \notin i .. i + k - 1 => b1[c] = b2[c]
  PROVE  Ring(b1, o, i) = Ring(b2, o, i)
<1>1. ASSUME NEW j \in 1 .. Live(i, o)
      PROVE  b1[(o + j - 1) % BUF_LEN] = b2[(o + j - 1) % BUF_LEN]
  <2> DEFINE c == (o + (j - 1)) % BUF_LEN
  <2>1. o \in 0 .. BUF_LEN - 1 /\ i \in 0 .. BUF_LEN - 1 /\ BUF_LEN \in Nat
    BY JtagAssumption DEF Slots
  <2>2. j - 1 \in 0 .. BUF_LEN
    BY RingLength, JtagAssumption
  <2>3. c = IF o + (j - 1) < BUF_LEN THEN o + (j - 1) ELSE o + (j - 1) - BUF_LEN
    BY <2>2, Wrap
  <2>4. o + (j - 1) = o + j - 1
    BY <2>1, <2>2
  <2> HIDE DEF c
  <2>5. c \in Slots
    BY <2>1, <2>2, <2>3 DEF Slots
  <2>6. c \notin i .. i + k - 1
    BY <2>1, <2>2, <2>3 DEF Live
  <2> QED BY <2>4, <2>5, <2>6 DEF c
<1>2. Segment(b1, o, Live(i, o)) = Segment(b2, o, Live(i, o))
  BY <1>1 DEF Segment
<1> QED BY <1>2, RingIsSegment

\* A ring is a sequence of bytes.
LEMMA RingIsSeq ==
  ASSUME NEW buf \in [Slots -> Nat], NEW i \in Slots, NEW o \in Slots
  PROVE  Ring(buf, o, i) \in Seq(Nat) /\ Len(Ring(buf, o, i)) = Live(i, o)
<1>1. Live(i, o) \in 0 .. BUF_LEN
  BY RingLength, JtagAssumption
<1> QED BY <1>1, RingIsSegment, SegmentIsSeq
-----------------------------------------------------------------------------
(* The way out.                                                            *)

\* Between the look at the ring and the moving of tx_in, write owns the cells
\* it fills: they are free, and then hold the next bytes.
OutInv ==
  /\ pc \in {"copy", "advance"} =>
       /\ in = tx_in /\ n > 0 /\ in + n <= BUF_LEN
       /\ Live(tx_in, tx_out) + n <= BUF_LEN - 1
  /\ pc = "advance" =>
       /\ n <= written
       /\ \A i \in in .. in + n - 1 : tx_buf[i] = written - n + 1 + i - in

\* There is room for what write looks for.
LEMMA RoomIsFree ==
  ASSUME NEW i \in Slots, NEW o \in Slots
  PROVE  i + TxRoom(i, o) <= BUF_LEN /\ Live(i, o) + TxRoom(i, o) <= BUF_LEN - 1
  BY JtagAssumption DEF Slots, TxRoom, Live

\* Every step but five leaves alone what the way out is about.
OutQuiet ==
  /\ UNCHANGED <<txVars, tx_fifo, printed, written>>
  /\ pc = "advance" => UNCHANGED pc
  /\ pc' \in {"copy", "advance"} => UNCHANGED <<pc, in, n>>
  /\ pc' = pc => UNCHANGED n

\* They are HostReads, IrqTransmit, WriteCopy, WriteAdvance, and WriteLoop, which looks.
LEMMA QuietOutSteps ==
  ASSUME [Next]_vars
  PROVE  HostReads \/ IrqTransmit \/ WriteLoop \/ WriteCopy \/ WriteAdvance \/ OutQuiet
<1> USE DEF OutQuiet
<1>1. CASE HostTypes \/ HostPolls \/ HostComesOrGoes \/ timeout \/ UNCHANGED vars
  BY <1>1 DEF HostTypes, HostPolls, HostComesOrGoes, timeout, vars, threadVars, localVars,
    hardwareVars, historyVars
<1>2. CASE Interrupt \/ IrqControl \/ IrqReceive \/ IrqReceiveEnd \/ IrqTransmitEnd
  BY <1>2 DEF Interrupt, IrqControl, IrqReceive, IrqReceiveEnd, IrqTransmitEnd, threadVars,
    localVars, hardwareVars, historyVars
<1>3. CASE write \/ read_call \/ close
  BY <1>3 DEF write, read_call, close, Call, hardwareVars, historyVars
<1>4. CASE WriteKick \/ WriteSpin \/ WriteCheck \/ Close
  BY <1>4 DEF WriteKick, WriteSpin, WriteCheck, Close, Goto, Return, localVars, hardwareVars,
    historyVars
<1>5. CASE ReadLoop
  BY <1>5 DEF ReadLoop, Look, Return, hardwareVars, historyVars
<1>6. CASE ReadTake \/ ReadRelease \/ ReadWait \/ ReadLook \/ ReadEnable
  BY <1>6 DEF ReadTake, ReadRelease, ReadWait, ReadLook, ReadEnable, Goto, Return, localVars,
    hardwareVars, historyVars
<1> QED BY <1>1, <1>2, <1>3, <1>4, <1>5, <1>6 DEF Next, Host, Isr, Running

\* Nobody else moves tx_in, and the routine only frees cells.
LEMMA OutInvKept ==
  ASSUME TypeInv, OutInv, [Next]_vars PROVE OutInv'
<1>1. CASE HostReads
  BY <1>1 DEF HostReads, OutInv, threadVars, localVars, txVars
<1>2. CASE OutQuiet
  BY <1>2 DEF OutQuiet, OutInv, txVars
<1>3. CASE IrqTransmit
  <2>1. tx_in \in Slots /\ tx_out \in Slots /\ tx_in # tx_out /\ tx_out' = (tx_out + 1) % BUF_LEN
    BY <1>3 DEF IrqTransmit, TypeInv, RingTypes, Next1
  <2>2. Live(tx_in, tx_out) \in Nat /\ Live(tx_in, tx_out) >= 1 /\ 1 \in 0 .. BUF_LEN
    BY <2>1, JtagAssumption DEF Live, Slots
  <2>3. Live(tx_in, tx_out') = Live(tx_in, tx_out) - 1
    BY <2>1, <2>2, LiveSteps
  <2>4. UNCHANGED <<pc, in, n, tx_in, tx_buf, written>>
    BY <1>3 DEF IrqTransmit, threadVars, localVars, historyVars
  <2>5. pc \in {"copy", "advance"} => Live(tx_in, tx_out') + n <= BUF_LEN - 1
    BY <2>2, <2>3, JtagAssumption DEF OutInv, TypeInv, ThreadTypes
  <2> QED BY <2>4, <2>5 DEF OutInv
<1>4. CASE WriteLoop
  <2> DEFINE room == TxRoom(tx_in, tx_out)
  <2>1. tx_in \in Slots /\ tx_out \in Slots /\ count \in Nat
    BY DEF TypeInv, RingTypes, ThreadTypes
  <2>2. room \in 0 .. BUF_LEN - 1 /\ tx_in + room <= BUF_LEN
        /\ Live(tx_in, tx_out) + room <= BUF_LEN - 1
    BY <2>1, RoomBounds, RoomIsFree
  <2>3. WriteLoop /\ pc' # "kick" =>
          pc' = "copy" /\ n' = Min2(room, count) /\ count # 0 /\ room # 0 /\ in' = tx_in
    BY DEF WriteLoop
  <2>4. pc' \in {"kick", "copy"} /\ UNCHANGED <<tx_in, tx_out, tx_buf, written>>
    BY <1>4 DEF WriteLoop, txVars, historyVars
  <2> HIDE DEF room
  <2>5. pc' = "copy" => n' \in Nat /\ n' > 0 /\ n' <= room
    BY <1>4, <2>1, <2>2, <2>3, JtagAssumption DEF Min2
  <2>6. Live(tx_in, tx_out) \in Nat /\ tx_in \in Nat
    BY <2>1, JtagAssumption DEF Live, Slots
  <2>7. pc' = "copy" => /\ in' = tx_in /\ tx_in + n' <= BUF_LEN
                        /\ Live(tx_in, tx_out) + n' <= BUF_LEN - 1
    BY <1>4, <2>2, <2>3, <2>5, <2>6, JtagAssumption
  <2> QED BY <2>4, <2>5, <2>7 DEF OutInv
<1>5. CASE WriteCopy
  <2>1. /\ pc = "copy" /\ pc' = "advance" /\ UNCHANGED <<in, n, tx_in, tx_out>>
        /\ written' = written + n
        /\ tx_buf' = [i \in Slots |-> IF i \in in .. in + n - 1 THEN written + 1 + i - in ELSE tx_buf[i]]
    BY <1>5 DEF WriteCopy
  <2>2. in \in Slots /\ n \in Nat /\ written \in Nat /\ in + n <= BUF_LEN
    BY <2>1 DEF OutInv, TypeInv, RingTypes, ThreadTypes, ByteTypes
  <2>3. ASSUME NEW i \in in .. in + n - 1
        PROVE  tx_buf'[i] = written' - n + 1 + i - in
    <3>1. i \in Slots /\ i \in Int /\ in \in Int
      BY <2>2, JtagAssumption DEF Slots
    <3>2. tx_buf'[i] = written + 1 + i - in
      BY <2>1, <3>1
    <3> QED BY <2>1, <2>2, <3>1, <3>2
  <2>4. n <= written'
    BY <2>1, <2>2
  <2> QED BY <2>1, <2>3, <2>4 DEF OutInv
<1>6. CASE WriteAdvance
  BY <1>6 DEF WriteAdvance, OutInv
<1> QED BY <1>1, <1>2, <1>3, <1>4, <1>5, <1>6, QuietOutSteps

\* One character of a ring, at its end.
LEMMA OneSegment ==
  ASSUME NEW buf \in [Slots -> Nat], NEW o \in Slots
  PROVE  Segment(buf, o, 1) = <<buf[o]>>
<1>1. o + 1 - 1 = o /\ o % BUF_LEN = o
  BY JtagAssumption DEF Slots
<1> QED BY <1>1 DEF Segment

\* Concatenation of bytes.
LEMMA Concats ==
  ASSUME NEW s \in Seq(Nat), NEW t \in Seq(Nat), NEW u \in Seq(Nat)
  PROVE  (s \o t) \o u = s \o (t \o u) /\ s \o t \in Seq(Nat) /\ Len(s \o t) = Len(s) + Len(t)
<1>1. (s \o t) \o u = s \o (t \o u)
  BY ConcatAssociative
<1>2. s \o t \in Seq(Nat) /\ Len(s \o t) = Len(s) + Len(t)
  BY ConcatProperties
<1> QED BY <1>1, <1>2

\* Moving the front of one queue to the end of another changes nothing.
LEMMA MoveIsStutter ==
  ASSUME NEW f \in Seq(Nat), NEW b \in Nat, NEW r \in Seq(Nat)
  PROVE  Append(f, b) \o r = f \o (<<b>> \o r)
<1>1. Append(f, b) = f \o <<b>> /\ <<b>> \in Seq(Nat)
  OBVIOUS
<1> QED BY <1>1, ConcatAssociative

\* Taking the front of a queue in two parts.
LEMMA TakeFront ==
  ASSUME NEW s \in Seq(Nat), NEW t \in Seq(Nat)
  PROVE  /\ SubSeq(s \o t, 1, Len(s)) = s
         /\ SubSeq(s \o t, Len(s) + 1, Len(s \o t)) = t
         /\ Len(s \o t) = Len(s) + Len(t)
<1>1. /\ s \o t \in Seq(Nat) /\ Len(s \o t) = Len(s) + Len(t) /\ Len(s) \in Nat /\ Len(t) \in Nat
      /\ \A i \in 1 .. Len(s) + Len(t) : (s \o t)[i] = IF i <= Len(s) THEN s[i] ELSE t[i - Len(s)]
  BY ConcatProperties
<1>2. SubSeq(s \o t, 1, Len(s)) = s
  <2>1. \A i \in 1 .. Len(s) : (s \o t)[i] \in Nat /\ (s \o t)[1 + i - 1] = s[i]
    BY <1>1
  <2>2. /\ SubSeq(s \o t, 1, Len(s)) \in Seq(Nat) /\ Len(SubSeq(s \o t, 1, Len(s))) = Len(s)
        /\ \A i \in 1 .. Len(s) - 1 + 1 : SubSeq(s \o t, 1, Len(s))[i] = (s \o t)[1 + i - 1]
    BY <1>1, <2>1, SubSeqProperties
  <2>3. \A i \in 1 .. Len(s) : SubSeq(s \o t, 1, Len(s))[i] = s[i]
    BY <1>1, <2>1, <2>2
  <2> QED BY <2>2, <2>3, SeqEqual
<1>3. SubSeq(s \o t, Len(s) + 1, Len(s \o t)) = t
  <2> DEFINE u == SubSeq(s \o t, Len(s) + 1, Len(s) + Len(t))
  <2>1. \A i \in Len(s) + 1 .. Len(s) + Len(t) : (s \o t)[i] \in Nat
    BY <1>1
  <2>2. /\ u \in Seq(Nat)
        /\ Len(u) = IF Len(s) + 1 <= Len(s) + Len(t)
                    THEN Len(s) + Len(t) - (Len(s) + 1) + 1 ELSE 0
        /\ \A i \in 1 .. Len(s) + Len(t) - (Len(s) + 1) + 1 : u[i] = (s \o t)[Len(s) + 1 + i - 1]
    BY <1>1, <2>1, SubSeqProperties
  <2> HIDE DEF u
  <2>3. Len(u) = Len(t)
    BY <1>1, <2>2
  <2>4. ASSUME NEW i \in 1 .. Len(t) PROVE u[i] = t[i]
    <3>0. Len(s) + 1 + i - 1 = Len(s) + i /\ i \in 1 .. Len(s) + Len(t) - (Len(s) + 1) + 1
      BY <1>1
    <3>1. u[i] = (s \o t)[Len(s) + i]
      BY <2>2, <3>0
    <3>2. Len(s) + i \in 1 .. Len(s) + Len(t) /\ ~(Len(s) + i <= Len(s)) /\ Len(s) + i - Len(s) = i
      BY <1>1
    <3> QED BY <1>1, <3>1, <3>2
  <2>5. u = t
    BY <2>2, <2>3, <2>4, SeqEqual
  <2> QED BY <1>1, <2>5 DEF u
<1> QED BY <1>1, <1>2, <1>3

\* The bytes on their way out, the oldest first.
OutQueue == tx_fifo \o Ring(tx_buf, tx_out, tx_in)

\* Each step gives bytes to the queue, takes one, or leaves it as it is.
LEMMA OutputStep ==
  ASSUME TypeInv, OutInv, [Next]_vars
  PROVE  Output!Next \/ UNCHANGED <<Committed, OutQueue, printed>>
<1> DEFINE R == Ring(tx_buf, tx_out, tx_in)
<1>0. /\ tx_in \in Slots /\ tx_out \in Slots /\ tx_buf \in [Slots -> Nat] /\ tx_fifo \in Seq(Nat)
      /\ n \in Nat /\ written \in Nat /\ Len(tx_fifo) <= FIFO_LEN
  BY DEF TypeInv, RingTypes, ByteTypes, ThreadTypes, DriverTypes
<1>1. R \in Seq(Nat) /\ Len(R) = Live(tx_in, tx_out) /\ Live(tx_in, tx_out) \in 0 .. BUF_LEN - 1
  BY <1>0, RingIsSeq, RingLength
<1>2. CASE HostReads
  <2>1. UNCHANGED <<Committed, tx_buf, tx_out, tx_in>>
    BY <1>2 DEF HostReads, threadVars, localVars, txVars, Committed
  <2>2. /\ tx_fifo = <<Head(tx_fifo)>> \o tx_fifo' /\ tx_fifo' \in Seq(Nat) /\ Head(tx_fifo) \in Nat
        /\ printed' = Append(printed, Head(tx_fifo))
    BY <1>0, <1>2 DEF HostReads
  <2> DEFINE h == <<Head(tx_fifo)>>
  <2>3. OutQueue = h \o OutQueue' /\ OutQueue' \in Seq(Nat) /\ h \in Seq(Nat) /\ Len(h) = 1
    <3>1. OutQueue' = tx_fifo' \o R
      BY <2>1 DEF OutQueue, Ring
    <3>2. h \in Seq(Nat) /\ Len(h) = 1
      BY <2>2
    <3> HIDE DEF h, R
    <3>3. (h \o tx_fifo') \o R = h \o (tx_fifo' \o R) /\ tx_fifo' \o R \in Seq(Nat)
      BY <1>1, <2>2, <3>2, Concats
    <3> QED BY <2>2, <3>1, <3>2, <3>3 DEF OutQueue, h, R
  <2> HIDE DEF h
  <2>4. /\ SubSeq(OutQueue, 1, 1) = h /\ OutQueue' = SubSeq(OutQueue, 1 + 1, Len(OutQueue))
        /\ 1 \in 1 .. Len(OutQueue)
    <3> DEFINE q == OutQueue  rest == OutQueue'
    <3>1. q = h \o rest /\ rest \in Seq(Nat) /\ h \in Seq(Nat) /\ Len(h) = 1
      BY <2>3
    <3> HIDE DEF q, rest
    <3>2. /\ SubSeq(q, 1, Len(h)) = h /\ SubSeq(q, Len(h) + 1, Len(q)) = rest
          /\ Len(q) = Len(h) + Len(rest)
      BY <3>1, TakeFront
    <3>3. Len(rest) \in Nat
      BY <3>1
    <3> QED BY <3>1, <3>2, <3>3 DEF q, rest
  <2>5. printed' = printed \o h
    BY <2>2 DEF h
  <2> QED BY <2>1, <2>4, <2>5 DEF Output!Next, Output!Take, OutQueue
<1>3. CASE OutQuiet
  BY <1>3 DEF OutQuiet, OutQueue, Ring, Committed, txVars
<1>4. CASE WriteLoop
  BY <1>4 DEF WriteLoop, OutQueue, Ring, Committed, txVars, hardwareVars, historyVars
<1>5. CASE IrqTransmit
  <2>1. /\ tx_in # tx_out /\ tx_fifo' = Append(tx_fifo, tx_buf[tx_out])
        /\ tx_out' = (tx_out + 1) % BUF_LEN /\ UNCHANGED <<tx_in, tx_buf, printed, Committed>>
    BY <1>5 DEF IrqTransmit, Next1, Committed, threadVars, localVars, historyVars
  <2>2. 1 \in 0 .. Live(tx_in, tx_out)
    BY <1>0, <2>1, JtagAssumption DEF Live, Slots
  <2>3. R = <<tx_buf[tx_out]>> \o R'
    <3>1. Ring(tx_buf, tx_out, tx_in)
          = Segment(tx_buf, tx_out, 1) \o Ring(tx_buf, (tx_out + 1) % BUF_LEN, tx_in)
      BY <1>0, <2>2, RingTake
    <3>2. R' = Ring(tx_buf, (tx_out + 1) % BUF_LEN, tx_in)
      BY <2>1 DEF Ring
    <3> QED BY <1>0, <3>1, <3>2, OneSegment
  <2>4. tx_buf[tx_out] \in Nat /\ R' \in Seq(Nat)
    <3>1. tx_out' \in Slots
      BY <1>0, <2>1, Wrap, JtagAssumption
    <3>2. R' = Ring(tx_buf, tx_out', tx_in)
      BY <2>1 DEF Ring
    <3> QED BY <1>0, <3>1, <3>2, RingIsSeq
  <2>5. OutQueue = tx_fifo \o R /\ OutQueue' = tx_fifo' \o R'
    BY DEF OutQueue
  <2> HIDE DEF R
  <2>6. Append(tx_fifo, tx_buf[tx_out]) \o R' = tx_fifo \o (<<tx_buf[tx_out]>> \o R')
    BY <1>0, <2>4, MoveIsStutter
  <2> QED BY <2>1, <2>3, <2>5, <2>6
<1>6. CASE WriteCopy
  <2>1. /\ pc = "copy" /\ pc' = "advance" /\ written' = written + n
        /\ UNCHANGED <<n, tx_in, tx_out, tx_fifo, printed>>
        /\ tx_buf' = [i \in Slots |-> IF i \in in .. in + n - 1 THEN written + 1 + i - in ELSE tx_buf[i]]
    BY <1>6 DEF WriteCopy, hardwareVars
  <2>2. in = tx_in /\ in + n <= BUF_LEN /\ Live(tx_in, tx_out) + n <= BUF_LEN - 1
    BY <2>1 DEF OutInv
  <2>3. UNCHANGED Committed
    BY <1>0, <2>1 DEF Committed
  <2>4. tx_buf' \in [Slots -> Nat]
    BY TypesKept DEF TypeInv, ByteTypes
  <2>5. \A c \in Slots : c \notin tx_in .. tx_in + n - 1 => tx_buf[c] = tx_buf'[c]
    BY <2>1, <2>2
  <2>6. Ring(tx_buf, tx_out, tx_in) = Ring(tx_buf', tx_out, tx_in)
    BY <1>0, <2>2, <2>4, <2>5, RingSame
  <2> QED BY <2>1, <2>3, <2>6 DEF OutQueue, Ring
<1>7. CASE WriteAdvance
  <2>1. /\ pc = "advance" /\ pc' = "write" /\ tx_in' = (in + n) % BUF_LEN
        /\ UNCHANGED <<n, written, tx_buf, tx_out, tx_fifo, printed>>
    BY <1>7 DEF WriteAdvance, localVars, hardwareVars, historyVars
  <2>2. /\ in = tx_in /\ n > 0 /\ in + n <= BUF_LEN /\ Live(tx_in, tx_out) + n <= BUF_LEN - 1
        /\ n <= written /\ \A i \in in .. in + n - 1 : tx_buf[i] = written - n + 1 + i - in
    BY <2>1 DEF OutInv
  <2> DEFINE g == written - n  S == Segment(tx_buf, tx_in, n)
  <2>3. g \in Nat /\ Committed = g /\ Committed' = g + n
    BY <1>0, <2>1, <2>2 DEF Committed
  <2>4. S = [i \in 1 .. n |-> g + i]
    <3>1. ASSUME NEW i \in 1 .. n
          PROVE  tx_buf[(tx_in + i - 1) % BUF_LEN] = g + i
      <4>1. tx_in + i - 1 \in tx_in .. tx_in + n - 1 /\ tx_in + i - 1 \in 0 .. BUF_LEN - 1
        BY <1>0, <2>2, JtagAssumption DEF Slots
      <4>2. (tx_in + i - 1) % BUF_LEN = tx_in + i - 1
        BY <4>1, JtagAssumption
      <4>3. tx_buf[tx_in + i - 1] = written - n + 1 + (tx_in + i - 1) - tx_in
        BY <2>2, <4>1
      <4> QED BY <1>0, <4>1, <4>2, <4>3 DEF Slots
    <3> QED BY <3>1 DEF Segment
  <2>5. R' = R \o S
    <3>1. Ring(tx_buf, tx_out, (tx_in + n) % BUF_LEN) = Ring(tx_buf, tx_out, tx_in) \o S
      BY <1>0, <2>2, RingGive
    <3>2. R' = Ring(tx_buf, tx_out, (tx_in + n) % BUF_LEN)
      BY <2>1, <2>2 DEF Ring
    <3> QED BY <3>1, <3>2
  <2>6. S \in Seq(Nat) /\ Len(S) = n
    <3>1. n \in 0 .. BUF_LEN
      BY <1>0, <1>1, <2>2, JtagAssumption
    <3> QED BY <1>0, <3>1, SegmentIsSeq
  <2>7. OutQueue = tx_fifo \o R /\ OutQueue' = tx_fifo \o R'
    BY <2>1 DEF OutQueue
  <2> HIDE DEF R, S, g
  <2>8. OutQueue' = OutQueue \o S
    BY <1>0, <1>1, <2>5, <2>6, <2>7, Concats
  <2>9. Len(OutQueue) \in Nat /\ Len(OutQueue) + n <= BUF_LEN - 1 + FIFO_LEN
    <3>1. Len(OutQueue) = Len(tx_fifo) + Live(tx_in, tx_out)
      BY <1>0, <1>1, <2>7, ConcatProperties
    <3> QED BY <1>0, <1>1, <2>2, <3>1, JtagAssumption
  <2>10. n \in 1 .. BUF_LEN - 1 + FIFO_LEN
    BY <1>0, <2>2, <2>9, JtagAssumption
  <2>11. S = [i \in 1 .. (g + n) + 1 - (g + 1) |-> (g + 1) + i - 1]
    BY <1>0, <2>3, <2>4
  <2>12. Output!Give(n)
    BY <2>1, <2>3, <2>8, <2>9, <2>11 DEF Output!Give, Output!FromTo, OutQueue
  <2> QED BY <2>10, <2>12 DEF Output!Next
<1> QED BY <1>2, <1>3, <1>4, <1>5, <1>6, <1>7, QuietOutSteps

(***************************************************************************)
(* For every size of ring and FIFO, what write puts in comes out at the    *)
(* host once and in order: the driver's way out implements a queue.        *)
(***************************************************************************)
THEOREM OutputImplementsQueue == Spec => OutputIsQueue
<1>1. Init => TypeInv /\ OutInv /\ Output!Init
  <2> SUFFICES ASSUME Init PROVE TypeInv /\ OutInv /\ Output!Init
    OBVIOUS
  <2>1. Ring(tx_buf, tx_out, tx_in) = <<>>
    BY JtagAssumption DEF Init, Ring
  <2>2. Output!Init
    BY <2>1 DEF Init, Output!Init, Committed
  <2> QED BY TypeInvInit, <2>2 DEF Init, OutInv
<1>2. TypeInv /\ OutInv /\ [Next]_vars => (TypeInv /\ OutInv)'
  BY TypesKept, OutInvKept
<1>3. TypeInv /\ OutInv /\ [Next]_vars => [Output!Next]_(Output!queueVars)
  BY OutputStep DEF Output!queueVars, OutQueue
<1> QED BY <1>1, <1>2, <1>3, PTL DEF Spec, OutputIsQueue, Output!Spec

-----------------------------------------------------------------------------
(* The way in.                                                             *)

\* Between the look at the ring and the moving of rx_out, read owns the
\* characters it takes.
InInv ==
  pc \in {"take", "release"} => out = rx_out /\ n > 0 /\ n <= Live(rx_in, rx_out)

\* What read finds is live.
LEMMA DataIsLive ==
  ASSUME NEW i \in Slots, NEW o \in Slots
  PROVE  RxData(i, o) <= Live(i, o)
  BY JtagAssumption DEF Slots, RxData, Live

\* A ring that is not full has room for one character.
LEMMA OneMore ==
  ASSUME NEW i \in Slots, NEW o \in Slots, (i + 1) % BUF_LEN # o
  PROVE  Live(i, o) + 1 <= BUF_LEN - 1
  BY JtagAssumption DEF Slots, Live

\* Every step but five leaves alone what the way in is about.
InQuiet ==
  /\ UNCHANGED <<rxVars, rx_fifo, typed, read>>
  /\ pc = "release" => UNCHANGED pc
  /\ pc' \in {"take", "release"} => UNCHANGED <<pc, out, n>>

\* They are HostTypes, IrqReceive, ReadLoop, ReadTake and ReadRelease.
LEMMA QuietInSteps ==
  ASSUME [Next]_vars
  PROVE  HostTypes \/ IrqReceive \/ ReadLoop \/ ReadTake \/ ReadRelease \/ InQuiet
<1> USE DEF InQuiet
<1>1. CASE HostReads \/ HostPolls \/ HostComesOrGoes \/ timeout \/ UNCHANGED vars
  BY <1>1 DEF HostReads, HostPolls, HostComesOrGoes, timeout, vars, threadVars, localVars,
    hardwareVars, historyVars
<1>2. CASE Interrupt \/ IrqControl \/ IrqReceiveEnd \/ IrqTransmit \/ IrqTransmitEnd
  BY <1>2 DEF Interrupt, IrqControl, IrqReceiveEnd, IrqTransmit, IrqTransmitEnd, threadVars,
    localVars, hardwareVars, historyVars
<1>3. CASE write \/ read_call \/ close
  BY <1>3 DEF write, read_call, close, Call, hardwareVars, historyVars
<1>4. CASE WriteLoop \/ WriteCopy \/ WriteAdvance \/ WriteKick \/ WriteSpin \/ WriteCheck \/ Close
  BY <1>4 DEF WriteLoop, WriteCopy, WriteAdvance, WriteKick, WriteSpin, WriteCheck, Close, Goto,
    Return, localVars, hardwareVars, historyVars
<1>5. CASE ReadWait \/ ReadLook \/ ReadEnable
  BY <1>5 DEF ReadWait, ReadLook, ReadEnable, Goto, Return, localVars, hardwareVars, historyVars
<1> QED BY <1>1, <1>2, <1>3, <1>4, <1>5 DEF Next, Host, Isr, Running

\* Nobody else moves rx_out, and the routine only adds characters.
LEMMA InInvKept ==
  ASSUME TypeInv, InInv, [Next]_vars PROVE InInv'
<1>0. rx_in \in Slots /\ rx_out \in Slots /\ count \in Nat /\ n \in Nat
  BY DEF TypeInv, RingTypes, ThreadTypes
<1>1. CASE HostTypes
  BY <1>1 DEF HostTypes, InInv, threadVars, localVars, rxVars
<1>2. CASE InQuiet
  BY <1>2 DEF InQuiet, InInv, rxVars
<1>3. CASE IrqReceive
  <2>1. /\ rx_in' = (rx_in + 1) % BUF_LEN /\ (rx_in + 1) % BUF_LEN # rx_out
        /\ UNCHANGED <<pc, out, n, rx_out>>
    BY <1>3 DEF IrqReceive, RxFull, Next1, threadVars, localVars
  <2>2. Live(rx_in, rx_out) + 1 <= BUF_LEN - 1 /\ 1 \in 0 .. BUF_LEN
    BY <1>0, <2>1, OneMore, JtagAssumption
  <2>3. Live(rx_in', rx_out) = Live(rx_in, rx_out) + 1 /\ Live(rx_in, rx_out) \in Nat
    BY <1>0, <2>1, <2>2, LiveSteps, RingLength
  <2> QED BY <1>0, <2>1, <2>3 DEF InInv
<1>4. CASE ReadLoop
  <2> DEFINE k == Min2(RxData(rx_in, rx_out), count)
  <2>1. ReadLoop => \/ k > 0 /\ Look("take", k)
                    \/ Look("enable", 0)
                    \/ Return("EWOULDBLOCK")
                    \/ Look("wait", 0)
    BY DEF ReadLoop
  <2>2. k <= Live(rx_in, rx_out)
    BY <1>0, RoomBounds, DataIsLive, RingLength, JtagAssumption DEF Min2
  <2>3. UNCHANGED <<rx_in, rx_out>>
    BY <1>4 DEF ReadLoop, rxVars
  <2> HIDE DEF k
  <2> QED BY <1>4, <2>1, <2>2, <2>3 DEF Look, Return, InInv
<1>5. CASE ReadTake
  BY <1>5 DEF ReadTake, InInv, rxVars
<1>6. CASE ReadRelease
  BY <1>6 DEF ReadRelease, InInv
<1> QED BY <1>1, <1>2, <1>3, <1>4, <1>5, <1>6, QuietInSteps

\* The bytes on their way in, the oldest first.
InQueue == Ring(rx_buf, RxTaken, rx_in) \o rx_fifo

\* The characters that are still to be taken.
LEMMA TakenBounds ==
  ASSUME TypeInv, InInv
  PROVE  /\ RxTaken \in Slots
         /\ Live(rx_in, RxTaken) = IF pc = "release" THEN Live(rx_in, rx_out) - n
                                   ELSE Live(rx_in, rx_out)
         /\ Live(rx_in, RxTaken) <= Live(rx_in, rx_out)
         /\ Live(rx_in, RxTaken) \in Nat /\ Live(rx_in, rx_out) \in 0 .. BUF_LEN - 1
<1>1. rx_in \in Slots /\ rx_out \in Slots /\ n \in 0 .. BUF_LEN
  BY JtagAssumption DEF TypeInv, RingTypes, ThreadTypes
<1>2. Live(rx_in, rx_out) \in 0 .. BUF_LEN - 1
  BY <1>1, RingLength
<1>3. CASE pc = "release"
  <2>1. out = rx_out /\ n <= Live(rx_in, rx_out) /\ RxTaken = (rx_out + n) % BUF_LEN
    BY <1>3 DEF InInv, RxTaken
  <2>2. RxTaken \in Slots /\ Live(rx_in, RxTaken) = Live(rx_in, rx_out) - n
    BY <1>1, <2>1, Wrap, LiveSteps
  <2> QED BY <1>1, <1>2, <1>3, <2>1, <2>2
<1>4. CASE pc # "release"
  BY <1>1, <1>2, <1>4 DEF RxTaken
<1> QED BY <1>3, <1>4

\* Each step gives a byte to the queue, takes some, or leaves it as it is.
LEMMA InputStep ==
  ASSUME TypeInv, InInv, [Next]_vars
  PROVE  Input!Next \/ UNCHANGED <<typed, InQueue, read>>
<1> DEFINE R == Ring(rx_buf, RxTaken, rx_in)
<1>0. /\ rx_in \in Slots /\ rx_out \in Slots /\ rx_buf \in [Slots -> Nat] /\ rx_fifo \in Seq(Nat)
      /\ n \in 0 .. BUF_LEN - 1 /\ typed \in Nat /\ Len(rx_fifo) <= FIFO_LEN /\ RxTaken \in Slots
      /\ BUF_LEN \in Nat /\ FIFO_LEN \in Nat
  BY TakenBounds, JtagAssumption DEF TypeInv, RingTypes, ByteTypes, ThreadTypes, DriverTypes
<1>1. R \in Seq(Nat) /\ Len(R) = Live(rx_in, RxTaken) /\ Len(R) \in 0 .. BUF_LEN - 1
  BY <1>0, RingIsSeq, RingLength
<1>2. CASE HostTypes
  <2>1. /\ typed' = typed + 1 /\ rx_fifo' = Append(rx_fifo, typed + 1)
        /\ Len(rx_fifo) < FIFO_LEN /\ UNCHANGED <<RxTaken, rx_buf, rx_in, read>>
    BY <1>2 DEF HostTypes, threadVars, localVars, rxVars, RxTaken
  <2> DEFINE S == <<typed + 1>>
  <2>2. S = [i \in 1 .. (typed + 1) + 1 - (typed + 1) |-> (typed + 1) + i - 1] /\ S \in Seq(Nat)
    BY <1>0
  <2>3. rx_fifo' = rx_fifo \o S
    BY <1>0, <2>1
  <2>4. InQueue = R \o rx_fifo /\ InQueue' = R \o rx_fifo'
    BY <2>1 DEF InQueue, Ring
  <2> HIDE DEF R, S
  <2>5. InQueue' = InQueue \o S /\ Len(InQueue) = Len(R) + Len(rx_fifo)
    <3>0. S \in Seq(Nat)
      BY <2>2
    <3>1. (R \o rx_fifo) \o S = R \o (rx_fifo \o S) /\ Len(R \o rx_fifo) = Len(R) + Len(rx_fifo)
      BY <1>0, <1>1, <3>0, Concats
    <3> QED BY <2>3, <2>4, <3>1
  <2>6. Len(InQueue) + 1 <= BUF_LEN - 1 + FIFO_LEN /\ 1 \in 1 .. BUF_LEN - 1 + FIFO_LEN
    BY <1>0, <1>1, <2>1, <2>5, JtagAssumption
  <2>7. Input!Give(1)
    BY <2>1, <2>2, <2>5, <2>6 DEF Input!Give, Input!FromTo, InQueue
  <2> QED BY <2>6, <2>7 DEF Input!Next
<1>3. CASE InQuiet
  BY <1>3 DEF InQuiet, InQueue, Ring, RxTaken, rxVars
<1>4. CASE ReadLoop
  BY <1>4 DEF ReadLoop, Look, Return, InQueue, Ring, RxTaken, rxVars, hardwareVars, historyVars
<1>5. CASE IrqReceive
  <2>1. /\ (rx_in + 1) % BUF_LEN # rx_out /\ rx_in' = (rx_in + 1) % BUF_LEN /\ rx_fifo # <<>>
        /\ rx_buf' = [rx_buf EXCEPT ![rx_in] = Head(rx_fifo)] /\ rx_fifo' = Tail(rx_fifo)
        /\ UNCHANGED <<RxTaken, typed, read>>
    BY <1>5 DEF IrqReceive, RxFull, Next1, RxTaken, threadVars, localVars, historyVars
  <2> DEFINE h == Head(rx_fifo)
  <2>2. h \in Nat /\ rx_fifo' \in Seq(Nat) /\ rx_fifo = <<h>> \o rx_fifo'
    BY <1>0, <2>1
  <2>3. rx_buf' \in [Slots -> Nat] /\ rx_buf'[rx_in] = h
    BY <1>0, <2>1, <2>2
  <2>4. rx_in + 1 <= BUF_LEN /\ Live(rx_in, RxTaken) + 1 <= BUF_LEN - 1
    <3>1. Live(rx_in, rx_out) + 1 <= BUF_LEN - 1
      BY <1>0, <2>1, OneMore
    <3>2. Live(rx_in, RxTaken) <= Live(rx_in, rx_out) /\ Live(rx_in, RxTaken) \in Nat
          /\ Live(rx_in, rx_out) \in Nat
      BY TakenBounds
    <3> QED BY <1>0, <3>1, <3>2 DEF Slots
  <2>5. Ring(rx_buf, RxTaken, rx_in) = Ring(rx_buf', RxTaken, rx_in)
    <3>0. PICK one \in Nat : one = 1
      OBVIOUS
    <3>1. \A c \in Slots : c \notin rx_in .. rx_in + one - 1 => rx_buf[c] = rx_buf'[c]
      BY <1>0, <2>1, <3>0 DEF Slots
    <3>2. rx_in + one <= BUF_LEN /\ Live(rx_in, RxTaken) + one <= BUF_LEN - 1
      BY <2>4, <3>0
    <3>3. rx_buf \in [Slots -> Nat] /\ rx_buf' \in [Slots -> Nat] /\ rx_in \in Slots /\ RxTaken \in Slots
      BY <1>0, <2>3
    <3> DEFINE b2 == rx_buf'
    <3> HIDE DEF b2
    <3>4. b2 \in [Slots -> Nat] /\ \A c \in Slots : c \notin rx_in .. rx_in + one - 1 => rx_buf[c] = b2[c]
      BY <3>1, <3>3 DEF b2
    <3>5. Ring(rx_buf, RxTaken, rx_in) = Ring(b2, RxTaken, rx_in)
      BY <3>0, <3>2, <3>3, <3>4, RingSame
    <3> QED BY <3>5 DEF b2
  <2>6. R' = R \o <<h>>
    <3>1. Ring(rx_buf', RxTaken, (rx_in + 1) % BUF_LEN)
          = Ring(rx_buf', RxTaken, rx_in) \o Segment(rx_buf', rx_in, 1)
      <4>0. PICK one \in Nat : one = 1
        OBVIOUS
      <4>1. Live(rx_in, RxTaken) + one <= BUF_LEN - 1
        BY <2>4, <4>0
      <4>2. Ring(rx_buf', RxTaken, (rx_in + one) % BUF_LEN)
            = Ring(rx_buf', RxTaken, rx_in) \o Segment(rx_buf', rx_in, one)
        BY <1>0, <2>3, <4>1, RingGive
      <4> QED BY <4>0, <4>2
    <3>2. R' = Ring(rx_buf', RxTaken, (rx_in + 1) % BUF_LEN)
      BY <2>1 DEF Ring
    <3>3. Segment(rx_buf', rx_in, 1) = <<h>>
      BY <1>0, <2>3, OneSegment
    <3> QED BY <2>5, <3>1, <3>2, <3>3
  <2>7. InQueue = R \o rx_fifo /\ InQueue' = R' \o rx_fifo'
    BY DEF InQueue
  <2>8. <<h>> \in Seq(Nat)
    BY <2>2
  <2> HIDE DEF R, h
  <2>9. (R \o <<h>>) \o rx_fifo' = R \o (<<h>> \o rx_fifo')
    BY <1>1, <2>2, <2>8, Concats
  <2> QED BY <2>1, <2>2, <2>6, <2>7, <2>9
<1>6. CASE ReadTake
  <2>1. /\ pc = "take" /\ pc' = "release" /\ UNCHANGED <<out, n, rx_in, rx_out, rx_buf, rx_fifo, typed>>
        /\ read' = read \o [i \in 1 .. n |-> rx_buf[(out + i - 1) % BUF_LEN]]
    BY <1>6 DEF ReadTake, rxVars, hardwareVars
  <2>2. out = rx_out /\ n > 0 /\ n <= Live(rx_in, rx_out)
    BY <2>1 DEF InInv
  <2>3. RxTaken = rx_out /\ RxTaken' = (rx_out + n) % BUF_LEN
    BY <2>1, <2>2 DEF RxTaken
  <2> DEFINE S == Segment(rx_buf, rx_out, n)
  <2>4. R = S \o R'
    <3>1. n \in 0 .. Live(rx_in, rx_out)
      BY <1>0, <2>2, RingLength
    <3>2. Ring(rx_buf, rx_out, rx_in) = S \o Ring(rx_buf, (rx_out + n) % BUF_LEN, rx_in)
      BY <1>0, <3>1, RingTake
    <3>3. R' = Ring(rx_buf, (rx_out + n) % BUF_LEN, rx_in)
      BY <2>1, <2>3 DEF Ring
    <3> QED BY <2>3, <3>2, <3>3
  <2>5. S \in Seq(Nat) /\ Len(S) = n /\ n \in Nat
    <3>1. n \in 0 .. BUF_LEN /\ n \in Nat
      BY <1>0
    <3>2. S \in Seq(Nat) /\ Len(S) = n
      BY <1>0, <3>1, SegmentIsSeq
    <3> QED BY <3>1, <3>2
  <2>6. R' \in Seq(Nat)
    <3>1. R' = Ring(rx_buf, (rx_out + n) % BUF_LEN, rx_in)
      BY <2>1, <2>3 DEF Ring
    <3>2. (rx_out + n) % BUF_LEN \in Slots
      BY <1>0, Wrap
    <3> QED BY <1>0, <3>1, <3>2, RingIsSeq
  <2>7. InQueue = R \o rx_fifo /\ InQueue' = R' \o rx_fifo
    BY <2>1 DEF InQueue
  <2>8. read' = read \o S
    BY <2>1, <2>2 DEF Segment
  <2> HIDE DEF R, S
  <2>9. InQueue = S \o InQueue' /\ InQueue' \in Seq(Nat)
    BY <1>0, <2>4, <2>5, <2>6, <2>7, Concats
  <2>10. /\ SubSeq(InQueue, 1, n) = S /\ InQueue' = SubSeq(InQueue, n + 1, Len(InQueue))
         /\ n \in 1 .. Len(InQueue)
    <3> DEFINE q == InQueue  rest == InQueue'
    <3>1. q = S \o rest /\ rest \in Seq(Nat)
      BY <2>9
    <3> HIDE DEF q, rest
    <3>2. /\ SubSeq(q, 1, Len(S)) = S /\ SubSeq(q, Len(S) + 1, Len(q)) = rest
          /\ Len(q) = Len(S) + Len(rest)
      BY <2>5, <3>1, TakeFront
    <3>3. Len(rest) \in Nat
      BY <3>1
    <3> QED BY <2>2, <2>5, <3>1, <3>2, <3>3 DEF q, rest
  <2> QED BY <2>1, <2>8, <2>10 DEF Input!Next, Input!Take, InQueue
<1>7. CASE ReadRelease
  <2>1. /\ pc = "release" /\ pc' # "release" /\ rx_out' = (out + n) % BUF_LEN
        /\ UNCHANGED <<rx_in, rx_buf, rx_fifo, typed, read>>
    BY <1>7 DEF ReadRelease, hardwareVars, historyVars
  <2>2. UNCHANGED RxTaken
    BY <2>1 DEF RxTaken
  <2> QED BY <2>1, <2>2 DEF InQueue, Ring
<1> QED BY <1>2, <1>3, <1>4, <1>5, <1>6, <1>7, QuietInSteps

(***************************************************************************)
(* For every size of ring and FIFO, what is typed reaches read once and in *)
(* order: the driver's way in implements a queue.                          *)
(***************************************************************************)
THEOREM InputImplementsQueue == Spec => InputIsQueue
<1>1. Init => TypeInv /\ InInv /\ Input!Init
  <2> SUFFICES ASSUME Init PROVE TypeInv /\ InInv /\ Input!Init
    OBVIOUS
  <2>1. RxTaken = 0 /\ Ring(rx_buf, RxTaken, rx_in) = <<>>
    BY JtagAssumption DEF Init, Ring, RxTaken
  <2>2. Input!Init
    BY <2>1 DEF Init, Input!Init
  <2> QED BY TypeInvInit, <2>2 DEF Init, InInv
<1>2. TypeInv /\ InInv /\ [Next]_vars => (TypeInv /\ InInv)'
  BY TypesKept, InInvKept
<1>3. TypeInv /\ InInv /\ [Next]_vars => [Input!Next]_(Input!queueVars)
  BY InputStep DEF Input!queueVars, InQueue
<1> QED BY <1>1, <1>2, <1>3, PTL DEF Spec, InputIsQueue, Input!Spec
=============================================================================
