------------------------------ MODULE JtagUart ------------------------------
(***************************************************************************)
(* The interrupt-driven console driver behind printf                       *)
(* (altera_avalon_jtag_uart_*.c): two rings shared, without locks, by the  *)
(* thread, which runs write, read or close, and the interrupt routine; the *)
(* alarm that counts the seconds without a sign of the host; and the host  *)
(* at the other end of the two hardware FIFOs.                             *)
(*                                                                         *)
(* The thread's steps are its accesses to what the interrupts also touch,  *)
(* in program order (the build is -O0).  The interrupt routine and the     *)
(* alarm interrupt the thread, never each other; the hardware goes on      *)
(* beside both.  Bytes are numbered in the order in which they enter.      *)
(***************************************************************************)
EXTENDS Integers, Sequences

CONSTANTS
  BUF_LEN,       \* slots of a ring: 2048
  FIFO_LEN,      \* characters of a hardware FIFO: 64
  TIMEOUT,       \* seconds until the host is assumed inactive: 10
  Counts,        \* sizes the callers pass to write and read
  MaxBytes       \* bound on the bytes written, and on the bytes typed

ASSUME JtagAssumption ==
  /\ BUF_LEN \in Nat \ {0, 1} /\ FIFO_LEN \in Nat \ {0} /\ TIMEOUT \in Nat \ {0}
  /\ Counts \subseteq Nat \ {0} /\ MaxBytes \in Nat

VARIABLES
  pc, nonblock, count,    \* the driver function running, and its arguments
  in, out, n,             \* its locals
  moved, result,          \* bytes it has moved, and what it returned
  tx_in, tx_out, tx_buf, rx_in, rx_out, rx_buf,   \* the rings
  irq_enable, host_inactive,
  isr, space, ravail,     \* the interrupt routine and its locals
  tx_fifo, rx_fifo, ac,   \* the hardware: two FIFOs and the activity bit
  host,                   \* the host is there
  written, printed, typed, read   \* history: bytes in and out, each way

argVars == <<nonblock, count>>
localVars == <<in, out, n, moved, result>>
threadVars == <<pc, argVars, localVars>>
txVars == <<tx_in, tx_out, tx_buf>>
rxVars == <<rx_in, rx_out, rx_buf>>
driverVars == <<irq_enable, host_inactive>>
isrVars == <<isr, space, ravail>>
hardwareVars == <<tx_fifo, rx_fifo, ac, host>>
historyVars == <<written, printed, typed, read>>
vars == <<threadVars, txVars, rxVars, driverVars, isrVars, hardwareVars, historyVars>>

Slots == 0 .. BUF_LEN - 1
Next1(i) == (i + 1) % BUF_LEN

WritePcs == {"write", "copy", "advance", "kick", "spin", "check"}
ReadPcs == {"read", "take", "release", "wait", "look", "enable"}

Init ==
  /\ pc = "idle" /\ nonblock = FALSE /\ count = 0
  /\ in = 0 /\ out = 0 /\ n = 0 /\ moved = 0 /\ result = "none"
  /\ tx_in = 0 /\ tx_out = 0 /\ tx_buf = [i \in Slots |-> 0]
  /\ rx_in = 0 /\ rx_out = 0 /\ rx_buf = [i \in Slots |-> 0]
  /\ irq_enable = {"RE"} /\ host_inactive = 0
  /\ isr = "off" /\ space = 0 /\ ravail = FALSE
  /\ tx_fifo = <<>> /\ rx_fifo = <<>> /\ ac \in BOOLEAN /\ host \in BOOLEAN
  /\ written = 0 /\ printed = <<>> /\ typed = 0 /\ read = <<>>

-----------------------------------------------------------------------------
(* The host and the hardware.                                              *)

HostReads ==
  /\ host /\ tx_fifo # <<>>
  /\ printed' = Append(printed, Head(tx_fifo)) /\ tx_fifo' = Tail(tx_fifo)
  /\ ac' = TRUE
  /\ UNCHANGED <<threadVars, txVars, rxVars, driverVars, isrVars, rx_fifo, host, written, typed, read>>

HostTypes ==
  /\ host /\ typed < MaxBytes /\ Len(rx_fifo) < FIFO_LEN
  /\ typed' = typed + 1 /\ rx_fifo' = Append(rx_fifo, typed + 1)
  /\ ac' = TRUE
  /\ UNCHANGED <<threadVars, txVars, rxVars, driverVars, isrVars, tx_fifo, host, written, printed, read>>

\* A connected host polls, whether or not there is anything to transfer.
HostPolls ==
  /\ host /\ ~ac /\ ac' = TRUE
  /\ UNCHANGED <<threadVars, txVars, rxVars, driverVars, isrVars, tx_fifo, rx_fifo, host, historyVars>>

HostComesOrGoes ==
  /\ host' = ~host
  /\ UNCHANGED <<threadVars, txVars, rxVars, driverVars, isrVars, tx_fifo, rx_fifo, ac, historyVars>>

ReadPending == "RE" \in irq_enable /\ rx_fifo # <<>>
WritePending == "WE" \in irq_enable /\ Len(tx_fifo) < FIFO_LEN

-----------------------------------------------------------------------------
(* altera_avalon_jtag_uart_irq.                                            *)

Interrupt ==
  /\ isr = "off" /\ (ReadPending \/ WritePending)
  /\ isr' = "control"
  /\ UNCHANGED <<threadVars, txVars, rxVars, driverVars, space, ravail, hardwareVars, historyVars>>

\* The control register is read: what is pending, and the space in the FIFO.
IrqControl ==
  /\ isr = "control"
  /\ isr' = IF ReadPending THEN "rx" ELSE IF WritePending THEN "tx" ELSE "off"
  /\ space' = IF WritePending THEN FIFO_LEN - Len(tx_fifo) ELSE 0
  /\ ravail' = ReadPending
  /\ UNCHANGED <<threadVars, txVars, rxVars, driverVars, hardwareVars, historyVars>>

\* After the read part: the write part, if it was pending too.
IrqRxDone == isr' = IF space > 0 THEN "tx" ELSE "control"

\* Mutant: the ring is filled to its last slot.
MutRxFull == FALSE

\* One slot stays free.
RxFull == Next1(rx_in) = rx_out

\* A character is moved from the FIFO to the ring.
IrqReceive ==
  /\ isr = "rx" /\ ~RxFull /\ rx_fifo # <<>>
  /\ rx_buf' = [rx_buf EXCEPT ![rx_in] = Head(rx_fifo)]
  /\ rx_in' = Next1(rx_in)
  /\ rx_fifo' = Tail(rx_fifo)
  /\ ravail' = (Tail(rx_fifo) # <<>>)
  /\ UNCHANGED <<threadVars, txVars, rx_out, driverVars, isr, space, tx_fifo, ac, host, historyVars>>

\* The FIFO is empty, or the ring is full: then, if characters are left, read
\* interrupts are turned off.
IrqReceiveEnd ==
  /\ isr = "rx" /\ (RxFull \/ rx_fifo = <<>>)
  /\ irq_enable' = IF RxFull /\ ravail THEN irq_enable \ {"RE"} ELSE irq_enable
  /\ IrqRxDone
  /\ UNCHANGED <<threadVars, txVars, rxVars, host_inactive, space, ravail, hardwareVars, historyVars>>

\* Characters are moved from the ring to the FIFO while both last.
IrqTransmit ==
  /\ isr = "tx" /\ space > 0 /\ tx_out # tx_in
  /\ tx_fifo' = Append(tx_fifo, tx_buf[tx_out])
  /\ tx_out' = Next1(tx_out)
  /\ space' = space - 1
  /\ UNCHANGED <<threadVars, tx_in, tx_buf, rxVars, driverVars, isr, ravail, rx_fifo, ac, host, historyVars>>

\* Mutant: write interrupts are turned off also when the FIFO is full.
MutIrqTransmitEnd ==
  /\ isr = "tx" /\ (space = 0 \/ tx_out = tx_in)
  /\ irq_enable' = irq_enable \ {"WE"}
  /\ isr' = "control"
  /\ UNCHANGED <<threadVars, txVars, rxVars, host_inactive, space, ravail, hardwareVars, historyVars>>

\* The ring is empty: write interrupts are turned off.
IrqTransmitEnd ==
  /\ isr = "tx" /\ (space = 0 \/ tx_out = tx_in)
  /\ irq_enable' = IF space > 0 THEN irq_enable \ {"WE"} ELSE irq_enable
  /\ isr' = "control"
  /\ UNCHANGED <<threadVars, txVars, rxVars, host_inactive, space, ravail, hardwareVars, historyVars>>

Isr == \/ Interrupt \/ IrqControl \/ IrqReceive \/ IrqReceiveEnd
       \/ IrqTransmit \/ IrqTransmitEnd

\* altera_avalon_jtag_uart_timeout, once a second.
timeout ==
  /\ isr = "off"
  /\ IF ac THEN ac' = FALSE /\ host_inactive' = 0
           ELSE host_inactive < TIMEOUT /\ host_inactive' = host_inactive + 1 /\ UNCHANGED ac
  /\ UNCHANGED <<threadVars, txVars, rxVars, irq_enable, isrVars, tx_fifo, rx_fifo, host, historyVars>>

-----------------------------------------------------------------------------
(* altera_avalon_jtag_uart_write.                                          *)

Thread == isr = "off"

Goto(at) == pc' = at /\ UNCHANGED <<argVars, localVars>>

\* The function returns: its arguments and locals are gone.
Return(r) ==
  /\ pc' = "idle" /\ result' = r
  /\ nonblock' = FALSE /\ count' = 0
  /\ in' = 0 /\ out' = 0 /\ n' = 0 /\ moved' = 0

Call(at) ==
  /\ Thread /\ pc = "idle"
  /\ pc' = at
  /\ nonblock' \in BOOLEAN
  /\ moved' = 0 /\ result' = "none"
  /\ UNCHANGED <<in, out, n, txVars, rxVars, driverVars, isrVars, hardwareVars, historyVars>>

write == Call("write") /\ count' \in {c \in Counts : written + c <= MaxBytes}

\* Mutant: the ring may be filled completely.
MutTxRoom(i, o) == IF i < o THEN o - i ELSE BUF_LEN - i

\* Slots that can be filled without wrapping around; one stays free.
TxRoom(i, o) ==
  IF i < o THEN o - 1 - i ELSE IF o > 0 THEN BUF_LEN - i ELSE BUF_LEN - 1 - i

Min2(a, b) == IF a < b THEN a ELSE b

WriteLoop ==
  /\ Thread /\ pc = "write"
  /\ IF count = 0 \/ TxRoom(tx_in, tx_out) = 0
     THEN pc' = "kick" /\ UNCHANGED n
     ELSE pc' = "copy" /\ n' = Min2(TxRoom(tx_in, tx_out), count)
  /\ IF count = 0 THEN UNCHANGED <<in, out>> ELSE in' = tx_in /\ out' = tx_out
  /\ UNCHANGED <<argVars, moved, result, txVars, rxVars, driverVars, isrVars, hardwareVars, historyVars>>

WriteCopy ==
  /\ Thread /\ pc = "copy"
  /\ tx_buf' = [i \in Slots |-> IF i \in in .. in + n - 1 THEN written + 1 + i - in ELSE tx_buf[i]]
  /\ count' = count - n /\ moved' = moved + n /\ written' = written + n
  /\ pc' = "advance"
  /\ UNCHANGED <<nonblock, in, out, n, result, tx_in, tx_out, rxVars, driverVars, isrVars,
                 hardwareVars, printed, typed, read>>

WriteAdvance ==
  /\ Thread /\ pc = "advance"
  /\ tx_in' = (in + n) % BUF_LEN
  /\ pc' = "write"
  /\ UNCHANGED <<argVars, localVars, tx_out, tx_buf, rxVars, driverVars, isrVars, hardwareVars, historyVars>>

\* What write returns once it leaves the loop.
WriteResult == IF moved > 0 THEN "count" ELSE IF nonblock THEN "EWOULDBLOCK" ELSE "EIO"

\* With interrupts disabled the write interrupt is enabled.
WriteKick ==
  /\ Thread /\ pc = "kick"
  /\ irq_enable' = irq_enable \cup {"WE"}
  /\ IF count > 0 /\ ~nonblock THEN Goto("spin") ELSE Return(WriteResult)
  /\ UNCHANGED <<txVars, rxVars, host_inactive, isrVars, hardwareVars, historyVars>>

\* Mutant: the host is not watched while waiting.
MutWriteSpin ==
  /\ Thread /\ pc = "spin" /\ out # tx_out
  /\ Goto("check")
  /\ UNCHANGED <<txVars, rxVars, driverVars, isrVars, hardwareVars, historyVars>>

\* The spin ends when the interrupt routine has taken something out, or the
\* host is given up.
WriteSpin ==
  /\ Thread /\ pc = "spin" /\ (out # tx_out \/ host_inactive >= TIMEOUT)
  /\ Goto("check")
  /\ UNCHANGED <<txVars, rxVars, driverVars, isrVars, hardwareVars, historyVars>>

WriteCheck ==
  /\ Thread /\ pc = "check"
  /\ IF host_inactive > 0 THEN Return(WriteResult) ELSE Goto("write")
  /\ UNCHANGED <<txVars, rxVars, driverVars, isrVars, hardwareVars, historyVars>>

-----------------------------------------------------------------------------
(* altera_avalon_jtag_uart_read.                                           *)

read_call == Call("read") /\ count' \in Counts

\* Characters that can be taken without wrapping around.
RxData(i, o) == IF i >= o THEN i - o ELSE BUF_LEN - o

\* The indices are read, and room is made for k characters to be taken.
Look(at, k) ==
  /\ pc' = at
  /\ in' = rx_in /\ out' = rx_out /\ n' = k
  /\ UNCHANGED <<argVars, moved, result>>

ReadLoop ==
  /\ Thread /\ pc = "read"
  /\ LET k == Min2(RxData(rx_in, rx_out), count)
     IN \/ k > 0 /\ Look("take", k)
        \/ k = 0 /\ moved > 0 /\ Look("enable", 0)
        \/ k = 0 /\ moved = 0 /\ nonblock /\ Return("EWOULDBLOCK")
        \/ k = 0 /\ moved = 0 /\ ~nonblock /\ Look("wait", 0)
  /\ UNCHANGED <<txVars, rxVars, driverVars, isrVars, hardwareVars, historyVars>>

ReadTake ==
  /\ Thread /\ pc = "take"
  /\ read' = read \o [i \in 1 .. n |-> rx_buf[(out + i - 1) % BUF_LEN]]
  /\ moved' = moved + n /\ count' = count - n
  /\ pc' = "release"
  /\ UNCHANGED <<nonblock, in, out, n, result, txVars, rxVars, driverVars, isrVars,
                 hardwareVars, written, printed, typed>>

ReadRelease ==
  /\ Thread /\ pc = "release"
  /\ rx_out' = (out + n) % BUF_LEN
  /\ pc' = IF count > 0 THEN "read" ELSE "enable"
  /\ UNCHANGED <<argVars, localVars, txVars, rx_in, rx_buf, driverVars, isrVars, hardwareVars, historyVars>>

ReadWait ==
  /\ Thread /\ pc = "wait" /\ (in # rx_in \/ host_inactive >= TIMEOUT)
  /\ Goto("look")
  /\ UNCHANGED <<txVars, rxVars, driverVars, isrVars, hardwareVars, historyVars>>

ReadLook ==
  /\ Thread /\ pc = "look"
  /\ IF in = rx_in THEN Return("EIO") ELSE Goto("read")
  /\ UNCHANGED <<txVars, rxVars, driverVars, isrVars, hardwareVars, historyVars>>

\* Mutant: read interrupts stay as the interrupt routine left them.
MutReadEnable ==
  /\ Thread /\ pc = "enable"
  /\ Return("count")
  /\ UNCHANGED <<txVars, rxVars, driverVars, isrVars, hardwareVars, historyVars>>

\* There is space again: read interrupts are enabled.
ReadEnable ==
  /\ Thread /\ pc = "enable"
  /\ irq_enable' = irq_enable \cup {"RE"}
  /\ Return("count")
  /\ UNCHANGED <<txVars, rxVars, host_inactive, isrVars, hardwareVars, historyVars>>

-----------------------------------------------------------------------------
\* altera_avalon_jtag_uart_close: until the ring is empty or the host is gone.
close == Call("close") /\ count' = 0

Close ==
  /\ Thread /\ pc = "close"
  /\ IF tx_out # tx_in /\ host_inactive < TIMEOUT
     THEN nonblock /\ Return("EWOULDBLOCK")
     ELSE Return("closed")
  /\ UNCHANGED <<txVars, rxVars, driverVars, isrVars, hardwareVars, historyVars>>

Host == HostReads \/ HostTypes \/ HostPolls \/ HostComesOrGoes

Running == \/ WriteLoop \/ WriteCopy \/ WriteAdvance \/ WriteKick \/ WriteSpin \/ WriteCheck
           \/ ReadLoop \/ ReadTake \/ ReadRelease \/ ReadWait \/ ReadLook \/ ReadEnable
           \/ Close

Next == Host \/ Isr \/ timeout \/ write \/ read_call \/ close \/ Running

Spec == Init /\ [][Next]_vars

\* The processor runs the thread and takes its interrupts, time passes, and a
\* host that is there reads what is printed.
FairSpec ==
  Spec /\ WF_vars(Running) /\ WF_vars(Isr) /\ WF_vars(timeout) /\ WF_vars(HostReads)

-----------------------------------------------------------------------------
JtagTypeOK ==
  /\ pc \in {"idle", "close"} \cup WritePcs \cup ReadPcs
  /\ {tx_in, tx_out, rx_in, rx_out, in, out} \subseteq Slots
  /\ n \in 0 .. BUF_LEN - 1 /\ count \in Nat /\ moved \in Nat
  /\ irq_enable \subseteq {"RE", "WE"} /\ host_inactive \in 0 .. TIMEOUT
  /\ isr \in {"off", "control", "rx", "tx"} /\ space \in 0 .. FIFO_LEN
  /\ Len(tx_fifo) <= FIFO_LEN /\ Len(rx_fifo) <= FIFO_LEN
  /\ result \in {"none", "count", "EWOULDBLOCK", "EIO", "closed"}

Ring(buf, o, i) == [k \in 1 .. (i - o) % BUF_LEN |-> buf[(o + k - 1) % BUF_LEN]]

\* The bytes that write has put in the ring and made visible by moving tx_in.
Committed == IF pc = "advance" THEN written - n ELSE written

\* The bytes that read has taken are still in the ring until rx_out moves.
RxTaken == IF pc = "release" THEN (out + n) % BUF_LEN ELSE rx_out

Output == INSTANCE ByteQueue WITH
  Capacity <- BUF_LEN - 1 + FIFO_LEN,
  given <- Committed, queue <- tx_fifo \o Ring(tx_buf, tx_out, tx_in), taken <- printed

Input == INSTANCE ByteQueue WITH
  Capacity <- BUF_LEN - 1 + FIFO_LEN,
  given <- typed, queue <- Ring(rx_buf, RxTaken, rx_in) \o rx_fifo, taken <- read

(***************************************************************************)
(* The transmit ring, the interrupt routine and the hardware FIFO together *)
(* are one queue of bytes: each byte written is printed once and in order, *)
(* and only write adds to the queue, however the interrupt routine cuts    *)
(* into it (write.c:100-191, init.c:169-195).                              *)
(***************************************************************************)
OutputIsQueue == Output!Spec

(***************************************************************************)
(* The same for the receive ring and FIFO: each character typed is read    *)
(* once and in order, and none is dropped while the ring is full           *)
(* (read.c:115-152, init.c:128-167).                                       *)
(***************************************************************************)
InputIsQueue == Input!Spec

(***************************************************************************)
(* Bytes in the transmit ring always have an interrupt on its way to move  *)
(* them: the write interrupt is enabled, or the thread is about to enable  *)
(* it.  Otherwise output would stand still until the next printf           *)
(* (write.c:129-139, init.c:186-194).                                      *)
(***************************************************************************)
TransmitterNotStuck ==
  tx_in # tx_out => "WE" \in irq_enable \/ pc \in {"write", "copy", "advance", "kick"}

(***************************************************************************)
(* Read interrupts are off only while the receive ring is full or a reader *)
(* is about to turn them on again: typed characters are never stranded in  *)
(* the FIFO beside an empty ring (read.c:188-195, init.c:156-166).         *)
(***************************************************************************)
ReceiverNotDeaf ==
  "RE" \notin irq_enable => RxFull \/ pc \in {"read", "take", "release", "enable"}

(***************************************************************************)
(* printf does not hang the launcher: if the host stays or stays away from *)
(* some moment on, every write ends, by the host's reading or by the       *)
(* seconds counted (write.c:174-189, init.c:203-225).                      *)
(***************************************************************************)
HostSettles == <>[]host \/ <>[]~host
WriteEnds == HostSettles => (pc \in WritePcs ~> pc = "idle")

(***************************************************************************)
(* What is written reaches a host that stays, without another call of the  *)
(* driver: the interrupt routine alone empties ring and FIFO               *)
(* (write.c:129-139, init.c:169-195).                                      *)
(***************************************************************************)
OutputDelivered == <>[]host => []<>(tx_fifo = <<>> /\ tx_out = tx_in)
=============================================================================
