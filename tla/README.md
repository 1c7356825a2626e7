# Desktop launcher firmware: models, model checks and proofs

The firmware (`src/Desktop_Launcher`) runs on a Nios II soft core without an operating
system and drives a foam-dart launcher: a tilt servo, a continuous-rotation pan servo and a
trigger servo, a touch screen with ten buttons, a serial camera with motion detection, a
Bluetooth module through which a phone takes over, and a Wi-Fi module that sends an SMS.
`src/Desktop_launcher_BSP` is the board support package generated for it.

There is one thread. What makes the program hard is not parallel threads but re-entrancy
(a button callback polls the touch screen again), one global flag with two meanings
(`bluetooth_enabled`), sleeps during which the hardware keeps moving, and four serial links
whose other end speaks when it likes.

## 1. Inventory

| component | state | operations | interacts with | what makes it correct |
|---|---|---|---|---|
| motors (`motor.c`) | three PWM registers, two speeds, two reversal boosts, `bluetooth_enabled` (one symbol with `main.c`) | `init_motors`, `move_up/down/left/right`, `move_direction`, `move_updown_angle`, `move_leftright_angle`, `stop_leftrght`, `motor_fire`, `set/get_motor_speed` | called from button callbacks, modes and commands | servos stay within their limits in 16-bit arithmetic; the boost goes to reversals only |
| buttons (`gui.c`) | `disabled`, `toggled` of ten buttons | `disable_button`, `enable_button`, `buttons_not_pressed`, `process_user_input` | touch screen below, callbacks above (which re-enter it) | what is drawn pressed is true; nothing is left pressed or turning |
| launcher (`main.c`) | `current_mode`, `bluetooth_enabled`, the call stack | main loop, three modes, five callbacks, seven commands, two requests | everything | lockout during Bluetooth and autonomous modes; pan servo at rest; speed kept; Bluetooth button answered |
| Bluetooth link (`bluetooth.c`, `serial.c`) | `in_buffer`, the UART | framing, handshake, command mode, connection check | phone, Bluetooth module | frames are the phone's messages; a drop means that the phone was gone |
| camera (`camera.c`) | `camera_buffer`, `frame_ptr`, the camera's own state | `run_command`, picture stop/resume/read, motion control, resolution | camera | an acknowledged command was executed; a photo is the frame, in place |
| touch screen (`touch_screen.c`) | receive bytes | `get_press_timeout` | touch controller | a point is one report, never parts of two |
| graphics (`graphics.c`) | the screen, `XYStack` | lines, rectangles, triangles, circles with a flood fill that reads the screen back, `draw_button` | buttons above, the drawing chip below | a button's picture is that of its state, whatever was drawn there before; filling ends |
| Wi-Fi (`wifi.c`), debug | none | output only | | |
| console driver (BSP, `altera_avalon_jtag_uart_*.c`) | two rings, `irq_enable`, `host_inactive` | `write`, `read`, `close`, the interrupt routine, the timeout alarm | C library's `printf`, the interrupt, the JTAG host | no byte lost, repeated or stranded; `printf` cannot hang the launcher |
| alarms (BSP HAL) | tick counter, list of alarms | `alt_alarm_start/stop`, `alt_tick` | timer interrupt, console driver | each callback at its tick, across rollover |
| file descriptors (BSP HAL) | descriptor table, high-water mark | `open`, `close`, `ioctl(TIOCEXCL/TIOCNXCL)`, redirection at start-up | C library | searches miss no descriptor; locks hold |

### What is hard here

* **Re-entrancy.** `photo_callback` calls `process_user_input`, which may call `photo_callback`,
  a mode callback or `bluetooth_callback`: a touch is handled between taking a frame and reading it.
* **A flag with two owners.** `bluetooth_enabled` means "a session was asked for" in `main.c` and
  "boost the step" in `motor.c`; `move_direction` lowers it in the middle of a session.
* **16-bit arithmetic.** Steps are subtracted from and added to `uint16_t` registers before the
  limits are applied; `frame_ptr` counts a 32-bit length.
* **Byte streams without resynchronisation.** Everything on the serial links is told apart by
  counting bytes; the UARTs keep one byte and drop the rest while nobody listens.
* **Interrupts.** The console driver shares two rings with its interrupt routine, without locks.
* **Counters that roll over**, in the alarms.
* **A screen that is read back.** The flood fill stops at pixels of its own colour, which an older
  picture may have left there.

## 2. Plan

Most important first; done in this order:

1. `Motor`, `MotorProofs` - the servos, whose limits are mechanical. *(checked, proved)*
2. `Gui`, `Launcher` - the whole thread over `Motor`. *(checked)*
3. `BluetoothLink`, `LinkProofs` - framing, command mode and the connection check, byte by byte.
   *(checked, proved)*
4. `Camera`, `CameraProofs` - commands, answers, motion reports. *(checked, proved)*
5. `PhotoRead`, `PhotoReadProofs` - pictures, chunk by chunk. *(checked, proved)*
6. `TouchScreen`, `TouchScreenProofs` - from bytes to a button. *(checked, proved)*
7. `JtagUart` - the console driver and its interrupts. *(checked)*
8. `Alarm` - timer callbacks, with `HalProofs`. *(checked, proved)*
9. `FdTable` - descriptors, with `HalProofs`. *(checked, proved)*
10. `LauncherProofs` - the firmware implements `Motor`, for all constants; every invariant of
    `Launcher`. *(proved)*
11. `ByteQueue`, `JtagProofs` - what the console driver promises, and that it
    keeps the promise for rings of every size. *(checked, proved)*
12. `Mailbox` - what the session may expect of the Bluetooth link. *(checked, proved)*
13. `Control` - who moves the launcher. *(checked, proved)*
14. `Graphics`, `Display` - the pictures of the buttons, pixel by pixel. *(checked)*

Four abstract specifications say what a part promises, and the detailed module is shown to
implement it:

| abstract | implemented by | mapping | shown |
|---|---|---|---|
| `Motor`'s `MotorSpec` | `Launcher` | the variables themselves | checked, proved |
| `Control` | `Launcher` | `Controlled` | checked, proved |
| `ByteQueue` | `JtagUart`, twice | `Output`, `Input` | checked, proved |
| `Mailbox` | `BluetoothLink` | `Box` | checked, proved |

## 3. Modules and code

Where the code waits - a sleep, a poll, a read, an interrupt window - a step of the model ends.
Names of actions and variables are those of the functions and variables they stand for.

### Motor (`motor.c`)

`PWM_CW180`, `PWM_CW360`, `PWM_CWFIRE` are the registers, `updown_speed`, `leftright_speed`,
`up_multiplier`, `down_multiplier` the file's variables, reduced modulo 2^16 where the code
stores them (`UInt16`). Each function is an action; `motor_fire` and `move_leftright_angle` sleep
with a servo away from rest and are two steps, `sleeping` naming the one under way (`MotorWake`
ends it). `MotorNext` is every call any caller can make, in any order: the specification the
other modules may rely on. `MCMotor` adds the history the reversal boost is about:
`HistorySpec` with every speed, for the proof, and `MCSpec` with the speeds TLC tries.
`set_direct_PWM` and the code under `if (0)` are never reached and left out.

### Gui and Launcher (`gui.c`, `main.c`)

`Gui` holds `disabled` and `toggled` and the functions on them. `Launcher` is the thread: `pc` is
where `main`, the running mode or command has got to, `stack` the activations of
`process_user_input` and `photo_callback`, each remembering the button its last poll found or
where the photo continues. A touch is an action for each kind of button and is possible in every
poll, so nested photos and mode changes inside photos arise by themselves; `MaxDepth` bounds the
nesting (in the code the processor's stack does, unchecked). Camera functions succeed or fail
freely; `camera_frozen` and `motion_detect` are the camera's own state. `phone` tells whether the
phone is there: it comes and goes whenever the thread is in the handshake or a session, only a
phone that is there sends commands, and one that goes in the middle of a message leaves the thread
in the read of the body (`CutPcs`) until it returns. `chosen_speed` is a history variable, the
speed chosen last, against which the commands' saving and restoring is checked.
`MCLauncherLive` adds a clock that every step flips: a poll that changes nothing is still a step,
and fairness of the thread does not force the user to let go.

### Control (what `Launcher` promises)

One master moves the launcher at a time: the finger, an autonomous mode, the phone, or nobody
while the phone is waited for. `Control` says which hands control to which, and that it changes
hands only with the pan servo and the trigger at rest; a mode never tilts. In `Launcher` there is
no such variable: `Master` reads it off where the thread is and the flag.

### Graphics and Display (`graphics.c`, the drawing in `gui.c`)

`screen` is a window of real pixels around one button, chosen at the start (the pictures of
different buttons do not overlap). `Graphics` has the shapes - rectangles without their last row,
the triangles' lines as the code draws them, the circle's outline by its midpoint loop - and
`fill`, one step for each turn of its main loop, with `XYStack`, the colours of `graphics.h` and
all coordinates as they are. `Display` is `draw_button` and the four places of `gui.c` that call
it, over `Gui`'s variables. The chip's sloping line (only in the Bluetooth sign) is the nearest
pixel for each step; characters are the boxes they lie in.

### BluetoothLink (`bluetooth.c`, `serial.c`, the session loop of `main.c`)

The phone, the Bluetooth module and the launcher exchange bytes. `rx` is the UART's receive side
(`RxDepth` bytes, the rest is lost), `to_module` the commands on their way, `module` its mode and
what it still has to say. The thread reads `need` bytes into `in_buffer`; `pc` is which read it
is. The phone may leave anywhere, also inside a message, and come back anywhere, also inside the
body it left or between the bytes of a connection check. Assumed of the phone: it begins a
message only while the launcher listens, sends its bytes within the timeout of each other, waits
for replies, and after a return starts afresh; the code has no protection against one that does otherwise (hazard at `bluetooth.c:139`). `Mailbox` is
what remains when bytes, counts and checks are forgotten: a box that holds one whole message.

Two history variables say what a return may do. `torn`: the phone came back onto bytes of its past
that the launcher was still reading, so that its new bytes complete the old message (`bluetooth.c:95-103`
has nothing to tell them apart). From then on nothing can be said of the messages until a read
begins with an empty line; `Mailbox` states this exception (`Return` with `torn'`, `Mend`), and
`sent` and `handled` start again. `was_gone`: the phone was gone at some moment since the check
under way began, which is all that main can know when it gives the session up.

### Camera and PhotoRead (`camera.c`, `photo_callback` and `send_image_capture`)

`Camera` is `run_command`: flush, send, read a fixed number of bytes, compare the first four. The
camera may lose a command, refuse it, carry it out without answering, answer after the reader gave
up, and send a motion report at any time while it watches. Late answers are assumed to be over when the
next flush has waited in vain once more (`STD_WAIT`). `set_motion_detect`'s two commands have each
an effect of its own in the camera (`uart_motion` is the first one's), so that a success after the
first one failed would show.
`PhotoRead` is the loop over chunks with `frame_ptr` (16 bits in the code, `PTR_RANGE` here), the
allocated size and `remaining`, nested photos, dropped requests and chunks that come late. In
automatic mode a motion report may come in front of any answer: the length's, which then counts as
an empty frame, or a chunk's, which is refused and stays on the line, since a chunk's request
flushes nothing (`camera.c:311`). `disturbed` is the history of it. `MCCamera` runs the two halves,
which share nothing, one or the other.

### TouchScreen (`touch_screen.c`, `poll_touch`, `init_gui`)

The controller's five-byte reports against a UART that keeps one byte while the program is busy:
a poll begins anywhere in a report, behind a byte from long ago. `Box` and `Buttons` are the real
layout, `get_raw_coordinates` the real scaling.

### JtagUart (`altera_avalon_jtag_uart_init/read/write.c`)

The fast driver, without an operating system, as the Makefile builds it (`-O0`). The thread's
steps are its accesses to what interrupts also touch, in program order; the interrupt routine is
a sequence of steps during which the thread stands still but the hardware and the host do not;
the timeout alarm counts seconds of silence. Bytes carry the number of their order, so that loss,
repetition and reordering all show. `ByteQueue` is one direction of it without rings, FIFOs or
interrupts: bytes are given and taken in order and no more than `Capacity` are under way. What
`write` has copied but not yet released with `tx_in` is not yet given (`Committed`), what `read`
has copied but not yet released with `rx_out` is taken (`RxTaken`).

### Alarm, FdTable (`alt_tick.c`, `alt_alarm_start.c`; `alt_open.c` and its neighbours)

`Alarm` keeps beside each alarm's `time` and `rollover` the history `left`, the ticks still to
go; the code must be right without it. `FdTable` starts with the redirection of the standard
descriptors that `alt_main` makes and then takes calls in any order; the search of each function
is the code's, the opens' up to the high-water mark and the lock's one short of it. `MCHal` runs
the two, which share nothing, one or the other.

## 4. Runs

| run | question | states |
|---|---|---|
| `motor` | do the servos stay within their limits, and is the boost given to reversals only | 115,000, with the real constants |
| `launcher` | lockout, controls of the autonomous modes, pan servo at rest, truth of the drawn buttons, frames in automatic mode, no photo inside a photo in the modes, the chosen speed kept; the motors used as `Motor` allows, by one master at a time as `Control` says; is the Bluetooth button answered, does the screen come back | 538,000 |
| `link` | does the line carry messages as `Mailbox` does, are the answers those to the commands, is the module out of command mode, can a read block other than on a message cut off; is a session dropped only if the phone was gone, and, by a count that every step lowers, always if it stays gone | 686,000 |
| `camera` | is an acknowledged command done, a motion one of this watch; are all writes inside the buffer, all bytes in place, a photo the whole frame | 1,483,000 |
| `touch` | is a pressed button one that was touched | 101,000 |
| `jtag` | is each direction a `ByteQueue`; is nothing stranded; does every write end, and is it printed by a host that stays | 710,000 |
| `hal` | is each alarm called at its tick; does the high-water mark cover all open descriptors, do locks keep later opens out | 7,500 |
| `display` | is the picture that of the button's state, the camera's grey one excepted; does drawing end | 1,900, of some 5,000 pixels each |

Four runs show a disagreement between the code and what the repository says of it:

* `speed_zero`: `command_set_motor_speed` tests for the wrong value. It refuses every speed in
  range and accepts 0, below `MIN_MOTOR_SPEED`; the launcher then does not move.
* `camera_resolution`: `set_image_resolution` returns success (1) where `camera.h:43-44` promises
  the resolution. Its one caller takes every nonzero result for a failure (`main.c:280`), so that a
  change that succeeded is answered with an error.
* `touch_pen_up`: a pen-down header kept since before the poll is completed by the body of a
  pen-up report, and a press is reported (of a place that was touched, as `touch` shows).
* `fd_lock`: "If there are no other open file descriptors which reference the same device, then
  alt_fd_lock() will grant the lock" (`alt_fd_lock.c:43-44`), but the search stops one descriptor
  early (`i < alt_max_fd`, line 61; `alt_open.c:79` uses `<=`): a device that is open in the
  highest descriptor as well is locked all the same. The firmware locks none.

### Bounds, and why they are enough

* `MCLauncher`: the tilt range is two steps wide, so both limits, and the clamping, are reached
  within a few moves; what the real range does is the business of `motor`, which uses the real
  constants, and of the proofs. Speeds 1 to 3 and the bytes 0, 1, 3, 4, 255 lie below, at both
  ends of, and above the accepted range. All ten buttons. `MaxDepth` 4: CAMERA opens a photo below
  four activations, so that a photo inside a touch inside a photo is reached, with touches of every
  button handled in the innermost one (the stack is then input, photo, input, photo, input); deeper
  nesting repeats the same frames.
* `BluetoothLink`: three messages with bodies of 0, 1 and 2 bytes cover "no body", "one byte", and
  a length whose bytes could be exchanged; three messages allow a handshake, a command, and a
  check between two commands. A receive depth of 1 is the hardware's. On a torn line messages are
  not counted; `MaxTorn` 7 bytes are more than the longest message, so that new bytes can
  complete an old header or body and what is left over begins another header.
* `Camera`: two resolutions, so that a wrong answer can be told from the right one; a motion report
  of five bytes where the code reads four, so that one is left over.
* `PhotoRead`: `CHUNK` 3 and frames of 1, 3, 4, 9 and 14 bytes: below, at and above a chunk, a
  multiple of it, and beyond `PTR_RANGE` 12. Marks and spare bytes are the real 5 and 10; a report
  is as long as the marks, so that the answer behind it is just what the next read takes.
* `TouchScreen`: four positions whose bytes, mixed, would hit other buttons.
* `Display`: real sizes and colours, every button, every order of the four redrawing calls; a
  picture depends on the last ones only, and the state space is closed.
* `JtagUart`: rings of three slots, of which two can be used, so that two writes of two bytes fill
  them, wrap around and are split (`MaxBytes` 4 bytes in each direction); a FIFO of one character is full at once; a timeout of two
  seconds distinguishes "silent" from "gone".
* `Alarm`: a counter of six values rolls over many times within the run. `FdTable`: six
  descriptors, three of them standard, fill up.

### Fairness

* `LockoutEnds`, `BluetoothAnswered`: weak fairness of the thread as a whole (the processor runs),
  and nothing else. None of the user: a finger may stay on the screen for ever. None of the
  phone: `LockoutEnds` is about one that is gone, and excepts that it returns, and that it cut a
  message off, whose body is read without a timeout (`CutPcs`, `CutOff` in `BluetoothLink`).
* `GoneIsNoticed`: weak fairness of the thread and of the serial line; none of phone and user.
  The same two exceptions: the phone returns, or left inside the body of a message (`CutOff`).
* `WriteEnds`: weak fairness of the thread, of interrupts, of the alarm and of a present host's
  reading. It is conditional on the host's settling: one that comes and goes for ever can reset
  the count of seconds for ever.
* `OutputDelivered`: as `WriteEnds`, for a host that stays from some moment on; nothing is assumed
  of the caller, who may never print again.
* `DrawingEnds`: weak fairness of drawing, which is all the thread does until it is done.

`CHECK_DEADLOCK FALSE` stands only in `BluetoothLink.cfg`, where the system really may stop
(`CutOff`); `OnlyCutOffBlocks` says that no other read does.

## 5. Proofs

All proofs are for every value of the constants that satisfies the named assumption of the
module, and for nothing else assumed unless said here. Each theorem combines an inductive
invariant that holds at the start, that every action keeps, and that implies the property.

* **`MotorProofs`** (`MotorAssumption`). Type correctness, `TiltStaysWithinLimits`,
  `PanStaysWithinLimits`, `BoostRemembersTilt`. The assumption states what the code relies on
  silently: the largest step, 5 x speed x 14 x 3 = 210 x `MAX_MOTOR_SPEED`, is not larger than
  the lower tilt limit and leaves room above the upper one. `MotorInv` is the type invariant
  together with both limits: neither half is inductive, since the steps are bounded by the types
  and the subtraction does not wrap because of the limits.
* **`LauncherProofs`** (`LauncherAssumption`: bytes are bytes). `FirmwareUsesMotorsRightly`: every
  step of the thread is for the motors a call that `Motor` allows, or nothing; it needs
  `SavedSpeedOK`, that the speed a command has put aside is one the motors accept. With it the
  limits of `MotorProofs` hold of the firmware (`FirmwareWithinLimits`). Then every invariant of
  `Launcher`, for nesting of every depth:
  - `BluetoothLockout` and `AutonomousModesOwnControls` are inductive together: a touch changes a
    mode or a flag only through a button that is enabled.
  - `SpeedKept` with `SpeedInv`: inside a swapping command the saved speed is the chosen one, and
    the chosen one is 0 or that of `init_motors`, whose fivefold 16 bits hold.
  - `PanOnlyOnDemand` with `PanInv`, the types of the activations: the innermost activation is the
    only one that can hold a turning servo, because the poll that calls a photo holds CAMERA.
  - `ModeButtonTruthful` is inductive.
  - `PressedIsHeld` with `HeldInv`: an activation that is replaced or removed from the stack did
    not hold the button, or the button is released with it.
  - `AutoPhotoOfStoppedFrame` with `OnePhoto`: in automatic mode the camera button is disabled
    (from the lockouts), so a photo there is the outermost activation and the only one.
  - `ModesOpenOnePhoto` with `DepthInv`: in security mode there is no photo on the stack, so that
    nothing polls inside its poll; in automatic mode the mode's own photo is the only one that
    polls, and another would be opened through CAMERA, which both modes have disabled.
  - `ControlIsExclusive` with `ControlInv`: the limits, the pan and the lockouts from above, and
    that the trigger is away from rest only during its sleep (`FireRest`) and nothing turns or
    sleeps while the phone is waited for (`WaitingRest`).
* **`JtagProofs`** (`JtagAssumption`). `TypeInv`; `OutputMoves`, which is inductive on its own;
  `InputHeard`, with `DeafInv`: what the interrupt routine knows at each of its steps of the
  interrupts it has turned off.
  Each direction of the driver implements `ByteQueue`. A ring is a segment of its cells modulo the
  length; lemmas say how segments split, join and survive a write beside them. `OutInv` and `InInv` say what the thread's local copies are worth while the interrupt
  routine moves the other index: the cells `write` fills are free and hold the next bytes, those
  `read` copies are the first ones still there. Each action is then a give, a take or a stutter.
* **`PhotoReadProofs`** (`PhotoAssumption`: the spare bytes cover the marks). `WritesStayInBounds`:
  `RoomLeft` is that `frame_ptr` plus what remains never exceeds the frame; a failed chunk lowers
  the second and leaves the first, wrapping only lowers `frame_ptr`, and the loop asks for at most
  what remains. `BytesStayInPlace` and `PhotosAreFrames` (assuming more than one mark, the last
  of which is not compared, without which a missing answer or a report cannot be told from an
  answer): `FrameInv` says that from a camera in time that reports no motion the line holds exactly
  the chunk asked for, and how far the buffer agrees with the frame. With a report bytes do get out
  of place; that it fails a chunk, or the length, and so is not taken for a whole frame, is
  `Noticed`.
* **`TouchScreenProofs`**. `ButtonsDisjoint`: no point of the screen lies on two buttons, so that
  the order of the search in `poll_touch` does not matter. `PressesWereTouched`, for every set of
  positions, assuming `RxDepth = 1`, which is the UART's: what has been read of a report together
  with what is still to come (`Stream`) is the body of one report, or has a header too early, or
  is too short. With a second byte kept two reports could be mixed.
* **`HalProofs`**. Alarms (a counter of at least four values): each tick calls exactly the alarms
  due. `TimesAhead` says that `time` is the counter plus the distance, modulo `W`, and `rollover`
  whether the sum exceeded `W`. First intervals end at `W - 2`: for the largest one the code sets
  no flag and would call at once.
  Descriptors (more than three, and a registered console): no open descriptor lies above the
  high-water mark, and none is opened for a locked device (that a lock is granted alone is false:
  run `fd_lock`). The invariant adds that the standard
  descriptors are never free, so that the first redirection raises the mark.
* **`CameraProofs`** (`CameraAssumption`: a report has four to six bytes, of which the code reads four).
  `SuccessMeansDone`, `AnswerIsForThisCommand`, `MotionIsOfThisWatch`. What is on its way - in the
  camera, in the UART, in `camera_buffer` - is described by the set its bytes come from
  (`Carries`), which reading, losing and sending keep. `FreshInv`: outside a flush every byte is
  younger than the command or the watch. `AckInv`: while an answer is read, either the camera is
  in the state the command asks for or no byte can be the fourth of an acknowledgement; motion
  reports and refusals are among those others. `DoneInv` carries this to the end of an operation,
  where `LengthInv` says that the four bytes were there.
* **`LinkProofs`** (`LinkAssumption`: sizes fit in the buffer). `AnswersMatchCommands`,
  `ListensInDataMode`, `DropOnlyIfGone`, `OnlyCutOffBlocks`, `GoneCountsDown`, and that the line implements `Mailbox`
  (`LineIsMailbox`, of `Spec`, so of `FairSpec` too). None of them is inductive: they speak of
  bytes already read, and what can still come decides. `LinkInv` says what `in_buffer`, the UART
  and the sender hold together: a message that will be complete (`Whole`) or that the phone left
  inside of (`Cut`), or the answer to the command just given (`Exchange`). Bytes move along without
  changing that sum, so that most actions keep it by associativity alone; the counts 3, 3 + size,
  5, 7 and 5 are exactly the lengths of the sums, so that a full read leaves nothing behind.
  `GoneInv` is why a status read some steps ago may be trusted as far as it goes: the phone may be
  back by now, but a status that says it is not there was made while it was gone, within this
  check, and `was_gone` has kept that.
  A torn line keeps less. `TornInv`: no check begins on it, and nothing is sent or handled that
  counts. `LineInv`: outside a check there are only the phone's bytes on the line, whichever
  messages they belong to, which is what `AnswersMatchCommands` and the rest of the line's hygiene
  need. `Mailbox` is then implemented step by step: a return that tears starts the history again,
  a read that begins with nothing left on the line mends it (`MailReturn`, `MailMend`).
  `OnlyCutOffBlocks` is the same counting read the other way: with nothing on the line the sum is
  what `in_buffer` holds, so a read that still waits is of a message the phone left inside of, or
  of one that a return has torn.
  `GoneCountsDown` is the termination argument of a session whose phone is gone: `Distance` is a
  natural number (`DistanceTypes`) that every step lowers, the stage of the thread weighing more
  than any command, a command more than its answer, a byte in the module more than one in the
  UART. `SessionInv` adds where a session can be; that a phone that is gone sends nothing is
  `GoneInv`'s. `StillLinked` makes the stages well-founded: a check that was begun before the phone
  left may find it connected and go round once more, a later one cannot. On a torn line the stages
  say nothing, but each message made up there uses bytes up that nobody replaces
  (`TornCountsDown`), and all of it weighs more than what comes after. With `OnlyCutOffBlocks` this is `GoneIsNoticed` without its
  fairness; that steps are taken at all is left to TLC.

Only model-checked: the liveness properties (`LockoutEnds`,
`BluetoothAnswered`, `GoneIsNoticed`, `WriteEnds`, `OutputDelivered`, `DrawingEnds`: fairness is
beyond the prover), and `PictureTruthful`, which is about ten pictures of given pixels: it has no
constant to generalise.
Apart from `ButtonsDisjoint`, the type invariants and the auxiliary ones, each property proved is also one of a
run, so that TLC has found it true, and not empty, on an instance, and a mutant of the code
breaks it there.

## 6. Observations

Met while modelling. Where a comment of the repository says otherwise the item quotes it; what the
checks show of a disagreement is in section 4.

* In manual mode a finger held on CAMERA nests photos without bound, each with a 76,800-byte
  local array, and the inner photo resumes the camera before the outer one reads its frame. The
  two modes that disable CAMERA are safe from it (`ModesOpenOnePhoto`).
* An empty frame returns before `resume_picture`: the camera stays stopped until the next photo.
* After a Bluetooth session no mode button is drawn pressed, although a mode is current.
* `read_picture_to_ptr` tests the response of an earlier command (`camera.c:319`): a late chunk
  counts as read. Its bytes stay in bounds, as `camera` shows, but not in place.
* A motion report in front of a chunk's answer, possible in automatic mode (`main.c:160-175`),
  makes `verify_response` refuse the chunk; the answer stays on the line and is read as the next
  chunk's, whose bytes then stand where the refused ones should (`camera.c:311`, no flush).
* A phone that leaves inside a message and returns in the same session completes the old message
  with its new bytes (`bluetooth.c:95-103`); one that leaves inside a body and stays away blocks
  the program with the screen locked.
* A phone that is back between the module's answer and `disable_bluetooth` is dropped nevertheless
  (`bluetooth.c:139-149`, `main.c:421-424`).
* `altera_avalon_jtag_uart_write` gives up whenever `host_inactive` is not 0 after its wait
  (`write.c:187`), also if the wait ended because the interrupt routine made space: one silent
  second is enough, where the comments speak of inserting more then (`write.c:179-181`) and of a
  timeout until the host is assumed inactive (`altera_avalon_jtag_uart.h:96`). The model does what
  the code does (`OutputDelivered` is about accepted bytes); no run is about the comments.
* The grey picture of the camera button, drawn over the coloured one, keeps a coloured ring: its
  fill stops at the grey rectangle of the old picture. The next end of a touch draws it again and
  repairs it. `PictureTruthful` excepts this one picture.
* `left_triangle` and `up_triangle` draw lines to coordinate -1 for the buttons at the edge of the
  screen, which a 16-bit register takes as 65535 (`graphics.c:177,205`).
* `push_pixel` lets `XYStack` grow one entry past its end (`graphics.c:249`); no picture comes near: none leaves
  more than eight points to go on from.
* `photo_callback` decodes into an array of 320 by 240 pixels, also after the phone has changed the
  resolution; after an empty frame the "processing" message stays on the screen.
* `settimeofday` multiplies in 32 bits what `gettimeofday` multiplies in 64 (`alt_settod.c:84`,
  `alt_gettod.c:93`): a time set later than about 71 minutes after reset reads back wrong. The
  firmware does not use either.
* An alarm's callback that stops the next alarm in the list leaves `alt_tick` with a link that
  points to itself. The firmware has one alarm.

## 7. Not modelled

Of `graphics.c`: the palette, the photo's pixels, the reticle and the "processing" message, which
are written and never read back. The Wi-Fi module's one message (`wifi.c`), output too. The JPEG
decoder (`nano_jpeg.h`) is vendored; `fonts.h` (12,697 of the repository's some 32,000 lines),
`system.h` and the register headers of the BSP are data without behaviour: most lines of the
repository stand for nothing here. `debug.c`: nothing calls it.
The rest of the BSP: start-up code, thin system-call wrappers, logging, profiling and register
macros, none of it with state the firmware relies on. Of modelled files: naming the Bluetooth
module and changing the camera's baud rate at power-on (once, before the main loop), the 100-byte limit of the camera's flush,
functions that nothing calls.

Of the phone's commands, their fields byte by byte (`main.c:206-333`), a command shorter than its
fields and replies sent in two parts: `BluetoothLink` carries whole messages and `Launcher` takes
any command with any value the types allow, which includes all that a short one could produce.
The two are checked apart and not composed: the session of `Launcher` waits for a message and
handles it, which is what `Mailbox` promises, and they share no other state.
