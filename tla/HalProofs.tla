------------------------------ MODULE HalProofs -----------------------------
(***************************************************************************)
(* The two services of the HAL.                                            *)
(*                                                                         *)
(* Alarms, for every set of alarms and every width of the counter: each    *)
(* tick calls exactly the alarms that are due.  An alarm's time and flag   *)
(* encode how far ahead it is (TimesAhead); the lemmas say that the code's *)
(* two tests decode "due now", and that the updates keep the encoding.     *)
(*                                                                         *)
(* File descriptors, for every set of devices and size of the table: the   *)
(* high-water mark covers every open descriptor, so that open refuses a    *)
(* locked device.                                                          *)
(***************************************************************************)
EXTENDS Alarm, FdTable, TLAPS

-----------------------------------------------------------------------------
(* Alarms.                                                                 *)

\* The inductive invariant.
AlarmInv == AlarmTypeOK /\ TimesAhead

(***************************************************************************)
(* The sum of two values of the counter is a value of the counter.         *)
(***************************************************************************)
LEMMA PlusInRange ==
  ASSUME NEW a \in 0 .. W - 1, NEW b \in 0 .. W - 1
  PROVE  Plus(a, b) \in 0 .. W - 1
BY AlarmAssumption DEF Plus

(***************************************************************************)
(* The test alt_tick makes holds of a registered alarm exactly when it is  *)
(* due at this tick, rollover or not.                                      *)
(***************************************************************************)
LEMMA CalledIffDue ==
  ASSUME AlarmInv, NEW a \in alt_alarm_list
  PROVE  IsCalled(a, Plus(alt_nticks, 1)) <=> left[a] = 1
<1>1. alt_nticks \in 0 .. W - 1 /\ left[a] \in 1 .. W - 1 /\ a \in Alarms
  BY AlarmAssumption DEF AlarmInv, AlarmTypeOK, TimesAhead
<1>2. time[a] = Plus(alt_nticks, left[a]) /\ (rollover[a] <=> alt_nticks + left[a] >= W)
  BY DEF AlarmInv, TimesAhead
<1> QED
  BY <1>1, <1>2, AlarmAssumption DEF IsCalled, StillRolling, Plus

(***************************************************************************)
(* Starting an alarm encodes its interval.                                 *)
(***************************************************************************)
LEMMA StartKeepsInv ==
  ASSUME AlarmInv, NEW a \in Alarms, NEW n \in Intervals, alt_alarm_start(a, n)
  PROVE  AlarmInv'
<1> DEFINE t == Plus(Plus(n, alt_nticks), 1)
<1>1. alt_nticks \in 0 .. W - 1 /\ n \in 0 .. W - 2 /\ n + 1 \in 1 .. W - 1
  BY AlarmAssumption DEF AlarmInv, AlarmTypeOK, Intervals
<1>2. t = Plus(alt_nticks, n + 1) /\ t \in 0 .. W - 1
      /\ (t < alt_nticks <=> alt_nticks + (n + 1) >= W)
  BY <1>1, AlarmAssumption DEF Plus
<1>3. /\ time' = [time EXCEPT ![a] = t]
      /\ rollover' = [rollover EXCEPT ![a] = t < alt_nticks]
      /\ left' = [left EXCEPT ![a] = n + 1]
      /\ alt_alarm_list' = alt_alarm_list \cup {a}
      /\ alt_nticks' = alt_nticks /\ alt_tick_rate' = alt_tick_rate
  BY DEF alt_alarm_start, SetTime
<1>4. AlarmTypeOK'
  <2>1. (t < alt_nticks) \in BOOLEAN /\ n + 1 \in 0 .. W - 1
    BY <1>1, <1>2
  <2> HIDE DEF t
  <2> QED
    BY <1>2, <1>3, <2>1 DEF AlarmInv, AlarmTypeOK
<1>5. TimesAhead'
  <2> SUFFICES ASSUME NEW b \in alt_alarm_list'
               PROVE  left'[b] > 0 /\ time'[b] = Plus(alt_nticks', left'[b])
                      /\ (rollover'[b] <=> alt_nticks' + left'[b] >= W)
    BY DEF TimesAhead
  <2>1. CASE b = a
    <3>1. left'[b] = n + 1 /\ time'[b] = t /\ (rollover'[b] <=> t < alt_nticks)
      BY <1>3, <2>1 DEF AlarmInv, AlarmTypeOK
    <3>2. t < alt_nticks <=> alt_nticks + (n + 1) >= W
      BY <1>1, <1>2, AlarmAssumption
    <3> HIDE DEF t
    <3> QED
      BY <1>1, <1>2, <1>3, <3>1, <3>2
  <2>2. CASE b # a
    <3>1. b \in alt_alarm_list /\ left'[b] = left[b] /\ time'[b] = time[b] /\ rollover'[b] = rollover[b]
      BY <1>3, <2>2 DEF AlarmInv, AlarmTypeOK
    <3> QED
      BY <1>3, <3>1 DEF AlarmInv, TimesAhead
  <2> QED
    BY <2>1, <2>2
<1> QED
  BY <1>4, <1>5 DEF AlarmInv

(***************************************************************************)
(* A tick moves every alarm one closer, or encodes its next interval, and  *)
(* calls those that were due.                                              *)
(***************************************************************************)
LEMMA TickKeepsInv ==
  ASSUME AlarmInv, NEW period \in [Alarms -> 0 .. W - 1], alt_tick(period)
  PROVE  AlarmInv' /\ CalledWhenDue'
<1> DEFINE now == Plus(alt_nticks, 1)
           C == {a \in alt_alarm_list : IsCalled(a, now)}
           again == [a \in Alarms |-> Plus(time[a], period[a])]
<1>1. /\ alt_tick_rate' = alt_tick_rate /\ alt_nticks' = now
      /\ alt_alarm_list' = {a \in alt_alarm_list : a \in C => period[a] # 0}
      /\ time' = [a \in Alarms |-> IF a \in C THEN again[a] ELSE time[a]]
      /\ rollover' = [a \in Alarms |->
           IF a \notin alt_alarm_list THEN rollover[a]
           ELSE \/ StillRolling(a, now)
                \/ a \in C /\ period[a] # 0 /\ RollsOver(again[a], now)]
      /\ left' = [a \in Alarms |->
           IF a \in C THEN period[a] ELSE IF left[a] > 0 THEN left[a] - 1 ELSE 0]
      /\ called' = C
      /\ expired' = {a \in alt_alarm_list : left[a] = 1}
  BY DEF alt_tick
<1>2. now \in 0 .. W - 1
  BY AlarmAssumption, PlusInRange DEF AlarmInv, AlarmTypeOK
<1>3. \A a \in alt_alarm_list : a \in C <=> left[a] = 1
  BY CalledIffDue
<1>4. alt_alarm_list \subseteq Alarms
  BY DEF AlarmInv, AlarmTypeOK
<1>5. AlarmTypeOK'
  <2>1. time' \in [Alarms -> 0 .. W - 1]
    <3>1. \A a \in Alarms : time[a] \in 0 .. W - 1 /\ again[a] \in 0 .. W - 1
      BY PlusInRange DEF AlarmInv, AlarmTypeOK
    <3> HIDE DEF C, again
    <3> QED
      BY <1>1, <3>1
  <2>2. rollover' \in [Alarms -> BOOLEAN]
    <3>1. \A a \in Alarms : rollover[a] \in BOOLEAN
      BY DEF AlarmInv, AlarmTypeOK
    <3> HIDE DEF C, again, now
    <3>2. \A a \in Alarms : rollover'[a] \in BOOLEAN
      BY <1>1, <3>1, Zenon DEF StillRolling
    <3> QED
      BY <1>1, <3>2, Zenon
  <2>3. left' \in [Alarms -> 0 .. W - 1]
    <3>1. \A a \in Alarms : left[a] \in 0 .. W - 1
      BY DEF AlarmInv, AlarmTypeOK
    <3> HIDE DEF C
    <3> QED
      BY <1>1, <3>1, AlarmAssumption
  <2> QED
    <3> HIDE DEF C, now, again
    <3> QED
      BY <1>1, <1>2, <1>4, <2>1, <2>2, <2>3 DEF AlarmInv, AlarmTypeOK
<1>6. TimesAhead'
  <2> SUFFICES ASSUME NEW a \in alt_alarm_list'
               PROVE  left'[a] > 0 /\ time'[a] = Plus(alt_nticks', left'[a])
                      /\ (rollover'[a] <=> alt_nticks' + left'[a] >= W)
    BY DEF TimesAhead
  <2>1. a \in alt_alarm_list /\ a \in Alarms /\ (a \in C => period[a] # 0)
    BY <1>1, <1>4
  <2>2. /\ alt_nticks \in 0 .. W - 1 /\ left[a] \in 1 .. W - 1 /\ period[a] \in 0 .. W - 1
        /\ time[a] = Plus(alt_nticks, left[a]) /\ (rollover[a] <=> alt_nticks + left[a] >= W)
    BY <2>1, AlarmAssumption DEF AlarmInv, AlarmTypeOK, TimesAhead
  <2>3. rollover'[a] <=> (StillRolling(a, now) \/ (a \in C /\ period[a] # 0 /\ RollsOver(again[a], now)))
    <3> HIDE DEF C, again, now
    <3> QED
      BY <1>1, <2>1, Zenon
  <2>4. CASE a \in C
    <3>1. left[a] = 1 /\ period[a] > 0
      BY <1>3, <2>1, <2>2, <2>4
    <3>2. time[a] = now /\ ~StillRolling(a, now)
      BY <2>2, <3>1, AlarmAssumption DEF Plus, StillRolling
    <3>3. again[a] = Plus(now, period[a])
      BY <2>1, <3>2
    <3>4. RollsOver(again[a], now) <=> now + period[a] >= W
      BY <1>2, <2>2, <3>1, <3>3, AlarmAssumption DEF RollsOver, Plus
    <3>5. left'[a] = period[a] /\ time'[a] = again[a]
      BY <1>1, <2>1, <2>4
    <3> HIDE DEF C, again, now
    <3>6. rollover'[a] <=> RollsOver(again[a], now)
      BY <2>3, <2>4, <2>1, <3>2, Zenon
    <3> QED
      BY <1>1, <3>1, <3>3, <3>4, <3>5, <3>6
  <2>5. CASE a \notin C
    <3>1. left[a] # 1 /\ left'[a] = left[a] - 1 /\ time'[a] = time[a]
      BY <1>1, <1>3, <2>1, <2>2, <2>5
    <3>2. time[a] = Plus(now, left[a] - 1)
      BY <2>2, <3>1, AlarmAssumption DEF Plus
    <3>3. StillRolling(a, now) <=> now + (left[a] - 1) >= W
      BY <2>2, <3>1, AlarmAssumption DEF Plus, StillRolling
    <3> HIDE DEF C, again, now
    <3>4. rollover'[a] <=> StillRolling(a, now)
      BY <2>3, <2>5, Zenon
    <3> QED
      BY <1>1, <2>2, <3>1, <3>2, <3>3, <3>4
  <2> QED
    BY <2>4, <2>5
<1>7. CalledWhenDue'
  BY <1>1, <1>3 DEF CalledWhenDue
<1> QED
  BY <1>5, <1>6, <1>7 DEF AlarmInv

(***************************************************************************)
(* Before any alarm is registered there is nothing to encode.              *)
(***************************************************************************)
LEMMA AlarmBase == AlarmInit => AlarmInv /\ CalledWhenDue
<1> SUFFICES ASSUME AlarmInit PROVE AlarmInv /\ CalledWhenDue
  OBVIOUS
<1>1. 0 \in 0 .. W - 1
  BY AlarmAssumption
<1>2. alt_alarm_list = {} /\ called = expired
  BY DEF AlarmInit
<1>3. AlarmTypeOK
  BY <1>1 DEF AlarmInit, AlarmTypeOK
<1> QED
  BY <1>2, <1>3 DEF AlarmInv, TimesAhead, CalledWhenDue

(***************************************************************************)
(* Every step keeps the invariant, and a tick calls what is due.           *)
(***************************************************************************)
LEMMA AlarmInduction ==
  ASSUME AlarmInv, CalledWhenDue, [AlarmNext]_alarmVars
  PROVE  AlarmInv' /\ CalledWhenDue'
<1>1. CASE alt_sysclk_init
  BY <1>1 DEF alt_sysclk_init, AlarmInv, AlarmTypeOK, TimesAhead, CalledWhenDue
<1>2. ASSUME NEW a \in Alarms, alt_alarm_stop(a)
      PROVE  AlarmInv' /\ CalledWhenDue'
  BY <1>2 DEF alt_alarm_stop, AlarmInv, AlarmTypeOK, TimesAhead, CalledWhenDue
<1>3. ASSUME NEW a \in Alarms, NEW n \in Intervals, alt_alarm_start(a, n)
      PROVE  AlarmInv' /\ CalledWhenDue'
  BY <1>3, StartKeepsInv DEF alt_alarm_start, CalledWhenDue
<1>4. ASSUME NEW period \in [Alarms -> 0 .. W - 1], alt_tick(period)
      PROVE  AlarmInv' /\ CalledWhenDue'
  BY <1>4, TickKeepsInv
<1>5. CASE UNCHANGED alarmVars
  BY <1>5 DEF alarmVars, AlarmInv, AlarmTypeOK, TimesAhead, CalledWhenDue
<1> QED
  BY <1>1, <1>2, <1>3, <1>4, <1>5 DEF AlarmNext

(***************************************************************************)
(* An alarm's time and rollover flag always encode how far ahead it is     *)
(* (alt_alarm_start.c:87-99, alt_tick.c:118-138), for every width.         *)
(***************************************************************************)
THEOREM AlarmsAreAhead == AlarmSpec => [](AlarmTypeOK /\ TimesAhead)
<1>1. AlarmInit => AlarmInv /\ CalledWhenDue
  BY AlarmBase
<1>2. (AlarmInv /\ CalledWhenDue) /\ [AlarmNext]_alarmVars => (AlarmInv /\ CalledWhenDue)'
  BY AlarmInduction
<1> QED
  BY <1>1, <1>2, PTL DEF AlarmSpec, AlarmInv

(***************************************************************************)
(* Each tick calls exactly the alarms due at it (alt_tick.c:106-140), for  *)
(* every set of alarms, width of the counter and choice of intervals.      *)
(***************************************************************************)
THEOREM AlarmsCalledWhenDue == AlarmSpec => []CalledWhenDue
<1>1. AlarmInit => AlarmInv /\ CalledWhenDue
  BY AlarmBase
<1>2. (AlarmInv /\ CalledWhenDue) /\ [AlarmNext]_alarmVars => (AlarmInv /\ CalledWhenDue)'
  BY AlarmInduction
<1> QED
  BY <1>1, <1>2, PTL DEF AlarmSpec

-----------------------------------------------------------------------------
(* File descriptors.                                                       *)

\* The inductive invariant: the standard descriptors are never free, so the
\* first redirection already raises the mark above them.
FdInv ==
  /\ FdTypeOK
  /\ \A fd \in Std : Open(fd)
  /\ \A fd \in Fds \ Std : Open(fd) => fd <= alt_max_fd
  /\ redirect = <<1, 0, 2>> \/ alt_max_fd >= 3

(***************************************************************************)
(* The invariant's last conjuncts are the mark's promise.                  *)
(***************************************************************************)
LEMMA InvGivesMark == FdInv => MarkCoversAll
BY DEF FdInv, FdTypeOK, MarkCoversAll, Fds, Std

(***************************************************************************)
(* The names a descriptor's device can have, and the free descriptor.      *)
(***************************************************************************)
LEMMA Entries ==
  /\ "none" \notin AllDevices
  /\ Free \in [dev : AllDevices \cup {"none"}, excl : BOOLEAN]
  /\ \A dev \in AllDevices : Of(dev) \in [dev : AllDevices \cup {"none"}, excl : BOOLEAN]
  /\ Std \subseteq Fds /\ Console \in AllDevices
BY FdAssumption DEF AllDevices, Free, Of, Std, Fds

(***************************************************************************)
(* alt_get_fd returns a descriptor beyond the standard ones, and the mark  *)
(* then covers it and all that it covered.                                 *)
(***************************************************************************)
LEMMA GetFd ==
  ASSUME FdInv, NEW fd \in Fds, FirstFree(fd), alt_get_fd(fd)
  PROVE  /\ fd \notin Std /\ fd >= 3 /\ fd <= alt_max_fd' /\ alt_max_fd <= alt_max_fd'
         /\ alt_max_fd' \in -1 .. ALT_MAX_FD - 1
<1>1. fd \notin Std /\ fd \in Nat /\ fd <= ALT_MAX_FD - 1
  BY FdAssumption DEF FdInv, FirstFree, Fds
<1>2. alt_max_fd \in -1 .. ALT_MAX_FD - 1
  BY DEF FdInv, FdTypeOK
<1> QED
  BY <1>1, <1>2, FdAssumption DEF alt_get_fd, AtLeast, Std

(***************************************************************************)
(* Opening keeps the invariant, and opens no descriptor for a device that  *)
(* is locked.                                                              *)
(***************************************************************************)
LEMMA OpenKeepsInv ==
  ASSUME FdInv, NEW dev \in AllDevices, alt_open(dev)
  PROVE  /\ FdInv'
         /\ \A fd \in Fds : ~Open(fd) /\ Open(fd)' =>
              ~\E i \in Fds : alt_fd_list[i].excl /\ alt_fd_list[i].dev = alt_fd_list'[fd].dev
<1>1. redirect' = redirect
  BY DEF alt_open
<1>2. CASE UNCHANGED <<alt_fd_list, alt_max_fd>> /\ status' = "EMFILE"
  BY <1>1, <1>2 DEF FdInv, FdTypeOK, Open
<1>3. ASSUME NEW fd \in Fds, FirstFree(fd), alt_get_fd(fd),
             status' = "EACCES", UNCHANGED alt_fd_list
      PROVE  FdInv' /\ \A f \in Fds : Open(f)' => Open(f)
  <2>1. alt_max_fd \in -1 .. ALT_MAX_FD - 1 /\ alt_max_fd' \in -1 .. ALT_MAX_FD - 1
        /\ alt_max_fd <= alt_max_fd'
    BY <1>3, GetFd DEF FdInv, FdTypeOK
  <2>2. \A f \in Fds \ Std : Open(f) => f <= alt_max_fd'
    BY <2>1 DEF FdInv, Fds
  <2> QED
    BY <1>1, <1>3, <2>1, <2>2 DEF FdInv, FdTypeOK, Open
<1>4. ASSUME NEW fd \in Fds, FirstFree(fd), alt_get_fd(fd),
             ~alt_file_locked(dev, fd, alt_max_fd'),
             status' = "ok", alt_fd_list' = [alt_fd_list EXCEPT ![fd] = Of(dev)]
      PROVE  /\ FdInv'
             /\ \A f \in Fds : ~Open(f) /\ Open(f)' =>
                  ~\E i \in Fds : alt_fd_list[i].excl /\ alt_fd_list[i].dev = alt_fd_list'[f].dev
  <2>1. /\ fd \notin Std /\ fd >= 3 /\ fd <= alt_max_fd' /\ alt_max_fd <= alt_max_fd'
        /\ alt_max_fd' \in -1 .. ALT_MAX_FD - 1 /\ alt_max_fd \in -1 .. ALT_MAX_FD - 1
    BY <1>4, GetFd DEF FdInv, FdTypeOK
  <2>2. /\ alt_fd_list'[fd] = Of(dev) /\ Of(dev).dev = dev /\ dev # "none"
        /\ \A f \in Fds : f # fd => alt_fd_list'[f] = alt_fd_list[f]
    BY <1>4, Entries DEF FdInv, FdTypeOK, Of
  <2>3. FdTypeOK'
    BY <1>1, <1>4, <2>1, <2>2, Entries DEF FdInv, FdTypeOK, Open
  <2>4. \A f \in Fds \ Std : Open(f)' => f <= alt_max_fd'
    BY <2>1, <2>2 DEF FdInv, Open, Fds
  <2>5. FdInv'
    BY <1>1, <2>1, <2>2, <2>3, <2>4, Entries DEF FdInv, Open
  <2>6. \A i \in Fds : alt_fd_list[i].excl => Open(i)
    BY <1>4 DEF FdInv, FdTypeOK, Free
  <2>7. \A i \in Fds : Open(i) => i <= alt_max_fd'
    BY <2>1, FdAssumption DEF FdInv, Fds, Std
  <2>8. ASSUME NEW f \in Fds, ~Open(f), Open(f)',
               NEW i \in Fds, alt_fd_list[i].excl, alt_fd_list[i].dev = alt_fd_list'[f].dev
        PROVE  FALSE
    <3>1. f = fd
      BY <2>2, <2>8 DEF Open
    <3>2. i # fd /\ i <= alt_max_fd' /\ alt_fd_list[i].dev = dev
      BY <1>4, <2>2, <2>6, <2>7, <2>8, <3>1 DEF FirstFree
    <3> QED
      BY <1>4, <2>8, <3>2 DEF alt_file_locked
  <2> QED
    BY <2>5, <2>8
<1> QED
  BY <1>2, <1>3, <1>4 DEF alt_open, Open

(***************************************************************************)
(* A redirection replaces a standard descriptor and raises the mark.       *)
(***************************************************************************)
LEMMA RedirectKeepsInv ==
  ASSUME FdInv, alt_io_redirect
  PROVE  FdInv' /\ \A fd \in Fds : Open(fd)' => Open(fd)
<1>1. PICK fd \in Fds : FirstFree(fd) /\ alt_get_fd(fd)
  BY DEF alt_io_redirect
<1>2. /\ fd \notin Std /\ fd >= 3 /\ fd <= alt_max_fd' /\ alt_max_fd <= alt_max_fd'
      /\ alt_max_fd' \in -1 .. ALT_MAX_FD - 1 /\ alt_max_fd \in -1 .. ALT_MAX_FD - 1
  BY <1>1, GetFd DEF FdInv, FdTypeOK
<1>3. Head(redirect) \in Std /\ redirect' \in {<<0, 2>>, <<2>>, <<>>}
  <2>1. redirect \in {<<1, 0, 2>>, <<0, 2>>, <<2>>} /\ redirect' = Tail(redirect)
    BY DEF alt_io_redirect, FdInv, FdTypeOK
  <2>2. CASE redirect = <<1, 0, 2>>
    BY <2>1, <2>2 DEF Std
  <2>3. CASE redirect = <<0, 2>>
    BY <2>1, <2>3 DEF Std
  <2>4. CASE redirect = <<2>>
    BY <2>1, <2>4 DEF Std
  <2> QED
    BY <2>1, <2>2, <2>3, <2>4
<1>4. PICK s \in Std : alt_fd_list' = [alt_fd_list EXCEPT ![s] = Of(Console)]
  BY <1>3 DEF alt_io_redirect
<1>5. /\ alt_fd_list'[s] = Of(Console) /\ Of(Console).dev # "none"
      /\ \A f \in Fds : f # s => alt_fd_list'[f] = alt_fd_list[f]
  BY <1>4, Entries DEF FdInv, FdTypeOK, Of
<1>6. FdTypeOK'
  <2>1. status' = status
    BY DEF alt_io_redirect
  <2> QED
    BY <1>2, <1>3, <1>4, <1>5, <2>1, Entries DEF FdInv, FdTypeOK, Open
<1>7. \A f \in Fds \ Std : Open(f)' => f <= alt_max_fd'
  BY <1>2, <1>5 DEF FdInv, Open, Fds
<1>8. alt_max_fd' >= 3
  BY <1>2 DEF Fds
<1> QED
  BY <1>5, <1>6, <1>7, <1>8, Entries DEF FdInv, Open

(***************************************************************************)
(* Closing, locking and unlocking a descriptor keep the invariant.         *)
(***************************************************************************)
LEMMA OthersKeepInv ==
  ASSUME FdInv, NEW fd \in Fds, alt_close(fd) \/ alt_fd_lock(fd) \/ alt_fd_unlock(fd)
  PROVE  FdInv' /\ \A f \in Fds : Open(f)' => Open(f)
<1>1. Open(fd) /\ alt_max_fd' = alt_max_fd /\ redirect' = redirect
  BY DEF alt_close, alt_fd_lock, alt_fd_unlock
<1>2. status' \in {"ok", "EMFILE", "EACCES", "EWOULDBLOCK"}
  BY DEF alt_close, alt_fd_lock, alt_fd_unlock
<1>3. PICK e \in [dev : AllDevices \cup {"none"}, excl : BOOLEAN] :
        /\ alt_fd_list' = [alt_fd_list EXCEPT ![fd] = e]
        /\ e.dev = alt_fd_list[fd].dev \/ (fd \notin Std /\ e = Free)
  <2>1. alt_fd_list \in [Fds -> [dev : AllDevices \cup {"none"}, excl : BOOLEAN]]
    BY DEF FdInv, FdTypeOK
  <2>2. CASE alt_close(fd)
    BY <2>1, <2>2, Entries DEF alt_close, alt_release_fd
  <2>3. CASE alt_fd_lock(fd)
    <3>1. CASE UNCHANGED alt_fd_list
      BY <2>1, <3>1
    <3>2. CASE alt_fd_list' = [alt_fd_list EXCEPT ![fd].excl = TRUE]
      <4> DEFINE e == [alt_fd_list[fd] EXCEPT !.excl = TRUE]
      <4>1. e \in [dev : AllDevices \cup {"none"}, excl : BOOLEAN] /\ e.dev = alt_fd_list[fd].dev
        BY <2>1
      <4>2. alt_fd_list' = [alt_fd_list EXCEPT ![fd] = e]
        BY <2>1, <3>2
      <4> HIDE DEF e
      <4> QED
        BY <4>1, <4>2
    <3> QED
      BY <2>3, <3>1, <3>2 DEF alt_fd_lock
  <2>4. CASE alt_fd_unlock(fd)
    <3> DEFINE e == [alt_fd_list[fd] EXCEPT !.excl = FALSE]
    <3>1. e \in [dev : AllDevices \cup {"none"}, excl : BOOLEAN] /\ e.dev = alt_fd_list[fd].dev
      BY <2>1
    <3>2. alt_fd_list' = [alt_fd_list EXCEPT ![fd] = e]
      BY <2>1, <2>4 DEF alt_fd_unlock
    <3> HIDE DEF e
    <3> QED
      BY <3>1, <3>2
  <2> QED
    BY <2>2, <2>3, <2>4
<1>4. alt_fd_list'[fd] = e /\ \A f \in Fds : f # fd => alt_fd_list'[f] = alt_fd_list[f]
  BY <1>3 DEF FdInv, FdTypeOK
<1>5. FdTypeOK'
  BY <1>1, <1>2, <1>3, <1>4 DEF FdInv, FdTypeOK, Open, Free
<1> QED
  BY <1>1, <1>3, <1>4, <1>5, Entries DEF FdInv, Open, Free

(***************************************************************************)
(* Every step keeps the invariant and respects the locks.                  *)
(***************************************************************************)
LEMMA FdInduction ==
  ASSUME FdInv, [FdNext]_fdVars
  PROVE  /\ FdInv'
         /\ \A fd \in Fds : ~Open(fd) /\ Open(fd)' =>
              ~\E i \in Fds : alt_fd_list[i].excl /\ alt_fd_list[i].dev = alt_fd_list'[fd].dev
<1>1. CASE alt_io_redirect
  BY <1>1, RedirectKeepsInv
<1>2. ASSUME NEW dev \in AllDevices, alt_open(dev)
      PROVE  /\ FdInv'
             /\ \A fd \in Fds : ~Open(fd) /\ Open(fd)' =>
                  ~\E i \in Fds : alt_fd_list[i].excl /\ alt_fd_list[i].dev = alt_fd_list'[fd].dev
  BY <1>2, OpenKeepsInv
<1>3. ASSUME NEW fd \in Fds, alt_close(fd) \/ alt_fd_lock(fd) \/ alt_fd_unlock(fd)
      PROVE  FdInv' /\ \A f \in Fds : Open(f)' => Open(f)
  BY <1>3, OthersKeepInv
<1>4. CASE UNCHANGED fdVars
  BY <1>4 DEF fdVars, FdInv, FdTypeOK, Open
<1> QED
  BY <1>1, <1>2, <1>3, <1>4 DEF FdNext

(***************************************************************************)
(* At start-up the standard descriptors refer to /dev/null.                *)
(***************************************************************************)
LEMMA FdBase == FdInit => FdInv
<1> SUFFICES ASSUME FdInit PROVE FdInv
  OBVIOUS
<1>1. /\ alt_fd_list = [fd \in Fds |-> IF fd \in Std THEN Of("/dev/null") ELSE Free]
      /\ alt_max_fd = -1 /\ redirect = <<1, 0, 2>> /\ status = "ok"
  BY DEF FdInit
<1>2. "/dev/null" \in AllDevices /\ Of("/dev/null").dev = "/dev/null" /\ Free.dev = "none"
  BY DEF AllDevices, Of, Free
<1>3. FdTypeOK
  BY <1>1, <1>2, Entries, FdAssumption DEF FdTypeOK, Open
<1> QED
  BY <1>1, <1>2, <1>3, Entries DEF FdInv, Open

(***************************************************************************)
(* Searches that stop at the high-water mark miss no open descriptor       *)
(* (alt_get_fd.c:66-75), for every table and set of devices.               *)
(***************************************************************************)
THEOREM MarkIsEnough == FdSpec => []MarkCoversAll
<1>1. FdInv /\ [FdNext]_fdVars => FdInv'
  BY FdInduction
<1> QED
  BY <1>1, FdBase, InvGivesMark, PTL DEF FdSpec

(***************************************************************************)
(* No descriptor is ever opened for a locked device (alt_open.c:64-92),    *)
(* for every table and set of devices.                                     *)
(***************************************************************************)
THEOREM LocksHold == FdSpec => LockKeepsOthersOut
<1>1. FdInv /\ [FdNext]_fdVars => FdInv'
  BY FdInduction
<1>2. FdInv /\ [FdNext]_fdVars =>
        [\A fd \in Fds : ~Open(fd) /\ Open(fd)' =>
           ~\E i \in Fds : alt_fd_list[i].excl /\ alt_fd_list[i].dev = alt_fd_list'[fd].dev]_fdVars
  BY FdInduction
<1> QED
  BY <1>1, <1>2, FdBase, PTL DEF FdSpec, LockKeepsOthersOut
=============================================================================
