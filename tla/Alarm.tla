-------------------------------- MODULE Alarm --------------------------------
(***************************************************************************)
(* The HAL's alarms (alt_alarm_start.c, alt_tick.c): callbacks that the    *)
(* system clock's interrupt makes after a number of ticks, on a tick       *)
(* counter that rolls over.  The console driver's host timeout is one.     *)
(* Starting and stopping disable interrupts, so a tick is one step.        *)
(***************************************************************************)
EXTENDS Integers

CONSTANTS
  Alarms,   \* the alarm structures
  W         \* values of an alt_u32: 2^32

ASSUME AlarmAssumption == W \in Nat /\ W > 3

VARIABLES
  alt_tick_rate,   \* whether the system clock has been set up
  alt_nticks,      \* ticks since reset, modulo W
  alt_alarm_list,   \* the registered alarms
  time,             \* for each alarm the counter's value at its callback,
  rollover,         \* and whether the counter rolls over before it
  left,             \* history: ticks until each registered alarm is due
  called,           \* history: the alarms the last tick called,
  expired           \* and those that were due at it

alarmVars == <<alt_tick_rate, alt_nticks, alt_alarm_list, time, rollover, left, called, expired>>

\* First intervals.  The largest alt_u32 would be taken for the next tick: the
\* code cannot tell it, and no caller asks for it.
Intervals == 0 .. W - 2

\* Unsigned addition of two values below W.
Plus(a, b) == IF a + b >= W THEN a + b - W ELSE a + b

AlarmInit ==
  /\ alt_tick_rate = FALSE /\ alt_nticks = 0
  /\ alt_alarm_list = {}
  /\ time = [a \in Alarms |-> 0]
  /\ rollover = [a \in Alarms |-> FALSE]
  /\ left = [a \in Alarms |-> 0]
  /\ called = {} /\ expired = {}

alt_sysclk_init ==
  /\ ~alt_tick_rate
  /\ alt_tick_rate' = TRUE
  /\ UNCHANGED <<alt_nticks, alt_alarm_list, time, rollover, left, called, expired>>

\* The first callback's time, and whether the counter rolls over before it.
SetTime(a, t, now) ==
  /\ time' = [time EXCEPT ![a] = t]
  /\ rollover' = [rollover EXCEPT ![a] = t < now]

\* Without a clock alt_alarm_start fails and registers nothing.
alt_alarm_start(a, nticks) ==
  /\ alt_tick_rate /\ a \notin alt_alarm_list
  /\ SetTime(a, Plus(Plus(nticks, alt_nticks), 1), alt_nticks)
  /\ alt_alarm_list' = alt_alarm_list \cup {a}
  /\ left' = [left EXCEPT ![a] = nticks + 1]
  /\ UNCHANGED <<alt_tick_rate, alt_nticks, called, expired>>

alt_alarm_stop(a) ==
  /\ alt_alarm_list' = alt_alarm_list \ {a}
  /\ UNCHANGED <<alt_tick_rate, alt_nticks, time, rollover, left, called, expired>>

\* The flag of a registered alarm is cleared when the counter is 0.
StillRolling(a, now) == rollover[a] /\ now # 0

IsCalled(a, now) == time[a] <= now /\ ~StillRolling(a, now)

\* Mutant: the flag is not set for the next interval.
MutRollsOver(t, now) == FALSE

RollsOver(t, now) == t < now

\* One interrupt of the system clock; period is what each callback returns,
\* 0 to be removed.
alt_tick(period) ==
  LET now  == Plus(alt_nticks, 1)
      C    == {a \in alt_alarm_list : IsCalled(a, now)}
      again == [a \in Alarms |-> Plus(time[a], period[a])]
  IN
  /\ alt_tick_rate
  /\ alt_nticks' = now
  /\ alt_alarm_list' = {a \in alt_alarm_list : a \in C => period[a] # 0}
  /\ time' = [a \in Alarms |-> IF a \in C THEN again[a] ELSE time[a]]
  /\ rollover' = [a \in Alarms |->
       IF a \notin alt_alarm_list THEN rollover[a]
       ELSE \/ StillRolling(a, now)
            \/ a \in C /\ period[a] # 0 /\ RollsOver(again[a], now)]
  /\ left' = [a \in Alarms |->
       IF a \in C THEN period[a] ELSE IF left[a] > 0 THEN left[a] - 1 ELSE 0]
  /\ called' = C
  /\ expired' = {a \in alt_alarm_list : left[a] = 1}
  /\ UNCHANGED alt_tick_rate

AlarmNext ==
  \/ alt_sysclk_init
  \/ \E a \in Alarms : alt_alarm_stop(a) \/ \E n \in Intervals : alt_alarm_start(a, n)
  \/ \E period \in [Alarms -> 0 .. W - 1] : alt_tick(period)

AlarmSpec == AlarmInit /\ [][AlarmNext]_alarmVars

-----------------------------------------------------------------------------
AlarmTypeOK ==
  /\ alt_tick_rate \in BOOLEAN
  /\ alt_nticks \in 0 .. W - 1
  /\ alt_alarm_list \subseteq Alarms
  /\ time \in [Alarms -> 0 .. W - 1]
  /\ rollover \in [Alarms -> BOOLEAN]
  /\ left \in [Alarms -> 0 .. W - 1]

(***************************************************************************)
(* Each tick calls exactly the alarms that are due at it: none early, none *)
(* late, none missed, whatever intervals callbacks return and however the  *)
(* counter has rolled over meanwhile (alt_tick.c:106-140,                  *)
(* alt_alarm_start.c:85-99).                                               *)
(***************************************************************************)
CalledWhenDue == called = expired

(***************************************************************************)
(* What makes it so: an alarm's time is its distance ahead of the counter, *)
(* and its flag tells whether the counter rolls over in between            *)
(* (alt_alarm_start.c:87-99, alt_tick.c:118-138).                          *)
(***************************************************************************)
TimesAhead ==
  \A a \in alt_alarm_list :
    /\ left[a] > 0
    /\ time[a] = Plus(alt_nticks, left[a])
    /\ (rollover[a] <=> alt_nticks + left[a] >= W)
=============================================================================
