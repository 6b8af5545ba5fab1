------------------------------- MODULE Alarms -------------------------------
(***************************************************************************)
(* The HAL's alarms: a list of callbacks that the system clock's interrupt *)
(* walks at every tick, with a tick counter that wraps round               *)
(* (alt_tick.c, alt_alarm_start.c, alt_llist.h, altera_avalon_timer_sc.c). *)
(*                                                                         *)
(* A critical section is one step, and so is each turn of alt_tick's loop: *)
(* the program is stopped while it runs.                                   *)
(***************************************************************************)
EXTENDS Integers, FiniteSets

CONSTANTS
  AlarmSet,        \* the alarm structures
  Wrap,            \* 2^32
  Delays,          \* the delays the program asks for
  Intervals        \* what a callback returns

\* alt_alarm_start with a delay of 2^32 - 1 goes off at the next tick: nobody
\* asks for that.
ASSUME AlarmAssumption ==
  /\ Wrap \in Nat \ {0} /\ Delays \subseteq 0 .. Wrap - 2 /\ Intervals \subseteq 0 .. Wrap - 1
  /\ AlarmSet \cap {"alt_alarm_list", "null"} = {}

\* alt_alarm_list, and an uninitialised pointer.
ListHead == "alt_alarm_list"
Null == "null"
Entries == AlarmSet \cup {ListHead}

VARIABLES
  _alt_nticks,
  next, previous,  \* the linked list
  time, rollover,
  visiting,        \* the alarm alt_tick's loop has come to, or Null outside it
  due,             \* history: the ticks until each alarm should go off
  wrongly          \* history: an alarm went off early, or did not when due
alarmVars == <<_alt_nticks, next, previous, time, rollover, visiting, due, wrongly>>

AlarmsInit ==
  /\ _alt_nticks = 0
  /\ next = [e \in Entries |-> IF e = ListHead THEN ListHead ELSE Null] /\ previous = next
  /\ time = [a \in AlarmSet |-> 0] /\ rollover = [a \in AlarmSet |-> FALSE]
  /\ visiting = Null
  /\ due = [a \in AlarmSet |-> -1] /\ wrongly = FALSE

\* The list the program means: the alarms started and not stopped.
Listed == {a \in AlarmSet : due[a] >= 0}

\* alt_llist_insert.
Insert(a) ==
  LET first == next[ListHead]
  IN /\ next' = [next EXCEPT ![a] = first, ![ListHead] = a]
     /\ previous' = [previous EXCEPT ![a] = ListHead, ![first] = a]

\* alt_llist_remove.  The entry points to itself: removing it again is harmless.
Unlink(a) ==
  /\ next' = [next EXCEPT ![previous[a]] = next[a], ![a] = a]
  /\ previous' = [previous EXCEPT ![next[a]] = previous[a], ![a] = a]

\* Seeded bug: nothing is remembered of the wrap.
RollsOverNever(t, now) == FALSE

RollsOver(t, now) == t < now

---------------------------------------------------------------------------

\* alt_alarm_start, of an alarm that is not started.
Start(a, nticks) ==
  /\ visiting = Null /\ a \notin Listed
  /\ time' = [time EXCEPT ![a] = (nticks + _alt_nticks + 1) % Wrap]
  /\ rollover' = [rollover EXCEPT ![a] = RollsOver(time'[a], _alt_nticks)]
  /\ Insert(a)
  /\ due' = [due EXCEPT ![a] = nticks + 1]
  /\ UNCHANGED <<_alt_nticks, visiting, wrongly>>

\* alt_alarm_stop, of an alarm that was started once.
Stop(a) ==
  /\ visiting = Null /\ next[a] # Null
  /\ Unlink(a)
  /\ due' = [due EXCEPT ![a] = -1]
  /\ UNCHANGED <<_alt_nticks, time, rollover, visiting, wrongly>>

\* alt_avalon_timer_sc_irq calls alt_tick.
Tick ==
  /\ visiting = Null
  /\ _alt_nticks' = (_alt_nticks + 1) % Wrap
  /\ visiting' = IF next[ListHead] = ListHead THEN Null ELSE next[ListHead]
  /\ due' = [a \in AlarmSet |-> IF a \in Listed THEN due[a] - 1 ELSE -1]
  /\ UNCHANGED <<next, previous, time, rollover, wrongly>>

\* The loop goes on to the entry it has saved.
GoOn == visiting' = IF next[visiting] = ListHead THEN Null ELSE next[visiting]

Wraps(a) == rollover[a] /\ _alt_nticks # 0

NotYet ==
  /\ visiting # Null /\ (time[visiting] > _alt_nticks \/ Wraps(visiting))
  /\ rollover' = [rollover EXCEPT ![visiting] = Wraps(visiting)]
  /\ wrongly' = (wrongly \/ due[visiting] <= 0)
  /\ GoOn /\ UNCHANGED <<_alt_nticks, next, previous, time, due>>

\* The callback returns an interval, or 0 to be removed.
GoOff(interval) ==
  /\ visiting # Null /\ time[visiting] <= _alt_nticks /\ ~Wraps(visiting)
  /\ IF interval = 0
     THEN Unlink(visiting) /\ UNCHANGED time /\ rollover' = [rollover EXCEPT ![visiting] = FALSE]
     ELSE /\ time' = [time EXCEPT ![visiting] = (@ + interval) % Wrap]
          /\ rollover' = [rollover EXCEPT ![visiting] = RollsOver(time'[visiting], _alt_nticks)]
          /\ UNCHANGED <<next, previous>>
  /\ wrongly' = (wrongly \/ due[visiting] # 0)
  /\ due' = [due EXCEPT ![visiting] = IF interval = 0 THEN -1 ELSE interval]
  /\ GoOn /\ UNCHANGED _alt_nticks

AlarmsNext ==
  \/ \E a \in AlarmSet : Stop(a) \/ \E d \in Delays : Start(a, d)
  \/ Tick \/ NotYet \/ \E i \in Intervals : GoOff(i)

---------------------------------------------------------------------------
(* Properties *)

\* Every alarm goes off at the very tick it was asked for, and at the ticks its
\* callback asks for, also when the counter wraps before (alt_tick.c:101-140).
OnTime == ~wrongly

\* The list is a ring through exactly the alarms started and not stopped, in
\* both directions; an alarm taken out is linked to itself or was never in
\* (alt_llist.h:92-118).
ListWhole ==
  /\ \A e \in Listed \cup {ListHead} :
       /\ next[e] \in Listed \cup {ListHead} /\ previous[next[e]] = e /\ next[previous[e]] = e
       /\ next[e] = e => e = ListHead /\ Listed = {}
  /\ \A a \in AlarmSet \ Listed : next[a] = previous[a] /\ next[a] \in {a, Null}

---------------------------------------------------------------------------
(* settimeofday and gettimeofday over the system clock's tick counter        *)
(* (alt_settod.c, alt_gettod.c), with both counters and products that wrap   *)
(* scaled down.                                                              *)

CONSTANTS
  Us,              \* ALT_US, microseconds in a second
  TickRate,        \* ticks in a second
  Word,            \* 2^32
  Times            \* the times set: [sec, usec]

ASSUME TimeAssumption ==
  /\ TickRate \in Nat \ {0} /\ Us \in Nat \ {0} /\ Us % TickRate = 0 /\ Word \in Nat /\ Word > Us
  /\ \A t \in Times : t.sec \in Nat /\ t.usec \in 0 .. Us - 1

VARIABLES
  clockTicks,      \* _alt_nticks
  alt_resettime,   \* seconds and microseconds, signed
  setTo,           \* history: the time last set
  since,           \* history: the ticks since then
  ticksSet         \* history: the ticks when it was set
todVars == <<clockTicks, alt_resettime, setTo, since, ticksSet>>

TodInit ==
  /\ clockTicks = 0 /\ alt_resettime = [sec |-> 0, usec |-> 0]
  /\ setTo = [sec |-> 0, usec |-> 0] /\ since = 0 /\ ticksSet = 0

\* The counter may run until it wraps.
TimePasses ==
  /\ clockTicks + 1 < Word
  /\ clockTicks' = clockTicks + 1 /\ since' = since + 1
  /\ UNCHANGED <<alt_resettime, setTo, ticksSet>>

\* The microseconds of a number of ticks: settimeofday multiplies in 32 bits,
\* gettimeofday in 64.
Fraction(ticks) == (ticks * (Us \div TickRate)) % Us
Fraction32(ticks) == ((ticks * (Us \div TickRate)) % Word) % Us

ResetTime(t, ticks) == [sec |-> t.sec - (ticks \div TickRate), usec |-> t.usec - Fraction32(ticks)]

SetTimeOfDay(t) ==
  /\ alt_resettime' = ResetTime(t, clockTicks)
  /\ setTo' = t /\ since' = 0 /\ ticksSet' = clockTicks
  /\ UNCHANGED clockTicks

TodNext == TimePasses \/ \E t \in Times : SetTimeOfDay(t)

\* Seconds and microseconds carried into each other; a time before 0 is 0.
Carried(sec, usec) ==
  IF usec < 0 THEN IF sec <= 0 THEN [sec |-> 0, usec |-> 0] ELSE [sec |-> sec - 1, usec |-> usec + Us]
  ELSE [sec |-> sec + (usec \div Us), usec |-> usec % Us]

GetTimeOfDay ==
  Carried(alt_resettime.sec + (clockTicks \div TickRate), alt_resettime.usec + Fraction(clockTicks))

---------------------------------------------------------------------------

\* gettimeofday gives the time set and the time gone by since, whatever the
\* tick at which it was set - provided that then the microseconds since reset
\* still fitted 32 bits, 71 minutes (alt_settod.c:52-54, alt_settod.c:77-78).
TimeKept ==
  ticksSet * (Us \div TickRate) < Word =>
    GetTimeOfDay = Carried(setTo.sec + (since \div TickRate), setTo.usec + Fraction(since))

---------------------------------------------------------------------------
(* Waiting and measuring: alt_busy_sleep, which usleep is, and the         *)
(* timestamp of a timer of its own, alt_timestamp_start and alt_timestamp  *)
(* (alt_busy_sleep.c, altera_avalon_timer_ts.c).  The timer counts down    *)
(* while the program reads it, half a count at a time.                     *)

CONSTANTS
  IntMax,          \* INT_MAX
  Rate,            \* passes of the loop in a microsecond, 16 on this board
  Waits,           \* microseconds usleep is called with
  Half             \* counts in a half of the timer's counter, 2^16

ASSUME DelayAssumption ==
  /\ IntMax \in Nat \ {0} /\ Rate \in Nat \ {0} /\ Rate <= IntMax /\ Waits \subseteq Nat
  /\ Half \in Nat \ {0}

Full == Half * Half - 1

VARIABLES
  us, passes,      \* a wait, and the passes of the loop it took
  counter, running,            \* the timestamp timer
  snap,            \* its snapshot
  ts_freq,         \* altera_avalon_timer_ts_freq is not 0
  pc, lower,       \* alt_timestamp
  stamp,           \* what it has returned last
  ran              \* history: the timer has run to its end since the start
delayVars == <<us, passes, counter, running, snap, ts_freq, pc, lower, stamp, ran>>

DelayInit ==
  /\ us = 0 /\ passes = 0
  /\ counter = Full /\ running = FALSE /\ snap = 0 /\ ts_freq = FALSE
  /\ pc = "out" /\ lower = 0 /\ stamp = 0 /\ ran = FALSE

---------------------------------------------------------------------------
(* alt_busy_sleep *)

\* The longest wait of one loop.
Chunk == IntMax \div Rate
BigLoops(t) == t \div Chunk

\* The passes of the last loop.
Rest(t) == (t - BigLoops(t) * Chunk) * Rate

\* addi and bgt run once at least; addi and bne, from 0, through all words.
Sleep(t) ==
  /\ us' = t
  /\ passes' = IF BigLoops(t) = 0 THEN IF Rest(t) = 0 THEN 1 ELSE Rest(t)
               ELSE BigLoops(t) * IntMax + (IF Rest(t) = 0 THEN 2 * (IntMax + 1) ELSE Rest(t))
  /\ UNCHANGED <<counter, running, snap, ts_freq, pc, lower, stamp, ran>>

---------------------------------------------------------------------------
(* The timestamp *)

\* ALTERA_AVALON_TIMER_INIT, of the timer chosen for the timestamp.
TimerChosen ==
  /\ ts_freq' = TRUE
  /\ UNCHANGED <<us, passes, counter, running, snap, pc, lower, stamp, ran>>

\* Without the control bit for it the timer stops when it has run down, and
\* shows its period again.
CountsDown ==
  /\ running
  /\ IF counter = 0 THEN counter' = Full /\ running' = FALSE /\ ran' = TRUE
     ELSE counter' = counter - 1 /\ UNCHANGED <<running, ran>>
  /\ UNCHANGED <<us, passes, snap, ts_freq, pc, lower, stamp>>

\* A write of the period stops the timer and loads it.
TimestampStart ==
  /\ pc = "out" /\ ts_freq
  /\ counter' = Full /\ running' = TRUE /\ ran' = FALSE /\ stamp' = 0
  /\ UNCHANGED <<us, passes, snap, ts_freq, pc, lower>>

Timestamp ==
  /\ pc = "out" /\ ts_freq
  /\ snap' = counter /\ pc' = "lower"
  /\ UNCHANGED <<us, passes, counter, running, ts_freq, lower, stamp, ran>>

CountRead == snap

ReadLower ==
  /\ pc = "lower" /\ pc' = "upper" /\ lower' = CountRead % Half
  /\ UNCHANGED <<us, passes, counter, running, snap, ts_freq, stamp, ran>>
ReadUpper ==
  /\ pc = "upper" /\ pc' = "out"
  /\ stamp' = Full - ((CountRead \div Half) * Half + lower)
  /\ UNCHANGED <<us, passes, counter, running, snap, ts_freq, lower, ran>>

DelayNext ==
  \/ \E t \in Waits : Sleep(t)
  \/ TimerChosen \/ CountsDown \/ TimestampStart \/ Timestamp \/ ReadLower \/ ReadUpper

---------------------------------------------------------------------------
(* Properties *)

\* A wait is as many passes as were asked for, and one microsecond's more for
\* each big loop at most; a wait that the big loops fill exactly ends with a
\* loop through all words and is left out (alt_busy_sleep.c:72-118).
SleepsAsAsked ==
  passes > 0 /\ (BigLoops(us) > 0 => us % Chunk # 0) =>
    /\ us * Rate <= passes
    /\ passes <= us * Rate + BigLoops(us) * Rate + 1

\* Until the timer has run to its end, time does not go back from one call of
\* alt_timestamp to the next, although the halves are read apart
\* (altera_avalon_timer_ts.c:124-128).
NeverBack ==
  [][~ran /\ stamp' # stamp => stamp' > stamp \/ stamp' = 0]_delayVars
=============================================================================
