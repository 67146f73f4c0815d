------------------------------- MODULE Timer -------------------------------
(***************************************************************************)
(* The class Timer (utils/Timer.h) as the program uses it: constructed,     *)
(* started, asked and stopped.  A timer is a record, its operations are     *)
(* functions of the timer and of what CLOCK_REALTIME shows.  A time is a    *)
(* tulong, so a difference is taken modulo W; startTime and endTime are     *)
(* written and never read, and offset stays 0 without resume().            *)
(***************************************************************************)
EXTENDS Integers

CONSTANT W    \* the values of a tulong: 2^64 nanoseconds, in clock ticks

ASSUME ClockAssumption == W \in Nat \ {0}

Times == 0 .. W - 1

\* Mutant: the difference of two times is signed.
MinusSigned(a, b) == a - b

\* Unsigned subtraction and addition.
Minus(a, b) == IF a >= b THEN a - b ELSE a + W - b

Plus(a, b) == IF a + b < W THEN a + b ELSE a + b - W

Timers == [curTime : Times, stopped : BOOLEAN, started : BOOLEAN]

NewTimer(now) == [curTime |-> now, stopped |-> TRUE, started |-> FALSE]

start(t, now) ==
  IF t.stopped THEN [curTime |-> now, stopped |-> FALSE, started |-> TRUE]
               ELSE t

stop(t, now) ==
  IF t.stopped THEN t ELSE [t EXCEPT !.stopped = TRUE, !.curTime = now]

getElapsedNSecs(t, now) == IF t.started THEN Minus(now, t.curTime) ELSE 0

\* Mutant: every call measures from the start.
AskedFromStart(t, now) == t

\* The timer after getElapsedNSecs(): the next call measures from here.
Asked(t, now) == IF t.started THEN [t EXCEPT !.curTime = now] ELSE t

=============================================================================
