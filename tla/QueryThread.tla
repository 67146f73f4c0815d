----------------------------- MODULE QueryThread -----------------------------
(***************************************************************************)
(* SecurityService::executeQuery and the thread it starts, executeQueryProc *)
(* (utils/SecurityService.h).  The two share the static flag qStats, which  *)
(* neither locks, and the query string, which lives on the caller's stack.  *)
(* The caller polls the flag for a second of its Timer and then sends       *)
(* SIGKILL to the thread, which ends the whole process if the thread is     *)
(* alive.  The clock the Timer reads may be set while the caller polls.     *)
(***************************************************************************)
EXTENDS Timer

CONSTANTS
  PollLimit,    \* clock ticks in the second executeQuery waits
  MaxQueries,   \* bound: the calls of executeQuery
  MaxStep,      \* bound: how far the clock is set, forward or back
  MaxWait       \* bound: the ticks the model lets pass in one poll

ASSUME PollAssumption ==
  /\ PollLimit \in Nat \ {0} /\ MaxQueries \in Nat /\ MaxStep \in Nat
  /\ MaxWait \in Nat /\ PollLimit + MaxStep <= MaxWait
  /\ MaxWait + MaxStep < W

\* What XSB prints, as executeQueryProc reads it: the three characters before
\* the last newline are "yes"; they are something else; there are no three.
Outputs == {"yes", "no", "short"}

VARIABLES
  mpc,      \* the thread that called executeQuery
  wpc,      \* the query thread
  qStats,
  mutex,    \* SecurityService::mutex is held
  elapsed,  \* what the poll has added up
  timer,    \* Timer t of executeQuery
  now,      \* what CLOCK_REALTIME shows
  waited,   \* the time that really passed in this poll
  wasSet,   \* the clock was set during this poll
  said,     \* what XSB printed for the current query
  retVal,   \* what executeQuery returned last
  calls

pollVars == <<elapsed, timer, now, waited, wasSet>>

vars == <<mpc, wpc, qStats, mutex, pollVars, said, retVal, calls>>

Init ==
  /\ mpc = "idle" /\ wpc = "none"
  /\ qStats = FALSE /\ mutex = FALSE
  /\ elapsed = 0 /\ timer = NewTimer(0) /\ now = 0
  /\ waited = 0 /\ wasSet = FALSE
  /\ said = "none" /\ retVal = FALSE
  /\ calls = 0

TypeOK ==
  /\ mpc \in {"idle", "create", "lock", "poll", "detach", "kill", "unlock",
              "return", "dead"}
  /\ wpc \in {"none", "popen", "read", "answer", "exit", "ended", "dead"}
  /\ qStats \in BOOLEAN /\ mutex \in BOOLEAN /\ retVal \in BOOLEAN
  /\ elapsed \in Nat /\ timer \in Timers /\ now \in Times
  /\ waited \in 0 .. MaxWait /\ wasSet \in BOOLEAN
  /\ said \in Outputs \cup {"none"}
  /\ calls \in 0 .. MaxQueries

-----------------------------------------------------------------------------
(* executeQuery                                                            *)

\* Mutant: the flag keeps the last answer.
KeepFlag == UNCHANGED qStats

ClearFlag == qStats' = FALSE

\* The flag is cleared; an empty query goes no further.
Call ==
  /\ mpc = "idle"
  /\ calls < MaxQueries
  /\ calls' = calls + 1
  /\ ClearFlag
  /\ said' = "none"
  /\ mpc' \in {"create", "return"}
  /\ wpc' = "none"
  /\ UNCHANGED <<mutex, pollVars, retVal>>

CreateThread ==
  /\ mpc = "create"
  /\ wpc' = "popen"
  /\ mpc' = "lock"
  /\ UNCHANGED <<qStats, mutex, pollVars, said, retVal, calls>>

CreateFails ==
  /\ mpc = "create"
  /\ mpc' = "return"
  /\ UNCHANGED <<wpc, qStats, mutex, pollVars, said, retVal, calls>>

Lock ==
  /\ mpc = "lock" /\ ~mutex
  /\ mutex' = TRUE
  /\ elapsed' = 0 /\ timer' = start(NewTimer(now), now)
  /\ waited' = 0 /\ wasSet' = FALSE
  /\ mpc' = "poll"
  /\ UNCHANGED <<now, wpc, qStats, said, retVal, calls>>

Tick ==
  /\ mpc = "poll"
  /\ waited < MaxWait
  /\ waited' = waited + 1
  /\ now' = Plus(now, 1)
  /\ UNCHANGED <<mpc, wpc, qStats, mutex, elapsed, timer, wasSet, said, retVal,
                 calls>>

\* Somebody sets the clock, once in a poll.
SetClock ==
  /\ mpc = "poll" /\ ~wasSet
  /\ \E d \in 1 .. MaxStep : now' \in {Plus(now, d), Minus(now, d)}
  /\ wasSet' = TRUE
  /\ UNCHANGED <<mpc, wpc, qStats, mutex, elapsed, timer, waited, said, retVal,
                 calls>>

Measured == elapsed + getElapsedNSecs(timer, now)

\* One evaluation of the loop condition that goes on polling.
PollAgain ==
  /\ mpc = "poll" /\ ~qStats
  /\ Measured < PollLimit
  /\ elapsed' = Measured /\ timer' = Asked(timer, now)
  /\ UNCHANGED <<now, waited, wasSet, mpc, wpc, qStats, mutex, said, retVal,
                 calls>>

\* The one that does not, and t.stop().  With the flag set, the timer is not
\* asked.
PollEnds ==
  /\ mpc = "poll"
  /\ \/ qStats /\ UNCHANGED elapsed /\ timer' = stop(timer, now)
     \/ /\ ~qStats /\ Measured >= PollLimit
        /\ elapsed' = Measured /\ timer' = stop(Asked(timer, now), now)
  /\ mpc' = "detach"
  /\ UNCHANGED <<now, waited, wasSet, wpc, qStats, mutex, said, retVal, calls>>

Detach ==
  /\ mpc = "detach"
  /\ mpc' = "kill"
  /\ UNCHANGED <<wpc, qStats, mutex, pollVars, said, retVal, calls>>

Dies == mpc' = "dead" /\ wpc' = "dead"

\* Mutant: the signal reaches the thread alone, and later.
KillThreadLater ==
  /\ mpc = "kill"
  /\ mpc' = "unlock"
  /\ UNCHANGED <<wpc, qStats, mutex, pollVars, said, retVal, calls>>

\* SIGKILL to a live thread ends the process.  The thread has been detached:
\* once it has ended, its handle is not valid any more and the call either
\* does nothing or crashes.
Kill ==
  /\ mpc = "kill"
  /\ \/ Dies
     \/ wpc = "ended" /\ mpc' = "unlock" /\ UNCHANGED wpc
  /\ UNCHANGED <<qStats, mutex, pollVars, said, retVal, calls>>

\* Mutant: the mutex is not released.
UnlockForgotten ==
  /\ mpc = "unlock"
  /\ mpc' = "return"
  /\ UNCHANGED <<wpc, qStats, mutex, pollVars, said, retVal, calls>>

Unlock ==
  /\ mpc = "unlock"
  /\ mutex' = FALSE
  /\ mpc' = "return"
  /\ UNCHANGED <<wpc, qStats, pollVars, said, retVal, calls>>

Return ==
  /\ mpc = "return"
  /\ retVal' = qStats
  /\ mpc' = "idle"
  /\ UNCHANGED <<wpc, qStats, mutex, pollVars, said, calls>>

Caller ==
  \/ Call \/ CreateThread \/ CreateFails \/ Lock \/ PollAgain \/ PollEnds
  \/ Detach \/ Kill \/ Unlock \/ Return

-----------------------------------------------------------------------------
(* executeQueryProc                                                        *)

\* popen() copies the query out of the caller's frame, or fails.
Popen ==
  /\ wpc = "popen"
  /\ wpc' \in {"read", "exit"}
  /\ UNCHANGED <<mpc, qStats, mutex, pollVars, said, retVal, calls>>

\* The output is read to its end.
ReadOutput ==
  /\ wpc = "read"
  /\ said' \in Outputs
  /\ wpc' = "answer"
  /\ UNCHANGED <<mpc, qStats, mutex, pollVars, retVal, calls>>

\* Mutant: any complete line counts as a yes.
AnyLine(o) == TRUE

\* The three characters before the last newline.
SaysYes(o) == o = "yes"

\* substr(pos - 3, 3) throws where there are no three characters before the
\* last newline, and nothing in the thread catches it.
Answer ==
  /\ wpc = "answer"
  /\ IF said = "short" THEN Dies /\ UNCHANGED qStats
                       ELSE /\ qStats' = (qStats \/ SaysYes(said))
                            /\ wpc' = "exit"
                            /\ UNCHANGED mpc
  /\ UNCHANGED <<mutex, pollVars, said, retVal, calls>>

ThreadExit ==
  /\ wpc = "exit"
  /\ wpc' = "ended"
  /\ UNCHANGED <<mpc, qStats, mutex, pollVars, said, retVal, calls>>

Worker == Popen \/ ReadOutput \/ Answer \/ ThreadExit

Next == Caller \/ Tick \/ SetClock \/ Worker

Spec == Init /\ [][Next]_vars

\* The caller is scheduled and time passes.  Nothing is assumed of the query
\* thread: XSB may run for ever.
FairSpec == Spec /\ WF_vars(Caller) /\ WF_vars(Tick)

-----------------------------------------------------------------------------
(* The inductive invariant                                                *)

WorkerAlive == wpc \in {"popen", "read", "answer", "exit"}

\* The flag is the worker's verdict, from the moment it is given.
FlagInv ==
  mpc # "dead" =>
    /\ qStats = (said = "yes" /\ wpc \in {"exit", "ended"})
    /\ wpc \in {"none", "popen", "read"} => said = "none"

\* Where the query thread can be, seen from the caller.
PhaseInv ==
  /\ WorkerAlive => mpc \in {"lock", "poll", "detach", "kill"}
  /\ mpc = "create" => wpc = "none"
  /\ mpc # "dead" => wpc # "dead"
  /\ mpc = "idle" => retVal = qStats

\* As long as the clock is left alone, the poll has counted what passed.
ClockInv ==
  /\ mpc = "poll" => timer.started /\ ~timer.stopped
  /\ mpc = "poll" /\ ~wasSet => Measured = waited

QueryInv == TypeOK /\ FlagInv /\ PhaseInv /\ ClockInv

-----------------------------------------------------------------------------
(* Properties                                                              *)

\* A call that returns has returned what XSB said of this query: an answer that
\* comes after the poll gave up, or is left over from the call before, is not
\* returned, and a "yes" is never lost (qStats, executeQuery).
ReturnsThisAnswer == mpc = "idle" => retVal = (said = "yes")

\* While the query thread is alive its caller has not left executeQuery, whose
\* frame holds the query string the thread reads and whose next call would
\* clear the flag the thread sets.
WorkerWithinCall ==
  WorkerAlive => mpc \in {"lock", "poll", "detach", "kill"}

\* The poll gives up, and so kills the process, only after PollLimit has really
\* passed, however often and when the timer was asked: getElapsedNSecs() counts
\* no time twice.  Only a clock that is set, forward or back, cuts the wait
\* short (the loop of executeQuery, Timer::getElapsedNSecs).
PatientUnlessClockSet ==
  [][mpc = "poll" /\ mpc' = "detach" /\ ~qStats
       => wasSet \/ waited >= PollLimit]_vars

\* A call of executeQuery comes back or ends the process, however long XSB
\* takes and also when the clock is set back meanwhile: an unsigned difference
\* never makes the poll longer by more than the clock was set, and the mutex
\* is free.
CallEnds == (mpc = "create") ~> (mpc \in {"idle", "dead"})

QA == INSTANCE QueryAnswer WITH
        status <- CASE mpc = "idle" -> "idle" [] mpc = "dead" -> "gone"
                    [] OTHER -> "waiting",
        result <- retVal

\* executeQuery and its thread implement the promise of QueryAnswer.
ImplementsQueryAnswer == QA!Spec

\* "if for some reason this hasn't returned yet kill it" (SecurityService.h:535):
\* only the query thread is killed; the process that asked goes on.
TimeoutKillsThreadOnly == mpc = "dead" => said = "short"

=============================================================================
