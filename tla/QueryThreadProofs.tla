-------------------------- MODULE QueryThreadProofs --------------------------
(***************************************************************************)
(* Proofs about executeQuery and its thread, for every length of the poll, *)
(* every number of calls and every way the clock is set.                   *)
(***************************************************************************)
EXTENDS QueryThread, TLAPS

\* The one-line operators the actions are put together from.
USE DEF ClearFlag, SaysYes

-----------------------------------------------------------------------------
(* The arithmetic of the clock                                             *)

LEMMA TimeOps ==
  ASSUME NEW a \in Times, NEW d \in Nat, d < W
  PROVE  Plus(a, d) \in Times /\ Minus(a, d) \in Times
BY ClockAssumption DEF Times, Plus, Minus

\* A tick adds one to what the timer will measure.
LEMMA TickAdds ==
  ASSUME NEW a \in Times, NEW b \in Times, Minus(a, b) < W - 1
  PROVE  Minus(Plus(a, 1), b) = Minus(a, b) + 1
BY ClockAssumption DEF Times, Plus, Minus

LEMMA MinusNat ==
  ASSUME NEW a \in Times, NEW b \in Times
  PROVE  Minus(a, b) \in Nat /\ Minus(a, a) = 0
BY ClockAssumption DEF Times, Minus

\* What the operations of a timer return.
LEMMA TimerOps ==
  ASSUME NEW t \in Timers, NEW n \in Times
  PROVE  /\ NewTimer(n) \in Timers
         /\ start(NewTimer(n), n) \in Timers
         /\ start(NewTimer(n), n).started /\ ~start(NewTimer(n), n).stopped
         /\ start(NewTimer(n), n).curTime = n
         /\ stop(t, n) \in Timers /\ Asked(t, n) \in Timers
         /\ Asked(t, n).stopped = t.stopped /\ Asked(t, n).started = t.started
         /\ t.started => Asked(t, n).curTime = n
         /\ t.curTime \in Times
         /\ getElapsedNSecs(t, n) \in Nat
<1>1. NewTimer(n) \in Timers BY DEF NewTimer, Timers
<1>2. start(NewTimer(n), n) =
        [curTime |-> n, stopped |-> FALSE, started |-> TRUE]
  BY DEF NewTimer, start
<1>3. stop(t, n) \in Timers BY DEF stop, Timers
<1>4. Asked(t, n) \in Timers BY DEF Asked, Timers
<1>5. /\ Asked(t, n).stopped = t.stopped /\ Asked(t, n).started = t.started
      /\ t.started => Asked(t, n).curTime = n
  BY DEF Asked, Timers
<1>6. t.curTime \in Times BY DEF Timers
<1>7. getElapsedNSecs(t, n) \in Nat
  BY <1>6, MinusNat DEF getElapsedNSecs
<1>8. start(NewTimer(n), n) \in Timers BY <1>2 DEF Timers
<1> QED BY <1>1, <1>2, <1>3, <1>4, <1>5, <1>6, <1>7, <1>8

-----------------------------------------------------------------------------
(* The inductive invariant                                                 *)

LEMMA QueryInvInit == Init => QueryInv
<1> SUFFICES ASSUME Init PROVE QueryInv OBVIOUS
<1>1. TypeOK
  <2>1. elapsed \in Nat /\ calls \in 0 .. MaxQueries /\ now \in Times
        /\ waited \in 0 .. MaxWait
    BY PollAssumption, ClockAssumption DEF Init, Times
  <2>2. timer \in Timers BY <2>1 DEF Init, NewTimer, Timers
  <2> QED BY <2>1, <2>2 DEF Init, TypeOK, Outputs
<1>2. FlagInv BY DEF Init, FlagInv
<1>3. PhaseInv BY DEF Init, PhaseInv, WorkerAlive
<1>4. ClockInv BY DEF Init, ClockInv
<1> QED BY <1>1, <1>2, <1>3, <1>4 DEF QueryInv

\* A step that leaves the clock and the timer alone, and does not enter the
\* poll, keeps the measurement.
LEMMA ClockKept ==
  ASSUME ClockInv, UNCHANGED pollVars, mpc' = "poll" => mpc = "poll"
  PROVE  ClockInv'
BY DEF ClockInv, pollVars, Measured, getElapsedNSecs

\* The steps of the poll keep the types and the measurement.
LEMMA PollStep ==
  ASSUME TypeOK, ClockInv,
         Lock \/ Tick \/ SetClock \/ PollAgain \/ PollEnds
  PROVE  /\ elapsed' \in Nat /\ timer' \in Timers /\ now' \in Times
         /\ waited' \in 0 .. MaxWait /\ wasSet' \in BOOLEAN
         /\ ClockInv'
<1> USE PollAssumption, ClockAssumption
<1>t. /\ elapsed \in Nat /\ timer \in Timers /\ now \in Times
      /\ waited \in 0 .. MaxWait /\ wasSet \in BOOLEAN
  BY DEF TypeOK
<1>m. Measured \in Nat BY <1>t, TimerOps DEF Measured
<1>1. CASE Lock
  <2>1. /\ timer' \in Timers /\ timer'.started /\ ~timer'.stopped
        /\ timer'.curTime = now /\ now' = now
    BY <1>1, <1>t, TimerOps DEF Lock
  <2>2. Measured' = 0
    BY <1>1, <1>t, <2>1, MinusNat DEF Lock, Measured, getElapsedNSecs
  <2>3. ClockInv' BY <1>1, <2>1, <2>2 DEF Lock, ClockInv
  <2>4. elapsed' \in Nat /\ waited' \in 0 .. MaxWait BY <1>1 DEF Lock
  <2>5. wasSet' \in BOOLEAN BY <1>1 DEF Lock
  <2> QED BY <1>t, <2>1, <2>3, <2>4, <2>5
<1>2. CASE Tick
  <2>1. now' \in Times /\ waited' \in 0 .. MaxWait
    BY <1>2, <1>t, TimeOps DEF Tick
  <2>2. ASSUME mpc = "poll", ~wasSet PROVE Measured' = waited'
    <3>1. timer.started /\ Measured = waited BY <2>2 DEF ClockInv
    <3>2. Minus(now, timer.curTime) < W - 1 /\ timer.curTime \in Times
          /\ Minus(now, timer.curTime) \in Nat
      BY <1>2, <1>t, <3>1, TimerOps, MinusNat
         DEF Tick, Measured, getElapsedNSecs
    <3>3. Minus(now', timer.curTime) = Minus(now, timer.curTime) + 1
      BY <1>2, <1>t, <3>2, TickAdds DEF Tick
    <3> QED BY <1>2, <1>t, <3>1, <3>2, <3>3
            DEF Tick, Measured, getElapsedNSecs
  <2>3. ClockInv' BY <1>2, <2>2 DEF Tick, ClockInv
  <2> QED BY <1>2, <1>t, <2>1, <2>3 DEF Tick
<1>3. CASE SetClock
  <2>1. now' \in Times
    <3>1. PICK d \in 1 .. MaxStep : now' \in {Plus(now, d), Minus(now, d)}
      BY <1>3 DEF SetClock
    <3>2. d \in Nat /\ d < W BY <3>1
    <3> QED BY <1>t, <3>1, <3>2, TimeOps
  <2>2. ClockInv' BY <1>3 DEF SetClock, ClockInv
  <2> QED BY <1>3, <1>t, <2>1, <2>2 DEF SetClock
<1>4. CASE PollAgain
  <2>1. elapsed' \in Nat /\ timer' \in Timers
    BY <1>4, <1>t, <1>m, TimerOps DEF PollAgain
  <2>2. timer.started /\ ~timer.stopped BY <1>4 DEF PollAgain, ClockInv
  <2>3. timer'.started /\ ~timer'.stopped /\ timer'.curTime = now
    BY <1>4, <1>t, <2>2, TimerOps DEF PollAgain
  <2>4. Measured' = Measured
    BY <1>4, <1>t, <1>m, <2>3, MinusNat DEF PollAgain, Measured, getElapsedNSecs
  <2>5. ClockInv' BY <1>4, <2>3, <2>4 DEF PollAgain, ClockInv
  <2> QED BY <1>4, <1>t, <2>1, <2>5 DEF PollAgain
<1>5. CASE PollEnds
  <2>1. elapsed' \in Nat BY <1>5, <1>t, <1>m DEF PollEnds
  <2>2. timer' \in Timers BY <1>5, <1>t, TimerOps DEF PollEnds
  <2>3. ClockInv' BY <1>5 DEF PollEnds, ClockInv
  <2> QED BY <1>5, <1>t, <2>1, <2>2, <2>3 DEF PollEnds
<1> QED BY <1>1, <1>2, <1>3, <1>4, <1>5

\* Every step of executeQuery, of its thread and of the clock keeps the
\* invariant.
LEMMA QueryInvStep == QueryInv /\ [Next]_vars => QueryInv'
<1> SUFFICES ASSUME QueryInv, [Next]_vars PROVE QueryInv'
  OBVIOUS
<1>a. TypeOK /\ FlagInv /\ PhaseInv /\ ClockInv BY DEF QueryInv
<1>b. CASE Lock \/ Tick \/ SetClock \/ PollAgain \/ PollEnds
  <2>1. /\ elapsed' \in Nat /\ timer' \in Timers /\ now' \in Times
        /\ waited' \in 0 .. MaxWait /\ wasSet' \in BOOLEAN
        /\ ClockInv'
    BY <1>a, <1>b, PollStep
  <2>2. /\ UNCHANGED <<wpc, qStats, said, retVal, calls>>
        /\ mpc \in {"lock", "poll"} /\ mpc' \in {"poll", "detach"}
        /\ mutex' \in BOOLEAN
    BY <1>a, <1>b DEF Lock, Tick, SetClock, PollAgain, PollEnds, TypeOK
  <2>3. TypeOK' BY <1>a, <2>1, <2>2 DEF TypeOK
  <2>4. FlagInv' /\ PhaseInv'
    BY <1>a, <2>2 DEF FlagInv, PhaseInv, WorkerAlive
  <2> QED BY <2>1, <2>3, <2>4 DEF QueryInv
<1>c. CASE \/ Call \/ CreateThread \/ CreateFails \/ Detach \/ Kill \/ Unlock
           \/ Return \/ Worker \/ UNCHANGED vars
  <2>1. UNCHANGED pollVars /\ (mpc' = "poll" => mpc = "poll")
    BY <1>c DEF Call, CreateThread, CreateFails, Detach, Kill, Unlock, Return,
                Worker, Popen, ReadOutput, Answer, ThreadExit, Dies, vars
  <2>2. ClockInv' BY <1>a, <2>1, ClockKept
  <2>3. elapsed' \in Nat /\ timer' \in Timers /\ now' \in Times
        /\ waited' \in 0 .. MaxWait /\ wasSet' \in BOOLEAN
    BY <1>a, <2>1 DEF TypeOK, pollVars
  <2>4. calls' \in 0 .. MaxQueries
    <3>1. CASE Call BY <1>a, <3>1, PollAssumption DEF Call, TypeOK
    <3>2. CASE calls' = calls BY <1>a, <3>2 DEF TypeOK
    <3> QED BY <1>c, <3>1, <3>2
            DEF CreateThread, CreateFails, Detach, Kill, Unlock, Return, Worker,
                Popen, ReadOutput, Answer, ThreadExit, vars
  <2> USE DEF FlagInv, PhaseInv, WorkerAlive, Outputs
  <2> DEFINE Rest == /\ mpc' \in {"idle", "create", "lock", "poll", "detach",
                                   "kill", "unlock", "return", "dead"}
                     /\ wpc' \in {"none", "popen", "read", "answer", "exit",
                                   "ended", "dead"}
                     /\ qStats' \in BOOLEAN /\ mutex' \in BOOLEAN
                     /\ retVal' \in BOOLEAN
                     /\ said' \in Outputs \cup {"none"}
                     /\ FlagInv' /\ PhaseInv'
  <2>5. Rest
    <3>1. CASE Call BY <1>a, <3>1 DEF Call, TypeOK
    <3>2. CASE CreateThread BY <1>a, <3>2 DEF CreateThread, TypeOK
    <3>3. CASE CreateFails BY <1>a, <3>3 DEF CreateFails, TypeOK
    <3>4. CASE Detach BY <1>a, <3>4 DEF Detach, TypeOK
    <3>5. CASE Kill BY <1>a, <3>5 DEF Kill, Dies, TypeOK
    <3>6. CASE Unlock BY <1>a, <3>6 DEF Unlock, TypeOK
    <3>7. CASE Return BY <1>a, <3>7 DEF Return, TypeOK
    <3>8. CASE Popen BY <1>a, <3>8 DEF Popen, TypeOK
    <3>9. CASE ReadOutput BY <1>a, <3>9 DEF ReadOutput, TypeOK
    <3>10. CASE Answer BY <1>a, <3>10 DEF Answer, Dies, TypeOK
    <3>11. CASE ThreadExit BY <1>a, <3>11 DEF ThreadExit, TypeOK
    <3>12. CASE UNCHANGED vars BY <1>a, <3>12 DEF vars, TypeOK
    <3> QED BY <1>c, <3>1, <3>2, <3>3, <3>4, <3>5, <3>6, <3>7, <3>8, <3>9,
               <3>10, <3>11, <3>12 DEF Worker
  <2>6. TypeOK' BY <2>3, <2>4, <2>5 DEF TypeOK
  <2> QED BY <2>2, <2>5, <2>6 DEF QueryInv
<1> QED BY <1>b, <1>c DEF Next, Caller

\* The flag, the thread and the caller stay in step in every behaviour of
\* executeQuery.
THEOREM QueryInvariant == Spec => []QueryInv
BY QueryInvInit, QueryInvStep, PTL DEF Spec

\* Every variable of executeQuery keeps its type.
THEOREM QueryTypeOK == Spec => []TypeOK
<1>1. QueryInv => TypeOK BY DEF QueryInv
<1> QED BY <1>1, QueryInvariant, PTL

\* The poll of executeQuery gives up only after its limit has really passed, or
\* when the clock was set: Timer::getElapsedNSecs counts no time twice.
THEOREM PatientTheorem == Spec => PatientUnlessClockSet
<1>1. QueryInv /\ [Next]_vars =>
        [mpc = "poll" /\ mpc' = "detach" /\ ~qStats
           => wasSet \/ waited >= PollLimit]_vars
  <2> SUFFICES ASSUME QueryInv, Next, mpc = "poll", mpc' = "detach", ~qStats,
                      ~wasSet
               PROVE  waited >= PollLimit
    OBVIOUS
  <2>1. PollEnds
    BY DEF Next, Caller, Worker, Call, CreateThread, CreateFails, Lock, Tick,
           SetClock, PollAgain, Detach, Kill, Dies, Unlock, Return, Popen,
           ReadOutput, Answer, ThreadExit
  <2>2. Measured >= PollLimit BY <2>1 DEF PollEnds
  <2>3. Measured = waited BY DEF QueryInv, ClockInv
  <2> QED BY <2>2, <2>3
<1> QED BY <1>1, QueryInvariant, PTL DEF Spec, PatientUnlessClockSet

\* A call of executeQuery that returns has returned what XSB said of this very
\* query: no stale answer, no answer lost.
THEOREM ReturnsThisAnswerTheorem == Spec => []ReturnsThisAnswer
<1>1. QueryInv => ReturnsThisAnswer
  BY DEF QueryInv, TypeOK, FlagInv, PhaseInv, WorkerAlive, ReturnsThisAnswer,
         Outputs
<1> QED BY <1>1, QueryInvariant, PTL

\* The query thread never outlives the frame of executeQuery it reads.
THEOREM WorkerWithinCallTheorem == Spec => []WorkerWithinCall
<1>1. QueryInv => WorkerWithinCall
  BY DEF QueryInv, PhaseInv, WorkerWithinCall
<1> QED BY <1>1, QueryInvariant, PTL

-----------------------------------------------------------------------------
(* executeQuery implements QueryAnswer                                     *)

LEMMA AnswerInit == Init => QA!Init
BY DEF Init, QA!Init

\* A step of executeQuery or of its thread is a step of QueryAnswer or leaves
\* what its caller sees unchanged.
LEMMA AnswerStep == QueryInv /\ [Next]_vars => [QA!Next]_(QA!vars)
<1> SUFFICES ASSUME QueryInv, [Next]_vars PROVE [QA!Next]_(QA!vars)
  OBVIOUS
<1> USE DEF QueryInv, TypeOK, FlagInv, PhaseInv, WorkerAlive, QA!vars
<1>1. CASE Call
  <2>1. QA!Call BY <1>1 DEF Call, QA!Call
  <2> QED BY <2>1 DEF QA!Next
<1>2. CASE Kill
  <2>1. QA!Die \/ UNCHANGED QA!vars BY <1>2 DEF Kill, Dies, QA!Die
  <2> QED BY <2>1 DEF QA!Next
<1>3. CASE Return
  <2>1. QA!Return BY <1>3 DEF Return, QA!Return
  <2> QED BY <2>1 DEF QA!Next
<1>4. CASE ReadOutput
  <2>1. PICK o \in Outputs : said' = o BY <1>4 DEF ReadOutput
  <2>2. QA!XsbSays(o) BY <1>4, <2>1 DEF ReadOutput, QA!XsbSays
  <2> QED BY <2>2 DEF QA!Next
<1>5. CASE Answer
  <2>1. QA!Die \/ UNCHANGED QA!vars BY <1>5 DEF Answer, Dies, QA!Die
  <2> QED BY <2>1 DEF QA!Next
<1>6. CASE \/ CreateThread \/ CreateFails \/ Lock \/ PollAgain \/ PollEnds
           \/ Detach \/ Unlock \/ Tick \/ SetClock \/ Popen \/ ThreadExit
           \/ UNCHANGED vars
  BY <1>6 DEF CreateThread, CreateFails, Lock, PollAgain, PollEnds, Detach,
              Unlock, Tick, SetClock, Popen, ThreadExit, vars
<1> QED BY <1>1, <1>2, <1>3, <1>4, <1>5, <1>6 DEF Next, Caller, Worker

\* What executeQuery promises its caller: the answer to this query, or the end
\* of the process.
THEOREM ExecuteQueryImplementsQueryAnswer == Spec => ImplementsQueryAnswer
<1>1. Init => QA!Init BY AnswerInit
<1>2. QueryInv /\ [Next]_vars => [QA!Next]_(QA!vars) BY AnswerStep
<1> QED
  BY <1>1, <1>2, QueryInvariant, PTL DEF Spec, ImplementsQueryAnswer, QA!Spec

=============================================================================
