--------------------------- MODULE ExecutorProofs ---------------------------
(***************************************************************************)
(* Proofs about Executor: that its state keeps its types, and that no      *)
(* worker sleeps while there is work for it, though enqueue notifies after *)
(* it has released the mutex and a worker may wake, time out or take       *)
(* another worker's task at any moment.                                    *)
(***************************************************************************)
EXTENDS ExecutorInv, FiniteSetTheorems, TLAPS

\* Sets of program counters that the steps of a worker outside judge() move between.
Idling == {"loop", "lock", "about", "asleep", "timeout", "exited"}

\* A step that only moves a worker between two of these keeps the types.
LEMMA GotoType ==
  ASSUME ExecTypeOK, NEW w \in Workers, wpc[w] \in Idling, NEW pc \in Idling, Goto(w, pc)
  PROVE  ExecTypeOK'
<1>1. WorkerTypeOK'
  BY DEF ExecTypeOK, WorkerTypeOK, Goto, Idling, Judging
<1>2. (RowTypeOK /\ HandlerTypeOK /\ queue \in Seq(Subs) /\ MainTypeOK)'
  BY DEF ExecTypeOK, RowTypeOK, HandlerTypeOK, MainTypeOK, Goto, rowVars, handlerVars, boundVars
<1> QED
  BY <1>1, <1>2 DEF ExecTypeOK

\* So does a step of the main thread that only moves it.
LEMMA MainGotoType ==
  ASSUME ExecTypeOK, NEW from,
         NEW to \in {"draining", "stopping", "notifying", "joining", "closed"},
         MainGoto(from, to), running' \in BOOLEAN, stops' \in 0..MaxStops
  PROVE  ExecTypeOK'
BY DEF ExecTypeOK, RowTypeOK, HandlerTypeOK, WorkerTypeOK, MainTypeOK, MainGoto, rowVars,
   handlerVars, workerVars

\* And a failure is counted within its bound.
LEMMA FailureType ==
  ASSUME MainTypeOK, running' = running, main' = main,
         SomethingFails \/ UNCHANGED boundVars
  PROVE  MainTypeOK'
BY ExecutorAssumption DEF MainTypeOK, SomethingFails, boundVars

\* A worker in judge() has a submission; what a step of judge() does to the worker
\* itself keeps the types.
LEMMA JudgeStepType ==
  ASSUME ExecTypeOK, NEW w \in Workers, wpc[w] \in Judging,
         NEW pc \in Judging \cup {"cleanup"}, wpc' = [wpc EXCEPT ![w] = pc],
         UNCHANGED <<wsub, handlerVars, queue, running, main>>,
         SomethingFails \/ UNCHANGED boundVars,
         wcase' \in [Workers -> Nat],
         wout' \in [Workers -> [v : Verdicts, k : Nat]],
         RowTypeOK'
  PROVE  ExecTypeOK'
<1>1. WorkerTypeOK'
  BY DEF ExecTypeOK, WorkerTypeOK, Judging
<1>2. HandlerTypeOK' /\ (queue \in Seq(Subs))'
  BY DEF ExecTypeOK, HandlerTypeOK, handlerVars
<1>3. MainTypeOK'
  BY FailureType DEF ExecTypeOK
<1> QED
  BY <1>1, <1>2, <1>3 DEF ExecTypeOK

LEMMA JudgingSub ==
  ASSUME ExecTypeOK, NEW w \in Workers, wpc[w] \in Judging
  PROVE  wsub[w] \in Subs
BY DEF ExecTypeOK, WorkerTypeOK

\* A handler that only moves on keeps the types.
LEMMA HandlerMovesType ==
  ASSUME ExecTypeOK, NEW h \in Handlers, HBegin(h) \/ HNoRow(h) \/ HDetail(h)
  PROVE  ExecTypeOK'
<1>1. HandlerTypeOK'
  BY DEF ExecTypeOK, HandlerTypeOK, HBegin, HNoRow, HDetail, Owning
<1>2. (RowTypeOK /\ queue \in Seq(Subs) /\ WorkerTypeOK /\ MainTypeOK)'
  BY DEF ExecTypeOK, RowTypeOK, WorkerTypeOK, MainTypeOK, HBegin, HNoRow, HDetail, rowVars,
     workerVars, boundVars
<1> QED
  BY <1>1, <1>2 DEF ExecTypeOK

\* The initial values have the types.
LEMMA TypeInit == ExecInit => ExecTypeOK
BY ExecutorAssumption DEF ExecInit, Init, ExecTypeOK, RowTypeOK, HandlerTypeOK, WorkerTypeOK,
   MainTypeOK, NoVerdict, Verdict, Verdicts, Judging

\* Every step keeps the types.
LEMMA TypeStep ==
  ASSUME ExecTypeOK, [ExecNext]_execVars
  PROVE  ExecTypeOK'
<1> USE ExecutorAssumption
<1>1. ASSUME NEW h \in Handlers, NEW s \in Subs, HInsert(h, s) PROVE ExecTypeOK'
  <2>1. RowTypeOK' /\ HandlerTypeOK'
    BY <1>1 DEF ExecTypeOK, RowTypeOK, HandlerTypeOK, HInsert, Owning
  <2>2. (queue \in Seq(Subs) /\ WorkerTypeOK /\ MainTypeOK)'
    BY <1>1 DEF ExecTypeOK, WorkerTypeOK, MainTypeOK, HInsert, workerVars, boundVars
  <2> QED
    BY <2>1, <2>2 DEF ExecTypeOK
<1>2. ASSUME NEW h \in Handlers, HEnqueue(h) PROVE ExecTypeOK'
  <2>0. hsub[h] \in Subs
    BY <1>2 DEF ExecTypeOK, HandlerTypeOK, HEnqueue
  <2>1. Refuse(h) \/ Push(h)
    BY <1>2 DEF HEnqueue
  <2>2. (queue \in Seq(Subs))' /\ (forgotten \subseteq Subs)'
    <3>1. queue \in Seq(Subs) /\ forgotten \subseteq Subs
      BY DEF ExecTypeOK, RowTypeOK
    <3>2. CASE Refuse(h)
      BY <2>0, <3>1, <3>2 DEF Refuse
    <3>3. CASE Push(h)
      BY <2>0, <3>1, <3>3 DEF Push
    <3> QED
      BY <2>1, <3>2, <3>3
  <2>3. HandlerTypeOK'
    <3>1. HandlerTypeOK
      BY DEF ExecTypeOK
    <3>2. CASE Refuse(h)
      BY <2>0, <3>1, <3>2 DEF Refuse, HandlerTypeOK
    <3>3. CASE Push(h)
      BY <2>0, <3>1, <3>3 DEF Push, HandlerTypeOK
    <3> QED
      BY <2>1, <3>2, <3>3
  <2>4. (RowTypeOK /\ WorkerTypeOK /\ MainTypeOK)'
    BY <1>2, <2>2 DEF ExecTypeOK, RowTypeOK, WorkerTypeOK, MainTypeOK, HEnqueue, rowVars,
       workerVars, boundVars
  <2> QED
    BY <2>2, <2>3, <2>4 DEF ExecTypeOK
<1>3. ASSUME NEW h \in Handlers, HNotify(h) PROVE ExecTypeOK'
  <2>1. WorkerTypeOK'
    BY <1>3 DEF ExecTypeOK, WorkerTypeOK, HNotify, NotifyOne, Asleep, Judging
  <2>2. HandlerTypeOK'
    BY <1>3 DEF ExecTypeOK, HandlerTypeOK, HNotify
  <2>3. (RowTypeOK /\ queue \in Seq(Subs) /\ MainTypeOK)'
    BY <1>3 DEF ExecTypeOK, RowTypeOK, MainTypeOK, HNotify, rowVars, boundVars
  <2> QED
    BY <2>1, <2>2, <2>3 DEF ExecTypeOK
<1>4. ASSUME NEW w \in Workers, WorkerLoop(w) PROVE ExecTypeOK'
  BY <1>4, GotoType DEF WorkerLoop, Idling
<1>5. ASSUME NEW w \in Workers, WorkerTake(w) PROVE ExecTypeOK'
  <2>1. (queue \in Seq(Subs))' /\ Head(queue) \in Subs
    BY <1>5 DEF ExecTypeOK, WorkerTake, Popped
  <2>2. WorkerTypeOK'
    BY <1>5, <2>1 DEF ExecTypeOK, WorkerTypeOK, WorkerTake, Judging
  <2>3. (RowTypeOK /\ HandlerTypeOK /\ MainTypeOK)'
    BY <1>5 DEF ExecTypeOK, RowTypeOK, HandlerTypeOK, MainTypeOK, WorkerTake, rowVars,
       handlerVars, boundVars
  <2> QED
    BY <2>1, <2>2, <2>3 DEF ExecTypeOK
<1>6. ASSUME NEW w \in Workers, WorkerContinue(w) PROVE ExecTypeOK'
  BY <1>6, GotoType DEF WorkerContinue, Idling
<1>7. ASSUME NEW w \in Workers, WorkerAbout(w) PROVE ExecTypeOK'
  BY <1>7, GotoType DEF WorkerAbout, Idling
<1>8. ASSUME NEW w \in Workers, WorkerSleep(w) PROVE ExecTypeOK'
  BY <1>8, GotoType DEF WorkerSleep, Idling
<1>9. ASSUME NEW w \in Workers, WorkerTimeout(w) PROVE ExecTypeOK'
  BY <1>9, GotoType DEF WorkerTimeout, TimesOut, Idling
<1>10. ASSUME NEW w \in Workers, SpuriousWakeup(w) PROVE ExecTypeOK'
  BY <1>10, GotoType DEF SpuriousWakeup, Idling
<1>11. ASSUME NEW w \in Workers, MarkJudging(w) PROVE ExecTypeOK'
  <2>1. wsub[w] \in Subs
    BY <1>11, JudgingSub DEF MarkJudging, Judging
  <2>2. RowTypeOK'
    BY <1>11, <2>1 DEF ExecTypeOK, RowTypeOK, MarkJudging
  <2> QED
    BY <1>11, <2>2, JudgeStepType DEF ExecTypeOK, WorkerTypeOK, MarkJudging, Judging
<1>12. ASSUME NEW w \in Workers,
              \/ Setup(w) \/ Compile(w) \/ Fetch(w) \/ RunCase(w) \/ AllPassed(w)
       PROVE  ExecTypeOK'
  <2>1. wsub[w] \in Subs /\ program[wsub[w]] \in Programs /\ wpc[w] \in Judging
    BY <1>12, JudgingSub DEF Setup, Compile, Fetch, RunCase, AllPassed, Judging, ExecTypeOK,
       RowTypeOK
  <2>2. PICK pc \in {"compile", "fetch", "run", "report"} : wpc' = [wpc EXCEPT ![w] = pc]
    BY <1>12 DEF Setup, Compile, Fetch, RunCase, AllPassed, Continue, Conclude,
       ConcludeOnFailure
  <2>3. wcase' \in [Workers -> Nat]
    <3>1. wcase' = wcase \/ wcase' = [wcase EXCEPT ![w] = wcase[w] + 1]
      BY <1>12 DEF Setup, Compile, Fetch, RunCase, AllPassed
    <3>2. wcase \in [Workers -> Nat]
      BY DEF ExecTypeOK, WorkerTypeOK
    <3> QED
      BY <3>1, <3>2
  <2>4. wout' \in [Workers -> [v : Verdicts, k : Nat]]
    <3>1. \/ UNCHANGED wout
          \/ \E v \in Verdicts, k \in Nat : wout' = [wout EXCEPT ![w] = Verdict(v, k)]
      <4>1. CASE RunCase(w)
        <5>1. ASSUME wcase[w] + 1 <= Len(program[wsub[w]].runs),
                     program[wsub[w]].runs[wcase[w] + 1] # "pass"
              PROVE  program[wsub[w]].runs[wcase[w] + 1] \in Verdicts
          BY <2>1, <5>1, ProgramsAssumption DEF ExecTypeOK, WorkerTypeOK, Outcomes, Verdicts
        <5>2. CaseNumber(w) \in Nat
          BY DEF CaseNumber, ExecTypeOK, WorkerTypeOK
        <5> QED
          BY <4>1, <5>1, <5>2 DEF RunCase, Continue, Conclude, ConcludeOnFailure, Verdicts
      <4>2. CASE Setup(w) \/ Compile(w) \/ Fetch(w) \/ AllPassed(w)
        BY <4>2 DEF Setup, Compile, Fetch, AllPassed, Continue, Conclude,
           ConcludeOnFailure, Verdicts
      <4> QED
        BY <1>12, <4>1, <4>2
    <3>2. wout \in [Workers -> [v : Verdicts, k : Nat]]
      BY DEF ExecTypeOK, WorkerTypeOK
    <3>3. ASSUME NEW v \in Verdicts, NEW k \in Nat
          PROVE  [wout EXCEPT ![w] = Verdict(v, k)] \in [Workers -> [v : Verdicts, k : Nat]]
      <4>1. Verdict(v, k) \in [v : Verdicts, k : Nat]
        BY DEF Verdict
      <4> QED
        BY <3>2, <4>1
    <3>4. CASE \E v \in Verdicts, k \in Nat : wout' = [wout EXCEPT ![w] = Verdict(v, k)]
      <4>1. PICK v \in Verdicts, k \in Nat : wout' = [wout EXCEPT ![w] = Verdict(v, k)]
        BY <3>4
      <4> QED
        BY <3>3, <4>1
    <3> QED
      BY <3>1, <3>2, <3>4
  <2>5. RowTypeOK'
    BY <1>12, <2>1 DEF Setup, Compile, Fetch, RunCase, AllPassed, Continue, Conclude,
       ConcludeOnFailure, ExecTypeOK, RowTypeOK
  <2>6. /\ UNCHANGED <<wsub, handlerVars, queue, running, main>>
        /\ SomethingFails \/ UNCHANGED boundVars
    BY <1>12 DEF Setup, Compile, Fetch, RunCase, AllPassed, Continue, Conclude,
       ConcludeOnFailure
  <2> QED
    BY <2>1, <2>2, <2>3, <2>4, <2>5, <2>6, JudgeStepType DEF Judging
<1>13. ASSUME NEW w \in Workers, Report(w) PROVE ExecTypeOK'
  <2>1. wsub[w] \in Subs
    BY <1>13, JudgingSub DEF Report, Judging
  <2>2. RowTypeOK'
    BY <1>13, <2>1 DEF ExecTypeOK, RowTypeOK, WorkerTypeOK, Report, WriteVerdict
  <2>3. NoVerdict \in [v : Verdicts, k : Nat]
    BY DEF NoVerdict, Verdict, Verdicts
  <2>4. /\ wout' \in [Workers -> [v : Verdicts, k : Nat]]
        /\ wcase' \in [Workers -> Nat]
    BY <1>13, <2>3 DEF Report, ExecTypeOK, WorkerTypeOK
  <2> QED
    BY <1>13, <2>2, <2>4, JudgeStepType DEF Report, Judging
<1>14. ASSUME NEW w \in Workers, Cleanup(w) PROVE ExecTypeOK'
  <2>1. WorkerTypeOK'
    BY <1>14 DEF ExecTypeOK, WorkerTypeOK, Cleanup, Judging
  <2>2. (RowTypeOK /\ HandlerTypeOK /\ queue \in Seq(Subs) /\ MainTypeOK)'
    BY <1>14 DEF ExecTypeOK, RowTypeOK, HandlerTypeOK, MainTypeOK, Cleanup, rowVars,
       handlerVars, boundVars
  <2> QED
    BY <2>1, <2>2 DEF ExecTypeOK
<1>15. CASE ListenReturns
  BY <1>15, MainGotoType DEF ListenReturns, ExecTypeOK, MainTypeOK
<1>16. CASE ClearRunning
  BY <1>16, MainGotoType DEF ClearRunning, ExecTypeOK, MainTypeOK
<1>17. CASE NotifyAll
  <2>1. WorkerTypeOK'
    BY <1>17 DEF NotifyAll, Asleep, ExecTypeOK, WorkerTypeOK, Judging
  <2>2. (RowTypeOK /\ HandlerTypeOK /\ queue \in Seq(Subs) /\ MainTypeOK)'
    BY <1>17 DEF NotifyAll, ExecTypeOK, RowTypeOK, HandlerTypeOK, MainTypeOK, rowVars,
       handlerVars, boundVars
  <2> QED
    BY <2>1, <2>2 DEF ExecTypeOK
<1>18. CASE JoinAndClose
  BY <1>18, MainGotoType DEF JoinAndClose, ExecTypeOK, MainTypeOK
<1>19. ASSUME LoseMemory, stops' \in 0..MaxStops PROVE ExecTypeOK'
  <2>1. Held \subseteq Subs
    BY DEF ExecTypeOK, HandlerTypeOK, WorkerTypeOK, Held, QueuedSubs, Owning
  <2>2. RowTypeOK' /\ MainTypeOK'
    BY <1>19, <2>1 DEF LoseMemory, ExecTypeOK, RowTypeOK, MainTypeOK, rowVars
  <2>3. HandlerTypeOK' /\ (queue \in Seq(Subs))'
    BY <1>19 DEF LoseMemory, ExecTypeOK, HandlerTypeOK
  <2>4. WorkerTypeOK'
    BY <1>19 DEF LoseMemory, ExecTypeOK, WorkerTypeOK, NoVerdict, Verdict, Verdicts, Judging
  <2> QED
    BY <2>2, <2>3, <2>4 DEF ExecTypeOK
<1>20. CASE ProcessExit
  BY <1>20, <1>19 DEF ProcessExit, ExecTypeOK, MainTypeOK
<1>21. CASE Crash
  BY <1>21, <1>19 DEF Crash, ExecTypeOK, MainTypeOK
<1>22. CASE Signal
  BY <1>22, MainGotoType DEF Signal, ExecTypeOK, MainTypeOK
<1>23. CASE Start
  BY <1>23 DEF Start, ExecTypeOK, RowTypeOK, HandlerTypeOK, WorkerTypeOK, MainTypeOK,
     rowVars, handlerVars, boundVars, Judging
<1>24. ASSUME NEW h \in Handlers, HBegin(h) \/ HNoRow(h) \/ HDetail(h) PROVE ExecTypeOK'
  BY <1>24, HandlerMovesType
<1>25. CASE UNCHANGED execVars
  BY <1>25 DEF ExecTypeOK, RowTypeOK, HandlerTypeOK, WorkerTypeOK, MainTypeOK, execVars,
     rowVars, handlerVars, workerVars, boundVars
<1> QED
  BY <1>1, <1>2, <1>3, <1>4, <1>5, <1>6, <1>7, <1>8, <1>9, <1>10, <1>11, <1>12, <1>13,
     <1>14, <1>15, <1>16, <1>17, <1>18, <1>20, <1>21, <1>22, <1>23, <1>24, <1>25
  DEF ExecNext, WorkerStep, JudgeStep, MainStep

\* Every variable keeps its type.
THEOREM ExecTypeCorrect == ExecSpec => []ExecTypeOK
<1>1. ExecInit => ExecTypeOK
  BY TypeInit
<1>2. ExecTypeOK /\ [ExecNext]_execVars => ExecTypeOK'
  BY TypeStep
<1> QED
  BY <1>1, <1>2, PTL DEF ExecSpec
-----------------------------------------------------------------------------
(***************************************************************************)
(* No worker sleeps while there is work for it.                            *)
(***************************************************************************)

\* Program counters of a worker on its way to the predicate of wait_for.
OnTheWay == {"loop", "lock", "timeout"}

\* There are as many workers and handlers as threads: their numbers are natural.
LEMMA WakeCounts ==
  /\ IsFiniteSet(Ready) /\ Cardinality(Ready) \in Nat
  /\ IsFiniteSet(Notifying) /\ Cardinality(Notifying) \in Nat
<1>1. Ready \in SUBSET Workers /\ Notifying \in SUBSET Handlers
  BY DEF Ready, Notifying
<1>2. IsFiniteSet(Ready) /\ IsFiniteSet(Notifying)
  BY <1>1, ExecutorAssumption, FS_Subset
<1> QED
  BY <1>2, FS_CardinalityType

\* The queue of the state is a sequence, so its length is a natural number.
LEMMA QueueLength ==
  ASSUME NEW q \in Seq(Subs)
  PROVE  /\ Len(q) \in Nat /\ (q = <<>> => Len(q) = 0)
         /\ q # <<>> => Len(Tail(q)) + 1 = Len(q)
         /\ \A s \in Subs : Len(Append(q, s)) = Len(q) + 1
  OBVIOUS

\* A step that puts no worker to sleep, takes none off its way and leaves the queue
\* alone leaves no task behind.
LEMMA WakeFrame ==
  ASSUME NEW m \in Nat, NEW R, NEW S, NEW R2, NEW S2,
         IsFiniteSet(R2), IsFiniteSet(S2), R \subseteq R2, S \subseteq S2,
         m <= Cardinality(R) + Cardinality(S)
  PROVE  m <= Cardinality(R2) + Cardinality(S2)
<1>1. /\ IsFiniteSet(R) /\ Cardinality(R) <= Cardinality(R2)
      /\ IsFiniteSet(S) /\ Cardinality(S) <= Cardinality(S2)
  BY FS_Subset
<1>2. /\ Cardinality(R) \in Nat /\ Cardinality(R2) \in Nat
      /\ Cardinality(S) \in Nat /\ Cardinality(S2) \in Nat
  BY <1>1, FS_CardinalityType
<1> QED
  BY <1>1, <1>2

\* One worker moves, and not to sleep; if it was on its way it still is.
LEMMA WorkerMoves ==
  ASSUME WakeInv, NEW w \in Workers, NEW pc, pc \notin {"about", "asleep"},
         wpc[w] \in OnTheWay => pc \in OnTheWay,
         wpc' = [wpc EXCEPT ![w] = pc], UNCHANGED <<queue, hpc, running>>
  PROVE  AboutIsAlone' /\ NoSleepingWork'
<1>1. wpc'[w] = pc /\ \A x \in Workers : x # w => wpc'[x] = wpc[x]
  BY DEF WakeInv, ExecTypeOK, WorkerTypeOK
<1>2. AboutIsAlone'
  BY <1>1 DEF WakeInv, AboutIsAlone
<1>3. /\ Asleep' \subseteq Asleep /\ Ready \subseteq Ready' /\ Notifying' = Notifying
      /\ Ready' \in SUBSET Workers /\ Notifying \in SUBSET Handlers
  BY <1>1 DEF Asleep, Ready, Notifying, OnTheWay
<1>4. IsFiniteSet(Ready') /\ IsFiniteSet(Notifying)
  BY <1>3, ExecutorAssumption, FS_Subset
<1>5. Len(queue) \in Nat
  BY QueueLength DEF WakeInv, ExecTypeOK
<1>6. ASSUME running', Asleep' # {}
      PROVE  Len(queue) <= Cardinality(Ready') + Cardinality(Notifying')
  <2>1. Len(queue) <= Cardinality(Ready) + Cardinality(Notifying)
    BY <1>3, <1>6 DEF WakeInv, NoSleepingWork
  <2> QED
    BY <1>3, <1>4, <1>5, <2>1, WakeFrame
<1> QED
  BY <1>2, <1>6 DEF NoSleepingWork

\* The worker of a step of judge() moves on, and its new place is not one to sleep in.
LEMMA JudgeMovesOn ==
  ASSUME WakeInv, NEW w \in Workers, JudgeStep(w)
  PROVE  AboutIsAlone' /\ NoSleepingWork'
<1>1. /\ wpc[w] \notin OnTheWay /\ UNCHANGED <<queue, hpc, running>>
      /\ \E pc \in Judging \cup {"cleanup", "loop"} : wpc' = [wpc EXCEPT ![w] = pc]
  <2>1. CASE MarkJudging(w) \/ Report(w) \/ Cleanup(w)
    BY <2>1 DEF MarkJudging, Report, Cleanup, handlerVars, Judging, OnTheWay
  <2>2. CASE Setup(w) \/ Compile(w) \/ Fetch(w)
    BY <2>2 DEF Setup, Compile, Fetch, Continue, Conclude, ConcludeOnFailure, handlerVars,
       Judging, OnTheWay
  <2>3. CASE RunCase(w) \/ AllPassed(w)
    BY <2>3 DEF RunCase, AllPassed, Continue, Conclude, ConcludeOnFailure, handlerVars,
       Judging, OnTheWay
  <2> QED
    BY <2>1, <2>2, <2>3 DEF JudgeStep
<1>2. PICK pc \in Judging \cup {"cleanup", "loop"} : wpc' = [wpc EXCEPT ![w] = pc]
  BY <1>1
<1>3. pc \notin {"about", "asleep"}
  BY DEF Judging
<1> QED
  BY <1>1, <1>2, <1>3, WorkerMoves

LEMMA WakeInit == ExecInit => WakeInv
<1> SUFFICES ASSUME ExecInit PROVE WakeInv
  OBVIOUS
<1>1. ExecTypeOK
  BY TypeInit
<1>2. AboutIsAlone /\ Asleep = {}
  BY DEF ExecInit, AboutIsAlone, Asleep
<1> QED
  BY <1>1, <1>2 DEF WakeInv, NoSleepingWork
-----------------------------------------------------------------------------
\* A push is matched by the notification that is now due.
LEMMA PushWakes ==
  ASSUME WakeInv, NEW h \in Handlers, HEnqueue(h)
  PROVE  AboutIsAlone' /\ NoSleepingWork'
<1>1. /\ LockFree /\ hpc[h] = "enqueue" /\ UNCHANGED <<wpc, running>>
      /\ \/ queue' = queue /\ hpc' = [hpc EXCEPT ![h] = "idle"]
         \/ queue' = Append(queue, hsub[h]) /\ hpc' = [hpc EXCEPT ![h] = "notify"]
  BY DEF HEnqueue, Refuse, Push, workerVars
<1>2. AboutIsAlone'
  BY <1>1 DEF AboutIsAlone, LockFree
<1>3. hsub[h] \in Subs /\ queue \in Seq(Subs)
  BY <1>1 DEF WakeInv, ExecTypeOK, HandlerTypeOK
<1>4. Asleep' = Asleep /\ Ready' = Ready
  BY <1>1 DEF Asleep, Ready
<1>5. CASE queue' = queue /\ hpc' = [hpc EXCEPT ![h] = "idle"]
  <2>1. Notifying' = Notifying
    BY <1>1, <1>5 DEF Notifying, WakeInv, ExecTypeOK, HandlerTypeOK
  <2> QED
    BY <1>1, <1>2, <1>4, <1>5, <2>1 DEF WakeInv, NoSleepingWork
<1>6. CASE queue' = Append(queue, hsub[h]) /\ hpc' = [hpc EXCEPT ![h] = "notify"]
  <2>1. Notifying' = Notifying \cup {h} /\ h \notin Notifying
    BY <1>1, <1>6 DEF Notifying, WakeInv, ExecTypeOK, HandlerTypeOK
  <2>2. Cardinality(Notifying') = Cardinality(Notifying) + 1
    BY <2>1, WakeCounts, FS_AddElement
  <2>3. Len(queue) \in Nat /\ Len(queue') = Len(queue) + 1
    BY <1>3, <1>6, QueueLength
  <2>4. running /\ Asleep # {} => Len(queue) <= Cardinality(Ready) + Cardinality(Notifying)
    BY DEF WakeInv, NoSleepingWork
  <2>5. running /\ Asleep # {}
          => Len(queue') <= Cardinality(Ready) + Cardinality(Notifying')
    BY <2>2, <2>3, <2>4, WakeCounts
  <2> QED
    BY <1>1, <1>2, <1>4, <2>5 DEF NoSleepingWork
<1> QED
  BY <1>1, <1>5, <1>6

\* A notification that wakes a worker puts it on its way; one that wakes none finds
\* no worker asleep.
LEMMA NotifyWakes ==
  ASSUME WakeInv, NEW h \in Handlers, HNotify(h)
  PROVE  AboutIsAlone' /\ NoSleepingWork'
<1>1. /\ hpc[h] = "notify" /\ hpc' = [hpc EXCEPT ![h] = "idle"]
      /\ UNCHANGED <<queue, running>>
      /\ \/ Asleep = {} /\ wpc' = wpc
         \/ \E w \in Asleep : wpc' = [wpc EXCEPT ![w] = "lock"]
  BY DEF HNotify, NotifyOne
<1>2. CASE Asleep = {} /\ wpc' = wpc
  <2>1. Asleep' = {} /\ AboutIsAlone'
    BY <1>1, <1>2 DEF Asleep, WakeInv, AboutIsAlone
  <2> QED
    BY <2>1 DEF NoSleepingWork
<1>3. ASSUME NEW w \in Asleep, wpc' = [wpc EXCEPT ![w] = "lock"]
      PROVE  AboutIsAlone' /\ NoSleepingWork'
  <2>1. /\ w \in Workers /\ wpc[w] = "asleep" /\ wpc'[w] = "lock"
        /\ \A x \in Workers : x # w => wpc'[x] = wpc[x]
    BY <1>3 DEF Asleep, WakeInv, ExecTypeOK, WorkerTypeOK
  <2>2. AboutIsAlone'
    BY <1>1, <2>1 DEF WakeInv, AboutIsAlone
  <2>3. Ready' = Ready \cup {w} /\ w \notin Ready
    BY <2>1 DEF Ready
  <2>4. Notifying' = Notifying \ {h} /\ h \in Notifying
    BY <1>1 DEF Notifying, WakeInv, ExecTypeOK, HandlerTypeOK
  <2>5. /\ Cardinality(Ready') = Cardinality(Ready) + 1
        /\ Cardinality(Notifying') = Cardinality(Notifying) - 1
    BY <2>3, <2>4, WakeCounts, FS_AddElement, FS_RemoveElement
  <2>6. Len(queue) \in Nat
    BY QueueLength DEF WakeInv, ExecTypeOK
  <2>7. running => Len(queue) <= Cardinality(Ready) + Cardinality(Notifying)
    BY <1>3 DEF WakeInv, NoSleepingWork
  <2>8. running => Len(queue) <= Cardinality(Ready') + Cardinality(Notifying')
    BY <2>5, <2>6, <2>7, WakeCounts
  <2> QED
    BY <1>1, <2>2, <2>8 DEF NoSleepingWork
<1> QED
  BY <1>1, <1>2, <1>3

\* A worker that leaves its way with a task leaves one task less behind.
LEMMA TakeWakes ==
  ASSUME WakeInv, NEW w \in Workers, WorkerTake(w)
  PROVE  AboutIsAlone' /\ NoSleepingWork'
<1>1. /\ wpc[w] \in {"lock", "timeout"} /\ LockFree /\ running /\ queue # <<>>
      /\ queue' = Tail(queue) /\ wpc' = [wpc EXCEPT ![w] = "mark"]
      /\ UNCHANGED <<hpc, running>>
  BY DEF WorkerTake, Popped, handlerVars
<1>2. wpc'[w] = "mark" /\ \A x \in Workers : x # w => wpc'[x] = wpc[x]
  BY <1>1 DEF WakeInv, ExecTypeOK, WorkerTypeOK
<1>3. AboutIsAlone'
  BY <1>1, <1>2 DEF AboutIsAlone, LockFree
<1>4. /\ Ready' = Ready \ {w} /\ w \in Ready /\ Notifying' = Notifying /\ Asleep' = Asleep
  BY <1>1, <1>2 DEF Ready, Notifying, Asleep
<1>5. Cardinality(Ready') = Cardinality(Ready) - 1
  BY <1>4, WakeCounts, FS_RemoveElement
<1>6. Len(queue) \in Nat /\ Len(queue') + 1 = Len(queue) /\ Len(queue') \in Nat
  <2>1. queue \in Seq(Subs) /\ Tail(queue) \in Seq(Subs)
    BY <1>1 DEF WakeInv, ExecTypeOK
  <2> QED
    BY <1>1, <2>1, QueueLength
<1>7. Asleep # {} => Len(queue) <= Cardinality(Ready) + Cardinality(Notifying)
  BY <1>1 DEF WakeInv, NoSleepingWork
<1>8. Asleep # {} => Len(queue') <= Cardinality(Ready') + Cardinality(Notifying)
  BY <1>5, <1>6, <1>7, WakeCounts
<1> QED
  BY <1>3, <1>4, <1>8 DEF NoSleepingWork

\* A worker goes to sleep with the mutex, on an empty queue.
LEMMA SleepsOnNothing ==
  ASSUME WakeInv, NEW w \in Workers, WorkerAbout(w) \/ WorkerSleep(w)
  PROVE  AboutIsAlone' /\ NoSleepingWork'
<1>1. queue = <<>> /\ queue' = queue
  BY DEF WorkerAbout, WorkerSleep, Goto, WakeInv, AboutIsAlone
<1>2. /\ IsFiniteSet(Ready') /\ IsFiniteSet(Notifying')
  <2>1. Ready' \in SUBSET Workers /\ Notifying' \in SUBSET Handlers
    BY DEF Ready, Notifying
  <2> QED
    BY <2>1, ExecutorAssumption, FS_Subset
<1>3. Len(queue') = 0 /\ Cardinality(Ready') \in Nat /\ Cardinality(Notifying') \in Nat
  BY <1>1, <1>2, FS_CardinalityType
<1>4. Len(queue') <= Cardinality(Ready') + Cardinality(Notifying')
  BY <1>3
<1> QED
  BY <1>1, <1>4 DEF AboutIsAlone, NoSleepingWork
-----------------------------------------------------------------------------
LEMMA WakeStep ==
  ASSUME WakeInv, [ExecNext]_execVars
  PROVE  WakeInv'
<1> SUFFICES AboutIsAlone' /\ NoSleepingWork'
  BY TypeStep DEF WakeInv
<1>1. CASE UNCHANGED execVars
  BY <1>1 DEF execVars, handlerVars, workerVars, WakeInv, AboutIsAlone, NoSleepingWork,
     Asleep, Ready, Notifying
<1>2. ASSUME NEW h \in Handlers,
             HBegin(h) \/ HNoRow(h) \/ HDetail(h) \/ \E s \in Subs : HInsert(h, s)
      PROVE  AboutIsAlone' /\ NoSleepingWork'
  <2>1. UNCHANGED <<queue, wpc, running>> /\ Notifying' = Notifying
    BY <1>2 DEF HBegin, HNoRow, HDetail, HInsert, workerVars, Notifying, WakeInv, ExecTypeOK,
       HandlerTypeOK
  <2> QED
    BY <2>1 DEF WakeInv, AboutIsAlone, NoSleepingWork, Asleep, Ready
<1>3. ASSUME NEW h \in Handlers, HEnqueue(h) \/ HNotify(h)
      PROVE  AboutIsAlone' /\ NoSleepingWork'
  BY <1>3, PushWakes, NotifyWakes
<1>4. ASSUME NEW w \in Workers, WorkerLoop(w)
      PROVE  AboutIsAlone' /\ NoSleepingWork'
  <2>1. CASE running
    BY <1>4, <2>1, WorkerMoves DEF WorkerLoop, Goto, handlerVars, OnTheWay
  <2>2. CASE ~running
    <3>1. /\ ~running' /\ queue' = queue /\ wpc' = [wpc EXCEPT ![w] = "exited"]
      BY <1>4, <2>2 DEF WorkerLoop, Goto
    <3>2. AboutIsAlone'
      BY <3>1 DEF WakeInv, AboutIsAlone, ExecTypeOK, WorkerTypeOK
    <3> QED
      BY <3>1, <3>2 DEF NoSleepingWork
  <2> QED
    BY <2>1, <2>2
<1>5. ASSUME NEW w \in Workers, WorkerTake(w) \/ WorkerAbout(w) \/ WorkerSleep(w)
      PROVE  AboutIsAlone' /\ NoSleepingWork'
  BY <1>5, TakeWakes, SleepsOnNothing
<1>6. ASSUME NEW w \in Workers, WorkerContinue(w)
      PROVE  AboutIsAlone' /\ NoSleepingWork'
  BY <1>6, WorkerMoves DEF WorkerContinue, Goto, handlerVars, OnTheWay
<1>7. ASSUME NEW w \in Workers, WorkerTimeout(w)
      PROVE  AboutIsAlone' /\ NoSleepingWork'
  BY <1>7, WorkerMoves DEF WorkerTimeout, Goto, handlerVars, OnTheWay
<1>8. ASSUME NEW w \in Workers, SpuriousWakeup(w)
      PROVE  AboutIsAlone' /\ NoSleepingWork'
  BY <1>8, WorkerMoves DEF SpuriousWakeup, Goto, handlerVars, OnTheWay
<1>9. ASSUME NEW w \in Workers, JudgeStep(w)
      PROVE  AboutIsAlone' /\ NoSleepingWork'
  BY <1>9, JudgeMovesOn
<1>10. CASE ListenReturns \/ JoinAndClose \/ Signal
  <2>1. UNCHANGED <<queue, wpc, hpc, running>>
    BY <1>10 DEF ListenReturns, JoinAndClose, Signal, MainGoto, handlerVars, workerVars
  <2> QED
    BY <2>1 DEF WakeInv, AboutIsAlone, NoSleepingWork, Asleep, Ready, Notifying
<1>11. CASE ClearRunning
  <2>1. UNCHANGED <<queue, wpc>> /\ ~running'
    BY <1>11 DEF ClearRunning, MainGoto, workerVars
  <2> QED
    BY <2>1 DEF WakeInv, AboutIsAlone, NoSleepingWork
<1>12. CASE NotifyAll
  <2>1. Asleep' = {} /\ AboutIsAlone'
    BY <1>12 DEF NotifyAll, Asleep, WakeInv, AboutIsAlone
  <2> QED
    BY <2>1 DEF NoSleepingWork
<1>13. CASE ProcessExit \/ Crash
  <2>1. ~running' /\ AboutIsAlone'
    BY <1>13 DEF ProcessExit, Crash, LoseMemory, AboutIsAlone
  <2> QED
    BY <2>1 DEF NoSleepingWork
<1>14. CASE Start
  <2>1. Asleep' = {} /\ AboutIsAlone'
    BY <1>14 DEF Start, Asleep, AboutIsAlone
  <2> QED
    BY <2>1 DEF NoSleepingWork
<1> QED
  BY <1>1, <1>2, <1>3, <1>4, <1>5, <1>6, <1>7, <1>8, <1>9, <1>10, <1>11, <1>12, <1>13,
     <1>14 DEF ExecNext, WorkerStep, MainStep

\* While the service runs, enqueue and worker_loop leave no task in the queue with a
\* worker asleep and none on its way, for any number of workers and of handlers.
THEOREM NoTaskWaitsForSleepers == ExecSpec => []NoSleepingWork
<1>1. ExecInit => WakeInv
  BY WakeInit
<1>2. WakeInv /\ [ExecNext]_execVars => WakeInv'
  BY WakeStep
<1>3. WakeInv => NoSleepingWork
  BY DEF WakeInv
<1> QED
  BY <1>1, <1>2, <1>3, PTL DEF ExecSpec
=============================================================================
