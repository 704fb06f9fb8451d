---------------------------- MODULE ExecutorInv ----------------------------
(***************************************************************************)
(* The inductive invariant of the judging service. The safety properties   *)
(* of Executor about rows and verdicts follow from it; it adds to them     *)
(* what the threads know at each point of their code. That of the wakeups  *)
(* is a separate one.                                                      *)
(***************************************************************************)
EXTENDS Executor

\* The row of a submission that waits for a worker is still PENDING, and every
\* submission that a thread names has a row.
WaitingIsPending ==
  /\ \A h \in Handlers : hpc[h] \in Owning => status[hsub[h]] = "PENDING"
  /\ \A s \in QueuedSubs : status[s] = "PENDING"
  /\ \A w \in Workers :
       /\ wpc[w] = "mark" => status[wsub[w]] = "PENDING"
       /\ wsub[w] # NoSub => status[wsub[w]] # "none"

\* failed_case is written only with a verdict.
UndecidedHasNoCase == \A s \in Subs : status[s] \notin Verdicts => failedCase[s] = 0

\* What worker w knows of the program it judges, at each point of judge().
KnowsAt(w) ==
  /\ wpc[w] \notin {"run", "report"} => wcase[w] = 0
  /\ wpc[w] \in {"fetch", "run"} => program[wsub[w]].compiles
  /\ wpc[w] = "run" =>
       /\ wcase[w] <= Len(program[wsub[w]].runs)
       /\ \A i \in 1..wcase[w] : program[wsub[w]].runs[i] = "pass"
  /\ wpc[w] = "report" =>
       \/ Earned(program[wsub[w]], wout[w].v, wout[w].k)
       \/ wsub[w] \in hostFault /\ Degraded(program[wsub[w]], wout[w].v, wout[w].k)

JudgingKnows == \A w \in Workers : KnowsAt(w)

\* No directory exists for a submission that has not reached its Setup.
NoEarlySandbox ==
  \A s \in dirs :
    /\ status[s] # "none"
    /\ s \notin QueuedSubs
    /\ \A h \in Handlers : hpc[h] \in Owning => hsub[h] # s
    /\ \A w \in Workers : wpc[w] \in {"mark", "setup"} => wsub[w] # s

\* Once the workers are joined, or the process is gone, there is none.
StoppedIsEmpty ==
  main \in {"closed", "down"} => \A w \in Workers : wpc[w] = "exited"

\* A worker that is about to sleep has the mutex, and nothing came since it looked.
AboutIsAlone == \A w \in Workers : wpc[w] = "about" => queue = <<>>

\* The inductive invariant of the wakeups.
WakeInv == ExecTypeOK /\ AboutIsAlone /\ NoSleepingWork

\* The inductive invariant.
WorkInv ==
  /\ ExecTypeOK
  /\ JudgedOnce
  /\ AccountedFor
  /\ WaitingIsPending
  /\ UndecidedHasNoCase
  /\ JudgingKnows
  /\ NoEarlySandbox
  /\ VerdictCorrect
  /\ StoppedIsEmpty
=============================================================================
