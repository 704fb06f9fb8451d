------------------------------ MODULE Executor ------------------------------
(***************************************************************************)
(* The judging service: request handlers that insert a submission and push *)
(* it on the bounded in-memory queue, worker threads that take it, judge   *)
(* it and write its status, the main thread that starts and stops them,    *)
(* and the crash of the process. The queue mutex, the condition variable   *)
(* (with its one-second timed wait, its spurious wakeups and its lost      *)
(* notifications) and the atomic flag running_ are modelled step by step.  *)
(*                                                                         *)
(* Every step is what one thread does between two points where another one *)
(* can see or change shared state. The critical sections of enqueue and of *)
(* worker_loop are one step each, except that a worker that has found      *)
(* nothing to do holds the mutex while it goes to sleep (pc "about"):      *)
(* shutdown() stores running_ and notifies without the mutex.              *)
(*                                                                         *)
(* The MySQL server and its tables are outside: a statement either does    *)
(* what it says or fails. The connection pool is modelled in               *)
(* ConnectionPool; here a try_get that times out is one of the failures.   *)
(***************************************************************************)
EXTENDS Naturals, Sequences, FiniteSets, SubmissionLifecycle

CONSTANTS
  Workers,    \* the threads of workers_
  Handlers,   \* the threads of the HTTP server that run handle_submit
  NoSub,      \* "no submission"
  MaxQueue,   \* judge.max_queue
  MaxFaults,  \* bound of the model: failures of the machine or of a statement
  MaxStops    \* bound of the model: signals and crashes

ASSUME ExecutorAssumption ==
  /\ IsFiniteSet(Workers) /\ IsFiniteSet(Handlers)
  /\ NoSub \notin Subs
  /\ MaxQueue \in Nat
  /\ MaxFaults \in Nat
  /\ MaxStops \in Nat

VARIABLES
  reply,      \* what handle_submit answered: 202 "accepted", 503 "refused"
  hpc, hsub,  \* handlers: program counter, the row just inserted
  queue,      \* queue_
  wpc, wsub,  \* workers: program counter, task.submission_id
  wcase,      \* test cases passed so far (case_idx - 1 of the next run)
  wout,       \* the arguments of the update_status that ends judge()
  running,    \* running_
  main,       \* where the main thread is
  dirs,       \* sandbox directories on the disk
  forgotten,  \* ghost: rows no thread will write any more, though undecided
  faults,     \* failures so far
  stops       \* signals and crashes so far

handlerVars == <<reply, hpc, hsub>>
workerVars  == <<wpc, wsub, wcase, wout>>
rowVars     == <<program, status, failedCase, hostFault>>
boundVars   == <<faults, stops>>
execVars    == <<rowVars, handlerVars, queue, workerVars, running, main, dirs,
                 forgotten, boundVars>>

Verdict(v, k) == [v |-> v, k |-> k]
NoVerdict     == Verdict("AC", 0)
-----------------------------------------------------------------------------
(***************************************************************************)
(* Who holds what.                                                         *)
(***************************************************************************)

\* A handler in one of these has inserted its row and not yet called enqueue.
Owning == {"detail", "enqueue"}

\* Handlers that need a connection: get() makes them wait without a limit.
Connecting == {h \in Handlers : hpc[h] \in {"insert", "detail"}}

\* A worker in one of these has taken a task and has not yet written its verdict.
Judging == {"mark", "setup", "compile", "fetch", "run", "report"}

Asleep == {w \in Workers : wpc[w] = "asleep"}

\* queue_mtx_ is held across steps only by a worker about to block.
LockFree == \A w \in Workers : wpc[w] # "about"

QueuedSubs == {queue[i] : i \in 1..Len(queue)}

\* The submissions some thread of the process, or the queue, still holds.
Held == {hsub[h] : h \in {g \in Handlers : hpc[g] \in Owning}}
        \cup QueuedSubs
        \cup {wsub[w] : w \in {x \in Workers : wpc[x] \in Judging}}
-----------------------------------------------------------------------------
ExecInit ==
  /\ Init
  /\ reply = [s \in Subs |-> "none"]
  /\ hpc = [h \in Handlers |-> "idle"]
  /\ hsub = [h \in Handlers |-> NoSub]
  /\ queue = <<>>
  /\ wpc = [w \in Workers |-> "loop"]
  /\ wsub = [w \in Workers |-> NoSub]
  /\ wcase = [w \in Workers |-> 0]
  /\ wout = [w \in Workers |-> NoVerdict]
  /\ running = TRUE
  /\ main = "serving"
  /\ dirs = {}
  /\ forgotten = {}
  /\ faults = 0
  /\ stops = 0

\* Some call of this step fails; what the caller does then is the action's business.
SomethingFails ==
  /\ faults < MaxFaults
  /\ faults' = faults + 1
  /\ UNCHANGED stops
-----------------------------------------------------------------------------
(***************************************************************************)
(* handle_submit                                                           *)
(***************************************************************************)

\* A request is let in by the rate limit.
HBegin(h) ==
  /\ main = "serving"
  /\ hpc[h] = "idle"
  /\ hpc' = [hpc EXCEPT ![h] = "insert"]
  /\ UNCHANGED <<rowVars, reply, hsub, queue, workerVars, running, main, dirs,
                 forgotten, boundVars>>

\* There is no such problem, no connection, or the INSERT fails: 404 or 500.
HNoRow(h) ==
  /\ hpc[h] = "insert"
  /\ hpc' = [hpc EXCEPT ![h] = "idle"]
  /\ UNCHANGED <<rowVars, reply, hsub, queue, workerVars, running, main, dirs,
                 forgotten, boundVars>>

\* The row is inserted with status PENDING; the handler has its id. A request that
\* was under way at a signal does this too.
HInsert(h, s) ==
  /\ hpc[h] = "insert"
  /\ status[s] = "none"
  /\ status' = [status EXCEPT ![s] = "PENDING"]
  /\ hpc' = [hpc EXCEPT ![h] = "detail"]
  /\ hsub' = [hsub EXCEPT ![h] = s]
  /\ UNCHANGED <<program, failedCase, hostFault, reply, queue, workerVars,
                 running, main, dirs, forgotten, boundVars>>

\* get_problem_detail returns, with the problem's limits or the default ones.
HDetail(h) ==
  /\ hpc[h] = "detail"
  /\ hpc' = [hpc EXCEPT ![h] = "enqueue"]
  /\ UNCHANGED <<rowVars, reply, hsub, queue, workerVars, running, main, dirs,
                 forgotten, boundVars>>

QueueFull == Len(queue) >= MaxQueue

\* A refused submission has no rollback: the handler answers 503 and its row stays.
Refuse(h) ==
  /\ reply' = [reply EXCEPT ![hsub[h]] = "refused"]
  /\ forgotten' = forgotten \cup {hsub[h]}
  /\ hpc' = [hpc EXCEPT ![h] = "idle"]
  /\ hsub' = [hsub EXCEPT ![h] = NoSub]
  /\ UNCHANGED queue

\* The handler reads its submission again after it was moved into the queue.
PushMovedFrom(h) ==
  /\ queue' = Append(queue, hsub[h])
  /\ hpc' = [hpc EXCEPT ![h] = "notify"]
  /\ hsub' = [hsub EXCEPT ![h] = NoSub]
  /\ UNCHANGED <<reply, forgotten>>

\* The task goes to the back of the queue.
Push(h) ==
  /\ queue' = Append(queue, hsub[h])
  /\ hpc' = [hpc EXCEPT ![h] = "notify"]
  /\ UNCHANGED <<reply, forgotten, hsub>>

\* enqueue(), under queue_mtx_.
HEnqueue(h) ==
  /\ hpc[h] = "enqueue"
  /\ LockFree
  /\ IF QueueFull THEN Refuse(h) ELSE Push(h)
  /\ UNCHANGED <<rowVars, workerVars, running, main, dirs, boundVars>>

\* "Wake a worker only when the queue was empty before this push."
NotifyFirstOnly ==
  IF Asleep = {} \/ Len(queue) # 1
  THEN UNCHANGED wpc
  ELSE \E w \in Asleep : wpc' = [wpc EXCEPT ![w] = "lock"]

\* notify_one(): wakes any one of the sleeping threads, if there is one.
NotifyOne ==
  IF Asleep = {}
  THEN UNCHANGED wpc
  ELSE \E w \in Asleep : wpc' = [wpc EXCEPT ![w] = "lock"]

\* enqueue() notifies after it has released the mutex; the handler answers 202.
HNotify(h) ==
  /\ hpc[h] = "notify"
  /\ NotifyOne
  /\ reply' = [reply EXCEPT ![hsub[h]] = "accepted"]
  /\ hpc' = [hpc EXCEPT ![h] = "idle"]
  /\ hsub' = [hsub EXCEPT ![h] = NoSub]
  /\ UNCHANGED <<rowVars, queue, wsub, wcase, wout, running, main, dirs,
                 forgotten, boundVars>>
-----------------------------------------------------------------------------
(***************************************************************************)
(* worker_loop                                                             *)
(***************************************************************************)

\* Nothing but the worker's program counter changes.
Goto(w, pc) ==
  /\ wpc' = [wpc EXCEPT ![w] = pc]
  /\ UNCHANGED <<rowVars, handlerVars, queue, wsub, wcase, wout, running, main,
                 dirs, forgotten, boundVars>>

\* while (running_)
WorkerLoop(w) ==
  /\ wpc[w] = "loop"
  /\ Goto(w, IF running THEN "lock" ELSE "exited")

\* The task is copied from the front and left there.
FrontOnly(q) == q

\* The queue is swapped out and its first task taken.
SwappedOut(q) == <<>>

\* pop()
Popped(q) == Tail(q)

\* The worker has the mutex: it evaluates the predicate of wait_for, on entry
\* ("lock") or after the deadline ("timeout"), and takes a task if there is one.
WorkerTake(w) ==
  /\ wpc[w] \in {"lock", "timeout"}
  /\ LockFree
  /\ running /\ queue # <<>>
  /\ queue' = Popped(queue)
  /\ wpc' = [wpc EXCEPT ![w] = "mark"]
  /\ wsub' = [wsub EXCEPT ![w] = Head(queue)]
  /\ UNCHANGED <<rowVars, handlerVars, wcase, wout, running, main, dirs,
                 forgotten, boundVars>>

\* The predicate is true because running_ is false, or still false at the
\* deadline: `continue'.
WorkerContinue(w) ==
  /\ wpc[w] \in {"lock", "timeout"}
  /\ LockFree
  /\ ~running \/ (wpc[w] = "timeout" /\ queue = <<>>)
  /\ Goto(w, "loop")

\* The predicate is false: the worker is going to sleep and still has the mutex.
WorkerAbout(w) ==
  /\ wpc[w] = "lock"
  /\ LockFree
  /\ running /\ queue = <<>>
  /\ Goto(w, "about")

\* The mutex is released and the worker is on the condition variable, at once.
WorkerSleep(w) ==
  /\ wpc[w] = "about"
  /\ Goto(w, "asleep")

\* wait() without a deadline.
NeverTimesOut(w) == FALSE

\* One second has passed since the worker entered wait_for.
TimesOut(w) == wpc[w] = "asleep"

WorkerTimeout(w) ==
  /\ TimesOut(w)
  /\ Goto(w, "timeout")

\* A condition variable may wake a thread for no reason.
SpuriousWakeup(w) ==
  /\ wpc[w] = "asleep"
  /\ Goto(w, "lock")
-----------------------------------------------------------------------------
(***************************************************************************)
(* judge                                                                   *)
(***************************************************************************)

\* The worker gives the submission up when JUDGING cannot be written.
MarkJudgingOrGiveUp(w) ==
  /\ wpc[w] = "mark"
  /\ \/ /\ status' = [status EXCEPT ![wsub[w]] = "JUDGING"]
        /\ wpc' = [wpc EXCEPT ![w] = "setup"]
        /\ UNCHANGED boundVars
     \/ /\ SomethingFails
        /\ wpc' = [wpc EXCEPT ![w] = "cleanup"]
        /\ UNCHANGED status
  /\ UNCHANGED <<program, failedCase, hostFault, handlerVars, queue, wsub, wcase,
                 wout, running, main, dirs, forgotten>>

\* update_status(id, "JUDGING", ...): when no connection comes within five
\* seconds, or the UPDATE fails, the worker goes on as if it had been written.
MarkJudging(w) ==
  /\ wpc[w] = "mark"
  /\ \/ /\ status' = [status EXCEPT ![wsub[w]] = "JUDGING"]
        /\ UNCHANGED boundVars
     \/ /\ SomethingFails
        /\ UNCHANGED status
  /\ wpc' = [wpc EXCEPT ![w] = "setup"]
  /\ UNCHANGED <<program, failedCase, hostFault, handlerVars, queue, wsub, wcase,
                 wout, running, main, dirs, forgotten>>

\* Judging goes on; nothing failed.
Continue(w, pc) ==
  /\ wpc' = [wpc EXCEPT ![w] = pc]
  /\ UNCHANGED <<wout, hostFault, boundVars>>

\* The verdict is known and is about to be written.
Conclude(w, v, k) ==
  /\ wpc' = [wpc EXCEPT ![w] = "report"]
  /\ wout' = [wout EXCEPT ![w] = Verdict(v, k)]
  /\ UNCHANGED <<hostFault, boundVars>>

\* A system or database call fails and its caller turns that into a verdict.
ConcludeOnFailure(w, v, k) ==
  /\ SomethingFails
  /\ hostFault' = hostFault \cup {wsub[w]}
  /\ wpc' = [wpc EXCEPT ![w] = "report"]
  /\ wout' = [wout EXCEPT ![w] = Verdict(v, k)]

\* The sandbox directory is created and the source written in it.
Setup(w) ==
  /\ wpc[w] = "setup"
  /\ dirs' = dirs \cup {wsub[w]}
  /\ Continue(w, "compile") \/ ConcludeOnFailure(w, "RE", 0)
  /\ UNCHANGED <<program, status, failedCase, handlerVars, queue, wsub, wcase,
                 running, main, forgotten>>

\* The result of compile() is not looked at.
CompileAnyway(w) ==
  /\ wpc[w] = "compile"
  /\ Continue(w, "fetch")
  /\ UNCHANGED <<program, status, failedCase, handlerVars, queue, wsub, wcase,
                 running, main, dirs, forgotten>>

\* compile(): a failed pipe or fork returns false like an error of the compiler, and
\* a source file that a full disk cut short is one.
Compile(w) ==
  /\ wpc[w] = "compile"
  /\ \/ program[wsub[w]].compiles /\ Continue(w, "fetch")
     \/ ~program[wsub[w]].compiles /\ Conclude(w, "CE", 0)
     \/ ConcludeOnFailure(w, "CE", 0)
  /\ UNCHANGED <<program, status, failedCase, handlerVars, queue, wsub, wcase,
                 running, main, dirs, forgotten>>

\* The test cases are read; no connection within ten seconds, or a failed query,
\* is RE.
Fetch(w) ==
  /\ wpc[w] = "fetch"
  /\ Continue(w, "run") \/ ConcludeOnFailure(w, "RE", 0)
  /\ UNCHANGED <<program, status, failedCase, handlerVars, queue, wsub, wcase,
                 running, main, dirs, forgotten>>

\* case_idx is not incremented before the run but after it.
CaseNumberFromZero(w) == wcase[w]

\* case_idx during the next run: cases are numbered from one.
CaseNumber(w) == wcase[w] + 1

\* One turn of the loop over the test cases. The outcome of a run is that of
\* run_sandbox followed by the comparison of the trimmed outputs; run_sandbox
\* never returns 2, so no run is MLE.
RunCase(w) ==
  LET runs == program[wsub[w]].runs
      i    == wcase[w] + 1
  IN  /\ wpc[w] = "run"
      /\ i <= Len(runs)
      /\ \/ /\ runs[i] = "pass"
            /\ wcase' = [wcase EXCEPT ![w] = i]
            /\ Continue(w, "run")
         \/ /\ runs[i] # "pass"
            /\ Conclude(w, runs[i], CaseNumber(w))
            /\ UNCHANGED wcase
         \/ /\ ConcludeOnFailure(w, "RE", CaseNumber(w))
            /\ UNCHANGED wcase
      /\ UNCHANGED <<program, status, failedCase, handlerVars, queue, wsub,
                     running, main, dirs, forgotten>>

\* A failed case ends the loop, but all_passed is not consulted after it.
AllPassedUnchecked(w) ==
  /\ wpc[w] = "run"
  /\ wcase[w] <= Len(program[wsub[w]].runs)
  /\ Conclude(w, "AC", 0)
  /\ UNCHANGED <<program, status, failedCase, handlerVars, queue, wsub, wcase,
                 running, main, dirs, forgotten>>

\* No row is left and all_passed is true.
AllPassed(w) ==
  /\ wpc[w] = "run"
  /\ wcase[w] = Len(program[wsub[w]].runs)
  /\ Conclude(w, "AC", 0)
  /\ UNCHANGED <<program, status, failedCase, handlerVars, queue, wsub, wcase,
                 running, main, dirs, forgotten>>

\* The UPDATE of update_status: failed_case is set only when it is positive.
WriteVerdict(s, out) ==
  /\ status' = [status EXCEPT ![s] = out.v]
  /\ failedCase' = [failedCase EXCEPT ![s] = IF out.k > 0 THEN out.k ELSE @]

\* The last update_status of judge(); when it fails nobody tries again.
Report(w) ==
  /\ wpc[w] = "report"
  /\ \/ /\ WriteVerdict(wsub[w], wout[w])
        /\ UNCHANGED <<forgotten, boundVars>>
     \/ /\ SomethingFails
        /\ forgotten' = forgotten \cup {wsub[w]}
        /\ UNCHANGED <<status, failedCase>>
  /\ wpc' = [wpc EXCEPT ![w] = "cleanup"]
  /\ wcase' = [wcase EXCEPT ![w] = 0]
  /\ wout' = [wout EXCEPT ![w] = NoVerdict]
  /\ UNCHANGED <<program, hostFault, handlerVars, queue, wsub, running, main, dirs>>

\* fs::remove_all(sandbox_dir)
Cleanup(w) ==
  /\ wpc[w] = "cleanup"
  /\ dirs' = dirs \ {wsub[w]}
  /\ wpc' = [wpc EXCEPT ![w] = "loop"]
  /\ wsub' = [wsub EXCEPT ![w] = NoSub]
  /\ UNCHANGED <<rowVars, handlerVars, queue, wcase, wout, running, main,
                 forgotten, boundVars>>
-----------------------------------------------------------------------------
(***************************************************************************)
(* main: listen, shutdown, process end, restart                            *)
(***************************************************************************)

\* Nothing but the place of the main thread changes.
MainGoto(from, to) ==
  /\ main = from
  /\ main' = to
  /\ UNCHANGED <<rowVars, handlerVars, queue, workerVars, dirs, forgotten, faults>>

\* SIGINT or SIGTERM: Server::stop, no connection is accepted any more.
Signal ==
  /\ stops < MaxStops
  /\ stops' = stops + 1
  /\ MainGoto("serving", "draining")
  /\ UNCHANGED running

\* listen returns when the threads of the HTTP server have finished their requests.
ListenReturns ==
  /\ \A h \in Handlers : hpc[h] = "idle"
  /\ MainGoto("draining", "stopping")
  /\ UNCHANGED <<running, stops>>

\* shutdown(): running_ = false, without queue_mtx_ ...
ClearRunning ==
  /\ running' = FALSE
  /\ MainGoto("stopping", "notifying")
  /\ UNCHANGED stops

\* ... then notify_all, which does not reach a worker that is about to sleep.
NotifyAll ==
  /\ main = "notifying"
  /\ main' = "joining"
  /\ wpc' = [w \in Workers |-> IF w \in Asleep THEN "lock" ELSE wpc[w]]
  /\ UNCHANGED <<rowVars, handlerVars, queue, wsub, wcase, wout, running, dirs,
                 forgotten, boundVars>>

\* The threads are not waited for.
Detached == TRUE

AllJoined == \A w \in Workers : wpc[w] = "exited"

\* The workers are joined; the sessions and the connection pool are closed.
JoinAndClose ==
  /\ AllJoined
  /\ MainGoto("joining", "closed")
  /\ UNCHANGED <<running, stops>>

\* The memory of the process is gone; rows and sandbox directories stay.
LoseMemory ==
  /\ main' = "down"
  /\ running' = FALSE
  /\ queue' = <<>>
  /\ hpc' = [h \in Handlers |-> "idle"]
  /\ hsub' = [h \in Handlers |-> NoSub]
  /\ wpc' = [w \in Workers |-> "exited"]
  /\ wsub' = [w \in Workers |-> NoSub]
  /\ wcase' = [w \in Workers |-> 0]
  /\ wout' = [w \in Workers |-> NoVerdict]
  /\ forgotten' = forgotten \cup Held
  /\ UNCHANGED <<rowVars, reply, dirs, faults>>

\* main returns.
ProcessExit ==
  /\ main = "closed"
  /\ LoseMemory
  /\ UNCHANGED stops

\* SIGKILL, a fatal signal, or an exception that leaves a worker (std::terminate).
Crash ==
  /\ main # "down"
  /\ stops < MaxStops
  /\ stops' = stops + 1
  /\ LoseMemory

\* A row left JUDGING by an earlier process is queued again.
StartRequeuing ==
  /\ main = "down"
  /\ main' = "serving"
  /\ running' = TRUE
  /\ wpc' = [w \in Workers |-> "loop"]
  /\ \E s \in Subs : status[s] = "JUDGING" /\ queue' = <<s>>
  /\ UNCHANGED <<rowVars, handlerVars, wsub, wcase, wout, dirs, forgotten, boundVars>>

\* init() starts the workers. Nothing reads the rows an earlier process left.
Start ==
  /\ main = "down"
  /\ main' = "serving"
  /\ running' = TRUE
  /\ wpc' = [w \in Workers |-> "loop"]
  /\ wsub' = [w \in Workers |-> NoSub]
  /\ UNCHANGED <<rowVars, handlerVars, queue, wcase, wout, dirs, forgotten,
                 boundVars>>
-----------------------------------------------------------------------------
JudgeStep(w) ==
  \/ MarkJudging(w) \/ Setup(w) \/ Compile(w) \/ Fetch(w)
  \/ RunCase(w) \/ AllPassed(w) \/ Report(w) \/ Cleanup(w)

WorkerStep(w) ==
  \/ WorkerLoop(w) \/ WorkerTake(w) \/ WorkerContinue(w) \/ WorkerAbout(w)
  \/ WorkerSleep(w) \/ WorkerTimeout(w)
  \/ JudgeStep(w)

MainStep ==
  \/ ListenReturns \/ ClearRunning \/ NotifyAll \/ JoinAndClose \/ ProcessExit

ExecNext ==
  \/ \E h \in Handlers :
       \/ HBegin(h) \/ HNoRow(h) \/ (\E s \in Subs : HInsert(h, s)) \/ HDetail(h)
       \/ HEnqueue(h) \/ HNotify(h)
  \/ \E w \in Workers : WorkerStep(w) \/ SpuriousWakeup(w)
  \/ MainStep
  \/ Signal \/ Crash \/ Start

ExecSpec == ExecInit /\ [][ExecNext]_execVars

\* Threads keep running once the scheduler has them, and a sandboxed program
\* ends (run_sandbox kills it at its deadline). A handler that asks for the mutex
\* gets it in the end though workers take it every second: strong fairness. A handler
\* that asks for a connection (HInsert, HDetail) may wait for ever: get() has no limit.
\* No signal, crash, restart, request, failure or spurious wakeup is owed to anyone.
Fairness ==
  /\ \A h \in Handlers : SF_execVars(HEnqueue(h)) /\ WF_execVars(HNotify(h))
  /\ \A w \in Workers : WF_execVars(WorkerStep(w))
  /\ WF_execVars(MainStep)

FairExecSpec == ExecSpec /\ Fairness

\* Connections come, besides: the pool is large enough and the database up.
ConnectedExecSpec == FairExecSpec /\ \A h \in Handlers : WF_execVars(HDetail(h))
-----------------------------------------------------------------------------
(***************************************************************************)
(* Properties                                                              *)
(***************************************************************************)

RowTypeOK ==
  /\ program \in [Subs -> Programs]
  /\ status \in [Subs -> {"none", "PENDING", "JUDGING"} \cup Verdicts]
  /\ failedCase \in [Subs -> Nat]
  /\ hostFault \subseteq Subs
  /\ dirs \subseteq Subs
  /\ forgotten \subseteq Subs

HandlerTypeOK ==
  /\ reply \in [Subs -> {"none", "accepted", "refused"}]
  /\ hpc \in [Handlers -> {"idle", "insert", "notify"} \cup Owning]
  /\ hsub \in [Handlers -> Subs \cup {NoSub}]
  /\ \A h \in Handlers : hsub[h] = NoSub <=> hpc[h] \in {"idle", "insert"}

WorkerTypeOK ==
  /\ wpc \in [Workers -> {"loop", "lock", "about", "asleep", "timeout", "cleanup",
                          "exited"} \cup Judging]
  /\ wsub \in [Workers -> Subs \cup {NoSub}]
  /\ \A w \in Workers : wsub[w] = NoSub <=> wpc[w] \notin Judging \cup {"cleanup"}
  /\ wcase \in [Workers -> Nat]
  /\ wout \in [Workers -> [v : Verdicts, k : Nat]]

MainTypeOK ==
  /\ running \in BOOLEAN
  /\ main \in {"serving", "draining", "stopping", "notifying", "joining", "closed",
               "down"}
  /\ faults \in 0..MaxFaults
  /\ stops \in 0..MaxStops

\* The type invariant of the judging service.
ExecTypeOK ==
  RowTypeOK /\ HandlerTypeOK /\ queue \in Seq(Subs) /\ WorkerTypeOK /\ MainTypeOK

\* A submission is in one place only: with the handler that inserted it, in the
\* queue once, or with one worker. Two workers never judge it at the same time,
\* in the same directory.
JudgedOnce ==
  /\ \A i, j \in 1..Len(queue) : queue[i] = queue[j] => i = j
  /\ \A w1, w2 \in Workers :
       wsub[w1] = wsub[w2] /\ wsub[w1] # NoSub => w1 = w2
  /\ \A w \in Workers : wsub[w] \notin QueuedSubs
  /\ \A h \in Handlers : hpc[h] \in Owning =>
       /\ hsub[h] \notin QueuedSubs
       /\ \A w \in Workers : wsub[w] # hsub[h]
       /\ \A g \in Handlers : hpc[g] \in Owning /\ hsub[g] = hsub[h] => g = h

\* A worker finds the directory of its submission absent: judge() neither checks
\* nor empties it, so a leftover of an earlier judging would be reused.
FreshSandbox == \A w \in Workers : wpc[w] \in {"mark", "setup"} => wsub[w] \notin dirs

\* A written verdict is the one the program earns, at the case where it first
\* fails, unless the machine failed while it was judged, and then it is one of the
\* verdicts the error paths of judge() write.
VerdictCorrect ==
  \A s \in Subs : status[s] \in Verdicts =>
    \/ Earned(program[s], status[s], failedCase[s])
    \/ s \in hostFault /\ Degraded(program[s], status[s], failedCase[s])

\* Every undecided row either is held by a thread or the queue, or is forgotten:
\* refused with 503, lost with the memory of the process, or its last UPDATE
\* failed. Never both, and a decided row is neither.
AccountedFor ==
  \A s \in Subs :
    /\ status[s] \in {"PENDING", "JUDGING"} <=> s \in Held \cup forgotten
    /\ ~(s \in Held /\ s \in forgotten)

\* The workers on their way to the predicate of wait_for, and the handlers that have
\* pushed and not yet notified.
Ready     == {w \in Workers : wpc[w] \in {"loop", "lock", "timeout"}}
Notifying == {h \in Handlers : hpc[h] = "notify"}

\* While the service runs, a worker sleeps only if each task in the queue has a
\* worker awake, on its way to the predicate, or a notification still to come:
\* no task waits for a timeout while a worker is idle.
NoSleepingWork ==
  running /\ Asleep # {} =>
    Len(queue) <= Cardinality(Ready) + Cardinality(Notifying)

\* After an orderly stop no row is left JUDGING except those whose last UPDATE
\* failed or that an earlier process left behind: shutdown() waits for the
\* submissions being judged, and the pool is closed after their last write.
GracefulStop ==
  main = "closed" => \A s \in Subs : status[s] = "JUDGING" => s \in forgotten

\* A verdict is final: no later write, of any worker or any later process,
\* changes the row.
FinalIsFinal ==
  [][\A s \in Subs : status[s] \in Verdicts =>
       UNCHANGED <<status[s], failedCase[s]>>]_execVars

\* The judging service implements the life cycle of a submission.
Lifecycle == Spec

\* While the process is neither stopped nor met by a failure, every submission
\* answered with 202 gets its verdict: no accepted task is left in the queue, with a
\* sleeping worker or with a worker that lost it.
AcceptedIsJudged ==
  \A s \in Subs :
    reply[s] = "accepted" ~> status[s] \in Verdicts \/ faults > 0 \/ stops > 0

\* Once no request waits for a connection any more, a signal ends the process: every
\* worker leaves its loop even when notify_all found it between its predicate and its
\* sleep. A request that waits in get() for ever keeps listen, and so the process, from
\* its end; when that cannot be is StopsWhileWhole of ConnectionPool.
ShutdownCompletes == main = "draining" /\ Connecting = {} ~> main = "down"

\* README: a row that is PENDING goes on to JUDGING and a verdict.
PendingIsDecided ==
  \A s \in Subs : status[s] = "PENDING" ~> status[s] \in Verdicts
=============================================================================
