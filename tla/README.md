# Verification of the online judge

The repository is a small online judge: a C++ server (httplib) that keeps users,
problems and submissions in MySQL, sessions in files, and compiles and runs the
submitted programs in worker threads. This directory holds TLA+ models of its
concurrent core, TLC configurations that check them on small instances, and proofs,
checked by TLAPS, that the most important properties hold for every instance.

Contents: [1 the system](#1-the-system) -
[2 the modules](#2-the-modules-and-how-they-correspond-to-the-code) -
[3 the runs](#3-what-is-checked) - [4 fairness](#4-fairness) -
[5 the proofs](#5-what-is-proved) - [6 disagreements](#6-disagreements-between-the-code-and-its-documents) -
[7 what is left out](#7-what-is-not-modelled-and-why) - [8 the plan](#8-plan)

## 1. The system

| Component | State | Operations | Interacts through |
|---|---|---|---|
| `submissions` table | one row per submission: `status`, `failed_case` | INSERT, UPDATE | MySQL |
| `ExecutorService` | `queue_` (at most `max_queue`), `running_`, worker threads; a directory per submission being judged | `init`, `enqueue`, `worker_loop`, `judge`, `update_status`, `shutdown` | mutex + condition variable with the handlers; `try_get`/`release` of the pool; sandboxed processes |
| `main` | the server, its signal handler | start, `listen`, then shutdown of executor, sessions, pool | the flags and threads of the services |
| `handle_submit` | none of its own | rate limit, size check, INSERT, `enqueue`, answer 202/429/503 | all of the above |
| `ConnectionPool` | `pool_`, mutex, condition variable | `get` (no limit), `try_get` (deadline), `release`, `close_all` | handlers and workers block in it |
| sessions of `AuthService` | one JSON file per login; `stop_cleanup_` | `login`, `logout`, `authenticate`, `cleanup_loop`, `shutdown` | only the file system orders them |
| rate limit of `AuthService` | `last_submit_` | `check_rate_limit` | a mutex; a clock read outside it |
| accounts of `AuthService` | `users` table | `register_user`, password hashing | MySQL, OpenSSL |
| sandbox | pipes, child processes, limits | `compile`, `run_sandbox`, `setup_seccomp_filter` | `fork` by several threads |
| `ProblemService`, problem/admin handlers | `problems`, `testcases` | list, detail, create, update, delete | pool |
| submission queries | - | `handle_get_submission(s)` | pool |
| front end | the page being shown | submit, poll every 500 ms, render | HTTP |
| router, config, logger, models | - | - | - |

What is hard about it: several handlers and workers share a bounded queue whose
condition variable is notified without its mutex; the process may stop or crash
between the INSERT of a row and its verdict, while rows and sandbox directories
survive; any system or database call of `judge` may fail; a pool of four connections
is shared by callers of which one nests; session files are created, read and unlinked
by name by threads that take no common lock; workers fork while others have pipes open
that are not close-on-exec; requests of several statements run without a transaction
while administrators edit the same rows; a clock is read before the mutex under
which the reading is used. What makes the components correct:

* a submission is judged by one worker, once; its verdict is the one the program earns
  and is never overwritten; every undecided row is accounted for;
* an accepted submission gets its verdict, and a signal ends the process once no request
  waits for a connection;
* a connection is in one hand; none leaks; a caller is answered;
* a logout is final; a session lasts until it expires; stale files disappear;
* a call of the sandbox returns, with the outcome of its own program;
* no row refers to a problem that is gone, and a verdict shows the test case it is about;
* submissions of a user are spaced by the window, and nothing else is refused.

## 2. The modules and how they correspond to the code

```
SubmissionLifecycle  <--implements--  Executor <- ExecutorInv <- MCExecutor
                                              ^- ExecutorProofs <- ExecutorInvProofs

RunJobs <- RunContract  <--implements--  Sandbox <- JudgeOutput <- MCSandbox
                          SandboxProofs -^            |   ^- TrimOutputProofs
                                                      v
                                                  TrimOutput

Store <- StoreInv <- MCStore              ConnectionPool <- MCConnectionPool
            ^- StoreProofs                       ^- ConnectionPoolProofs

Sessions <- MCSessions                    RateLimit <- MCRateLimit
    ^- SessionsProofs                         ^- RateLimitProofs
```

An arrow is EXTENDS, but for the two marked ones, which are refinements
(`INSTANCE ... WITH`, or the abstract specification itself, checked as a PROPERTY and
proved). The modules named `...Proofs` hold the theorems of section 5, for TLAPS. Each action carries in its comment the
call it stands for; `PROJECT.json` maps each definition to its lines.

How the modules fit together: Executor takes a worker through `judge` and leaves open
what a compilation or a run yields; RunContract is what those calls promise it and
Sandbox how they keep the promise; TrimOutput is the comparison between an `output` and
`pass` or `WA`, and JudgeOutput puts the two together. Store has the rows that `judge` reads and writes and the requests
around it, with the queue and the order of the workers abstracted away, because
Executor has them. ConnectionPool has the callers of all of these as threads that ask
for one or two connections at a time.

### SubmissionLifecycle

What the judge promises about a row: created `PENDING`, perhaps `JUDGING`, at most one
verdict. A program is abstracted to `[compiles, runs]`: whether it compiles and what
each test case, in order, shows (`pass`, `WA`, `RE`, `TLE`). `Earned` is the verdict
such a program deserves; `Degraded` what a failure of the machine may turn it into.
There is no `MLE`, because `run_sandbox` has no path that returns 2.

### Executor (with main and the queueing half of handle_submit)

| Model | Code |
|---|---|
| `program`, `status`, `failedCase` | the row; `program` is the `code` column |
| `hpc`, `hsub`, `reply` | a thread in `handle_submit`, from the rate limit to the answer: `insert` (`problem_exists`, the INSERT), `detail` (`get_problem_detail`), `enqueue`, `notify` |
| `queue`, `running` | `queue_`, `running_` |
| `wpc`, `wsub`, `wcase`, `wout` | a thread in `worker_loop`/`judge`: place, `task`, `case_idx`, arguments of the coming `update_status` |
| `main` | `serving` (listen), `draining` (signal seen), `stopping`, `notifying`, `joining`, `closed`, `down` |
| `dirs` | directories under `sandbox_tmp_dir` |
| `forgotten`, `hostFault` | ghosts: undecided rows no thread or queue has; submissions that met a failure |

`queue_mtx_` is not a variable. Between its lock and its unlock a thread does one
action, with two exceptions that are kept apart because the order matters: `enqueue`
calls `notify_one` after the unlock (`HEnqueue`, then `HNotify`), and
`wait_for(lock, 1s, pred)` is `about` (predicate false, mutex held) then `asleep`
(mutex released). `LockFree` says that nobody is `about`. `shutdown` writes the atomic
`running_` and calls `notify_all` without the mutex, so `ClearRunning` and `NotifyAll`
may fall while a worker is `about`; that worker is not woken. A worker that wakes
because of the timeout takes its place through `timeout`, since the predicate is then
tested once more.

A handler is at `insert` and at `detail` while it waits for connections, and `get()` has no
limit: nothing in `ExecSpec` or its fairness says that it goes on (section 4). A request
that was under way at the signal still inserts its row and pushes it.

Failures are nondeterministic at each call that reports one, counted against
`MaxFaults`: no connection, a failed query, an unwritable source file, a failed pipe or
fork, a failed UPDATE. `Crash` may happen anywhere and stands for SIGKILL, a fatal
signal and an exception that leaves a worker's function (`std::terminate`). `Start`
does what the program does: it reads no row, so nothing an earlier process left is
resumed.

### RunJobs, RunContract and Sandbox

A *job* is one call of `compile` or `run_sandbox`, described by what its child does: it
reads its input to the end or not, ends or not, writes more than a pipe holds or not,
and ends with status 0, another status, a signal, `SIGXCPU` (`cpu`), or the `SIGKILL` of the
OOM killer (`oom`).

| Model | Code |
|---|---|
| `job`, `pc`, `made`, `ret` | a worker in the call: the arguments, the place, the pipes made so far, the value returned last |
| `child` | its process: not forked, running, ended and not waited for |
| `inherited[w]` | the write ends of other workers' pipes that the child of `w` got at its fork, because nothing is close-on-exec, and keeps until it ends |
| `leaked` | descriptors the process holds and no thread knows of |
| `FdsUsed` | all descriptors in use: the `leaked` ones and those of the calls (`OpenFds`, at most six each); `pipe` fails when two more would pass `MaxFds` |
| `met` | ghost: another worker was in a call during this one |

The steps are those at which another worker can tell the difference: each `pipe`, `fork`
(or its failure), the close of the child's ends, `write` and `close` of stdin,
`waitpid` (`Reap`), the deadline, the reading of the outputs. Two things are assumed: a
child that can end does so before its deadline (a slow machine is not the code's), and
the input fits into a pipe, which holds 65536 bytes, since `testcases.input` is a TEXT
column of at most 65535. The output has no such bound: nothing reads it before the child
ends, so a run that `floods` never ends by itself.

RunContract has one step for a whole call. It says what `judge` may rely on: the outcome
the documents give the program (`OwnOutcome`: README.md:191-195 and, for a program that
the OOM killer ended, SPEC.md:264), with four exceptions that are actions of their own. One
is a failure of `fork`. The other three concede, and bound, what the code does against its
documents or to its descriptors: `TLE` instead of `RE` for a program ended by the OOM
killer (`OomAsTimeout`), `TLE` for a program that reads its input and had company
(`HeldUp`), and a failure for want of descriptors, only when those lost so far leave less
than six for each worker (`OutOfFds`). Its `lost` says what is lost: two descriptors at each
deadline, up to four by a call whose `pipe` fails, and nothing else.

### TrimOutput

`Trim` is the one pass of `trim_output` over the characters as a recursive function, with
its three loops of `pop_back`; the reference (`Line`) says which lines a text has. Two
texts are the same to `judge` exactly when they have the same lines, blanks at the ends of
lines and empty lines at the end aside.

### Store

| Model | Code |
|---|---|
| `problems`, `limit`, `cases`, `nextCase` | the tables `problems` and `testcases`; ids are not used again |
| `row`, `task`, `result` | a row of `submissions`; the limit it was queued with; the test cases `judge` fetched for it |
| `hpc`, `hproblem`, `hsub`, `hlimit`, `hcase`, `shown` | a handler between two statements of `handle_submit` or `handle_get_submission`, and the test case in its last answer |
| `unread`, `limitsHad`, `failedOn` | ghosts: whose limits could not be read, the limits a problem had between INSERT and enqueue, the test case a submission failed on |

Each statement is one action, because no request uses a transaction. The foreign keys of
`init.sql` are in the guards: an INSERT fails when its problem is gone, a DELETE of a
problem takes its test cases along and fails while it has submissions. `WA` stands for
every verdict on a test case and `CE` for every verdict before the first one.

### ConnectionPool

`Conns` are slots. The mutex is held through the ping and the reconnection, so
`Acquire` is one action; `release` notifies under the mutex, and waiting releases the
mutex and sleeps at once. `pool_` is used from the back. A caller is a request handler
(`get`), a handler that runs `get_problem_detail`, which takes a second connection while
it has one, or a worker (`try_get`, which tests once more when its deadline has
passed). The database is external: `DbFails` kills every connection, `Expire` one idle
connection, `DbRecovers` ends an outage. When `create_connection` fails, the slot moves
to the ghost `lost`. A thread is `busy` with a request or a submission (`Begin`, `Done`)
and makes any number of calls meanwhile (`Call`). After `Signal` no request begins, but one
that was under way still makes its calls, and a worker still takes submissions until it is
joined; `CloseAll` comes when the threads
of the server and the workers have been joined, as in `main`.

### Sessions

A session identifier is random and used once; a member of `Sids` is one login, one name
and one inode. `linked` says that the name exists, `written` that the content has been
flushed by `close`, `expires` is the date inside. `login` is two steps (`LoginOpen`,
`LoginClose`), `authenticate` up to three (open, read and decide, unlink when expired),
`logout` one unlink. `cleanup_expired` follows POSIX `readdir`: entries present at
`opendir` and not unlinked are returned (`mustSee`), those created later may be
(`maySee`). `cleanup_loop` holds `cleanup_mutex_` from the test of `stop_cleanup_` to
its wait (`about`); `SetStop` takes the same mutex. A crash keeps the files.

### RateLimit

`ReadClock` and `Check` are separate because `steady_clock::now()` is called before the
`lock_guard`. `Truncated` is `duration_cast<seconds>`, towards zero, `Ticks` instants
per second. The ghost `granted` is the history against which `Spaced` and
`RefusedForCause` are stated.

## 3. What is checked

| Run | Instance | What it shows |
|---|---|---|
| `executor_verdicts` | 2 submissions, 2 workers, 1 handler, queue of 1, 4 programs, 2 failures, 1 signal or crash | types; the inductive invariant `WorkInv`; `FreshSandbox`, `VerdictCorrect`, `AccountedFor`, `GracefulStop`, `FinalIsFinal`; Executor implements SubmissionLifecycle |
| `executor_service` | 2 submissions, 2 workers, 2 handlers, queue of 2, no failure, 1 signal or crash | `JudgedOnce`, `NoSleepingWork`; under fairness `AcceptedIsJudged`, and `ShutdownCompletes` once no request waits for a connection |
| `sandbox` | 2 workers, 8 jobs, 16 descriptors, 1 failed fork; texts of up to 4 characters | types, Sandbox implements RunContract, every call returns (`RunReturns`), `OutputsComparedByLines` |
| `store` | 2 problems, 1 submission, 2 handlers, 3 test cases, 2 limits besides the default, 1 failed read of the limits | types, the inductive invariant `StoreInv`, `RowsHaveProblems`, `LimitsOfTheProblem`, `ShownCaseIsFailed` |
| `pool` | 2 connections, 3 handlers (one may nest), 1 worker, any number of calls, 1 outage, 1 expiry, 1 signal | `ConnExclusive`, `CapacityKept`, `NoLostWakeup`, `NoHoldAndWait`, `NothingLeftOpen`; under fairness, with fewer nesting threads than connections, no slot lost and a load that ends, `AnsweredWhileWhole` and `StopsWhileWhole` |
| `sessions` | 2 sessions, 2 handlers, 1 signal or crash, 1 failed write | `LogoutIsFinal`, `LiveSessionKept`, `StopNotMissed`; under fairness `StaleFilesRemoved` and `StopCompletes` |
| `rate_limit` | 2 users, 2 handlers, 2 instants a second, a window of 2 s, 7 instants, 1 restart | `Spaced`, `RefusedForCause` |
| five more | see section 6 | a statement of a document that the code does not keep |

Why these bounds:

* *Executor.* A queue of one is full as soon as one task waits; a queue of two can
  hold a task behind the one that is taken, which `AcceptedIsJudged` depends on (under its mutant
  `SwappedOut` a worker swaps the queue out and keeps the first task only). Two workers are needed for
  every race between workers (one awake and one asleep, both awake, both asleep), and
  no action relates three. The four programs are the classes `judge` distinguishes:
  one that does not compile, one with no test case, one that passes all, and one that fails
  after a passed case with another to follow; `TLE` takes the way of `WA`, and `RE` comes
  with the failures, on the first case too. Two failures let one meet a verdict and another
  its UPDATE. `executor_service` has none: `AcceptedIsJudged` is about a machine that does not
  fail, and a failure leads a worker to no place that it does not reach without one. One stop is enough to leave rows behind and
  to start a second process over them. `program` is chosen in the initial state.
* *Sandbox.* What one child does to another run involves two workers. The jobs are one of
  each way a call can go: a compilation that succeeds or is killed, a run that reads its
  input, one that does not and dies of a signal, of its limit of time or by the OOM killer, one
  that hangs, one that writes too much. Sixteen descriptors are twelve for two runs at a time
  and four for two deadlines: the third leaves a run without its pipes, so exhaustion and the leak
  of a partly made set of pipes are reached. Calls are not bounded: `job` comes back to
  `NoJob`, and the descriptors bound the rest.
* *TrimOutput.* Four characters of four kinds (two letters, a blank, the newline) give
  blanks at both ends of two lines, and up to four empty lines. That this is enough is not
  left to the bound: `TrimComparesAll` holds for all texts.
* *Store.* Submissions meet only in the rows of their problem, so one is enough for a
  race with the administrators; two problems are there for the wrong one to be touched,
  and deleted while the other is used. Three test cases give a position with one before
  and one after. The default limit (2) is none of the limits set (1, 3), which tells it
  from every value an administrator chose. `CHECK_DEADLOCK FALSE`: ids and edits run out.
* *Pool.* Two connections and four threads make the pool full with two threads waiting, one
  of them with a deadline; one outage loses up to both slots. Calls are not bounded: `pc`
  comes back to `idle`. One thread nests, which is fewer than two: that this matters is shown by
  `pool_nesting_full`, where two do. `CHECK_DEADLOCK FALSE` stands in the configurations of the
  pool: the end of `main` ends the behaviours, and the nested wait is a deadlock of the
  program that one of the runs exhibits.
* *Sessions.* Each property is about one session; the second is there for the scan to
  be busy elsewhere. `Lifetime = 0` is not an expired session: the comparison is
  strict, so a session lives during the instant of its login and is expired in the next,
  which puts both sides of the boundary in two instants of the clock.
* *RateLimit.* Two instants a second make the truncation matter, and seven instants give
  room for a grant, a refusal and a second grant, with readings older than the order of
  the mutex.

Symmetry (permutations of submissions, workers, handlers, sessions, users) is used in
the runs that check invariants and step properties only, never with liveness.

Each property of a passing run has a mutant in its module: an operator, placed just
before the one it imitates, that changes the code the way a plausible bug would, and
under which the run's property fails. `PROJECT.json` pairs them.

## 4. Fairness

* Threads run once the operating system has them: weak fairness of each worker's steps,
  each handler's notification, the main thread after a signal, the cleanup thread and the
  threads that use the pool. In Executor this includes the end of a compilation and of a
  run; for a run Sandbox shows it (`RunReturns`) from weak fairness of the workers' steps
  and of the end of a child that can end: a child that hangs, floods its output or waits
  for an end of file is killed at the deadline, and the descriptors it kept from others
  go with it. That g++ ends is assumed (it has a limit of CPU time, none of elapsed time).
  Whether `judge` makes another call is its own business: `Call` has no fairness.
* A wait for a connection has no fairness in Executor. `get()` has no limit, and the runs
  `pool_nesting_full` and `pool_outage` show that it may not return; so a handler may stay at
  `insert` or `detail` for ever, `listen` then does not return, and `ShutdownCompletes` is
  stated from the time on at which no request is there (`Connecting = {}`).
  `AcceptedIsJudged` begins after the push and does not need it. Only `executor_refused`
  assumes that `get_problem_detail` returns (`ConnectedExecSpec`), so that its
  counterexample cannot be blamed on the pool.
* In ConnectionPool, weak fairness of a thread does not say that a woken `get()` finds a
  connection: newcomers may take it each time, and neither the mutex nor the condition
  variable has an order. `AnsweredWhileWhole`, `StopsWhileWhole` and `RequestAnswered` are
  therefore stated for loads that end (`LoadEnds`: from some time on no thread takes work or
  begins a call; how many there were before is not bounded). The first two also need fewer
  nesting threads than connections (`NestingFits`) and no lost slot. The code sees to
  neither. The two violating runs each leave one of them out.
* A thread that asks for a mutex gets it in the end although others keep taking it:
  strong fairness of `HEnqueue` for a handler that has come to it (workers take `queue_mtx_`
  every second) and of `SetStop`
  (the cleanup thread takes `cleanup_mutex_`).
* An outage of the database ends (`DbRecovers`), and `main` goes on after the joins
  (`CloseAll`).
* Nothing is owed to anyone else: requests, signals, crashes, restarts, failures,
  expiries and spurious wakeups may happen or not. In particular `WorkerTimeout` is fair
  because `wait_for` has a deadline, and `ShutdownCompletes` rests on it: the mutant
  `NeverTimesOut` (a `wait` without one) breaks it.

## 5. What is proved

For all values of the constants that satisfy the named assumptions
(`ProgramsAssumption`, `ExecutorAssumption`, `JobAssumption`, `PoolAssumption`,
`SessionsAssumption`, `RateAssumption`, `StoreAssumption`, `TrimAssumption`), with no bound on queue, threads,
programs, calls, rows, sessions, failures or restarts other than those constants. The
assumptions say that the sets of threads and of connections are finite (they are
vectors filled at the start), that the "none" values are not members, and that numbers
are natural.

| Theorem | Statement | Module |
|---|---|---|
| `ExecTypeCorrect` | `ExecSpec => []ExecTypeOK` | ExecutorProofs |
| `WorkInvariant` | `ExecSpec => []WorkInv` | ExecutorInvProofs |
| `SubmissionsJudgedOnce`, `SandboxesFresh`, `VerdictsCorrect`, `SubmissionsAccountedFor`, `StopsGracefully` | the invariants of section 3 | ExecutorInvProofs |
| `VerdictsFinal` | `ExecSpec => FinalIsFinal` | ExecutorInvProofs |
| `ExecutorRefinesLifecycle` | `ExecSpec => Lifecycle` | ExecutorInvProofs |
| `NoTaskWaitsForSleepers` | `ExecSpec => []NoSleepingWork` | ExecutorProofs |
| `SandboxInvariant`, `SandboxTypeCorrect` | `SandboxSpec => []SandboxInv`, `SandboxSpec => []SandboxTypeOK` | SandboxProofs |
| `SandboxRefinesContract` | `SandboxSpec => ImplementsContract` | SandboxProofs |
| `TrimComparesAll`, `TrimIsIdempotent` | `Trim(s) = Trim(u)` exactly when every line of `s` is that of `u`; `Trim(Trim(s)) = Trim(s)`, for texts of any length | TrimOutputProofs |
| `OutputsJudgedByLines` | `SandboxSpec => []OutputsComparedByLines` | TrimOutputProofs |
| `PoolInvariant`, `PoolTypeCorrect` | `PoolSpec => []PoolInv`, `PoolSpec => []PoolTypeOK` | ConnectionPoolProofs |
| `ConnectionsExclusive`, `CapacityIsKept`, `WakeupsNotLost`, `HoldAndWaitNeedsAll`, `NothingIsLeftOpen` | `PoolSpec => []` of `ConnExclusive`, `CapacityKept`, `NoLostWakeup`, `NoHoldAndWait`, `NothingLeftOpen` | ConnectionPoolProofs |
| `SessionInvariant`, `SessTypeCorrect` | `SessSpec => []SessInv`, `SessSpec => []SessTypeOK` | SessionsProofs |
| `LogoutStaysFinal`, `LiveSessionsStay`, `StopIsNotMissed` | `SessSpec => []` of `LogoutIsFinal`, `LiveSessionKept`, `StopNotMissed` | SessionsProofs |
| `RateTypeCorrect` | `RateSpec => []RateTypeOK` | RateLimitProofs |
| `SubmissionsSpaced`, `RefusalsJustified` | `RateSpec => []Spaced`, `RateSpec => []RefusedForCause` | RateLimitProofs |
| `StoreTypeCorrect`, `StoreInvariant` | `StoreSpec => []StoreTypeOK`, `StoreSpec => []StoreInv` | StoreProofs |
| `RowsKeepTheirProblems`, `LimitsAreTheProblems` | `StoreSpec => []RowsHaveProblems`, `StoreSpec => []LimitsOfTheProblem` | StoreProofs |
| `FailedCaseIsShown` | `StoreSpec => ShownCaseIsFailed` | StoreProofs |

Every invariant and every step property of the passing runs has its theorem.

**The argument for the executor.** None of the properties is inductive. That a verdict
is right when it is written depends on `wout`, which a worker carried since it left the
loop over the cases; that it is written once depends on the row still being undecided,
which depends on nobody else having the submission. `WorkInv` (ExecutorInv.tla) is the
conjunction that is inductive: where each submission is (`JudgedOnce`, and rows of
handlers and of the queue are `PENDING`), what a worker at each place knows about its
row and its program (cases `1..wcase` passed; `wout` is earned or degraded), which
directories exist, which rows are forgotten, and what holds when the process is down.
ExecutorInvProofs has a lemma for each action, or group of actions of the same shape,
and under it a step for each part of the invariant the action disturbs. The theorems
listed follow from `WorkInv` and types; `VerdictsFinal` and the refinement are step
properties that use `WorkInv` in the state before the step: only `MarkJudging` and
`Report` write rows, and `WorkInv` says that their row is undecided. `WorkInv` is also
an invariant of `executor_verdicts`.

**The argument for the wakeups.** `NoSleepingWork` compares the queue with two counts. A
push adds one task and one notification to come, a notification turns into a worker on
its way (or finds nobody asleep, and then nothing is claimed), a worker that leaves its
way with a task takes one of each side. What is missing for induction is the moment
between the predicate and the sleep: `AboutIsAlone` says that the queue is still empty
then, because the mutex is held (`LockFree` in `HEnqueue` and `WorkerTake`). `WakeInv` is
their conjunction with the types. The cardinalities move by one through the library's
facts on adding and removing an element.

**The argument for the sandbox.** The refinement needs to know, when a call ends, that
its answer is one the contract allows. `SandboxInv` ties the place of a worker to its
pipes and to its child (`PlaceOK`: a call that reads the outputs has waited for a child
that could end), and every inherited end of a pipe to two calls that overlap
(`StrangersMeet`), which have therefore met (`CallsMeet`). Hence a deadline either comes to a child that
never ends, or to one that reads its input while another child holds the end of its
pipe, and then `met` is true (`HeldUp`). For `OutOfFds`, `FdsUsed` counts a finite set
(`OpenFds`) in which each worker has at most six members, and a worker whose `pipe` fails at
most four, the two it asks for being the fifth and the sixth: so the failure means that those
lost leave less than six for each worker. `FdsUsedChange` says how the count changes when one worker moves, and
`FdsUsed` stays within `MaxFds`, as the type invariant says.

**The argument for trim_output.** A fact about texts of every length needs induction, and
the library's induction theorems take the statement as an operator, which the
provers here cannot instantiate. Its `WFMin` takes a set: a set of natural
numbers that is not empty has a least element (`LeastOf`), so that each induction becomes a
least counterexample (`UpTo`). It gives the existence of the recursive function of
the pass (`PassExists`), of the place where `WithoutTail` cuts (`TailCut`), of the ends of a
line, and the first difference of two texts. The proof has three parts. *The pass keeps
the lines* (`TrimKeepsLines`): equality of lines is not inductive, since the next character may
continue a line whose trailing blanks matter then; `Alike` adds the number of the line being
read and its text from its first letter on (`Open`), and each step of the pass appends the
same character on both sides (`AppendAlike`), skips a blank that no letter precedes
(`BlankAlike`) or drops blanks before a newline (`CutAlike`). *Its result is trimmed*
(`TrimTrims`): no blank is at an end of a line, and no newline at the end. *A trimmed
text is determined by its lines* (`CanonicalDiffer`): at the first difference, either one
line goes on and the other has ended, or their characters differ, or one text
ends where the other has more lines, the last of which has a letter. For the texts of the
run, lines beyond `MaxTextLen` are empty (`NoSuchLine`), so comparing as many as the run
does is enough.

**The argument for the pool.** `ConnExclusive` and `CapacityKept` are about sequences
used at the back; `PopBackProperties` and `PushBackProperties` say what they become,
and `ExclusiveSets` and `CapacitySets` restate the two as facts about sets of
connections. `PoolInv` adds `HoldersNest` (only a thread of `Nesting` asks with a
connection in its hands, and once) and `Aftermath` (a lost slot is not open; an end of
`main` finds every thread idle). `NoLostWakeup` is a count like `NoSleepingWork`. For
`NoHoldAndWait`, if every connection were with a thread that waits, the threads of
`Nesting` with a connection would map onto the connections (`HoldersCount`), of which
there are more.

**The argument for the sessions.** `LogoutIsFinal` is not inductive: a request admitted
with an old file would violate it. `LoggedOutGone` says that a logout leaves no file, which
lasts because `login` never uses an identifier again (`SessionsKnown`), and that a
request that began after it has none open. `LiveSessionKept` follows from
`FilesAccounted`: a session with a login has its file, unless it was logged out of, cut
short, or has expired; what a thread is about to unlink has one of these causes
(`DropsAreDue`), and keeps it until it does, because the clock only advances. For
`StopNotMissed`, `StopSeen` says that the cleanup thread is never between its test and
its wait once `stop_cleanup_` is set, which the mutex in `SetStop` achieves.
`SandboxInv`, `PoolInv`, `SessInv` and `WakeInv` hold in TLC's runs of the same
configurations, where they were tried before they were proved.

**What the proofs changed.** `OwnOutcome` and `Reported` (Sandbox) were CASE
expressions whose guards overlapped for a child that never ends: TLA+ leaves open which
arm is taken, TLC takes the first, and the refinement could not be proved. They
are now one IF and disjoint arms. `FdsUsed` was a fold over the workers and is a
cardinality. The finiteness of the threads became an assumption where they are counted.
The recursive function in `Trim` was a local definition and has a name (`Passed`) that the
proof can cite.

**The argument for the rate limit.** `RateInv` is inductive: the table holds the last
grant (`LastGranted`), so a grant is compared with the latest one, and the earlier ones
are earlier still by the window (`Spaced`); this covers a reading older than the last
grant, whose elapsed time is negative and hence too early. The lemma
`TruncationIsExact` carries the arithmetic: for a whole window `W >= 1`,
`Truncated(d) < W` exactly when `d < W * Ticks`, whatever the sign of `d`. `RateAssumption`
excludes a window of zero, which switches the limit off (and for which the equivalence
fails: less than a second below zero is truncated to zero).

**The argument for the store.** `RowsHaveProblems` is not inductive because an INSERT uses
a problem that an earlier statement found, nor is `LimitsOfTheProblem`, because the limit
that is queued was read earlier into a local variable. `StoreInv` adds what a handler
knows between two statements (its row exists, is of the problem it thinks, has no task
yet and no other handler; the limit it has read is one the problem had), that the limit
of a problem is among those seen by every submission that is not queued yet, that ids are
unique in the table and in each result, and that a `failed_case` is the position of
`failedOn` in the result. Types and `StoreInv` are proved together, one lemma for each
action: the position is in range because at most `MaxCases` cases have distinct ids
(`CasesAreFinite`, an injection). `FailedCaseIsShown` rests on two lemmas about the order
by `sort_order` and `id`: it is total where ids are unique, so that a case is known by the
number of those before it (`RowAtPosition`), and edits behind a case do not change what
precedes it (`SamePreceding`). `StoreInv` is also an invariant of the run `store`.

**Only model-checked.** Everything under fairness (`AcceptedIsJudged`,
`ShutdownCompletes`, `RunReturns`, `AnsweredWhileWhole`, `StopsWhileWhole`,
`StaleFilesRemoved`, `StopCompletes`), which the proof system does not treat.

## 6. Disagreements between the code and its documents

| Run | What the code does | What is written |
|---|---|---|
| `executor_refused` | a submission refused with 503 keeps its `PENDING` row for ever | README.md:198: `PENDING → JUDGING → ...` |
| `sandbox_tle` | the child of one run inherits the write end of the stdin of another: two programs that read their input to its end wait for each other until the deadline and get `TLE` | README.md:195: `TLE` is a program that takes too long |
| `pool_nesting_full` | `get_problem_detail` holds a connection while it waits for another: as many of them as connections never return | SPEC.md:44-45: answers within 200 ms, 20 users at a time |
| `pool_outage` | a failed reconnection loses a slot for good; with all lost, requests hang after the database is back | SPEC.md:268: a failed connection is answered with 500 |
| `sessions_login` | the cleanup thread may unlink the file of a login that is in progress; the user gets a cookie of no session | SPEC.md:357: users can log in and the cookie works |

Four more of the kind have no run. SPEC.md:264 gives `RE` to a program that crashes or
that the OOM killer ends, and executor_service.cc:417 takes every `SIGKILL` for a deadline,
so that the second gets `TLE`. RunContract has this as `OomAsTimeout`, an exception to what
it promises, and `ImplementsContract` shows that no other end of a program is affected.
SPEC.md:226 asks the scan of the sessions to wipe all files when their total size passes a
threshold (about 100 MB); `cleanup_expired` looks at no size and removes broken and expired
files only. `LiveSessionKept` states what this code gives; a scan that followed the SPEC
would break it. README.md:196 has a verdict `MLE`, which no path of
`run_sandbox` returns: a program that passes its limit of memory sees its allocations fail
and ends with `RE`. And admin.js:101 announces that deleting a problem deletes its
submissions, where the foreign key of `submissions` refuses the DELETE; the run `store`
has that refusal, and its mutant without it breaks `LimitsOfTheProblem`.

Failures of the machine are reported with the verdicts of the program (`RE`, `CE`);
`VerdictCorrect` says which, and that nothing else is.

Tasks in memory are lost at a stop or a crash; SPEC.md:107 says that the queue is in
memory, so this is a decision, stated by `AccountedFor`, and not a disagreement.

## 7. What is not modelled, and why

* **The outcome of a run inside Executor.** `Programs` gives the outcome of `compile` and of
  each run; Sandbox and RunContract are about one call at a time. The two are not
  composed: a `TLE` by `HeldUp` is, for Executor, a program whose run is `TLE`. So
  `VerdictCorrect` says that the service reports what the sandbox saw, and
  `ImplementsContract` how far that may differ from what the program does.
* **`setup_seccomp_filter` and the limits of the child**: a table of system calls and calls of
  `setrlimit`; what they do to a child is the way its job ends.
* **Measurements** (`time_used`, `memory_used`): written to the row and read by nothing that
  decides. `RUSAGE_CHILDREN` makes the second the largest of all children so far.
* **A compiler message longer than the column**: the UPDATE that carries it fails, which is
  a failure like another in Executor, although it comes back with each submission.
* **The pool inside the executor.** In Executor, a connection that does not come is a
  failure like another; in ConnectionPool, a worker makes plain calls. In the code a
  worker keeps its connection during all the runs of a submission, which only delays
  others: no run asks for a second one.
* **Statements that fail** in Store, except the read of the limits (`ReadLimitsFails`), the
  read of the test cases (`FailEarly`) and an INSERT or DELETE that a foreign key refuses. The
  others end their request without an effect, but for two that do not end it: after a failed UPDATE to `JUDGING` the worker goes on
  (Executor has this, `MarkJudging`), and when the SELECT of the shown test case fails
  the answer goes out without one, which says nothing false of it. Concurrent edits of one problem are the last writer's, by
  design of the API.
* **Lists** (`get_problem_list`, `handle_get_submissions`, the test cases for the
  administrator): one SELECT, no effect.
* **Passwords and registration** (OpenSSL, `crypt`, one INSERT guarded by a UNIQUE key), the
  **role** copied into a session, which nothing in the program changes, **routes,
  configuration, logging**, and the **pages**: no state, or state no other component reads.
* A **start that fails** (`init` of the pool, configuration): the process ends before any
  thread exists. `ConnectionPool::init` is modelled when it succeeds.
* A presented **session identifier** is one that `login` issued; others are simply
  not found.
* **SIGPIPE** is ignored by httplib and does not end the process.

## 8. Plan

The modules of sections 2 to 5 exist. What could follow:

1. Executor with RunContract in the place of `Programs`, if its states stay within reach
   of TLC: the product of two workers' calls is what makes it large.
2. Properties of RunContract itself (what a wrong answer may be blamed on, over many
   calls), which Sandbox then has by `SandboxRefinesContract`.
3. **ResultPoll**: the polling of the page against SubmissionLifecycle.
