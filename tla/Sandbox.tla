------------------------------ MODULE Sandbox ------------------------------
(***************************************************************************)
(* compile and run_sandbox at the level of processes: worker threads of    *)
(* one process that make pipes, fork a child, close the child's ends, feed *)
(* it, wait for it with a deadline and read what it wrote.                 *)
(*                                                                         *)
(* The pipes are not close-on-exec. A child gets a copy of every           *)
(* descriptor the process has at its fork, the pipes of other workers      *)
(* included, closes its own three and keeps the rest as long as it lives.  *)
(* A write end kept by a stranger keeps the pipe open: its reader sees no  *)
(* end of file. Read ends kept by strangers have no effect here: the input *)
(* of a test case is a TEXT column and fits into a pipe, and the process   *)
(* ignores SIGPIPE.                                                        *)
(*                                                                         *)
(* The machine is assumed to be fast: a child that can end does so before  *)
(* its deadline. What a deadline cuts off is then really stuck.            *)
(***************************************************************************)
EXTENDS RunJobs

VARIABLES
  job,        \* the call each worker is in
  ret,        \* what its last call returned
  pc,         \* where it is in the call
  made,       \* pipes made so far
  child,      \* its child: none, running, ended (not yet waited for)
  inherited,  \* write ends of other workers' pipes that its child keeps open
  leaked,     \* descriptors no thread knows of any more
  forkFails,  \* failures of fork so far
  met         \* ghost: another worker was in a call during this one

vars == <<job, ret, pc, made, child, inherited, leaked, forkFails, met>>
-----------------------------------------------------------------------------
(***************************************************************************)
(* Pipes and descriptors.                                                  *)
(***************************************************************************)

\* stdin, stdout and stderr of a run; stderr of the compiler.
PipesOf(j) == IF j.kind = "run" THEN 3 ELSE 1

\* The process still has the write end of the child's input.
InOpen(w) ==
  /\ job[w] # NoJob
  /\ job[w].kind = "run"
  /\ \/ pc[w] = "piping" /\ made[w] >= 1
     \/ pc[w] \in {"forked", "feeding"}

\* The process still has the write end of the child's output.
OutOpen(w) ==
  /\ job[w] # NoJob
  /\ \/ pc[w] = "piping" /\ made[w] >= (IF job[w].kind = "run" THEN 2 ELSE 1)
     \/ pc[w] = "forked"

FdsAt(w) ==
  CASE pc[w] \in {"piping", "forked"}                           -> 2 * made[w]
    [] pc[w] = "feeding"                                        -> 3
    [] pc[w] = "waiting"                                        -> 2
    [] pc[w] = "reading" /\ job[w].kind = "run"                 -> 2
    [] pc[w] = "reading" /\ job[w].kind = "compile"             -> 1
    [] OTHER                                                    -> 0

\* One element for each descriptor that a worker has open.
OpenFds == {d \in Workers \X (1..6) : d[2] <= FdsAt(d[1])}

FdsUsed == leaked + Cardinality(OpenFds)

\* A stranger's child keeps this end of a pipe of w open.
KeptOpen(w, end) == \E v \in Workers \ {w} : <<w, end>> \in inherited[v]

\* The child has read its input to the end, if it reads it, and is not stuck.
CanEnd(w) ==
  /\ child[w] = "running"
  /\ ~NeverEnds(job[w])
  /\ job[w].reads => pc[w] = "waiting" /\ ~KeptOpen(w, "in")
-----------------------------------------------------------------------------
SandboxInit ==
  /\ job = [w \in Workers |-> NoJob]
  /\ ret = [w \in Workers |-> "none"]
  /\ pc = [w \in Workers |-> "idle"]
  /\ made = [w \in Workers |-> 0]
  /\ child = [w \in Workers |-> "none"]
  /\ inherited = [w \in Workers |-> {}]
  /\ leaked = 0
  /\ forkFails = 0
  /\ met = [w \in Workers |-> FALSE]

\* judge() calls compile or run_sandbox.
Call(w, j) ==
  /\ pc[w] = "idle"
  /\ job' = [job EXCEPT ![w] = j]
  /\ ret' = [ret EXCEPT ![w] = "none"]
  /\ pc' = [pc EXCEPT ![w] = "piping"]
  /\ met' = [v \in Workers |-> IF v = w THEN \E u \in Workers : pc[u] # "idle"
                               ELSE met[v] \/ pc[v] # "idle"]
  /\ UNCHANGED <<made, child, inherited, leaked, forkFails>>

\* The call returns without a waitpid for its child.
ReturnUnreaped(w, a, n) ==
  /\ job' = [job EXCEPT ![w] = NoJob]
  /\ ret' = [ret EXCEPT ![w] = a]
  /\ pc' = [pc EXCEPT ![w] = "idle"]
  /\ made' = [made EXCEPT ![w] = 0]
  /\ leaked' = leaked + n
  /\ met' = [met EXCEPT ![w] = FALSE]
  /\ UNCHANGED <<child, inherited>>

\* The call returns; its pipes are closed but for the n descriptors it forgets. Ends
\* of them that strangers keep mean nothing any more.
Return(w, a, n) ==
  /\ job' = [job EXCEPT ![w] = NoJob]
  /\ ret' = [ret EXCEPT ![w] = a]
  /\ pc' = [pc EXCEPT ![w] = "idle"]
  /\ made' = [made EXCEPT ![w] = 0]
  /\ child' = [child EXCEPT ![w] = "none"]
  /\ inherited' = [v \in Workers |-> IF v = w THEN {}
                                     ELSE inherited[v] \ ({w} \X {"in", "out"})]
  /\ leaked' = leaked + n
  /\ met' = [met EXCEPT ![w] = FALSE]

Pipe(w) ==
  /\ pc[w] = "piping"
  /\ made[w] < PipesOf(job[w])
  /\ FdsUsed + 2 <= MaxFds
  /\ made' = [made EXCEPT ![w] = @ + 1]
  /\ UNCHANGED <<job, ret, pc, child, inherited, leaked, forkFails, met>>

\* The pipes made before the one that fails are not closed.
PipeFails(w) ==
  /\ pc[w] = "piping"
  /\ made[w] < PipesOf(job[w])
  /\ FdsUsed + 2 > MaxFds
  /\ Return(w, Failure(job[w]), 2 * made[w])
  /\ UNCHANGED forkFails

Fork(w) ==
  /\ pc[w] = "piping"
  /\ made[w] = PipesOf(job[w])
  /\ pc' = [pc EXCEPT ![w] = "forked"]
  /\ child' = [child EXCEPT ![w] = "running"]
  /\ inherited' = [inherited EXCEPT ![w] =
       {<<v, "in">> : v \in {u \in Workers \ {w} : InOpen(u)}} \cup
       {<<v, "out">> : v \in {u \in Workers \ {w} : OutOpen(u)}}]
  /\ UNCHANGED <<job, ret, made, leaked, forkFails, met>>

\* The way out of a failed fork closes stdin's pipe only.
ForkFailsHalfClosed(w) ==
  /\ pc[w] = "piping"
  /\ made[w] = PipesOf(job[w])
  /\ forkFails < MaxForkFails
  /\ forkFails' = forkFails + 1
  /\ Return(w, Failure(job[w]), 2 * (made[w] - 1))

ForkFails(w) ==
  /\ pc[w] = "piping"
  /\ made[w] = PipesOf(job[w])
  /\ forkFails < MaxForkFails
  /\ forkFails' = forkFails + 1
  /\ Return(w, Failure(job[w]), 0)

\* The parent closes the child's ends. compile goes on to read; a run has to be fed.
CloseChildEnds(w) ==
  /\ pc[w] = "forked"
  /\ pc' = [pc EXCEPT ![w] = IF job[w].kind = "run" THEN "feeding" ELSE "reading"]
  /\ UNCHANGED <<job, ret, made, child, inherited, leaked, forkFails, met>>

\* write does not block; the close gives the child the end of its input.
Feed(w) ==
  /\ pc[w] = "feeding"
  /\ pc' = [pc EXCEPT ![w] = "waiting"]
  /\ UNCHANGED <<job, ret, made, child, inherited, leaked, forkFails, met>>

\* The child ends, and its descriptors with it.
ChildEnds(w) ==
  /\ CanEnd(w)
  /\ child' = [child EXCEPT ![w] = "ended"]
  /\ inherited' = [inherited EXCEPT ![w] = {}]
  /\ UNCHANGED <<job, ret, pc, made, leaked, forkFails, met>>

\* waitpid with WNOHANG finds the child ended.
Reap(w) ==
  /\ pc[w] = "waiting"
  /\ child[w] = "ended"
  /\ pc' = [pc EXCEPT ![w] = "reading"]
  /\ child' = [child EXCEPT ![w] = "none"]
  /\ UNCHANGED <<job, ret, made, inherited, leaked, forkFails, met>>

\* Each turn of the loop takes its own start: the deadline never comes.
DeadlineFromLastLook(w) ==
  /\ pc[w] = "waiting"
  /\ child[w] = "running"
  /\ ~CanEnd(w)
  /\ UNCHANGED vars

\* The deadline: kill, waitpid, and a return that leaves the read ends of stdout and
\* stderr open.
Deadline(w) ==
  /\ pc[w] = "waiting"
  /\ child[w] = "running"
  /\ ~CanEnd(w)
  /\ Return(w, "TLE", 2)
  /\ UNCHANGED forkFails

\* What the status of the child becomes: SIGKILL counts as a timeout like SIGXCPU.
Reported(j) ==
  IF j.kind = "compile" THEN (IF j.end = "exit0" THEN "compiled" ELSE "CE")
  ELSE CASE j.end \in {"cpu", "oom"} -> "TLE"
         [] j.end = "exit0"         -> "output"
         [] OTHER                   -> "RE"

\* Both pipes are read to their end: no stranger may keep them open.
ReadRun(w) ==
  /\ pc[w] = "reading"
  /\ job[w].kind = "run"
  /\ ~KeptOpen(w, "out")
  /\ Return(w, Reported(job[w]), 0)
  /\ UNCHANGED forkFails

\* compile reads first and waits for the child afterwards, without a deadline.
ReadCompile(w) ==
  /\ pc[w] = "reading"
  /\ job[w].kind = "compile"
  /\ child[w] = "ended"
  /\ ~KeptOpen(w, "out")
  /\ Return(w, Reported(job[w]), 0)
  /\ UNCHANGED forkFails
-----------------------------------------------------------------------------
WorkerStep(w) ==
  Pipe(w) \/ PipeFails(w) \/ Fork(w) \/ ForkFails(w) \/ CloseChildEnds(w) \/ Feed(w)
  \/ Reap(w) \/ Deadline(w) \/ ReadRun(w) \/ ReadCompile(w)

SandboxNext ==
  \E w \in Workers : (\E j \in Jobs : Call(w, j)) \/ WorkerStep(w) \/ ChildEnds(w)

\* Threads and children are scheduled; whether judge() calls again is its business.
SandboxSpec ==
  /\ SandboxInit /\ [][SandboxNext]_vars
  /\ \A w \in Workers : WF_vars(WorkerStep(w)) /\ WF_vars(ChildEnds(w))
-----------------------------------------------------------------------------
(***************************************************************************)
(* Properties.                                                             *)
(***************************************************************************)
SandboxTypeOK ==
  /\ job \in [Workers -> Jobs \cup {NoJob}]
  /\ ret \in [Workers -> Answers]
  /\ pc \in [Workers -> {"idle", "piping", "forked", "feeding", "waiting", "reading"}]
  /\ made \in [Workers -> 0..3]
  /\ child \in [Workers -> {"none", "running", "ended"}]
  /\ inherited \in [Workers -> SUBSET (Workers \X {"in", "out"})]
  /\ leaked \in Nat
  /\ FdsUsed <= MaxFds
  /\ forkFails \in 0..MaxForkFails
  /\ met \in [Workers -> BOOLEAN]
  /\ \A w \in Workers : /\ pc[w] = "idle" <=> job[w] = NoJob
                        /\ pc[w] \in {"idle", "piping"} => child[w] = "none"
                        /\ child[w] # "running" => inherited[w] = {}

\* Two workers that are in calls at the same time have met.
CallsMeet ==
  \A v, w \in Workers : v # w /\ job[v] # NoJob /\ job[w] # NoJob => met[v]

\* A child keeps ends of pipes of calls that are under way, its own call being another.
StrangersMeet ==
  \A v, w \in Workers :
    v # w /\ (<<w, "in">> \in inherited[v] \/ <<w, "out">> \in inherited[v]) =>
      job[v] # NoJob /\ job[w] # NoJob

\* Where a call is, tells its kind, its pipes and whether its child could end.
PlaceOK(w) ==
  /\ pc[w] = "idle" => made[w] = 0
  /\ pc[w] = "piping" => made[w] <= PipesOf(job[w])
  /\ pc[w] = "forked" => made[w] = PipesOf(job[w])
  /\ pc[w] \in {"feeding", "waiting"} => job[w].kind = "run"
  /\ pc[w] \in {"forked", "feeding", "waiting"} => child[w] # "none"
  /\ child[w] = "running" => job[w] # NoJob
  /\ child[w] = "ended" => job[w] # NoJob /\ ~NeverEnds(job[w])
  /\ pc[w] = "reading" /\ job[w].kind = "run" => child[w] = "none" /\ ~NeverEnds(job[w])

\* The inductive invariant.
SandboxInv ==
  SandboxTypeOK /\ CallsMeet /\ StrangersMeet /\ \A w \in Workers : PlaceOK(w)

Contract == INSTANCE RunContract WITH answer <- ret, lost <- leaked

\* Every call is answered as RunContract says, whatever pipes the children of the other
\* workers have inherited (executor_service.cc:311): in particular only programs that
\* read their input can lose by it, compilations and programs on their own never do,
\* and descriptors are lost at deadlines only, two each, until none are left for a
\* call. That they are lost there, that a call may then fail, and that an OOM kill is
\* TLE, the contract concedes.
ImplementsContract == Contract!ContractSpec

\* A call returns: the deadline ends a child that hangs, writes too much or waits for
\* an end of its input that a stranger keeps from it, and with the child go the ends
\* that it keeps from others (executor_service.cc:376-413).
RunReturns == \A w \in Workers : job[w] # NoJob ~> job[w] = NoJob

\* README.md:195, "TLE (Time Limit Exceeded)": the program took too long. The code says
\* so of programs that would end at once and wait for the end of their input, which
\* the child of another run keeps open (executor_service.cc:311, 380).
TimeoutIsOfTheProgram ==
  [][\A w \in Workers : pc[w] = "waiting" /\ ret'[w] = "TLE" => NeverEnds(job[w])]_vars
=============================================================================
