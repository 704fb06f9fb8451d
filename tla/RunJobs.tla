------------------------------ MODULE RunJobs ------------------------------
(***************************************************************************)
(* The calls judge() makes: compile, and run_sandbox for one test case.    *)
(* Each starts one child process. A job says what its child does, so that  *)
(* the outcome of a call can be compared with the one the program earns.   *)
(***************************************************************************)
EXTENDS Naturals, FiniteSets

CONSTANTS
  Workers,      \* the worker threads
  Jobs,         \* the calls that judge() may make
  NoJob,        \* "no call"
  MaxFds,       \* descriptors the process has left for judging
  MaxForkFails  \* bound of the model: failures of fork

\* A child may read its input to the end (a compilation reads a file instead), never
\* end, or write more to stdout or stderr than a pipe holds. It may be ended by the
\* limit of its CPU time (SIGXCPU), by the OOM killer (SIGKILL) or by another signal.
ASSUME JobAssumption ==
  /\ IsFiniteSet(Workers)
  /\ NoJob \notin Jobs
  /\ \A j \in Jobs : /\ j.kind \in {"compile", "run"}
                     /\ {j.reads, j.endless, j.floods} \subseteq BOOLEAN
                     /\ j.end \in {"exit0", "exit1", "signal", "cpu", "oom"}
                     /\ j.kind = "compile" => ~j.reads /\ ~j.endless
  /\ MaxFds \in Nat
  /\ MaxForkFails \in Nat

Failure(j) == IF j.kind = "compile" THEN "CE" ELSE "RE"

Answers == {"none", "compiled", "CE", "output", "RE", "TLE"}

\* A run that writes more than a pipe holds blocks: nothing reads before it ends.
NeverEnds(j) == j.endless \/ (j.kind = "run" /\ j.floods)
=============================================================================
