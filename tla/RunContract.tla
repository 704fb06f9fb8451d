---------------------------- MODULE RunContract ----------------------------
(***************************************************************************)
(* What judge() may rely on when it compiles or runs a program: a call is  *)
(* answered with the outcome the documents give the program, whatever the  *)
(* other workers do, with four exceptions. fork may fail. In the other     *)
(* three the code falls short of its documents, and the contract concedes  *)
(* it in the smallest measure. A program that the OOM killer ended is      *)
(* called TLE instead of RE. A program that reads its input may be cut off *)
(* at the deadline when another call was under way at the same time. And   *)
(* the process may have run out of descriptors, but only after enough      *)
(* deadlines: each loses two of them, and nothing else loses any until     *)
(* they have run out.                                                      *)
(***************************************************************************)
EXTENDS RunJobs

VARIABLES
  job,       \* the call each worker is in
  answer,    \* what its last call returned
  met,       \* another worker was in a call during this one
  lost,      \* descriptors nobody will close
  forkFails  \* failures of fork so far

contractVars == <<job, answer, met, lost, forkFails>>
-----------------------------------------------------------------------------
\* A call has at most three pipes at a time.
FdsOfACall == 6

\* The outcome of a child that is left alone: README.md:191-195, and SPEC.md:264 for
\* one that the OOM killer ends.
OwnOutcome(j) ==
  IF NeverEnds(j) THEN "TLE"
  ELSE CASE j.kind = "compile" /\ j.end = "exit0" -> "compiled"
         [] j.kind = "compile" /\ j.end # "exit0" -> "CE"
         [] j.kind = "run" /\ j.end = "cpu"       -> "TLE"
         [] j.kind = "run" /\ j.end = "exit0"     -> "output"
         [] OTHER                                 -> "RE"

Calling == {w \in Workers : job[w] # NoJob}

Begin(w, j) ==
  /\ job[w] = NoJob
  /\ job' = [job EXCEPT ![w] = j]
  /\ answer' = [answer EXCEPT ![w] = "none"]
  /\ met' = [v \in Workers |-> IF v = w THEN Calling # {}
                               ELSE met[v] \/ v \in Calling]
  /\ UNCHANGED <<lost, forkFails>>

End(w, a) ==
  /\ job[w] # NoJob
  /\ job' = [job EXCEPT ![w] = NoJob]
  /\ answer' = [answer EXCEPT ![w] = a]
  /\ met' = [met EXCEPT ![w] = FALSE]

Answer(w) ==
  /\ End(w, OwnOutcome(job[w]))
  /\ lost' = lost + (IF NeverEnds(job[w]) THEN 2 ELSE 0)
  /\ UNCHANGED forkFails

\* A child killed for its memory is taken for one killed for its time.
OomAsTimeout(w) ==
  /\ End(w, "TLE")
  /\ job[w].kind = "run" /\ job[w].end = "oom" /\ ~NeverEnds(job[w])
  /\ UNCHANGED <<lost, forkFails>>

\* The end of its input comes too late, for another call's sake.
HeldUp(w) ==
  /\ End(w, "TLE")
  /\ job[w].reads
  /\ met[w]
  /\ lost' = lost + 2
  /\ UNCHANGED forkFails

ForkFails(w) ==
  /\ forkFails < MaxForkFails
  /\ forkFails' = forkFails + 1
  /\ End(w, Failure(job[w]))
  /\ UNCHANGED lost

\* Only when the workers together could not all have what they need.
OutOfFds(w) ==
  /\ lost + FdsOfACall * Cardinality(Workers) > MaxFds
  /\ End(w, Failure(job[w]))
  /\ lost' \in {lost, lost + 2, lost + 4}
  /\ UNCHANGED forkFails
-----------------------------------------------------------------------------
ContractInit ==
  /\ job = [w \in Workers |-> NoJob]
  /\ answer = [w \in Workers |-> "none"]
  /\ met = [w \in Workers |-> FALSE]
  /\ lost = 0
  /\ forkFails = 0

ContractNext ==
  \E w \in Workers : \/ \E j \in Jobs : Begin(w, j)
                     \/ Answer(w)
                     \/ OomAsTimeout(w)
                     \/ HeldUp(w)
                     \/ ForkFails(w)
                     \/ OutOfFds(w)

ContractSpec == ContractInit /\ [][ContractNext]_contractVars
=============================================================================
