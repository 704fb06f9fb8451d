------------------------ MODULE SubmissionLifecycle ------------------------
(***************************************************************************)
(* What the judge promises about the row of the submissions table: it is   *)
(* created PENDING, may pass through JUDGING, and gets at most one         *)
(* verdict, which is the verdict of the submitted program unless the       *)
(* machine failed (fork, pipe, file or database) while it was judged.      *)
(*                                                                         *)
(* A program is abstracted to what a judge can tell about it: whether it   *)
(* compiles, and the outcome of running it on each test case, in the order *)
(* of the test cases.                                                      *)
(***************************************************************************)
EXTENDS Naturals, Sequences

CONSTANTS
  Subs,      \* identifiers of submissions (AUTO_INCREMENT: never reused)
  Programs   \* the programs users may submit

Outcomes == {"pass", "WA", "RE", "TLE"}

Verdicts == {"AC", "WA", "CE", "RE", "TLE"}

ASSUME ProgramsAssumption ==
  \A p \in Programs :
    /\ p.compiles \in BOOLEAN
    /\ p.runs \in Seq(Outcomes)

VARIABLES
  program,     \* the program stored in each row
  status,      \* status column; "none" while there is no row
  failedCase,  \* failed_case column (0: none)
  hostFault    \* submissions whose judging met a failure of the machine

vars == <<program, status, failedCase, hostFault>>
-----------------------------------------------------------------------------

\* The verdict and the failed case a program earns: judging stops at the first
\* test case that does not pass.
Earned(p, v, k) ==
  \/ v = "CE" /\ ~p.compiles /\ k = 0
  \/ v = "AC" /\ p.compiles /\ k = 0
     /\ \A i \in 1..Len(p.runs) : p.runs[i] = "pass"
  \/ v \in {"WA", "RE", "TLE"} /\ p.compiles /\ k \in 1..Len(p.runs)
     /\ p.runs[k] = v
     /\ \A i \in 1..(k - 1) : p.runs[i] = "pass"

\* What a failure of the machine turns into: an unwritable source file, a
\* missing connection or a failed query is RE without a case, a failed pipe or
\* fork is CE in compile and RE at the current case in run_sandbox.
Degraded(p, v, k) ==
  \/ v = "CE" /\ k = 0
  \/ v = "RE" /\ k \in 0..Len(p.runs)
-----------------------------------------------------------------------------

Init ==
  /\ program \in [Subs -> Programs]
  /\ status = [s \in Subs |-> "none"]
  /\ failedCase = [s \in Subs |-> 0]
  /\ hostFault = {}

\* A row is inserted.
Create(s) ==
  /\ status[s] = "none"
  /\ status' = [status EXCEPT ![s] = "PENDING"]
  /\ UNCHANGED <<program, failedCase, hostFault>>

\* A worker has taken the submission.
StartJudging(s) ==
  /\ status[s] = "PENDING"
  /\ status' = [status EXCEPT ![s] = "JUDGING"]
  /\ UNCHANGED <<program, failedCase, hostFault>>

\* The machine fails while the submission is being judged.
HostFails(s) ==
  /\ status[s] \in {"PENDING", "JUDGING"}
  /\ hostFault' = hostFault \cup {s}
  /\ UNCHANGED <<program, status, failedCase>>

\* The only verdict is written.
Decide(s) ==
  /\ status[s] \in {"PENDING", "JUDGING"}
  /\ \E v \in Verdicts, k \in 0..Len(program[s].runs) :
       /\ \/ Earned(program[s], v, k)
          \/ s \in hostFault /\ Degraded(program[s], v, k)
       /\ status' = [status EXCEPT ![s] = v]
       /\ failedCase' = [failedCase EXCEPT ![s] = k]
  /\ UNCHANGED <<program, hostFault>>

Next == \E s \in Subs : Create(s) \/ StartJudging(s) \/ HostFails(s) \/ Decide(s)

Spec == Init /\ [][Next]_vars
=============================================================================
