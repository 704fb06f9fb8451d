------------------------------- MODULE Store -------------------------------
(***************************************************************************)
(* Problems, test cases and submissions as rows of the database, and the   *)
(* requests that read and write them: handle_submit, handle_get_submission,*)
(* the handlers of the administrators, and judge(). No request uses a      *)
(* transaction: each statement commits by itself, and the statements of    *)
(* concurrent requests interleave. What keeps the tables together are the  *)
(* foreign keys of init.sql and the order of the statements.               *)
(*                                                                         *)
(* A statement that fails ends its request before any further effect and   *)
(* is left out, with one exception: when the limits of the problem cannot  *)
(* be read, handle_submit goes on with the defaults of struct Problem. The *)
(* queue and the verdicts themselves are modelled in Executor: here any    *)
(* queued task may be taken next, and any of its test cases may fail.      *)
(***************************************************************************)
EXTENDS Naturals, FiniteSets

CONSTANTS
  Problems,      \* the ids that AUTO_INCREMENT gives to problems
  Subs,          \* the ids that it gives to submissions
  Handlers,      \* threads that run handle_submit and handle_get_submission
  Limits,        \* the values of time_limit
  DefaultLimit,  \* of struct Problem
  Orders,        \* the values of sort_order
  Nothing,       \* NULL: no row, no task, no result, no case
  MaxCases,      \* bound of the model: test cases ever added
  MaxBadReads    \* bound of the model: failures to read the limits

\* The rows of submissions. WA stands for every verdict on a test case, and CE for
\* every verdict before the first one.
Statuses == {"PENDING", "JUDGING", "AC", "CE", "WA"}
Rows == [problem : Problems, status : Statuses, failed : 0..MaxCases]

ASSUME StoreAssumption ==
  /\ Limits \cup {DefaultLimit} \cup Orders \subseteq Nat
  /\ Nothing \notin Nat \cup Problems \cup Subs \cup Rows
  /\ MaxCases \in Nat
  /\ MaxBadReads \in Nat

VARIABLES
  problems,   \* problems: "none", "live" or "deleted"; an id is not used again
  limit,      \* problems.time_limit, the default where there is no row
  cases,      \* the rows of testcases
  nextCase,   \* AUTO_INCREMENT of testcases
  row,        \* the rows of submissions
  task,       \* the limit each submission was queued with
  result,     \* the test cases judge() fetched for it
  hpc,        \* handlers: the next statement
  hproblem, hsub, hlimit, hcase,  \* their local variables
  shown,      \* the test case in the last answer of each handler
  badReads,   \* failures to read the limits so far
  unread,     \* ghost: submissions whose limits could not be read
  limitsHad,  \* ghost: the limits of its problem from INSERT to enqueue
  failedOn    \* ghost: the test case a submission failed on

adminVars   == <<problems, limit, cases, nextCase>>
judgeVars   == <<row, task, result, failedOn>>
handlerVars == <<hpc, hproblem, hsub, hlimit, hcase, shown>>
ghostVars   == <<badReads, unread, limitsHad>>
storeVars   == <<adminVars, judgeVars, handlerVars, ghostVars>>
-----------------------------------------------------------------------------
(***************************************************************************)
(* SELECT ... FROM testcases ORDER BY sort_order, id                       *)
(***************************************************************************)
Case == [id : 1..MaxCases, problem : Problems, order : Orders]

CasesOf(p) == {c \in cases : c.problem = p}

Before(c, d) == c.order < d.order \/ (c.order = d.order /\ c.id < d.id)

Preceding(S, c) == {d \in S : Before(d, c)}

\* The offset is that of the test case after the one asked for.
OffsetAfter(k) == k

\* LIMIT failed_case - 1, 1
Offset(k) == k - 1

\* The row after n others, if there is one.
RowAt(S, n) ==
  IF \E c \in S : Cardinality(Preceding(S, c)) = n
  THEN CHOOSE c \in S : Cardinality(Preceding(S, c)) = n
  ELSE Nothing

\* judge() counts from zero.
PositionFromZero(S, c) == Cardinality(Preceding(S, c))

\* case_idx when judge() runs test case c of its result S.
Position(S, c) == Cardinality(Preceding(S, c)) + 1

Submission(p, st, k) == [problem |-> p, status |-> st, failed |-> k]

Live(p) == problems[p] = "live"

SubmissionsOf(p) == {s \in Subs : row[s] # Nothing /\ row[s].problem = p}
-----------------------------------------------------------------------------
StoreInit ==
  /\ problems = [p \in Problems |-> "none"]
  /\ limit = [p \in Problems |-> DefaultLimit]
  /\ cases = {}
  /\ nextCase = 1
  /\ row = [s \in Subs |-> Nothing]
  /\ task = [s \in Subs |-> Nothing]
  /\ result = [s \in Subs |-> Nothing]
  /\ hpc = [h \in Handlers |-> "idle"]
  /\ hproblem = [h \in Handlers |-> Nothing]
  /\ hsub = [h \in Handlers |-> Nothing]
  /\ hlimit = [h \in Handlers |-> DefaultLimit]
  /\ hcase = [h \in Handlers |-> 0]
  /\ shown = [h \in Handlers |-> Nothing]
  /\ badReads = 0
  /\ unread = {}
  /\ limitsHad = [s \in Subs |-> {}]
  /\ failedOn = [s \in Subs |-> Nothing]

\* A request of handler h goes on, or ends; only its own variables change.
Goto(h, l) == hpc' = [hpc EXCEPT ![h] = l]

\* The end of a request: its local variables mean nothing any more.
Done(h) ==
  /\ Goto(h, "idle")
  /\ hproblem' = [hproblem EXCEPT ![h] = Nothing]
  /\ hsub' = [hsub EXCEPT ![h] = Nothing]
  /\ hlimit' = [hlimit EXCEPT ![h] = DefaultLimit]
  /\ hcase' = [hcase EXCEPT ![h] = 0]
-----------------------------------------------------------------------------
(***************************************************************************)
(* handle_submit                                                           *)
(***************************************************************************)

\* problem_exists; when it does not, the answer is 404 and nothing changes.
Exists(h, p) ==
  /\ hpc[h] = "idle"
  /\ Live(p)
  /\ Goto(h, "insert")
  /\ hproblem' = [hproblem EXCEPT ![h] = p]
  /\ UNCHANGED <<adminVars, judgeVars, hsub, hlimit, hcase, shown, ghostVars>>

\* The INSERT, without the foreign key.
InsertUnchecked(h, s) ==
  /\ hpc[h] = "insert"
  /\ row[s] = Nothing
  /\ row' = [row EXCEPT ![s] = Submission(hproblem[h], "PENDING", 0)]
  /\ hsub' = [hsub EXCEPT ![h] = s]
  /\ limitsHad' = [limitsHad EXCEPT ![s] = {limit[hproblem[h]]}]
  /\ Goto(h, "limits")
  /\ UNCHANGED <<adminVars, task, result, failedOn, hproblem, hlimit, hcase, shown,
                 badReads, unread>>

\* The foreign key is tested again by the INSERT.
Insert(h, s) ==
  /\ hpc[h] = "insert"
  /\ Live(hproblem[h])
  /\ row[s] = Nothing
  /\ row' = [row EXCEPT ![s] = Submission(hproblem[h], "PENDING", 0)]
  /\ hsub' = [hsub EXCEPT ![h] = s]
  /\ limitsHad' = [limitsHad EXCEPT ![s] = {limit[hproblem[h]]}]
  /\ Goto(h, "limits")
  /\ UNCHANGED <<adminVars, task, result, failedOn, hproblem, hlimit, hcase, shown,
                 badReads, unread>>

\* The problem is gone: 500.
InsertFails(h) ==
  /\ hpc[h] = "insert"
  /\ ~Live(hproblem[h])
  /\ Done(h)
  /\ UNCHANGED <<adminVars, judgeVars, shown, ghostVars>>

\* get_problem_detail finds the row, or yields a Problem with its defaults.
ReadLimits(h) ==
  /\ hpc[h] = "limits"
  /\ hlimit' = [hlimit EXCEPT ![h] =
                  IF Live(hproblem[h]) THEN limit[hproblem[h]] ELSE DefaultLimit]
  /\ Goto(h, "enqueue")
  /\ UNCHANGED <<adminVars, judgeVars, hproblem, hsub, hcase, shown, ghostVars>>

\* No connection, or a failed SELECT.
ReadLimitsFails(h) ==
  /\ hpc[h] = "limits"
  /\ badReads < MaxBadReads
  /\ badReads' = badReads + 1
  /\ unread' = unread \cup {hsub[h]}
  /\ hlimit' = [hlimit EXCEPT ![h] = DefaultLimit]
  /\ Goto(h, "enqueue")
  /\ UNCHANGED <<adminVars, judgeVars, hproblem, hsub, hcase, shown, limitsHad>>

Enqueue(h) ==
  /\ hpc[h] = "enqueue"
  /\ task' = [task EXCEPT ![hsub[h]] = hlimit[h]]
  /\ Done(h)
  /\ UNCHANGED <<adminVars, row, result, failedOn, shown, ghostVars>>

\* The queue is full: 503, and the row stays.
Refuse(h) ==
  /\ hpc[h] = "enqueue"
  /\ Done(h)
  /\ UNCHANGED <<adminVars, judgeVars, shown, ghostVars>>
-----------------------------------------------------------------------------
(***************************************************************************)
(* handle_get_submission: the row, then the test case it failed on         *)
(***************************************************************************)

\* A row without failed_case is answered at once.
View(h, s) ==
  /\ hpc[h] = "idle"
  /\ row[s] # Nothing
  /\ row[s].failed > 0
  /\ hsub' = [hsub EXCEPT ![h] = s]
  /\ hproblem' = [hproblem EXCEPT ![h] = row[s].problem]
  /\ hcase' = [hcase EXCEPT ![h] = row[s].failed]
  /\ shown' = [shown EXCEPT ![h] = Nothing]
  /\ Goto(h, "case")
  /\ UNCHANGED <<adminVars, judgeVars, hlimit, ghostVars>>

ViewCase(h) ==
  /\ hpc[h] = "case"
  /\ shown' = [shown EXCEPT ![h] = RowAt(CasesOf(hproblem[h]), Offset(hcase[h]))]
  /\ Done(h)
  /\ UNCHANGED <<adminVars, judgeVars, ghostVars>>
-----------------------------------------------------------------------------
(***************************************************************************)
(* ProblemService for the administrators: one statement each               *)
(***************************************************************************)
CreateProblem(p, l) ==
  /\ problems[p] = "none"
  /\ problems' = [problems EXCEPT ![p] = "live"]
  /\ limit' = [limit EXCEPT ![p] = l]
  /\ UNCHANGED <<cases, nextCase, judgeVars, handlerVars, ghostVars>>

\* The submissions of problem p that are not queued yet.
Arriving(p) == {s \in SubmissionsOf(p) : task[s] = Nothing}

\* An UPDATE of no row is a success as well.
UpdateProblem(p, l) ==
  /\ Live(p)
  /\ limit' = [limit EXCEPT ![p] = l]
  /\ limitsHad' = [s \in Subs |-> IF s \in Arriving(p) THEN limitsHad[s] \cup {l}
                                  ELSE limitsHad[s]]
  /\ UNCHANGED <<problems, cases, nextCase, judgeVars, handlerVars, badReads, unread>>

\* ON DELETE CASCADE for the test cases, and no RESTRICT for the submissions.
DeleteUnrestricted(p) ==
  /\ Live(p)
  /\ problems' = [problems EXCEPT ![p] = "deleted"]
  /\ limit' = [limit EXCEPT ![p] = DefaultLimit]
  /\ cases' = cases \ CasesOf(p)
  /\ UNCHANGED <<nextCase, judgeVars, handlerVars, ghostVars>>

\* ON DELETE CASCADE for the test cases; the DELETE fails while there are submissions.
DeleteProblem(p) ==
  /\ Live(p)
  /\ SubmissionsOf(p) = {}
  /\ problems' = [problems EXCEPT ![p] = "deleted"]
  /\ limit' = [limit EXCEPT ![p] = DefaultLimit]
  /\ cases' = cases \ CasesOf(p)
  /\ UNCHANGED <<nextCase, judgeVars, handlerVars, ghostVars>>

\* The new id is one more than the number of rows.
AddTestcaseCounted(p, o) ==
  /\ Live(p)
  /\ nextCase <= MaxCases
  /\ cases' = cases \cup {[id |-> Cardinality(cases) + 1, problem |-> p, order |-> o]}
  /\ nextCase' = nextCase + 1
  /\ UNCHANGED <<problems, limit, judgeVars, handlerVars, ghostVars>>

\* The INSERT fails when there is no such problem.
AddTestcase(p, o) ==
  /\ Live(p)
  /\ nextCase <= MaxCases
  /\ cases' = cases \cup {[id |-> nextCase, problem |-> p, order |-> o]}
  /\ nextCase' = nextCase + 1
  /\ UNCHANGED <<problems, limit, judgeVars, handlerVars, ghostVars>>

\* By its id alone, whatever problem the request names.
DeleteTestcase(c) ==
  /\ c \in cases
  /\ cases' = cases \ {c}
  /\ UNCHANGED <<problems, limit, nextCase, judgeVars, handlerVars, ghostVars>>
-----------------------------------------------------------------------------
(***************************************************************************)
(* judge()                                                                 *)
(***************************************************************************)

\* A worker takes a task and marks its row.
Take(s) ==
  /\ task[s] # Nothing
  /\ row[s].status = "PENDING"
  /\ row' = [row EXCEPT ![s].status = "JUDGING"]
  /\ UNCHANGED <<adminVars, task, result, failedOn, handlerVars, ghostVars>>

\* The test cases of the problem at this moment; they are all read into memory.
Fetch(s) ==
  /\ row[s] # Nothing
  /\ row[s].status = "JUDGING"
  /\ result[s] = Nothing
  /\ result' = [result EXCEPT ![s] = CasesOf(row[s].problem)]
  /\ UNCHANGED <<adminVars, row, task, failedOn, handlerVars, ghostVars>>

\* CE, or RE for a failure of the machine: no test case was run.
FailEarly(s) ==
  /\ row[s] # Nothing
  /\ row[s].status = "JUDGING"
  /\ result[s] = Nothing
  /\ row' = [row EXCEPT ![s].status = "CE"]
  /\ UNCHANGED <<adminVars, task, result, failedOn, handlerVars, ghostVars>>

\* WA, RE or TLE on test case c.
FailOn(s, c) ==
  /\ result[s] # Nothing
  /\ row[s].status = "JUDGING"
  /\ c \in result[s]
  /\ row' = [row EXCEPT ![s] = Submission(@.problem, "WA", Position(result[s], c))]
  /\ failedOn' = [failedOn EXCEPT ![s] = c]
  /\ UNCHANGED <<adminVars, task, result, handlerVars, ghostVars>>

\* No test case failed; failed_case stays NULL.
Accept(s) ==
  /\ result[s] # Nothing
  /\ row[s].status = "JUDGING"
  /\ row' = [row EXCEPT ![s].status = "AC"]
  /\ UNCHANGED <<adminVars, task, result, failedOn, handlerVars, ghostVars>>
-----------------------------------------------------------------------------
HandlerStep(h) ==
  \/ \E p \in Problems : Exists(h, p)
  \/ \E s \in Subs : Insert(h, s)
  \/ InsertFails(h)
  \/ ReadLimits(h)
  \/ ReadLimitsFails(h)
  \/ Enqueue(h)
  \/ Refuse(h)
  \/ \E s \in Subs : View(h, s)
  \/ ViewCase(h)

\* Requests on a problem: an administrator's, refused with 403 to anybody else.
ProblemRequest(p) ==
  \/ \E l \in Limits : CreateProblem(p, l)
  \/ \E l \in Limits : UpdateProblem(p, l)
  \/ DeleteProblem(p)

\* Requests on the test cases of a problem, likewise.
TestcaseRequest ==
  \/ \E p \in Problems, o \in Orders : AddTestcase(p, o)
  \/ \E c \in cases : DeleteTestcase(c)

AdminStep == TestcaseRequest \/ \E p \in Problems : ProblemRequest(p)

JudgeStep(s) ==
  \/ Take(s)
  \/ Fetch(s)
  \/ FailEarly(s)
  \/ \E c \in Case : FailOn(s, c)
  \/ Accept(s)

StoreNext ==
  \/ \E h \in Handlers : HandlerStep(h)
  \/ AdminStep
  \/ \E s \in Subs : JudgeStep(s)

StoreSpec == StoreInit /\ [][StoreNext]_storeVars
-----------------------------------------------------------------------------
(***************************************************************************)
(* Properties                                                              *)
(***************************************************************************)

TablesTypeOK ==
  /\ problems \in [Problems -> {"none", "live", "deleted"}]
  /\ limit \in [Problems -> Limits \cup {DefaultLimit}]
  /\ cases \subseteq Case
  /\ nextCase \in 1..(MaxCases + 1)

JudgeTypeOK ==
  /\ row \in [Subs -> Rows \cup {Nothing}]
  /\ task \in [Subs -> Limits \cup {DefaultLimit, Nothing}]
  /\ result \in [Subs -> (SUBSET Case) \cup {Nothing}]
  /\ failedOn \in [Subs -> Case \cup {Nothing}]
  /\ \A s \in Subs : row[s] # Nothing => (row[s].status = "WA" <=> row[s].failed > 0)

HandlersTypeOK ==
  /\ hpc \in [Handlers -> {"idle", "insert", "limits", "enqueue", "case"}]
  /\ hproblem \in [Handlers -> Problems \cup {Nothing}]
  /\ hsub \in [Handlers -> Subs \cup {Nothing}]
  /\ hlimit \in [Handlers -> Limits \cup {DefaultLimit}]
  /\ hcase \in [Handlers -> 0..MaxCases]
  /\ shown \in [Handlers -> Case \cup {Nothing}]

GhostsTypeOK ==
  /\ badReads \in 0..MaxBadReads
  /\ unread \subseteq Subs
  /\ limitsHad \in [Subs -> SUBSET (Limits \cup {DefaultLimit})]

\* The type invariant of the tables and of the requests; a verdict on a test case, and
\* no other, comes with its position.
StoreTypeOK == TablesTypeOK /\ JudgeTypeOK /\ HandlersTypeOK /\ GhostsTypeOK

\* No row refers to a problem that is gone: neither a test case, nor a submission, nor
\* the task of a submission that waits for its judging. problem_exists and the INSERT
\* are two statements (submit_handler.cc:72, 91), and a problem may be deleted between
\* them, or between any two statements of judge().
RowsHaveProblems ==
  /\ \A c \in cases : Live(c.problem)
  /\ \A s \in Subs : task[s] # Nothing => row[s] # Nothing
  /\ \A s \in Subs : row[s] # Nothing => Live(row[s].problem)

\* A submission is judged under a time limit that its problem had at some time since
\* the INSERT, although the limit is read after it (submit_handler.cc:102): the
\* defaults of struct Problem come in only when the SELECT itself failed, never
\* because an administrator changed or deleted the problem in between.
LimitsOfTheProblem ==
  \A s \in Subs : task[s] # Nothing =>
    task[s] \in limitsHad[s] \cup (IF s \in unread THEN {DefaultLimit} ELSE {})

\* No test case up to the one that submission s failed on was added or removed since.
SameUpToFailed(s) ==
  LET now == CasesOf(row[s].problem)
  IN  \A c \in (result[s] \ now) \cup (now \ result[s]) : Before(failedOn[s], c)

\* The test case shown with a verdict is the one the program failed on, as long as the
\* test cases up to it are those of the judging: failed_case is a position, counted by
\* judge() in one result and looked up by handle_get_submission in another
\* (executor_service.cc:145, submit_handler.cc:176), whatever is edited behind it.
ShownCaseIsFailed ==
  [][\A h \in Handlers :
       hpc[h] = "case" /\ hpc'[h] = "idle" /\ SameUpToFailed(hsub[h])
         => shown'[h] = failedOn[hsub[h]]]_storeVars
=============================================================================
