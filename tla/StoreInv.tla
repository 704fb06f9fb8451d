------------------------------ MODULE StoreInv ------------------------------
(***************************************************************************)
(* The inductive invariant behind the properties of Store: what the ids of *)
(* the test cases, the rows and the ghosts have to do with each other, and *)
(* what a request knows about the row it works on.                         *)
(***************************************************************************)
EXTENDS Store

UniqueIds(S) == \A c, d \in S : c.id = d.id => c = d

\* AUTO_INCREMENT, and ON DELETE CASCADE.
CasesInv ==
  /\ \A c \in cases : c.id < nextCase /\ Live(c.problem)
  /\ UniqueIds(cases)
  /\ \A s \in Subs : result[s] # Nothing => UniqueIds(result[s])

\* Where a row failed, in the result it was judged on.
FailureInv(s) ==
  /\ result[s] # Nothing
  /\ failedOn[s] \in result[s]
  /\ row[s].failed = Position(result[s], failedOn[s])

\* A submission that is not queued yet may still read the limit of its problem.
RowInv(s) ==
  /\ row[s] = Nothing => task[s] = Nothing /\ result[s] = Nothing
  /\ row[s] # Nothing =>
       /\ Live(row[s].problem)
       /\ task[s] = Nothing => limit[row[s].problem] \in limitsHad[s]
       /\ row[s].failed > 0 => FailureInv(s)

RowsInv == \A s \in Subs : RowInv(s)

Defaulted(s) == IF s \in unread THEN {DefaultLimit} ELSE {}

\* Handler h has inserted a row and not yet queued it.
Submitting(h) == hpc[h] \in {"limits", "enqueue"}

\* A request of handler h is about this row.
WorksOn(h) ==
  /\ hsub[h] \in Subs
  /\ row[hsub[h]] # Nothing
  /\ row[hsub[h]].problem = hproblem[h]

HandlersInv ==
  /\ \A h \in Handlers :
       /\ hpc[h] = "insert" => hproblem[h] \in Problems
       /\ Submitting(h) => WorksOn(h) /\ task[hsub[h]] = Nothing
       /\ hpc[h] = "enqueue" =>
            hlimit[h] \in limitsHad[hsub[h]] \cup Defaulted(hsub[h])
       /\ hpc[h] = "case" =>
            WorksOn(h) /\ hcase[h] > 0 /\ hcase[h] = row[hsub[h]].failed
  /\ \A g, h \in Handlers :
       Submitting(g) /\ Submitting(h) /\ hsub[g] = hsub[h] => g = h

\* Each row hangs together with its problem, its task and its verdict, and each request
\* with the row it works on, whatever statements of other requests come in between
\* (submit_handler.cc:72-106, executor_service.cc:121-183).
StoreInv == CasesInv /\ RowsInv /\ HandlersInv /\ LimitsOfTheProblem
=============================================================================
