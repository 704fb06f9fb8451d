---------------------------- MODULE StoreProofs ----------------------------
(***************************************************************************)
(* Proofs about Store: the types, the inductive invariant of StoreInv, and *)
(* the properties that follow from it.                                     *)
(***************************************************************************)
EXTENDS StoreInv, FiniteSetTheorems, TLAPS

(***************************************************************************)
(* Positions among test cases. The pairs of a sort_order and an id are     *)
(* totally ordered where ids are unique, so that a test case is known by   *)
(* the number of those before it.                                          *)
(***************************************************************************)

LEMMA CaseFields ==
  ASSUME NEW c \in Case
  PROVE  c.id \in 1..MaxCases /\ c.id \in Nat /\ c.order \in Nat /\ c.problem \in Problems
BY StoreAssumption DEF Case

\* The number of test cases is bounded by that of their ids.
LEMMA CasesAreFinite ==
  ASSUME NEW S \in SUBSET Case, UniqueIds(S)
  PROVE  IsFiniteSet(S) /\ Cardinality(S) <= MaxCases
<1> DEFINE f == [c \in S |-> c.id]
<1>1. MaxCases \in Nat
  BY StoreAssumption
<1>2. IsFiniteSet(1..MaxCases) /\ Cardinality(1..MaxCases) = MaxCases
  BY <1>1, FS_Interval
<1>3. f \in Injection(S, 1..MaxCases)
  <2>1. f \in [S -> 1..MaxCases]
    BY CaseFields
  <2>2. \A c, d \in S : f[c] = f[d] => c = d
    BY DEF UniqueIds
  <2> QED
    BY <2>1, <2>2 DEF Injection, IsInjective
<1> HIDE DEF f
<1> QED
  BY <1>2, <1>3, FS_Injection

\* A position is one of the numbers of the test cases.
LEMMA PositionBounds ==
  ASSUME NEW S \in SUBSET Case, UniqueIds(S), NEW c \in S
  PROVE  Position(S, c) \in 1..MaxCases
<1> DEFINE P == Preceding(S, c)
<1>1. P \subseteq S /\ c \notin P
  BY CaseFields DEF Preceding, Before
<1>2. P \cup {c} \in SUBSET Case /\ UniqueIds(P \cup {c})
  BY <1>1 DEF UniqueIds
<1>3. IsFiniteSet(P \cup {c}) /\ Cardinality(P \cup {c}) <= MaxCases
  BY <1>2, CasesAreFinite
<1>4. IsFiniteSet(P)
  BY <1>3, FS_Subset
<1>5. Cardinality(P) \in Nat /\ Cardinality(P \cup {c}) = Cardinality(P) + 1
  BY <1>1, <1>4, FS_CardinalityType, FS_AddElement
<1> HIDE DEF P
<1>6. Cardinality(P) + 1 \in 1..MaxCases
  BY <1>3, <1>5, StoreAssumption
<1> QED
  BY <1>6 DEF Position, P

LEMMA BeforeIsTotal ==
  ASSUME NEW S \in SUBSET Case, UniqueIds(S), NEW c \in S, NEW d \in S, c # d
  PROVE  Before(c, d) \/ Before(d, c)
<1>1. c.id # d.id
  BY DEF UniqueIds
<1>2. c \in Case /\ d \in Case
  OBVIOUS
<1>3. /\ c.id \in Nat /\ c.order \in Nat
      /\ d.id \in Nat /\ d.order \in Nat
  BY <1>2, CaseFields
<1> QED
  BY <1>1, <1>3 DEF Before

\* What comes first has fewer before it.
LEMMA FewerPrecede ==
  ASSUME NEW S \in SUBSET Case, UniqueIds(S), NEW c \in S, NEW d \in S, Before(c, d)
  PROVE  Cardinality(Preceding(S, c)) # Cardinality(Preceding(S, d))
<1>1. \A x \in Case : /\ x.id \in Nat /\ x.order \in Nat
                      /\ x \in Preceding(S, c) => x \in Preceding(S, d)
  <2> SUFFICES ASSUME NEW x \in Case
               PROVE  /\ x.id \in Nat /\ x.order \in Nat
                      /\ x \in Preceding(S, c) => x \in Preceding(S, d)
    OBVIOUS
  <2>1. c \in Case /\ d \in Case
    OBVIOUS
  <2>2. /\ x.id \in Nat /\ x.order \in Nat
        /\ c.id \in Nat /\ c.order \in Nat
        /\ d.id \in Nat /\ d.order \in Nat
    BY <2>1, CaseFields
  <2> QED
    BY <2>2 DEF Preceding, Before
<1>2. Preceding(S, c) \subseteq Preceding(S, d)
  BY <1>1 DEF Preceding
<1>3. c \in Preceding(S, d) /\ c \notin Preceding(S, c)
  BY <1>1 DEF Preceding, Before
<1>4. IsFiniteSet(Preceding(S, d))
  BY CasesAreFinite, FS_Subset DEF Preceding
<1> QED
  BY <1>2, <1>3, <1>4, FS_Subset

\* The row after as many others as precede c is c.
LEMMA RowAtPosition ==
  ASSUME NEW S \in SUBSET Case, UniqueIds(S), NEW c \in S
  PROVE  RowAt(S, Cardinality(Preceding(S, c))) = c
<1>1. ASSUME NEW d \in S, Cardinality(Preceding(S, d)) = Cardinality(Preceding(S, c))
      PROVE  d = c
  BY <1>1, BeforeIsTotal, FewerPrecede
<1> QED
  BY <1>1 DEF RowAt

(***************************************************************************)
(* The rows of submissions.                                                *)
(***************************************************************************)

LEMMA SubmissionIsRow ==
  /\ \A p \in Problems, v \in Statuses, k \in 0..MaxCases :
       /\ Submission(p, v, k) \in Rows
       /\ Submission(p, v, k) # Nothing
       /\ Submission(p, v, k).problem = p
       /\ Submission(p, v, k).status = v
       /\ Submission(p, v, k).failed = k
  /\ \A r \in Rows : /\ r # Nothing
                     /\ r.problem \in Problems
                     /\ r.status \in Statuses
                     /\ r.failed \in 0..MaxCases
BY StoreAssumption DEF Submission, Rows

\* A new status leaves the rest of the row.
LEMMA StatusOnly ==
  ASSUME NEW r \in Rows, NEW v \in Statuses
  PROVE  /\ [r EXCEPT !.status = v] \in Rows
         /\ [r EXCEPT !.status = v] # Nothing
         /\ [r EXCEPT !.status = v].problem = r.problem
         /\ [r EXCEPT !.status = v].status = v
         /\ [r EXCEPT !.status = v].failed = r.failed
BY StoreAssumption DEF Rows

\* A submission with a task or a result has a row.
LEMMA KnownRow ==
  ASSUME StoreTypeOK, RowsInv, NEW s \in Subs,
         row[s] # Nothing \/ task[s] # Nothing \/ result[s] # Nothing
  PROVE  row[s] \in Rows
BY DEF RowsInv, RowInv, StoreTypeOK, JudgeTypeOK

LEMMA SubmittingRow ==
  ASSUME StoreTypeOK, HandlersInv, NEW h \in Handlers, Submitting(h)
  PROVE  /\ hsub[h] \in Subs
         /\ row[hsub[h]] \in Rows
         /\ row[hsub[h]].problem = hproblem[h]
         /\ hproblem[h] \in Problems
         /\ task[hsub[h]] = Nothing
<1>1. WorksOn(h) /\ task[hsub[h]] = Nothing
  BY DEF HandlersInv
<1>2. row[hsub[h]] \in Rows
  BY <1>1 DEF WorksOn, StoreTypeOK, JudgeTypeOK
<1> QED
  BY <1>1, <1>2, SubmissionIsRow DEF WorksOn

LEMMA FailOnRow ==
  ASSUME StoreTypeOK, CasesInv, RowsInv, NEW s \in Subs, NEW c \in Case, FailOn(s, c)
  PROVE  LET new == Submission(row[s].problem, "WA", Position(result[s], c))
         IN  /\ row[s] \in Rows
             /\ new \in Rows /\ new # Nothing
             /\ new.problem = row[s].problem
             /\ new.status = "WA"
             /\ new.failed = Position(result[s], c)
             /\ new.failed \in 1..MaxCases
<1>1. result[s] # Nothing /\ c \in result[s]
  BY DEF FailOn
<1>2. row[s] \in Rows
  BY <1>1, KnownRow
<1>3. UniqueIds(result[s])
  BY <1>1, Zenon DEF CasesInv
<1>4. result[s] \in SUBSET Case
  BY <1>1 DEF StoreTypeOK, JudgeTypeOK
<1>5. Position(result[s], c) \in 1..MaxCases
  BY <1>1, <1>3, <1>4, PositionBounds
<1>6. Position(result[s], c) \in 0..MaxCases
  BY <1>5, StoreAssumption
<1> QED
  BY <1>2, <1>5, <1>6, SubmissionIsRow DEF Statuses

LEMMA ExistsKeeps ==
  ASSUME StoreTypeOK, StoreInv, NEW h \in Handlers, NEW p \in Problems, Exists(h, p)
  PROVE  StoreTypeOK' /\ StoreInv'
<1> USE StoreAssumption
    DEF StoreTypeOK, TablesTypeOK, JudgeTypeOK, HandlersTypeOK, GhostsTypeOK, StoreInv,
        Exists, Done, Goto, adminVars, judgeVars, handlerVars, ghostVars
<1>1. StoreTypeOK'
  <2>1. TablesTypeOK'
    OBVIOUS
  <2>2. JudgeTypeOK'
    OBVIOUS
  <2>3. HandlersTypeOK'
    OBVIOUS
  <2>4. GhostsTypeOK'
    OBVIOUS
  <2> QED
    BY <2>1, <2>2, <2>3, <2>4
<1>2. CasesInv'
  BY DEF CasesInv, UniqueIds, Live
<1>3. RowsInv'
  BY DEF RowsInv, RowInv, Live, FailureInv
<1>4. HandlersInv'
  BY DEF HandlersInv, Submitting, WorksOn, Defaulted
<1>5. LimitsOfTheProblem'
  BY DEF LimitsOfTheProblem
<1> QED
  BY <1>1, <1>2, <1>3, <1>4, <1>5

LEMMA InsertKeeps ==
  ASSUME StoreTypeOK, StoreInv, NEW h \in Handlers, NEW s \in Subs, Insert(h, s)
  PROVE  StoreTypeOK' /\ StoreInv'
<1> USE StoreAssumption
    DEF StoreTypeOK, TablesTypeOK, JudgeTypeOK, HandlersTypeOK, GhostsTypeOK, StoreInv,
        Insert, Done, Goto, adminVars, judgeVars, handlerVars, ghostVars
<1>1. StoreTypeOK'
  <2>1. TablesTypeOK'
    OBVIOUS
  <2>2. JudgeTypeOK'
    <3>1. hproblem[h] \in Problems /\ 0 \in 0..MaxCases
      BY DEF HandlersInv
    <3>2. Submission(hproblem[h], "PENDING", 0) \in Rows
      BY <3>1, SubmissionIsRow DEF Statuses
    <3> QED
      BY <3>2 DEF Submission
  <2>3. HandlersTypeOK'
    OBVIOUS
  <2>4. GhostsTypeOK'
    <3>1. limit[hproblem[h]] \in Limits \cup {DefaultLimit}
      BY DEF HandlersInv
    <3> QED
      BY <3>1
  <2> QED
    BY <2>1, <2>2, <2>3, <2>4
<1>2. CasesInv'
  BY DEF CasesInv, UniqueIds, Live
<1>3. RowsInv'
  <2> SUFFICES ASSUME NEW x \in Subs
               PROVE  RowInv(x)'
    BY DEF RowsInv
  <2>1. CASE x = s
    <3>1. row'[x] = Submission(hproblem[h], "PENDING", 0) /\ limitsHad'[x] = {limit[hproblem[h]]}
      BY <2>1
    <3>2. hproblem[h] \in Problems /\ 0 \in 0..MaxCases
      BY DEF HandlersInv
    <3>3. row'[x] # Nothing /\ row'[x].problem = hproblem[h] /\ row'[x].failed = 0
      BY <3>1, <3>2, SubmissionIsRow DEF Statuses
    <3>4. Live(row'[x].problem)
      BY <3>3
    <3>5. ~(row'[x].failed > 0)
      BY <3>3
    <3>6. task'[x] = Nothing => limit'[row'[x].problem] \in limitsHad'[x]
      BY <3>1, <3>3
    <3>7. problems' = problems
      OBVIOUS
    <3> QED
      BY <3>3, <3>4, <3>5, <3>6, <3>7 DEF RowInv, Live
  <2>2. CASE x # s
    <3>1. row'[x] = row[x] /\ limitsHad'[x] = limitsHad[x]
      BY <2>2
    <3> QED
      BY <3>1 DEF RowsInv, RowInv, Live, FailureInv
  <2> QED
    BY <2>1, <2>2
<1>4. HandlersInv'
  <2>1. hproblem[h] \in Problems /\ 0 \in 0..MaxCases
    BY DEF HandlersInv
  <2>2. row'[s] # Nothing /\ row'[s].problem = hproblem[h]
    BY <2>1, SubmissionIsRow DEF Statuses
  <2>3. \A g \in Handlers : Submitting(g) => hsub[g] # s
    BY DEF HandlersInv, WorksOn
  <2>4. \A g \in Handlers : hpc[g] = "case" => hsub[g] # s
    BY DEF HandlersInv, WorksOn
  <2>5. task[s] = Nothing
    BY DEF RowsInv, RowInv
  <2> QED
    BY <2>2, <2>3, <2>4, <2>5 DEF HandlersInv, Submitting, WorksOn, Defaulted
<1>5. LimitsOfTheProblem'
  <2>1. task[s] = Nothing
    BY DEF RowsInv, RowInv
  <2> QED
    BY <2>1 DEF LimitsOfTheProblem
<1> QED
  BY <1>1, <1>2, <1>3, <1>4, <1>5

LEMMA InsertFailsKeeps ==
  ASSUME StoreTypeOK, StoreInv, NEW h \in Handlers, InsertFails(h)
  PROVE  StoreTypeOK' /\ StoreInv'
<1> USE StoreAssumption
    DEF StoreTypeOK, TablesTypeOK, JudgeTypeOK, HandlersTypeOK, GhostsTypeOK, StoreInv,
        InsertFails, Done, Goto, adminVars, judgeVars, handlerVars, ghostVars
<1>1. StoreTypeOK'
  <2>1. TablesTypeOK'
    OBVIOUS
  <2>2. JudgeTypeOK'
    OBVIOUS
  <2>3. HandlersTypeOK'
    OBVIOUS
  <2>4. GhostsTypeOK'
    OBVIOUS
  <2> QED
    BY <2>1, <2>2, <2>3, <2>4
<1>2. CasesInv'
  BY DEF CasesInv, UniqueIds, Live
<1>3. RowsInv'
  BY DEF RowsInv, RowInv, Live, FailureInv
<1>4. HandlersInv'
  BY DEF HandlersInv, Submitting, WorksOn, Defaulted
<1>5. LimitsOfTheProblem'
  BY DEF LimitsOfTheProblem
<1> QED
  BY <1>1, <1>2, <1>3, <1>4, <1>5

LEMMA ReadLimitsKeeps ==
  ASSUME StoreTypeOK, StoreInv, NEW h \in Handlers, ReadLimits(h)
  PROVE  StoreTypeOK' /\ StoreInv'
<1> USE StoreAssumption
    DEF StoreTypeOK, TablesTypeOK, JudgeTypeOK, HandlersTypeOK, GhostsTypeOK, StoreInv,
        ReadLimits, Done, Goto, adminVars, judgeVars, handlerVars, ghostVars
<1>1. StoreTypeOK'
  <2>1. TablesTypeOK'
    OBVIOUS
  <2>2. JudgeTypeOK'
    OBVIOUS
  <2>3. HandlersTypeOK'
    <3>1. hproblem[h] \in Problems
      BY SubmittingRow DEF Submitting
    <3> QED
      BY <3>1
  <2>4. GhostsTypeOK'
    OBVIOUS
  <2> QED
    BY <2>1, <2>2, <2>3, <2>4
<1>2. CasesInv'
  BY DEF CasesInv, UniqueIds, Live
<1>3. RowsInv'
  BY DEF RowsInv, RowInv, Live, FailureInv
<1>4. HandlersInv'
  <2>1. /\ hsub[h] \in Subs
        /\ row[hsub[h]] \in Rows
        /\ row[hsub[h]].problem = hproblem[h]
        /\ task[hsub[h]] = Nothing
    BY SubmittingRow DEF Submitting
  <2>2. Live(hproblem[h]) /\ limit[hproblem[h]] \in limitsHad[hsub[h]]
    BY <2>1, SubmissionIsRow DEF RowsInv, RowInv
  <2>3. hlimit'[h] = limit[hproblem[h]]
    BY <2>2
  <2> QED
    BY <2>2, <2>3 DEF HandlersInv, Submitting, WorksOn, Defaulted
<1>5. LimitsOfTheProblem'
  BY DEF LimitsOfTheProblem
<1> QED
  BY <1>1, <1>2, <1>3, <1>4, <1>5

LEMMA ReadLimitsFailsKeeps ==
  ASSUME StoreTypeOK, StoreInv, NEW h \in Handlers, ReadLimitsFails(h)
  PROVE  StoreTypeOK' /\ StoreInv'
<1> USE StoreAssumption
    DEF StoreTypeOK, TablesTypeOK, JudgeTypeOK, HandlersTypeOK, GhostsTypeOK, StoreInv,
        ReadLimitsFails, Done, Goto, adminVars, judgeVars, handlerVars, ghostVars
<1>1. StoreTypeOK'
  <2>1. TablesTypeOK'
    OBVIOUS
  <2>2. JudgeTypeOK'
    OBVIOUS
  <2>3. HandlersTypeOK'
    OBVIOUS
  <2>4. GhostsTypeOK'
    <3>1. hsub[h] \in Subs
      BY SubmittingRow DEF Submitting
    <3> QED
      BY <3>1
  <2> QED
    BY <2>1, <2>2, <2>3, <2>4
<1>2. CasesInv'
  BY DEF CasesInv, UniqueIds, Live
<1>3. RowsInv'
  BY DEF RowsInv, RowInv, Live, FailureInv
<1>4. HandlersInv'
  BY DEF HandlersInv, Submitting, WorksOn, Defaulted
<1>5. LimitsOfTheProblem'
  BY DEF LimitsOfTheProblem
<1> QED
  BY <1>1, <1>2, <1>3, <1>4, <1>5

LEMMA EnqueueKeeps ==
  ASSUME StoreTypeOK, StoreInv, NEW h \in Handlers, Enqueue(h)
  PROVE  StoreTypeOK' /\ StoreInv'
<1> USE StoreAssumption
    DEF StoreTypeOK, TablesTypeOK, JudgeTypeOK, HandlersTypeOK, GhostsTypeOK, StoreInv,
        Enqueue, Done, Goto, adminVars, judgeVars, handlerVars, ghostVars
<1>1. StoreTypeOK'
  <2>1. TablesTypeOK'
    OBVIOUS
  <2>2. JudgeTypeOK'
    OBVIOUS
  <2>3. HandlersTypeOK'
    OBVIOUS
  <2>4. GhostsTypeOK'
    OBVIOUS
  <2> QED
    BY <2>1, <2>2, <2>3, <2>4
<1>2. CasesInv'
  BY DEF CasesInv, UniqueIds, Live
<1>3. RowsInv'
  <2>1. hsub[h] \in Subs /\ row[hsub[h]] # Nothing
    BY DEF HandlersInv, Submitting, WorksOn
  <2>2. hlimit[h] # Nothing
    BY DEF HandlersInv
  <2>3. task' = [task EXCEPT ![hsub[h]] = hlimit[h]]
    OBVIOUS
  <2>4. \A x \in Subs : task'[x] = Nothing => task[x] = Nothing
    BY <2>1, <2>2, <2>3
  <2>5. \A x \in Subs : row[x] = Nothing => task'[x] = Nothing
    BY <2>1, <2>3 DEF RowsInv, RowInv
  <2> QED
    BY <2>4, <2>5 DEF RowsInv, RowInv, Live, FailureInv
<1>4. HandlersInv'
  BY DEF HandlersInv, Submitting, WorksOn, Defaulted
<1>5. LimitsOfTheProblem'
  <2>1. hlimit[h] \in limitsHad[hsub[h]] \cup Defaulted(hsub[h])
    BY DEF HandlersInv
  <2>2. \A x \in Subs : task'[x] = IF x = hsub[h] THEN hlimit[h] ELSE task[x]
    OBVIOUS
  <2> QED
    BY <2>1, <2>2 DEF LimitsOfTheProblem, Defaulted
<1> QED
  BY <1>1, <1>2, <1>3, <1>4, <1>5

LEMMA RefuseKeeps ==
  ASSUME StoreTypeOK, StoreInv, NEW h \in Handlers, Refuse(h)
  PROVE  StoreTypeOK' /\ StoreInv'
<1> USE StoreAssumption
    DEF StoreTypeOK, TablesTypeOK, JudgeTypeOK, HandlersTypeOK, GhostsTypeOK, StoreInv,
        Refuse, Done, Goto, adminVars, judgeVars, handlerVars, ghostVars
<1>1. StoreTypeOK'
  <2>1. TablesTypeOK'
    OBVIOUS
  <2>2. JudgeTypeOK'
    OBVIOUS
  <2>3. HandlersTypeOK'
    OBVIOUS
  <2>4. GhostsTypeOK'
    OBVIOUS
  <2> QED
    BY <2>1, <2>2, <2>3, <2>4
<1>2. CasesInv'
  BY DEF CasesInv, UniqueIds, Live
<1>3. RowsInv'
  BY DEF RowsInv, RowInv, Live, FailureInv
<1>4. HandlersInv'
  BY DEF HandlersInv, Submitting, WorksOn, Defaulted
<1>5. LimitsOfTheProblem'
  BY DEF LimitsOfTheProblem
<1> QED
  BY <1>1, <1>2, <1>3, <1>4, <1>5

LEMMA ViewKeeps ==
  ASSUME StoreTypeOK, StoreInv, NEW h \in Handlers, NEW s \in Subs, View(h, s)
  PROVE  StoreTypeOK' /\ StoreInv'
<1> USE StoreAssumption
    DEF StoreTypeOK, TablesTypeOK, JudgeTypeOK, HandlersTypeOK, GhostsTypeOK, StoreInv,
        View, Done, Goto, adminVars, judgeVars, handlerVars, ghostVars
<1>1. StoreTypeOK'
  <2>1. TablesTypeOK'
    OBVIOUS
  <2>2. JudgeTypeOK'
    OBVIOUS
  <2>3. HandlersTypeOK'
    <3>1. row[s] \in Rows
      OBVIOUS
    <3>2. row[s].problem \in Problems /\ row[s].failed \in 0..MaxCases
      BY <3>1, SubmissionIsRow
    <3> QED
      BY <3>2
  <2>4. GhostsTypeOK'
    OBVIOUS
  <2> QED
    BY <2>1, <2>2, <2>3, <2>4
<1>2. CasesInv'
  BY DEF CasesInv, UniqueIds, Live
<1>3. RowsInv'
  BY DEF RowsInv, RowInv, Live, FailureInv
<1>4. HandlersInv'
  BY DEF HandlersInv, Submitting, WorksOn, Defaulted
<1>5. LimitsOfTheProblem'
  BY DEF LimitsOfTheProblem
<1> QED
  BY <1>1, <1>2, <1>3, <1>4, <1>5

LEMMA ViewCaseKeeps ==
  ASSUME StoreTypeOK, StoreInv, NEW h \in Handlers, ViewCase(h)
  PROVE  StoreTypeOK' /\ StoreInv'
<1> USE StoreAssumption
    DEF StoreTypeOK, TablesTypeOK, JudgeTypeOK, HandlersTypeOK, GhostsTypeOK, StoreInv,
        ViewCase, Done, Goto, adminVars, judgeVars, handlerVars, ghostVars
<1>1. StoreTypeOK'
  <2>1. TablesTypeOK'
    OBVIOUS
  <2>2. JudgeTypeOK'
    OBVIOUS
  <2>3. HandlersTypeOK'
    <3>1. RowAt(CasesOf(hproblem[h]), Offset(hcase[h])) \in Case \cup {Nothing}
      BY DEF RowAt, CasesOf
    <3> QED
      BY <3>1
  <2>4. GhostsTypeOK'
    OBVIOUS
  <2> QED
    BY <2>1, <2>2, <2>3, <2>4
<1>2. CasesInv'
  BY DEF CasesInv, UniqueIds, Live
<1>3. RowsInv'
  BY DEF RowsInv, RowInv, Live, FailureInv
<1>4. HandlersInv'
  BY DEF HandlersInv, Submitting, WorksOn, Defaulted
<1>5. LimitsOfTheProblem'
  BY DEF LimitsOfTheProblem
<1> QED
  BY <1>1, <1>2, <1>3, <1>4, <1>5

LEMMA CreateProblemKeeps ==
  ASSUME StoreTypeOK, StoreInv, NEW p \in Problems, NEW l \in Limits, CreateProblem(p, l)
  PROVE  StoreTypeOK' /\ StoreInv'
<1> USE StoreAssumption
    DEF StoreTypeOK, TablesTypeOK, JudgeTypeOK, HandlersTypeOK, GhostsTypeOK, StoreInv,
        CreateProblem, Done, Goto, adminVars, judgeVars, handlerVars, ghostVars
<1>1. StoreTypeOK'
  <2>1. TablesTypeOK'
    OBVIOUS
  <2>2. JudgeTypeOK'
    OBVIOUS
  <2>3. HandlersTypeOK'
    OBVIOUS
  <2>4. GhostsTypeOK'
    OBVIOUS
  <2> QED
    BY <2>1, <2>2, <2>3, <2>4
<1>2. CasesInv'
  BY DEF CasesInv, UniqueIds, Live
<1>3. RowsInv'
  BY DEF RowsInv, RowInv, Live, FailureInv
<1>4. HandlersInv'
  BY DEF HandlersInv, Submitting, WorksOn, Defaulted
<1>5. LimitsOfTheProblem'
  BY DEF LimitsOfTheProblem
<1> QED
  BY <1>1, <1>2, <1>3, <1>4, <1>5

LEMMA UpdateProblemKeeps ==
  ASSUME StoreTypeOK, StoreInv, NEW p \in Problems, NEW l \in Limits, UpdateProblem(p, l)
  PROVE  StoreTypeOK' /\ StoreInv'
<1> USE StoreAssumption
    DEF StoreTypeOK, TablesTypeOK, JudgeTypeOK, HandlersTypeOK, GhostsTypeOK, StoreInv,
        UpdateProblem, Done, Goto, adminVars, judgeVars, handlerVars, ghostVars
<1>1. StoreTypeOK'
  <2>1. TablesTypeOK'
    OBVIOUS
  <2>2. JudgeTypeOK'
    OBVIOUS
  <2>3. HandlersTypeOK'
    OBVIOUS
  <2>4. GhostsTypeOK'
    OBVIOUS
  <2> QED
    BY <2>1, <2>2, <2>3, <2>4
<1>2. CasesInv'
  BY DEF CasesInv, UniqueIds, Live
<1>3. RowsInv'
  <2> SUFFICES ASSUME NEW x \in Subs
               PROVE  RowInv(x)'
    BY DEF RowsInv
  <2>1. row' = row /\ task' = task /\ result' = result /\ failedOn' = failedOn
    OBVIOUS
  <2>2. CASE row[x] # Nothing /\ row[x].problem = p /\ task[x] = Nothing
    <3>1. limit'[p] = l /\ l \in limitsHad'[x]
      BY <2>2 DEF Arriving, SubmissionsOf
    <3> QED
      BY <2>1, <2>2, <3>1 DEF RowsInv, RowInv, Live, FailureInv
  <2>3. CASE ~(row[x] # Nothing /\ row[x].problem = p /\ task[x] = Nothing)
    <3>1. limitsHad'[x] = limitsHad[x]
      BY <2>3 DEF Arriving, SubmissionsOf
    <3>2. row[x] # Nothing /\ task[x] = Nothing => limit'[row[x].problem] = limit[row[x].problem]
      BY <2>3, SubmissionIsRow
    <3> QED
      BY <2>1, <3>1, <3>2 DEF RowsInv, RowInv, Live, FailureInv
  <2> QED
    BY <2>2, <2>3
<1>4. HandlersInv'
  BY DEF HandlersInv, Submitting, WorksOn, Defaulted
<1>5. LimitsOfTheProblem'
  BY DEF LimitsOfTheProblem
<1> QED
  BY <1>1, <1>2, <1>3, <1>4, <1>5

LEMMA DeleteProblemKeeps ==
  ASSUME StoreTypeOK, StoreInv, NEW p \in Problems, DeleteProblem(p)
  PROVE  StoreTypeOK' /\ StoreInv'
<1> USE StoreAssumption
    DEF StoreTypeOK, TablesTypeOK, JudgeTypeOK, HandlersTypeOK, GhostsTypeOK, StoreInv,
        DeleteProblem, Done, Goto, adminVars, judgeVars, handlerVars, ghostVars
<1>1. StoreTypeOK'
  <2>1. TablesTypeOK'
    OBVIOUS
  <2>2. JudgeTypeOK'
    OBVIOUS
  <2>3. HandlersTypeOK'
    OBVIOUS
  <2>4. GhostsTypeOK'
    OBVIOUS
  <2> QED
    BY <2>1, <2>2, <2>3, <2>4
<1>2. CasesInv'
  <2>1. \A d \in cases' : d \in cases /\ d.problem # p
    BY DEF CasesOf
  <2>2. \A d \in cases' : d.problem \in Problems
    BY <2>1, CaseFields
  <2>3. \A d \in cases' : Live(d.problem)'
    BY <2>1, <2>2 DEF CasesInv, Live
  <2> QED
    BY <2>1, <2>3 DEF CasesInv, UniqueIds
<1>3. RowsInv'
  <2> SUFFICES ASSUME NEW x \in Subs
               PROVE  RowInv(x)'
    BY DEF RowsInv
  <2>1. row' = row /\ task' = task /\ result' = result /\ failedOn' = failedOn
        /\ limitsHad' = limitsHad
    OBVIOUS
  <2>2. row[x] # Nothing => row[x].problem \in Problems /\ row[x].problem # p
    BY SubmissionIsRow DEF SubmissionsOf
  <2> QED
    BY <2>1, <2>2 DEF RowsInv, RowInv, Live, FailureInv
<1>4. HandlersInv'
  BY DEF HandlersInv, Submitting, WorksOn, Defaulted
<1>5. LimitsOfTheProblem'
  BY DEF LimitsOfTheProblem
<1> QED
  BY <1>1, <1>2, <1>3, <1>4, <1>5

LEMMA AddTestcaseKeeps ==
  ASSUME StoreTypeOK, StoreInv, NEW p \in Problems, NEW o \in Orders, AddTestcase(p, o)
  PROVE  StoreTypeOK' /\ StoreInv'
<1> USE StoreAssumption
    DEF StoreTypeOK, TablesTypeOK, JudgeTypeOK, HandlersTypeOK, GhostsTypeOK, StoreInv,
        AddTestcase, Done, Goto, adminVars, judgeVars, handlerVars, ghostVars
<1>1. StoreTypeOK'
  <2>1. TablesTypeOK'
    <3>1. nextCase \in 1..MaxCases /\ o \in Nat
      OBVIOUS
    <3>2. [id |-> nextCase, problem |-> p, order |-> o] \in Case
      BY <3>1 DEF Case
    <3> QED
      BY <3>1, <3>2
  <2>2. JudgeTypeOK'
    OBVIOUS
  <2>3. HandlersTypeOK'
    OBVIOUS
  <2>4. GhostsTypeOK'
    OBVIOUS
  <2> QED
    BY <2>1, <2>2, <2>3, <2>4
<1>2. CasesInv'
  <2> DEFINE new == [id |-> nextCase, problem |-> p, order |-> o]
  <2>1. cases' = cases \cup {new} /\ nextCase' = nextCase + 1
    OBVIOUS
  <2>2. new.id = nextCase /\ new.problem = p
    OBVIOUS
  <2> HIDE DEF new
  <2>3. \A d \in cases : d.id \in Nat /\ d.id < nextCase
    BY CaseFields DEF CasesInv
  <2>4. nextCase \in Nat
    OBVIOUS
  <2>5. \A d \in cases' : d.id < nextCase' /\ Live(d.problem)'
    BY <2>1, <2>2, <2>3, <2>4 DEF CasesInv, Live
  <2>6. UniqueIds(cases)'
    BY <2>1, <2>2, <2>3, <2>4 DEF CasesInv, UniqueIds
  <2> QED
    BY <2>5, <2>6 DEF CasesInv, UniqueIds
<1>3. RowsInv'
  BY DEF RowsInv, RowInv, Live, FailureInv
<1>4. HandlersInv'
  BY DEF HandlersInv, Submitting, WorksOn, Defaulted
<1>5. LimitsOfTheProblem'
  BY DEF LimitsOfTheProblem
<1> QED
  BY <1>1, <1>2, <1>3, <1>4, <1>5

LEMMA DeleteTestcaseKeeps ==
  ASSUME StoreTypeOK, StoreInv, NEW c \in cases, DeleteTestcase(c)
  PROVE  StoreTypeOK' /\ StoreInv'
<1> USE StoreAssumption
    DEF StoreTypeOK, TablesTypeOK, JudgeTypeOK, HandlersTypeOK, GhostsTypeOK, StoreInv,
        DeleteTestcase, Done, Goto, adminVars, judgeVars, handlerVars, ghostVars
<1>1. StoreTypeOK'
  <2>1. TablesTypeOK'
    OBVIOUS
  <2>2. JudgeTypeOK'
    OBVIOUS
  <2>3. HandlersTypeOK'
    OBVIOUS
  <2>4. GhostsTypeOK'
    OBVIOUS
  <2> QED
    BY <2>1, <2>2, <2>3, <2>4
<1>2. CasesInv'
  BY DEF CasesInv, UniqueIds, Live
<1>3. RowsInv'
  BY DEF RowsInv, RowInv, Live, FailureInv
<1>4. HandlersInv'
  BY DEF HandlersInv, Submitting, WorksOn, Defaulted
<1>5. LimitsOfTheProblem'
  BY DEF LimitsOfTheProblem
<1> QED
  BY <1>1, <1>2, <1>3, <1>4, <1>5

LEMMA TakeKeeps ==
  ASSUME StoreTypeOK, StoreInv, NEW s \in Subs, Take(s)
  PROVE  StoreTypeOK' /\ StoreInv'
<1> USE StoreAssumption
    DEF StoreTypeOK, TablesTypeOK, JudgeTypeOK, HandlersTypeOK, GhostsTypeOK, StoreInv,
        Take, Done, Goto, adminVars, judgeVars, handlerVars, ghostVars
<1>1. StoreTypeOK'
  <2>1. TablesTypeOK'
    OBVIOUS
  <2>2. JudgeTypeOK'
    <3>1. row[s] \in Rows /\ row[s].status # "WA" /\ "JUDGING" \in Statuses
      BY KnownRow DEF Statuses
    <3>2. row' = [row EXCEPT ![s] = [row[s] EXCEPT !.status = "JUDGING"]]
      OBVIOUS
    <3>3. /\ row' \in [Subs -> Rows \cup {Nothing}]
          /\ row'[s].status = "JUDGING" /\ row'[s].failed = row[s].failed
      BY <3>1, <3>2, StatusOnly
    <3> QED
      BY <3>1, <3>2, <3>3
  <2>3. HandlersTypeOK'
    OBVIOUS
  <2>4. GhostsTypeOK'
    OBVIOUS
  <2> QED
    BY <2>1, <2>2, <2>3, <2>4
<1>2. CasesInv'
  BY DEF CasesInv, UniqueIds, Live
<1>3. RowsInv'
  <2> SUFFICES ASSUME NEW x \in Subs
               PROVE  RowInv(x)'
    BY DEF RowsInv
  <2>1. row[s] \in Rows /\ "JUDGING" \in Statuses
    BY KnownRow DEF Statuses
  <2>2. row'[x] = IF x = s THEN [row[s] EXCEPT !.status = "JUDGING"] ELSE row[x]
    OBVIOUS
  <2>3. row[x] # Nothing
          <=> row'[x] # Nothing
    BY <2>1, <2>2, StatusOnly
  <2>4. row[x] # Nothing
          => row'[x].problem = row[x].problem /\ row'[x].failed = row[x].failed
    BY <2>1, <2>2, StatusOnly
  <2> QED
    BY <2>3, <2>4 DEF RowsInv, RowInv, Live, FailureInv
<1>4. HandlersInv'
  <2>1. row[s] \in Rows /\ "JUDGING" \in Statuses
    BY KnownRow DEF Statuses
  <2>2. \A x \in Subs : row'[x] = IF x = s THEN [row[s] EXCEPT !.status = "JUDGING"] ELSE row[x]
    OBVIOUS
  <2>3. \A x \in Subs : row[x] # Nothing =>
          /\ row'[x] # Nothing
          /\ row'[x].problem = row[x].problem
          /\ row'[x].failed = row[x].failed
    BY <2>1, <2>2, StatusOnly
  <2> QED
    BY <2>3 DEF HandlersInv, Submitting, WorksOn, Defaulted
<1>5. LimitsOfTheProblem'
  BY DEF LimitsOfTheProblem
<1> QED
  BY <1>1, <1>2, <1>3, <1>4, <1>5

LEMMA FetchKeeps ==
  ASSUME StoreTypeOK, StoreInv, NEW s \in Subs, Fetch(s)
  PROVE  StoreTypeOK' /\ StoreInv'
<1> USE StoreAssumption
    DEF StoreTypeOK, TablesTypeOK, JudgeTypeOK, HandlersTypeOK, GhostsTypeOK, StoreInv,
        Fetch, Done, Goto, adminVars, judgeVars, handlerVars, ghostVars
<1>1. StoreTypeOK'
  <2>1. TablesTypeOK'
    OBVIOUS
  <2>2. JudgeTypeOK'
    <3>1. CasesOf(row[s].problem) \in SUBSET Case
      BY DEF CasesOf
    <3> QED
      BY <3>1
  <2>3. HandlersTypeOK'
    OBVIOUS
  <2>4. GhostsTypeOK'
    OBVIOUS
  <2> QED
    BY <2>1, <2>2, <2>3, <2>4
<1>2. CasesInv'
  <2>1. UniqueIds(CasesOf(row[s].problem))
    BY DEF CasesInv, UniqueIds, CasesOf
  <2>2. \A x \in Subs : result'[x] = IF x = s THEN CasesOf(row[s].problem) ELSE result[x]
    OBVIOUS
  <2>3. \A x \in Subs : result'[x] # Nothing => UniqueIds(result'[x])
    BY <2>1, <2>2, Zenon DEF CasesInv
  <2> QED
    BY <2>3 DEF CasesInv, UniqueIds, Live
<1>3. RowsInv'
  BY DEF RowsInv, RowInv, Live, FailureInv
<1>4. HandlersInv'
  BY DEF HandlersInv, Submitting, WorksOn, Defaulted
<1>5. LimitsOfTheProblem'
  BY DEF LimitsOfTheProblem
<1> QED
  BY <1>1, <1>2, <1>3, <1>4, <1>5

LEMMA FailEarlyKeeps ==
  ASSUME StoreTypeOK, StoreInv, NEW s \in Subs, FailEarly(s)
  PROVE  StoreTypeOK' /\ StoreInv'
<1> USE StoreAssumption
    DEF StoreTypeOK, TablesTypeOK, JudgeTypeOK, HandlersTypeOK, GhostsTypeOK, StoreInv,
        FailEarly, Done, Goto, adminVars, judgeVars, handlerVars, ghostVars
<1>1. StoreTypeOK'
  <2>1. TablesTypeOK'
    OBVIOUS
  <2>2. JudgeTypeOK'
    <3>1. row[s] \in Rows /\ row[s].status # "WA" /\ "CE" \in Statuses
      BY KnownRow DEF Statuses
    <3>2. row' = [row EXCEPT ![s] = [row[s] EXCEPT !.status = "CE"]]
      OBVIOUS
    <3>3. /\ row' \in [Subs -> Rows \cup {Nothing}]
          /\ row'[s].status = "CE" /\ row'[s].failed = row[s].failed
      BY <3>1, <3>2, StatusOnly
    <3> QED
      BY <3>1, <3>2, <3>3
  <2>3. HandlersTypeOK'
    OBVIOUS
  <2>4. GhostsTypeOK'
    OBVIOUS
  <2> QED
    BY <2>1, <2>2, <2>3, <2>4
<1>2. CasesInv'
  BY DEF CasesInv, UniqueIds, Live
<1>3. RowsInv'
  <2> SUFFICES ASSUME NEW x \in Subs
               PROVE  RowInv(x)'
    BY DEF RowsInv
  <2>1. row[s] \in Rows /\ "CE" \in Statuses
    BY KnownRow DEF Statuses
  <2>2. row'[x] = IF x = s THEN [row[s] EXCEPT !.status = "CE"] ELSE row[x]
    OBVIOUS
  <2>3. row[x] # Nothing
          <=> row'[x] # Nothing
    BY <2>1, <2>2, StatusOnly
  <2>4. row[x] # Nothing
          => row'[x].problem = row[x].problem /\ row'[x].failed = row[x].failed
    BY <2>1, <2>2, StatusOnly
  <2> QED
    BY <2>3, <2>4 DEF RowsInv, RowInv, Live, FailureInv
<1>4. HandlersInv'
  <2>1. row[s] \in Rows /\ "CE" \in Statuses
    BY KnownRow DEF Statuses
  <2>2. \A x \in Subs : row'[x] = IF x = s THEN [row[s] EXCEPT !.status = "CE"] ELSE row[x]
    OBVIOUS
  <2>3. \A x \in Subs : row[x] # Nothing =>
          /\ row'[x] # Nothing
          /\ row'[x].problem = row[x].problem
          /\ row'[x].failed = row[x].failed
    BY <2>1, <2>2, StatusOnly
  <2> QED
    BY <2>3 DEF HandlersInv, Submitting, WorksOn, Defaulted
<1>5. LimitsOfTheProblem'
  BY DEF LimitsOfTheProblem
<1> QED
  BY <1>1, <1>2, <1>3, <1>4, <1>5

LEMMA FailOnKeeps ==
  ASSUME StoreTypeOK, StoreInv, NEW s \in Subs, NEW c \in Case, FailOn(s, c)
  PROVE  StoreTypeOK' /\ StoreInv'
<1> USE StoreAssumption
    DEF StoreTypeOK, TablesTypeOK, JudgeTypeOK, HandlersTypeOK, GhostsTypeOK, StoreInv,
        FailOn, Done, Goto, adminVars, judgeVars, handlerVars, ghostVars
<1>1. StoreTypeOK'
  <2>1. TablesTypeOK'
    OBVIOUS
  <2>2. JudgeTypeOK'
    <3> DEFINE new == Submission(row[s].problem, "WA", Position(result[s], c))
    <3>1. new \in Rows /\ new.status = "WA" /\ new.failed \in 1..MaxCases
      BY FailOnRow
    <3>2. row' = [row EXCEPT ![s] = new]
      OBVIOUS
    <3> HIDE DEF new
    <3>3. row' \in [Subs -> Rows \cup {Nothing}]
      BY <3>1, <3>2
    <3>4. \A x \in Subs : row'[x] # Nothing => (row'[x].status = "WA" <=> row'[x].failed > 0)
      BY <3>1, <3>2
    <3> QED
      BY <3>3, <3>4
  <2>3. HandlersTypeOK'
    OBVIOUS
  <2>4. GhostsTypeOK'
    OBVIOUS
  <2> QED
    BY <2>1, <2>2, <2>3, <2>4
<1>2. CasesInv'
  BY DEF CasesInv, UniqueIds, Live
<1>3. RowsInv'
  <2> SUFFICES ASSUME NEW x \in Subs
               PROVE  RowInv(x)'
    BY DEF RowsInv
  <2> DEFINE new == Submission(row[s].problem, "WA", Position(result[s], c))
  <2>1. /\ row[s] \in Rows
        /\ new \in Rows /\ new # Nothing
        /\ new.problem = row[s].problem /\ new.status = "WA" /\ new.failed = Position(result[s], c)
        /\ new.failed \in 1..MaxCases
    BY FailOnRow
  <2>2. row' = [row EXCEPT ![s] = new]
    BY DEF new
  <2> HIDE DEF new
  <2>3. CASE x = s
    BY <2>1, <2>2, <2>3 DEF RowsInv, RowInv, Live, FailureInv
  <2>4. CASE x # s
    BY <2>2, <2>4 DEF RowsInv, RowInv, Live, FailureInv
  <2> QED
    BY <2>3, <2>4
<1>4. HandlersInv'
  <2> DEFINE new == Submission(row[s].problem, "WA", Position(result[s], c))
  <2>1. /\ row[s] \in Rows
        /\ new \in Rows /\ new # Nothing
        /\ new.problem = row[s].problem /\ new.status = "WA" /\ new.failed = Position(result[s], c)
        /\ new.failed \in 1..MaxCases
    BY FailOnRow
  <2>2. row' = [row EXCEPT ![s] = new]
    BY DEF new
  <2> HIDE DEF new
  <2>3. \A h \in Handlers : hpc[h] = "case" => hsub[h] # s
    BY DEF HandlersInv, WorksOn
  <2> QED
    BY <2>1, <2>2, <2>3 DEF HandlersInv, Submitting, WorksOn, Defaulted
<1>5. LimitsOfTheProblem'
  BY DEF LimitsOfTheProblem
<1> QED
  BY <1>1, <1>2, <1>3, <1>4, <1>5

LEMMA AcceptKeeps ==
  ASSUME StoreTypeOK, StoreInv, NEW s \in Subs, Accept(s)
  PROVE  StoreTypeOK' /\ StoreInv'
<1> USE StoreAssumption
    DEF StoreTypeOK, TablesTypeOK, JudgeTypeOK, HandlersTypeOK, GhostsTypeOK, StoreInv,
        Accept, Done, Goto, adminVars, judgeVars, handlerVars, ghostVars
<1>1. StoreTypeOK'
  <2>1. TablesTypeOK'
    OBVIOUS
  <2>2. JudgeTypeOK'
    <3>1. row[s] \in Rows /\ row[s].status # "WA" /\ "AC" \in Statuses
      BY KnownRow DEF Statuses
    <3>2. row' = [row EXCEPT ![s] = [row[s] EXCEPT !.status = "AC"]]
      OBVIOUS
    <3>3. /\ row' \in [Subs -> Rows \cup {Nothing}]
          /\ row'[s].status = "AC" /\ row'[s].failed = row[s].failed
      BY <3>1, <3>2, StatusOnly
    <3> QED
      BY <3>1, <3>2, <3>3
  <2>3. HandlersTypeOK'
    OBVIOUS
  <2>4. GhostsTypeOK'
    OBVIOUS
  <2> QED
    BY <2>1, <2>2, <2>3, <2>4
<1>2. CasesInv'
  BY DEF CasesInv, UniqueIds, Live
<1>3. RowsInv'
  <2> SUFFICES ASSUME NEW x \in Subs
               PROVE  RowInv(x)'
    BY DEF RowsInv
  <2>1. row[s] \in Rows /\ "AC" \in Statuses
    BY KnownRow DEF Statuses
  <2>2. row'[x] = IF x = s THEN [row[s] EXCEPT !.status = "AC"] ELSE row[x]
    OBVIOUS
  <2>3. row[x] # Nothing
          <=> row'[x] # Nothing
    BY <2>1, <2>2, StatusOnly
  <2>4. row[x] # Nothing
          => row'[x].problem = row[x].problem /\ row'[x].failed = row[x].failed
    BY <2>1, <2>2, StatusOnly
  <2> QED
    BY <2>3, <2>4 DEF RowsInv, RowInv, Live, FailureInv
<1>4. HandlersInv'
  <2>1. row[s] \in Rows /\ "AC" \in Statuses
    BY KnownRow DEF Statuses
  <2>2. \A x \in Subs : row'[x] = IF x = s THEN [row[s] EXCEPT !.status = "AC"] ELSE row[x]
    OBVIOUS
  <2>3. \A x \in Subs : row[x] # Nothing =>
          /\ row'[x] # Nothing
          /\ row'[x].problem = row[x].problem
          /\ row'[x].failed = row[x].failed
    BY <2>1, <2>2, StatusOnly
  <2> QED
    BY <2>3 DEF HandlersInv, Submitting, WorksOn, Defaulted
<1>5. LimitsOfTheProblem'
  BY DEF LimitsOfTheProblem
<1> QED
  BY <1>1, <1>2, <1>3, <1>4, <1>5

(***************************************************************************)
(* The theorems.                                                           *)
(***************************************************************************)

LEMMA StoreInitHolds == StoreInit => StoreTypeOK /\ StoreInv
<1> SUFFICES ASSUME StoreInit PROVE StoreTypeOK /\ StoreInv
  OBVIOUS
<1> USE StoreAssumption DEF StoreInit
<1>1. StoreTypeOK
  BY DEF StoreTypeOK, TablesTypeOK, JudgeTypeOK, HandlersTypeOK, GhostsTypeOK
<1>2. CasesInv
  BY DEF CasesInv, UniqueIds
<1>3. RowsInv
  BY DEF RowsInv, RowInv
<1>4. HandlersInv
  BY DEF HandlersInv, Submitting
<1>5. LimitsOfTheProblem
  BY DEF LimitsOfTheProblem
<1> QED
  BY <1>1, <1>2, <1>3, <1>4, <1>5 DEF StoreInv

LEMMA StoreNextKeeps ==
  ASSUME StoreTypeOK, StoreInv, [StoreNext]_storeVars
  PROVE  StoreTypeOK' /\ StoreInv'
<1>1. ASSUME NEW h \in Handlers, HandlerStep(h)
      PROVE  StoreTypeOK' /\ StoreInv'
  BY <1>1, ExistsKeeps, InsertKeeps, InsertFailsKeeps, ReadLimitsKeeps,
     ReadLimitsFailsKeeps, EnqueueKeeps, RefuseKeeps, ViewKeeps, ViewCaseKeeps
     DEF HandlerStep
<1>2. ASSUME AdminStep
      PROVE  StoreTypeOK' /\ StoreInv'
  BY <1>2, CreateProblemKeeps, UpdateProblemKeeps, DeleteProblemKeeps, AddTestcaseKeeps,
     DeleteTestcaseKeeps DEF AdminStep, ProblemRequest, TestcaseRequest
<1>3. ASSUME NEW s \in Subs, JudgeStep(s)
      PROVE  StoreTypeOK' /\ StoreInv'
  BY <1>3, TakeKeeps, FetchKeeps, FailEarlyKeeps, FailOnKeeps, AcceptKeeps DEF JudgeStep
<1>4. ASSUME UNCHANGED storeVars
      PROVE  StoreTypeOK' /\ StoreInv'
  <2> USE <1>4 DEF storeVars, adminVars, judgeVars, handlerVars, ghostVars
  <2>1. StoreTypeOK'
    BY DEF StoreTypeOK, TablesTypeOK, JudgeTypeOK, HandlersTypeOK, GhostsTypeOK
  <2>2. CasesInv' /\ RowsInv'
    BY DEF StoreInv, CasesInv, RowsInv, RowInv, UniqueIds, Live, FailureInv
  <2>3. HandlersInv' /\ LimitsOfTheProblem'
    BY DEF StoreInv, HandlersInv, Submitting, WorksOn, Defaulted, LimitsOfTheProblem
  <2> QED
    BY <2>1, <2>2, <2>3 DEF StoreInv
<1> QED
  BY <1>1, <1>2, <1>3, <1>4 DEF StoreNext

\* The tables and the local variables of the requests keep their types; in particular
\* the position of a failed test case is one that the table can have
\* (executor_service.cc:145).
THEOREM StoreTypeCorrect == StoreSpec => []StoreTypeOK
<1>1. StoreInit => StoreTypeOK /\ StoreInv
  BY StoreInitHolds
<1>2. StoreTypeOK /\ StoreInv /\ [StoreNext]_storeVars => (StoreTypeOK /\ StoreInv)'
  BY StoreNextKeeps
<1> QED
  BY <1>1, <1>2, PTL DEF StoreSpec

\* Rows hang together with problems, tasks and verdicts, and requests with the rows they
\* work on, through every interleaving of statements (submit_handler.cc:72-106,
\* executor_service.cc:121-183).
THEOREM StoreInvariant == StoreSpec => []StoreInv
<1>1. StoreInit => StoreTypeOK /\ StoreInv
  BY StoreInitHolds
<1>2. StoreTypeOK /\ StoreInv /\ [StoreNext]_storeVars => (StoreTypeOK /\ StoreInv)'
  BY StoreNextKeeps
<1> QED
  BY <1>1, <1>2, PTL DEF StoreSpec

\* No test case, submission or task refers to a problem that is gone, although
\* problem_exists and the INSERT are two statements (submit_handler.cc:72, 91).
THEOREM RowsKeepTheirProblems == StoreSpec => []RowsHaveProblems
<1>1. StoreInv => RowsHaveProblems
  BY DEF StoreInv, CasesInv, RowsInv, RowInv, RowsHaveProblems
<1> QED
  BY <1>1, StoreInvariant, PTL

\* A submission is judged under a limit its problem had since the INSERT, the defaults
\* come from a failed SELECT only (submit_handler.cc:102).
THEOREM LimitsAreTheProblems == StoreSpec => []LimitsOfTheProblem
<1>1. StoreInv => LimitsOfTheProblem
  BY DEF StoreInv
<1> QED
  BY <1>1, StoreInvariant, PTL

\* Where nothing changed up to the failed test case, as many test cases precede it in
\* the table as in the result.
LEMMA SamePreceding ==
  ASSUME NEW S \in SUBSET Case, NEW T \in SUBSET Case, NEW c \in S,
         \A d \in (S \ T) \cup (T \ S) : Before(c, d)
  PROVE  c \in T /\ Preceding(S, c) = Preceding(T, c)
<1>1. \A d \in S \cup T : Before(c, d) => ~Before(d, c) /\ d # c
  <2> SUFFICES ASSUME NEW d \in S \cup T, Before(c, d)
               PROVE  ~Before(d, c) /\ d # c
    OBVIOUS
  <2>1. c \in Case /\ d \in Case
    OBVIOUS
  <2>2. c.id \in Nat /\ c.order \in Nat /\ d.id \in Nat /\ d.order \in Nat
    BY <2>1, CaseFields
  <2> QED
    BY <2>2 DEF Before
<1> QED
  BY <1>1 DEF Preceding

\* The query of a submission shows the test case it failed on, while nothing is edited
\* up to it (executor_service.cc:145, submit_handler.cc:176).
LEMMA ViewCaseShowsFailed ==
  ASSUME StoreTypeOK, StoreInv, NEW h \in Handlers, ViewCase(h), SameUpToFailed(hsub[h])
  PROVE  shown'[h] = failedOn[hsub[h]]
<1> DEFINE s == hsub[h]
           c == failedOn[s]
           now == CasesOf(row[s].problem)
<1>1. /\ s \in Subs
      /\ row[s] # Nothing
      /\ row[s].problem = hproblem[h]
      /\ hcase[h] > 0
      /\ hcase[h] = row[s].failed
  BY DEF ViewCase, StoreInv, HandlersInv, WorksOn
<1>2. /\ result[s] # Nothing
      /\ c \in result[s]
      /\ hcase[h] = Position(result[s], c)
  BY <1>1 DEF StoreInv, RowsInv, RowInv, FailureInv
<1>3. result[s] \in SUBSET Case
  BY <1>1, <1>2 DEF StoreTypeOK, JudgeTypeOK
<1>4. now \in SUBSET Case /\ UniqueIds(now)
  BY DEF CasesOf, StoreInv, CasesInv, StoreTypeOK, TablesTypeOK, UniqueIds
<1>5. \A d \in (result[s] \ now) \cup (now \ result[s]) : Before(c, d)
  BY DEF SameUpToFailed
<1>6. shown'[h] = RowAt(CasesOf(hproblem[h]), Offset(hcase[h]))
  BY DEF ViewCase, StoreTypeOK, HandlersTypeOK
<1> HIDE DEF s, c, now
<1>7. c \in now /\ Preceding(result[s], c) = Preceding(now, c)
  BY <1>2, <1>3, <1>4, <1>5, SamePreceding
<1>8. IsFiniteSet(now)
  BY <1>4, CasesAreFinite
<1>9. Cardinality(Preceding(now, c)) \in Nat
  BY <1>8, FS_Subset, FS_CardinalityType DEF Preceding
<1>10. Offset(hcase[h]) = Cardinality(Preceding(now, c))
  BY <1>2, <1>7, <1>9 DEF Offset, Position
<1>11. RowAt(now, Cardinality(Preceding(now, c))) = c
  BY <1>4, <1>7, RowAtPosition
<1> QED
  BY <1>1, <1>6, <1>10, <1>11 DEF s, c, now

\* Only the end of a query takes a handler from its second statement to idle.
LEMMA OnlyViewCaseEnds ==
  ASSUME StoreTypeOK, StoreNext, NEW h \in Handlers, hpc[h] = "case", hpc'[h] = "idle"
  PROVE  ViewCase(h)
<1>1. ASSUME NEW g \in Handlers, HandlerStep(g)
      PROVE  ViewCase(h)
  BY <1>1 DEF HandlerStep, Exists, Insert, InsertFails, ReadLimits, ReadLimitsFails,
     Enqueue, Refuse, View, ViewCase, Done, Goto, StoreTypeOK, HandlersTypeOK
<1>2. ASSUME AdminStep
      PROVE  FALSE
  BY <1>2 DEF AdminStep, ProblemRequest, TestcaseRequest, CreateProblem, UpdateProblem,
     DeleteProblem, AddTestcase, DeleteTestcase, handlerVars
<1>3. ASSUME NEW s \in Subs, JudgeStep(s)
      PROVE  FALSE
  BY <1>3 DEF JudgeStep, Take, Fetch, FailEarly, FailOn, Accept, handlerVars
<1> QED
  BY <1>1, <1>2, <1>3 DEF StoreNext

\* The test case shown with a verdict is the one the program failed on, whatever is
\* edited behind it (submit_handler.cc:176).
THEOREM FailedCaseIsShown == StoreSpec => ShownCaseIsFailed
<1> DEFINE Shows == \A h \in Handlers :
             hpc[h] = "case" /\ hpc'[h] = "idle" /\ SameUpToFailed(hsub[h])
               => shown'[h] = failedOn[hsub[h]]
<1>1. ASSUME StoreTypeOK, StoreInv, StoreNext
      PROVE  Shows
  BY <1>1, OnlyViewCaseEnds, ViewCaseShowsFailed
<1>2. ASSUME UNCHANGED storeVars
      PROVE  Shows \/ UNCHANGED storeVars
  BY <1>2
<1>3. StoreTypeOK /\ StoreInv /\ [StoreNext]_storeVars => [Shows]_storeVars
  BY <1>1, <1>2
<1> HIDE DEF Shows
<1>4. StoreSpec => [][Shows]_storeVars
  BY <1>3, StoreTypeCorrect, StoreInvariant, PTL DEF StoreSpec
<1> QED
  BY <1>4 DEF Shows, ShownCaseIsFailed
=============================================================================
