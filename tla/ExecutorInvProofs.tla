------------------------- MODULE ExecutorInvProofs -------------------------
(***************************************************************************)
(* The proof that WorkInv is an invariant of the judging service, and what *)
(* follows from it.                                                        *)
(***************************************************************************)
EXTENDS ExecutorProofs

-----------------------------------------------------------------------------
(***************************************************************************)
(* The queue as a set of submissions.                                      *)
(***************************************************************************)

\* Membership in Held, without set comprehensions.
LEMMA HeldMember ==
  ASSUME NEW s
  PROVE  s \in Held <=> \/ \E h \in Handlers : hpc[h] \in Owning /\ hsub[h] = s
                        \/ s \in QueuedSubs
                        \/ \E w \in Workers : wpc[w] \in Judging /\ wsub[w] = s
BY DEF Held

\* push: one more element.
LEMMA AppendElements ==
  ASSUME NEW q \in Seq(Subs), NEW x \in Subs
  PROVE  {Append(q, x)[i] : i \in 1..Len(Append(q, x))} = {q[i] : i \in 1..Len(q)} \cup {x}
<1>1. Len(Append(q, x)) = Len(q) + 1 /\ Len(q) \in Nat
  OBVIOUS
<1>2. \A i \in 1..Len(q) : Append(q, x)[i] = q[i]
  OBVIOUS
<1>3. Append(q, x)[Len(q) + 1] = x
  OBVIOUS
<1>4. 1..(Len(q) + 1) = 1..Len(q) \cup {Len(q) + 1}
  BY <1>1
<1> QED
  BY <1>1, <1>2, <1>3, <1>4

\* push keeps the elements distinct when the new one is not among them.
LEMMA AppendDistinct ==
  ASSUME NEW q \in Seq(Subs), NEW x \in Subs, x \notin {q[i] : i \in 1..Len(q)},
         \A i, j \in 1..Len(q) : q[i] = q[j] => i = j
  PROVE  \A i, j \in 1..Len(Append(q, x)) : Append(q, x)[i] = Append(q, x)[j] => i = j
OBVIOUS

\* pop: the front goes, and the rest keeps its order.
LEMMA TailElements ==
  ASSUME NEW q \in Seq(Subs), q # <<>>,
         \A i, j \in 1..Len(q) : q[i] = q[j] => i = j
  PROVE  /\ Head(q) \in {q[i] : i \in 1..Len(q)}
         /\ {Tail(q)[i] : i \in 1..Len(Tail(q))} = {q[i] : i \in 1..Len(q)} \ {Head(q)}
         /\ \A i, j \in 1..Len(Tail(q)) : Tail(q)[i] = Tail(q)[j] => i = j
<1>1. Len(q) \in Nat /\ Len(q) >= 1 /\ Len(Tail(q)) = Len(q) - 1 /\ Head(q) = q[1]
  OBVIOUS
<1>2. \A i \in 1..Len(Tail(q)) : Tail(q)[i] = q[i + 1]
  OBVIOUS
<1>3. \A i \in 2..Len(q) : i - 1 \in 1..Len(Tail(q)) /\ q[i] = Tail(q)[i - 1]
  BY <1>1, <1>2
<1>4. \A i \in 1..Len(q) : i = 1 \/ i \in 2..Len(q)
  BY <1>1
<1>5. \A i \in 1..Len(Tail(q)) : i + 1 \in 2..Len(q) /\ i + 1 \in 1..Len(q)
  BY <1>1
<1>6. Head(q) \in {q[i] : i \in 1..Len(q)}
  BY <1>1
<1>7. ASSUME NEW x \in {Tail(q)[i] : i \in 1..Len(Tail(q))}
      PROVE  x \in {q[i] : i \in 1..Len(q)} \ {Head(q)}
  <2>1. PICK i \in 1..Len(Tail(q)) : x = Tail(q)[i]
    OBVIOUS
  <2>2. x = q[i + 1] /\ i + 1 \in 1..Len(q) /\ i + 1 # 1 /\ 1 \in 1..Len(q)
    BY <1>1, <1>2, <1>5, <2>1
  <2> QED
    BY <1>1, <2>2
<1>8. ASSUME NEW x \in {q[i] : i \in 1..Len(q)} \ {Head(q)}
      PROVE  x \in {Tail(q)[i] : i \in 1..Len(Tail(q))}
  <2>1. PICK i \in 1..Len(q) : x = q[i]
    OBVIOUS
  <2>2. i \in 2..Len(q)
    BY <1>1, <1>4, <1>8, <2>1
  <2> QED
    BY <1>3, <2>1, <2>2
<1>9. \A i, j \in 1..Len(Tail(q)) : Tail(q)[i] = Tail(q)[j] => i = j
  <2> TAKE i, j \in 1..Len(Tail(q))
  <2> HAVE Tail(q)[i] = Tail(q)[j]
  <2>1. q[i + 1] = q[j + 1]
    BY <1>2
  <2>2. i + 1 = j + 1
    BY <1>5, <2>1
  <2> QED
    BY <2>2
<1> QED
  BY <1>6, <1>7, <1>8, <1>9
-----------------------------------------------------------------------------
(***************************************************************************)
(* What a step that leaves some of the state alone preserves.              *)
(***************************************************************************)

\* Nobody's task moves.
SamePlaces == UNCHANGED <<hpc, hsub, queue, wsub>>

LEMMA SamePlacesOnce ==
  ASSUME JudgedOnce, SamePlaces
  PROVE  JudgedOnce'
BY DEF JudgedOnce, SamePlaces, QueuedSubs

\* Nobody's task moves, and no worker enters or leaves judge().
LEMMA SameHeld ==
  ASSUME SamePlaces, \A w \in Workers : wpc'[w] \in Judging <=> wpc[w] \in Judging
  PROVE  Held' = Held
BY DEF Held, QueuedSubs, SamePlaces

\* Rows that are undecided stay so, and others do not become it.
LEMMA SameAccount ==
  ASSUME AccountedFor, Held' = Held, UNCHANGED forgotten,
         \A s \in Subs : status'[s] \in {"PENDING", "JUDGING"}
                        <=> status[s] \in {"PENDING", "JUDGING"}
  PROVE  AccountedFor'
BY DEF AccountedFor

\* A worker that does not move keeps what it knows.
LEMMA KnowsFrame ==
  ASSUME NEW w \in Workers, KnowsAt(w), hostFault \subseteq hostFault', UNCHANGED program,
         wpc'[w] = wpc[w], wsub'[w] = wsub[w], wcase'[w] = wcase[w], wout'[w] = wout[w]
  PROVE  KnowsAt(w)'
BY DEF KnowsAt

\* Outside judge() there is nothing to know but that no case has been counted.
LEMMA IdleKnows ==
  ASSUME NEW w \in Workers, wpc'[w] \notin {"fetch", "run", "report"}, wcase'[w] = 0
  PROVE  KnowsAt(w)'
BY DEF KnowsAt

LEMMA SameRowsVerdicts ==
  ASSUME VerdictCorrect, hostFault \subseteq hostFault', UNCHANGED <<program, failedCase>>,
         \A s \in Subs : status'[s] \in Verdicts => status'[s] = status[s]
  PROVE  VerdictCorrect'
BY DEF VerdictCorrect

\* A submission that a thread holds has an undecided row.
LEMMA HeldUndecided ==
  ASSUME ExecTypeOK, AccountedFor, NEW s \in Held
  PROVE  s \in Subs /\ status[s] \in {"PENDING", "JUDGING"} /\ s \notin forgotten
<1>1. s \in Subs
  BY DEF Held, QueuedSubs, ExecTypeOK, HandlerTypeOK, WorkerTypeOK, Owning
<1> QED
  BY <1>1 DEF AccountedFor

\* A step outside judge() that moves workers between program counters where they
\* have no task keeps the invariant.
LEMMA IdleMoves ==
  ASSUME WorkInv, ExecTypeOK', StoppedIsEmpty', SamePlaces,
         UNCHANGED <<rowVars, wcase, wout, dirs, forgotten>>,
         \A w \in Workers : wpc'[w] = wpc[w] \/ (wpc[w] \in Idling /\ wpc'[w] \in Idling)
  PROVE  WorkInv'
<1>1. JudgedOnce'
  BY SamePlacesOnce DEF WorkInv
<1>2. \A w \in Workers : wpc'[w] \in Judging <=> wpc[w] \in Judging
  BY DEF Idling, Judging
<1>3. AccountedFor'
  BY <1>2, SameHeld, SameAccount DEF WorkInv, rowVars
<1>4. (WaitingIsPending /\ UndecidedHasNoCase /\ NoEarlySandbox)'
  BY DEF WorkInv, WaitingIsPending, UndecidedHasNoCase, NoEarlySandbox, SamePlaces, QueuedSubs,
     rowVars, Idling
<1>5. JudgingKnows'
  <2> SUFFICES ASSUME NEW w \in Workers PROVE KnowsAt(w)'
    BY DEF JudgingKnows
  <2>1. KnowsAt(w)
    BY DEF WorkInv, JudgingKnows
  <2>2. CASE wpc'[w] = wpc[w]
    BY <2>1, <2>2, KnowsFrame DEF SamePlaces, rowVars
  <2>3. CASE wpc[w] \in Idling /\ wpc'[w] \in Idling
    BY <2>1, <2>3, IdleKnows DEF KnowsAt, Idling
  <2> QED
    BY <2>2, <2>3
<1>6. VerdictCorrect'
  BY SameRowsVerdicts DEF WorkInv, rowVars
<1> QED
  BY <1>1, <1>3, <1>4, <1>5, <1>6 DEF WorkInv

\* A step of judge() before its last update_status keeps the invariant, provided
\* the worker's own knowledge follows it.
LEMMA JudgeMoves ==
  ASSUME WorkInv, ExecTypeOK', SamePlaces,
         NEW w \in Workers, wpc[w] \in Judging,
         NEW pc \in Judging \ {"mark"}, wpc' = [wpc EXCEPT ![w] = pc],
         \A x \in Workers \ {w} : wcase'[x] = wcase[x] /\ wout'[x] = wout[x],
         hostFault \subseteq hostFault',
         UNCHANGED <<program, failedCase, forgotten, main>>,
         \/ UNCHANGED status
         \/ status' = [status EXCEPT ![wsub[w]] = "JUDGING"],
         \/ UNCHANGED dirs /\ pc # "setup"
         \/ UNCHANGED dirs /\ wpc[w] = "mark"
         \/ dirs' = dirs \cup {wsub[w]} /\ pc # "setup",
         KnowsAt(w)'
  PROVE  WorkInv'
<1> DEFINE s == wsub[w]
<1>1. s \in Held
  BY DEF Held
<1>2. s \in Subs /\ status[s] \in {"PENDING", "JUDGING"}
  BY <1>1, HeldUndecided DEF WorkInv
<1>3. /\ s \notin QueuedSubs
      /\ \A h \in Handlers : hpc[h] \in Owning => hsub[h] # s
      /\ \A x \in Workers : wsub[x] = s => x = w
  <2>1. s # NoSub
    BY <1>2, ExecutorAssumption
  <2> QED
    BY <2>1 DEF WorkInv, JudgedOnce
<1>4. status \in [Subs -> {"none", "PENDING", "JUDGING"} \cup Verdicts]
  BY DEF WorkInv, ExecTypeOK, RowTypeOK
<1>5. wpc \in [Workers -> {"loop", "lock", "about", "asleep", "timeout", "cleanup",
                          "exited"} \cup Judging]
  BY DEF WorkInv, ExecTypeOK, WorkerTypeOK
<1>6. \A x \in Workers : wpc'[x] = IF x = w THEN pc ELSE wpc[x]
  BY <1>5
<1>7. \A r \in Subs : status'[r] = status[r] \/ (r = s /\ status'[r] = "JUDGING")
  BY <1>2, <1>4
<1>8. JudgedOnce'
  BY SamePlacesOnce DEF WorkInv
<1>9. AccountedFor'
  <2>1. Held' = Held
    BY <1>6, SameHeld
  <2>2. \A r \in Subs : status'[r] \in {"PENDING", "JUDGING"}
                        <=> status[r] \in {"PENDING", "JUDGING"}
    BY <1>2, <1>7
  <2> QED
    BY <2>1, <2>2, SameAccount DEF WorkInv
<1>10. WaitingIsPending'
  <2>1. \A h \in Handlers : hpc[h] \in Owning => hsub[h] \in Subs
    BY ExecutorAssumption DEF WorkInv, ExecTypeOK, HandlerTypeOK, Owning
  <2>2. \A r \in QueuedSubs : r \in Subs
    BY DEF WorkInv, ExecTypeOK, QueuedSubs
  <2>3. \A x \in Workers : wsub[x] # NoSub => wsub[x] \in Subs
    BY DEF WorkInv, ExecTypeOK, WorkerTypeOK
  <2>4. \A x \in Workers : wpc[x] = "mark" => wsub[x] \in Subs
    BY <2>3 DEF WorkInv, ExecTypeOK, WorkerTypeOK, Judging
  <2>5. \A h \in Handlers : hpc'[h] \in Owning => status'[hsub'[h]] = "PENDING"
    BY <1>3, <1>7, <2>1 DEF WorkInv, WaitingIsPending, SamePlaces
  <2>6. \A r \in QueuedSubs' : status'[r] = "PENDING"
    BY <1>3, <1>7, <2>2 DEF WorkInv, WaitingIsPending, SamePlaces, QueuedSubs
  <2>7. \A x \in Workers : wpc'[x] = "mark" => status'[wsub'[x]] = "PENDING"
    BY <1>3, <1>6, <1>7, <2>4 DEF WorkInv, WaitingIsPending, SamePlaces
  <2>8. \A x \in Workers : wsub'[x] # NoSub => status'[wsub'[x]] # "none"
    BY <1>7, <2>3 DEF WorkInv, WaitingIsPending, SamePlaces
  <2> QED
    BY <2>5, <2>6, <2>7, <2>8 DEF WaitingIsPending
<1>11. UndecidedHasNoCase'
  BY <1>2, <1>7 DEF WorkInv, UndecidedHasNoCase, Verdicts
<1>12. JudgingKnows'
  <2> SUFFICES ASSUME NEW x \in Workers \ {w} PROVE KnowsAt(x)'
    BY DEF JudgingKnows
  <2> QED
    BY <1>6, KnowsFrame DEF WorkInv, JudgingKnows, SamePlaces
<1>13. NoEarlySandbox'
  <2>1. \A r \in dirs : status'[r] # "none"
    BY <1>7 DEF WorkInv, NoEarlySandbox, ExecTypeOK, RowTypeOK
  <2>2. status'[s] # "none"
    BY <1>2, <1>7
  <2>3. \A r \in dirs : \A x \in Workers : wpc'[x] \in {"mark", "setup"} => wsub[x] # r
    BY <1>6 DEF WorkInv, NoEarlySandbox
  <2>4. pc # "setup" => \A x \in Workers : wpc'[x] \in {"mark", "setup"} => wsub[x] # s
    BY <1>3, <1>6
  <2> QED
    BY <1>3, <2>1, <2>2, <2>3, <2>4 DEF WorkInv, NoEarlySandbox, SamePlaces, QueuedSubs
<1>14. VerdictCorrect'
  BY <1>7, SameRowsVerdicts DEF WorkInv, Verdicts
<1>15. StoppedIsEmpty'
  BY DEF WorkInv, StoppedIsEmpty, Judging
<1> QED
  BY <1>8, <1>9, <1>10, <1>11, <1>12, <1>13, <1>14, <1>15 DEF WorkInv
-----------------------------------------------------------------------------
(***************************************************************************)
(* The invariant holds at the start and is preserved by each action.       *)
(***************************************************************************)

LEMMA WorkInit == ExecInit => WorkInv
<1> SUFFICES ASSUME ExecInit PROVE WorkInv
  OBVIOUS
<1>1. QueuedSubs = {}
  BY DEF ExecInit, QueuedSubs
<1>2. Held = {}
  BY <1>1 DEF ExecInit, Held, Judging, Owning
<1>3. AccountedFor
  BY <1>2 DEF ExecInit, Init, AccountedFor
<1>4. JudgedOnce /\ WaitingIsPending /\ NoEarlySandbox
  BY <1>1 DEF ExecInit, JudgedOnce, WaitingIsPending, NoEarlySandbox, Owning
<1>5. UndecidedHasNoCase /\ VerdictCorrect /\ JudgingKnows /\ StoppedIsEmpty
  BY DEF ExecInit, Init, UndecidedHasNoCase, VerdictCorrect, JudgingKnows, KnowsAt, StoppedIsEmpty,
     Verdicts
<1> QED
  BY <1>3, <1>4, <1>5, TypeInit DEF WorkInv

\* A handler that begins, finds no row to own or has read the limits owns what it did.
LEMMA HandlerMovesInv ==
  ASSUME WorkInv, ExecTypeOK', NEW h \in Handlers, HBegin(h) \/ HNoRow(h) \/ HDetail(h)
  PROVE  WorkInv'
<1>1. /\ UNCHANGED <<rowVars, hsub, queue, wpc, wsub, wcase, wout, main, dirs, forgotten>>
      /\ \A g \in Handlers : hpc'[g] \in Owning <=> hpc[g] \in Owning
  BY DEF HBegin, HNoRow, HDetail, workerVars, Owning, WorkInv, ExecTypeOK, HandlerTypeOK
<1>2. QueuedSubs' = QueuedSubs
  BY <1>1 DEF QueuedSubs
<1>3. Held' = Held
  BY <1>1, <1>2 DEF Held
<1>4. JudgedOnce' /\ AccountedFor'
  BY <1>1, <1>2, <1>3 DEF WorkInv, JudgedOnce, AccountedFor, rowVars
<1>5. WaitingIsPending' /\ NoEarlySandbox'
  BY <1>1, <1>2 DEF WorkInv, WaitingIsPending, NoEarlySandbox, rowVars
<1>6. UndecidedHasNoCase' /\ VerdictCorrect' /\ StoppedIsEmpty' /\ JudgingKnows'
  BY <1>1 DEF WorkInv, UndecidedHasNoCase, VerdictCorrect, StoppedIsEmpty, JudgingKnows, KnowsAt,
     rowVars
<1> QED
  BY <1>4, <1>5, <1>6 DEF WorkInv

\* The new row is in nobody's hands but the handler's.
LEMMA HInsertInv ==
  ASSUME WorkInv, ExecTypeOK', NEW h \in Handlers, NEW s \in Subs, HInsert(h, s)
  PROVE  WorkInv'
<1>1. /\ status[s] = "none" /\ hpc[h] = "insert"
      /\ status' = [status EXCEPT ![s] = "PENDING"]
      /\ hpc' = [hpc EXCEPT ![h] = "detail"]
      /\ hsub' = [hsub EXCEPT ![h] = s]
      /\ UNCHANGED <<program, failedCase, hostFault, queue, wpc, wsub, wcase, wout, main, dirs,
                     forgotten>>
  BY DEF HInsert, workerVars
<1>2. /\ hpc \in [Handlers -> {"idle", "insert", "notify"} \cup Owning]
      /\ hsub \in [Handlers -> Subs \cup {NoSub}]
      /\ status \in [Subs -> {"none", "PENDING", "JUDGING"} \cup Verdicts]
  BY DEF WorkInv, ExecTypeOK, HandlerTypeOK, RowTypeOK
<1>3. /\ hpc[h] \notin Owning /\ hpc'[h] \in Owning
      /\ \A g \in Handlers : hpc'[g] = IF g = h THEN "detail" ELSE hpc[g]
      /\ \A g \in Handlers : hsub'[g] = IF g = h THEN s ELSE hsub[g]
      /\ \A r \in Subs : status'[r] = IF r = s THEN "PENDING" ELSE status[r]
  BY <1>1, <1>2 DEF Owning
<1>4. /\ s \notin Held /\ s \notin forgotten /\ s \notin QueuedSubs
      /\ \A g \in Handlers : hpc[g] \in Owning => hsub[g] # s
      /\ \A w \in Workers : wsub[w] # s
  <2>1. s \notin Held \cup forgotten
    BY <1>1 DEF WorkInv, AccountedFor
  <2>2. s # NoSub
    BY ExecutorAssumption
  <2> QED
    BY <1>1, <2>1, <2>2, HeldMember DEF WorkInv, WaitingIsPending
<1>5. Held' = Held \cup {s}
  <2>1. QueuedSubs' = QueuedSubs
    BY <1>1 DEF QueuedSubs
  <2> QED
    BY <1>1, <1>3, <2>1 DEF Held
<1>6. JudgedOnce'
  BY <1>1, <1>3, <1>4 DEF WorkInv, JudgedOnce, QueuedSubs
<1>7. AccountedFor'
  BY <1>1, <1>3, <1>4, <1>5 DEF WorkInv, AccountedFor
<1>8. WaitingIsPending'
  <2>1. \A g \in Handlers : hpc'[g] \in Owning => status'[hsub'[g]] = "PENDING"
    <3>1. \A g \in Handlers : hpc[g] \in Owning => hsub[g] \in Subs
      BY ExecutorAssumption DEF WorkInv, ExecTypeOK, HandlerTypeOK, Owning
    <3> QED
      BY <1>3, <3>1 DEF WorkInv, WaitingIsPending
  <2>2. \A r \in QueuedSubs' : status'[r] = "PENDING"
    <3>1. \A r \in QueuedSubs : r \in Subs
      BY DEF WorkInv, ExecTypeOK, QueuedSubs
    <3> QED
      BY <1>1, <1>3, <3>1 DEF WorkInv, WaitingIsPending, QueuedSubs
  <2>3. \A w \in Workers : /\ wpc'[w] = "mark" => status'[wsub'[w]] = "PENDING"
                           /\ wsub'[w] # NoSub => status'[wsub'[w]] # "none"
    <3>1. \A w \in Workers : wsub[w] # NoSub => wsub[w] \in Subs
      BY DEF WorkInv, ExecTypeOK, WorkerTypeOK
    <3>2. \A w \in Workers : wpc[w] = "mark" => wsub[w] \in Subs
      BY JudgingSub DEF WorkInv, Judging
    <3> QED
      BY <1>1, <1>3, <3>1, <3>2 DEF WorkInv, WaitingIsPending
  <2> QED
    BY <2>1, <2>2, <2>3 DEF WaitingIsPending
<1>9. UndecidedHasNoCase' /\ VerdictCorrect' /\ StoppedIsEmpty'
  BY <1>1, <1>3 DEF WorkInv, UndecidedHasNoCase, VerdictCorrect, StoppedIsEmpty, Verdicts
<1>10. JudgingKnows'
  BY <1>1 DEF WorkInv, JudgingKnows, KnowsAt
<1>11. NoEarlySandbox'
  <2>1. s \notin dirs
    BY <1>1 DEF WorkInv, NoEarlySandbox
  <2>2. \A r \in dirs : r \in Subs
    BY DEF WorkInv, ExecTypeOK, RowTypeOK
  <2> QED
    BY <1>1, <1>3, <2>1, <2>2 DEF WorkInv, NoEarlySandbox, QueuedSubs
<1> QED
  BY <1>6, <1>7, <1>8, <1>9, <1>10, <1>11 DEF WorkInv

\* The submission goes from the handler to the queue, or is forgotten.
LEMMA HEnqueueInv ==
  ASSUME WorkInv, ExecTypeOK', NEW h \in Handlers, HEnqueue(h)
  PROVE  WorkInv'
<1> DEFINE s == hsub[h]
<1>1. /\ hpc[h] \in Owning
      /\ UNCHANGED <<rowVars, wpc, wsub, wcase, wout, main, dirs>>
      /\ Refuse(h) \/ Push(h)
  BY DEF HEnqueue, workerVars, Owning
<1>2. /\ hpc \in [Handlers -> {"idle", "insert", "notify"} \cup Owning]
      /\ hsub \in [Handlers -> Subs \cup {NoSub}]
      /\ s \in Subs
      /\ queue \in Seq(Subs)
  BY <1>1 DEF WorkInv, ExecTypeOK, HandlerTypeOK, Owning
<1>3. /\ s \in Held /\ s \notin forgotten /\ status[s] = "PENDING"
      /\ s \notin QueuedSubs
      /\ \A w \in Workers : wsub[w] # s
      /\ \A g \in Handlers : hpc[g] \in Owning /\ hsub[g] = s => g = h
  <2>1. s \in Held
    BY <1>1 DEF Held
  <2> QED
    BY <1>1, <2>1, HeldUndecided DEF WorkInv, JudgedOnce, WaitingIsPending
<1>4. /\ \A g \in Handlers : hpc'[g] \in Owning <=> hpc[g] \in Owning /\ g # h
      /\ \A g \in Handlers : hpc'[g] \in Owning => hsub'[g] = hsub[g]
  BY <1>1, <1>2 DEF Refuse, Push, Owning
<1>5. /\ QueuedSubs' \subseteq QueuedSubs \cup {s}
      /\ QueuedSubs \subseteq QueuedSubs'
      /\ s \in QueuedSubs' <=> Push(h)
      /\ \A i, j \in 1..Len(queue') : queue'[i] = queue'[j] => i = j
  <2>1. CASE Refuse(h)
    <3>1. ~Push(h)
      BY <1>2, <2>1 DEF Refuse, Push
    <3> QED
      BY <1>3, <2>1, <3>1 DEF Refuse, QueuedSubs, WorkInv, JudgedOnce
  <2>2. CASE Push(h)
    <3>1. QueuedSubs' = QueuedSubs \cup {s}
      BY <1>2, <2>2, AppendElements DEF Push, QueuedSubs
    <3>2. \A i, j \in 1..Len(queue') : queue'[i] = queue'[j] => i = j
      <4>1. s \notin {queue[i] : i \in 1..Len(queue)}
        BY <1>3 DEF QueuedSubs
      <4>2. \A i, j \in 1..Len(queue) : queue[i] = queue[j] => i = j
        BY DEF WorkInv, JudgedOnce
      <4> QED
        BY <1>2, <2>2, <4>1, <4>2, AppendDistinct DEF Push
    <3> QED
      BY <2>2, <3>1, <3>2
  <2> QED
    BY <1>1, <2>1, <2>2
<1>6. JudgedOnce'
  <2>1. \A w1, w2 \in Workers : wsub'[w1] = wsub'[w2] /\ wsub'[w1] # NoSub => w1 = w2
    BY <1>1 DEF WorkInv, JudgedOnce
  <2>2. \A w \in Workers : wsub'[w] \notin QueuedSubs'
    BY <1>1, <1>3, <1>5 DEF WorkInv, JudgedOnce
  <2>3. \A g \in Handlers : hpc'[g] \in Owning =>
          /\ hsub'[g] \notin QueuedSubs'
          /\ \A w \in Workers : wsub'[w] # hsub'[g]
          /\ \A f \in Handlers : hpc'[f] \in Owning /\ hsub'[f] = hsub'[g] => f = g
    <3> TAKE g \in Handlers
    <3> HAVE hpc'[g] \in Owning
    <3>1. hpc[g] \in Owning /\ g # h /\ hsub'[g] = hsub[g] /\ hsub[g] # s
      BY <1>3, <1>4
    <3>2. /\ hsub[g] \notin QueuedSubs
          /\ \A w \in Workers : wsub[w] # hsub[g]
          /\ \A f \in Handlers : hpc[f] \in Owning /\ hsub[f] = hsub[g] => f = g
      BY <3>1 DEF WorkInv, JudgedOnce
    <3> QED
      BY <1>1, <1>4, <1>5, <3>1, <3>2
  <2> QED
    BY <1>5, <2>1, <2>2, <2>3 DEF JudgedOnce
<1>7. AccountedFor'
  <2>1. CASE Refuse(h)
    <3>1. Held' = Held \ {s}
      <4>1. \A r : r \in Held' <=> r \in Held /\ r # s
        <5>1. QueuedSubs' = QueuedSubs
          BY <2>1 DEF Refuse, QueuedSubs
        <5> QED
          BY <1>1, <1>3, <1>4, <5>1 DEF Held
      <4> QED
        BY <4>1
    <3> QED
      BY <1>1, <1>3, <2>1, <3>1 DEF Refuse, WorkInv, AccountedFor, rowVars
  <2>2. CASE Push(h)
    <3>1. Held' = Held
      <4>1. QueuedSubs' = QueuedSubs \cup {s}
        BY <1>5, <2>2
      <4>2. \A r : r \in Held' <=> r \in Held
        BY <1>1, <1>3, <1>4, <4>1 DEF Held
      <4> QED
        BY <4>2
    <3> QED
      BY <1>1, <2>2, <3>1, SameAccount DEF Push, WorkInv, rowVars
  <2> QED
    BY <1>1, <2>1, <2>2
<1>8. WaitingIsPending'
  <2>1. \A g \in Handlers : hpc'[g] \in Owning => status'[hsub'[g]] = "PENDING"
    BY <1>1, <1>4 DEF WorkInv, WaitingIsPending, rowVars
  <2>2. \A r \in QueuedSubs' : status'[r] = "PENDING"
    BY <1>1, <1>3, <1>5 DEF WorkInv, WaitingIsPending, rowVars
  <2> QED
    BY <1>1, <2>1, <2>2 DEF WorkInv, WaitingIsPending, rowVars
<1>9. UndecidedHasNoCase' /\ VerdictCorrect' /\ StoppedIsEmpty' /\ JudgingKnows'
  BY <1>1 DEF WorkInv, UndecidedHasNoCase, VerdictCorrect, StoppedIsEmpty, JudgingKnows, KnowsAt,
     rowVars
<1>10. NoEarlySandbox'
  <2>1. s \notin dirs
    BY <1>1 DEF WorkInv, NoEarlySandbox
  <2> QED
    BY <1>1, <1>4, <1>5, <2>1 DEF WorkInv, NoEarlySandbox, rowVars
<1> QED
  BY <1>6, <1>7, <1>8, <1>9, <1>10 DEF WorkInv

\* The handler is done; a sleeping worker may wake.
LEMMA HNotifyInv ==
  ASSUME WorkInv, ExecTypeOK', NEW h \in Handlers, HNotify(h)
  PROVE  WorkInv'
<1>1. /\ hpc[h] = "notify"
      /\ UNCHANGED <<rowVars, queue, wsub, wcase, wout, main, dirs, forgotten>>
      /\ \A g \in Handlers : hpc'[g] \in Owning <=> hpc[g] \in Owning
      /\ \A g \in Handlers : hpc'[g] \in Owning => hsub'[g] = hsub[g]
  BY DEF HNotify, WorkInv, ExecTypeOK, HandlerTypeOK, Owning
<1>2. \A w \in Workers : wpc'[w] = wpc[w] \/ (wpc[w] \in Idling /\ wpc'[w] = "lock")
  BY DEF HNotify, NotifyOne, Asleep, Idling, WorkInv, ExecTypeOK, WorkerTypeOK
<1>3. QueuedSubs' = QueuedSubs
  BY <1>1 DEF QueuedSubs
<1>4. Held' = Held
  BY <1>1, <1>2, <1>3 DEF Held, Idling, Judging
<1>5. JudgedOnce'
  BY <1>1, <1>3 DEF WorkInv, JudgedOnce
<1>6. AccountedFor'
  BY <1>1, <1>4, SameAccount DEF WorkInv, rowVars
<1>7. WaitingIsPending' /\ NoEarlySandbox'
  BY <1>1, <1>2, <1>3 DEF WorkInv, WaitingIsPending, NoEarlySandbox, rowVars, Idling
<1>8. UndecidedHasNoCase' /\ VerdictCorrect'
  BY <1>1 DEF WorkInv, UndecidedHasNoCase, VerdictCorrect, rowVars
<1>9. JudgingKnows'
  <2> SUFFICES ASSUME NEW w \in Workers PROVE KnowsAt(w)'
    BY DEF JudgingKnows
  <2>1. KnowsAt(w)
    BY DEF WorkInv, JudgingKnows
  <2>2. CASE wpc'[w] = wpc[w]
    BY <1>1, <2>1, <2>2, KnowsFrame DEF rowVars
  <2>3. CASE wpc[w] \in Idling /\ wpc'[w] = "lock"
    BY <1>1, <2>1, <2>3, IdleKnows DEF KnowsAt, Idling
  <2> QED
    BY <1>2, <2>2, <2>3
<1>10. StoppedIsEmpty'
  BY <1>1, <1>2 DEF WorkInv, StoppedIsEmpty, HNotify, NotifyOne, Asleep
<1> QED
  BY <1>5, <1>6, <1>7, <1>8, <1>9, <1>10 DEF WorkInv

\* The submission at the front of the queue goes to the worker.
LEMMA WorkerTakeInv ==
  ASSUME WorkInv, ExecTypeOK', NEW w \in Workers, WorkerTake(w)
  PROVE  WorkInv'
<1> DEFINE s == Head(queue)
<1>1. /\ wpc[w] \in {"lock", "timeout"} /\ queue # <<>>
      /\ queue' = Tail(queue)
      /\ wpc' = [wpc EXCEPT ![w] = "mark"]
      /\ wsub' = [wsub EXCEPT ![w] = s]
      /\ UNCHANGED <<rowVars, hpc, hsub, wcase, wout, main, dirs, forgotten>>
  BY DEF WorkerTake, Popped, handlerVars
<1>2. \A x \in Workers : /\ wpc'[x] = IF x = w THEN "mark" ELSE wpc[x]
                         /\ wsub'[x] = IF x = w THEN s ELSE wsub[x]
  BY <1>1 DEF WorkInv, ExecTypeOK, WorkerTypeOK
<1>3. /\ s \in QueuedSubs
      /\ QueuedSubs' = QueuedSubs \ {s}
      /\ \A i, j \in 1..Len(queue') : queue'[i] = queue'[j] => i = j
  <2>1. queue \in Seq(Subs) /\ \A i, j \in 1..Len(queue) : queue[i] = queue[j] => i = j
    BY DEF WorkInv, ExecTypeOK, JudgedOnce
  <2>2. /\ s \in {queue[i] : i \in 1..Len(queue)}
        /\ {Tail(queue)[i] : i \in 1..Len(Tail(queue))}
             = {queue[i] : i \in 1..Len(queue)} \ {s}
        /\ \A i, j \in 1..Len(Tail(queue)) : Tail(queue)[i] = Tail(queue)[j] => i = j
    BY <1>1, <2>1, TailElements
  <2>3. QueuedSubs' = QueuedSubs \ {s}
    <3>1. QueuedSubs' = {Tail(queue)[i] : i \in 1..Len(Tail(queue))}
      BY <1>1 DEF QueuedSubs
    <3> QED
      BY <2>2, <3>1 DEF QueuedSubs
  <2>4. \A i, j \in 1..Len(queue') : queue'[i] = queue'[j] => i = j
    BY <1>1, <2>2
  <2> QED
    BY <2>2, <2>3, <2>4 DEF QueuedSubs
<1>4. /\ s \in Subs /\ s # NoSub /\ status[s] = "PENDING"
      /\ wsub[w] = NoSub
      /\ \A x \in Workers : wsub[x] # s
      /\ \A h \in Handlers : hpc[h] \in Owning => hsub[h] # s
      /\ s \notin dirs
  <2>1. s \in Subs
    BY <1>1 DEF WorkInv, ExecTypeOK
  <2>2. wsub[w] = NoSub
    BY <1>1 DEF WorkInv, ExecTypeOK, WorkerTypeOK, Judging
  <2> QED
    BY <1>3, <2>1, <2>2, ExecutorAssumption DEF WorkInv, JudgedOnce, WaitingIsPending,
       NoEarlySandbox
<1>5. Held' = Held
  <2>1. wpc[w] \notin Judging /\ "mark" \in Judging
    BY <1>1 DEF Judging
  <2>2. \A r : r \in Held' <=> r \in Held
    BY <1>1, <1>2, <1>3, <2>1 DEF Held
  <2> QED
    BY <2>2
<1>6. JudgedOnce'
  <2>1. \A w1, w2 \in Workers : wsub'[w1] = wsub'[w2] /\ wsub'[w1] # NoSub => w1 = w2
    BY <1>2, <1>4 DEF WorkInv, JudgedOnce
  <2>2. \A x \in Workers : wsub'[x] \notin QueuedSubs'
    BY <1>2, <1>3 DEF WorkInv, JudgedOnce
  <2>3. \A h \in Handlers : hpc'[h] \in Owning =>
          /\ hsub'[h] \notin QueuedSubs'
          /\ \A x \in Workers : wsub'[x] # hsub'[h]
          /\ \A g \in Handlers : hpc'[g] \in Owning /\ hsub'[g] = hsub'[h] => g = h
    BY <1>1, <1>2, <1>3, <1>4 DEF WorkInv, JudgedOnce
  <2> QED
    BY <1>3, <2>1, <2>2, <2>3 DEF JudgedOnce
<1>7. AccountedFor'
  BY <1>1, <1>5, SameAccount DEF WorkInv, rowVars
<1>8. WaitingIsPending'
  BY <1>1, <1>2, <1>3, <1>4 DEF WorkInv, WaitingIsPending, rowVars
<1>9. UndecidedHasNoCase' /\ VerdictCorrect'
  BY <1>1 DEF WorkInv, UndecidedHasNoCase, VerdictCorrect, rowVars
<1>10. JudgingKnows'
  <2> SUFFICES ASSUME NEW x \in Workers PROVE KnowsAt(x)'
    BY DEF JudgingKnows
  <2>1. KnowsAt(x)
    BY DEF WorkInv, JudgingKnows
  <2>2. CASE x = w
    BY <1>1, <1>2, <2>1, <2>2, IdleKnows DEF KnowsAt
  <2>3. CASE x # w
    BY <1>1, <1>2, <2>1, <2>3, KnowsFrame DEF rowVars
  <2> QED
    BY <2>2, <2>3
<1>11. NoEarlySandbox'
  BY <1>1, <1>2, <1>3, <1>4 DEF WorkInv, NoEarlySandbox, rowVars
<1>12. StoppedIsEmpty'
  BY <1>1 DEF WorkInv, StoppedIsEmpty
<1> QED
  BY <1>6, <1>7, <1>8, <1>9, <1>10, <1>11, <1>12 DEF WorkInv

\* The verdict is written, or the submission is forgotten.
LEMMA ReportInv ==
  ASSUME WorkInv, ExecTypeOK', NEW w \in Workers, Report(w)
  PROVE  WorkInv'
<1> DEFINE s == wsub[w]
<1>1. /\ wpc[w] = "report"
      /\ wpc' = [wpc EXCEPT ![w] = "cleanup"]
      /\ wcase' = [wcase EXCEPT ![w] = 0]
      /\ wout' = [wout EXCEPT ![w] = NoVerdict]
      /\ UNCHANGED <<program, hostFault, hpc, hsub, queue, wsub, main, dirs>>
  BY DEF Report, handlerVars
<1>2. \/ WriteVerdict(s, wout[w]) /\ UNCHANGED forgotten
      \/ forgotten' = forgotten \cup {s} /\ UNCHANGED <<status, failedCase>>
  BY DEF Report
<1>3. /\ s \in Held /\ s \in Subs /\ s # NoSub
      /\ status[s] \in {"PENDING", "JUDGING"} /\ s \notin forgotten
      /\ s \notin QueuedSubs
      /\ \A h \in Handlers : hpc[h] \in Owning => hsub[h] # s
      /\ \A x \in Workers : wsub[x] = s => x = w
  <2>1. s \in Held
    BY <1>1 DEF Held, Judging
  <2>2. s \in Subs /\ s # NoSub
    BY <2>1, HeldUndecided, ExecutorAssumption DEF WorkInv
  <2> QED
    BY <2>1, <2>2, HeldUndecided DEF WorkInv, JudgedOnce
<1>4. \A x \in Workers : /\ wpc'[x] = IF x = w THEN "cleanup" ELSE wpc[x]
                         /\ wcase'[x] = IF x = w THEN 0 ELSE wcase[x]
                         /\ x # w => wout'[x] = wout[x]
  BY <1>1 DEF WorkInv, ExecTypeOK, WorkerTypeOK
<1>5. /\ status \in [Subs -> {"none", "PENDING", "JUDGING"} \cup Verdicts]
      /\ failedCase \in [Subs -> Nat]
      /\ wout[w].v \in Verdicts /\ wout[w].k \in Nat
      /\ failedCase[s] = 0
  BY <1>3 DEF WorkInv, ExecTypeOK, RowTypeOK, WorkerTypeOK, UndecidedHasNoCase, Verdicts
<1>6. \A r \in Subs \ {s} : status'[r] = status[r] /\ failedCase'[r] = failedCase[r]
  BY <1>2, <1>5 DEF WriteVerdict
<1>7. ASSUME WriteVerdict(s, wout[w]), UNCHANGED forgotten
      PROVE  AccountedFor' /\ UndecidedHasNoCase' /\ VerdictCorrect' /\ status'[s] # "none"
  <2>1. status'[s] = wout[w].v /\ failedCase'[s] = wout[w].k
    BY <1>3, <1>5, <1>7 DEF WriteVerdict
  <2>2. status'[s] \notin {"none", "PENDING", "JUDGING"}
    BY <1>5, <2>1 DEF Verdicts
  <2>3. Held' = Held \ {s}
    <3>1. QueuedSubs' = QueuedSubs
      BY <1>1 DEF QueuedSubs
    <3>2. "cleanup" \notin Judging
      BY DEF Judging
    <3>3. \A r : r \in Held' <=> r \in Held /\ r # s
      BY <1>1, <1>3, <1>4, <3>1, <3>2 DEF Held
    <3> QED
      BY <3>3
  <2>4. AccountedFor'
    BY <1>3, <1>6, <1>7, <2>2, <2>3 DEF WorkInv, AccountedFor
  <2>5. UndecidedHasNoCase'
    BY <1>5, <1>6, <2>1 DEF WorkInv, UndecidedHasNoCase
  <2>6. VerdictCorrect'
    <3>1. \/ Earned(program[s], status'[s], failedCase'[s])
          \/ s \in hostFault /\ Degraded(program[s], status'[s], failedCase'[s])
      BY <1>1, <2>1 DEF WorkInv, JudgingKnows, KnowsAt
    <3> QED
      BY <1>1, <1>6, <3>1 DEF WorkInv, VerdictCorrect
  <2>7. status'[s] # "none"
    BY <2>2
  <2> QED
    BY <2>4, <2>5, <2>6, <2>7
<1>8. ASSUME forgotten' = forgotten \cup {s}, UNCHANGED <<status, failedCase>>
      PROVE  AccountedFor' /\ UndecidedHasNoCase' /\ VerdictCorrect' /\ status'[s] # "none"
  <2>1. Held' = Held \ {s}
    <3>1. QueuedSubs' = QueuedSubs
      BY <1>1 DEF QueuedSubs
    <3>2. "cleanup" \notin Judging
      BY DEF Judging
    <3>3. \A r : r \in Held' <=> r \in Held /\ r # s
      BY <1>1, <1>3, <1>4, <3>1, <3>2 DEF Held
    <3> QED
      BY <3>3
  <2> QED
    BY <1>1, <1>3, <1>8, <2>1 DEF WorkInv, AccountedFor, UndecidedHasNoCase, VerdictCorrect
<1>9. AccountedFor' /\ UndecidedHasNoCase' /\ VerdictCorrect' /\ status'[s] # "none"
  BY <1>2, <1>7, <1>8
<1>10. JudgedOnce'
  BY <1>1, SamePlacesOnce DEF WorkInv, SamePlaces
<1>11. WaitingIsPending'
  <2>1. \A h \in Handlers : hpc[h] \in Owning => hsub[h] \in Subs \ {s}
    BY <1>3, ExecutorAssumption DEF WorkInv, ExecTypeOK, HandlerTypeOK, Owning
  <2>2. \A r \in QueuedSubs : r \in Subs \ {s}
    BY <1>3 DEF WorkInv, ExecTypeOK, QueuedSubs
  <2>3. \A x \in Workers : wsub[x] # NoSub => wsub[x] \in Subs
    BY DEF WorkInv, ExecTypeOK, WorkerTypeOK
  <2>4. \A x \in Workers : wpc[x] = "mark" => wsub[x] \in Subs \ {s}
    BY <1>1, <1>3, JudgingSub DEF WorkInv, Judging
  <2>5. \A h \in Handlers : hpc'[h] \in Owning => status'[hsub'[h]] = "PENDING"
    BY <1>1, <1>6, <2>1 DEF WorkInv, WaitingIsPending
  <2>6. \A r \in QueuedSubs' : status'[r] = "PENDING"
    BY <1>1, <1>6, <2>2 DEF WorkInv, WaitingIsPending, QueuedSubs
  <2>7. \A x \in Workers : wpc'[x] = "mark" => status'[wsub'[x]] = "PENDING"
    BY <1>1, <1>4, <1>6, <2>4 DEF WorkInv, WaitingIsPending
  <2>8. \A x \in Workers : wsub'[x] # NoSub => status'[wsub'[x]] # "none"
    BY <1>1, <1>6, <1>9, <2>3 DEF WorkInv, WaitingIsPending
  <2> QED
    BY <2>5, <2>6, <2>7, <2>8 DEF WaitingIsPending
<1>12. JudgingKnows'
  <2> SUFFICES ASSUME NEW x \in Workers PROVE KnowsAt(x)'
    BY DEF JudgingKnows
  <2>1. KnowsAt(x)
    BY DEF WorkInv, JudgingKnows
  <2>2. CASE x = w
    BY <1>4, <2>2, IdleKnows
  <2>3. CASE x # w
    BY <1>1, <1>4, <2>1, <2>3, KnowsFrame
  <2> QED
    BY <2>2, <2>3
<1>13. NoEarlySandbox'
  <2>1. \A r \in dirs : status'[r] # "none"
    BY <1>6, <1>9 DEF WorkInv, NoEarlySandbox, ExecTypeOK, RowTypeOK
  <2> QED
    BY <1>1, <1>4, <2>1 DEF WorkInv, NoEarlySandbox, QueuedSubs
<1>14. StoppedIsEmpty'
  BY <1>1 DEF WorkInv, StoppedIsEmpty
<1> QED
  BY <1>9, <1>10, <1>11, <1>12, <1>13, <1>14 DEF WorkInv

\* The directory is removed and the worker has no submission any more.
LEMMA CleanupInv ==
  ASSUME WorkInv, ExecTypeOK', NEW w \in Workers, Cleanup(w)
  PROVE  WorkInv'
<1>1. /\ wpc[w] = "cleanup"
      /\ dirs' \subseteq dirs
      /\ wpc' = [wpc EXCEPT ![w] = "loop"]
      /\ wsub' = [wsub EXCEPT ![w] = NoSub]
      /\ UNCHANGED <<rowVars, hpc, hsub, queue, wcase, wout, main, forgotten>>
  BY DEF Cleanup, handlerVars
<1>2. \A x \in Workers : /\ wpc'[x] = IF x = w THEN "loop" ELSE wpc[x]
                         /\ wsub'[x] = IF x = w THEN NoSub ELSE wsub[x]
  BY <1>1 DEF WorkInv, ExecTypeOK, WorkerTypeOK
<1>3. /\ NoSub \notin QueuedSubs
      /\ \A h \in Handlers : hpc[h] \in Owning => hsub[h] # NoSub
  BY ExecutorAssumption DEF WorkInv, ExecTypeOK, HandlerTypeOK, QueuedSubs, Owning
<1>4. QueuedSubs' = QueuedSubs
  BY <1>1 DEF QueuedSubs
<1>5. Held' = Held
  <2>1. "cleanup" \notin Judging /\ "loop" \notin Judging
    BY DEF Judging
  <2>2. \A r : r \in Held' <=> r \in Held
    BY <1>1, <1>2, <1>4, <2>1 DEF Held
  <2> QED
    BY <2>2
<1>6. JudgedOnce'
  BY <1>1, <1>2, <1>3, <1>4 DEF WorkInv, JudgedOnce
<1>7. AccountedFor'
  BY <1>1, <1>5, SameAccount DEF WorkInv, rowVars
<1>8. WaitingIsPending' /\ NoEarlySandbox'
  BY <1>1, <1>2, <1>4 DEF WorkInv, WaitingIsPending, NoEarlySandbox, rowVars
<1>9. UndecidedHasNoCase' /\ VerdictCorrect' /\ StoppedIsEmpty'
  BY <1>1 DEF WorkInv, UndecidedHasNoCase, VerdictCorrect, StoppedIsEmpty, rowVars
<1>10. JudgingKnows'
  <2> SUFFICES ASSUME NEW x \in Workers PROVE KnowsAt(x)'
    BY DEF JudgingKnows
  <2>1. KnowsAt(x)
    BY DEF WorkInv, JudgingKnows
  <2>2. CASE x = w
    BY <1>1, <1>2, <2>1, <2>2, IdleKnows DEF KnowsAt
  <2>3. CASE x # w
    BY <1>1, <1>2, <2>1, <2>3, KnowsFrame DEF rowVars
  <2> QED
    BY <2>2, <2>3
<1> QED
  BY <1>6, <1>7, <1>8, <1>9, <1>10 DEF WorkInv

\* What the process held is forgotten.
LEMMA LoseMemoryInv ==
  ASSUME WorkInv, ExecTypeOK', LoseMemory
  PROVE  WorkInv'
<1>1. /\ main' = "down" /\ queue' = <<>>
      /\ hpc' = [h \in Handlers |-> "idle"]
      /\ wpc' = [w \in Workers |-> "exited"]
      /\ wsub' = [w \in Workers |-> NoSub]
      /\ wcase' = [w \in Workers |-> 0]
      /\ forgotten' = forgotten \cup Held
      /\ UNCHANGED <<rowVars, dirs>>
  BY DEF LoseMemory
<1>2. QueuedSubs' = {}
  BY <1>1 DEF QueuedSubs
<1>3. Held' = {}
  BY <1>1, <1>2 DEF Held, Judging, Owning
<1>4. JudgedOnce' /\ WaitingIsPending' /\ StoppedIsEmpty'
  BY <1>1, <1>2 DEF WorkInv, JudgedOnce, WaitingIsPending, StoppedIsEmpty, Owning
<1>5. AccountedFor'
  BY <1>1, <1>3 DEF WorkInv, AccountedFor, rowVars
<1>6. NoEarlySandbox'
  BY <1>1, <1>2 DEF WorkInv, NoEarlySandbox, rowVars, Owning
<1>7. UndecidedHasNoCase' /\ VerdictCorrect'
  BY <1>1 DEF WorkInv, UndecidedHasNoCase, VerdictCorrect, rowVars
<1>8. JudgingKnows'
  BY <1>1, IdleKnows DEF JudgingKnows
<1> QED
  BY <1>4, <1>5, <1>6, <1>7, <1>8 DEF WorkInv

\* A new process has nothing to do with the submissions of the old one.
LEMMA StartInv ==
  ASSUME WorkInv, ExecTypeOK', Start
  PROVE  WorkInv'
<1>1. /\ main = "down" /\ main' = "serving"
      /\ wpc' = [w \in Workers |-> "loop"]
      /\ wsub' = [w \in Workers |-> NoSub]
      /\ UNCHANGED <<rowVars, hpc, hsub, queue, wcase, wout, dirs, forgotten>>
  BY DEF Start, handlerVars
<1>2. \A w \in Workers : wpc[w] = "exited" /\ wsub[w] = NoSub
  BY <1>1 DEF WorkInv, StoppedIsEmpty, ExecTypeOK, WorkerTypeOK, Judging
<1>3. wsub' = wsub
  <2>1. wsub \in [Workers -> Subs \cup {NoSub}]
    BY DEF WorkInv, ExecTypeOK, WorkerTypeOK
  <2> QED
    BY <1>1, <1>2, <2>1
<1> QED
  BY <1>1, <1>2, <1>3, IdleMoves DEF WorkInv, SamePlaces, Idling, StoppedIsEmpty

\* The first update_status of a judging.
LEMMA MarkJudgingInv ==
  ASSUME WorkInv, ExecTypeOK', NEW w \in Workers, MarkJudging(w)
  PROVE  WorkInv'
<1>1. /\ wpc[w] = "mark"
      /\ wpc' = [wpc EXCEPT ![w] = "setup"]
      /\ UNCHANGED status \/ status' = [status EXCEPT ![wsub[w]] = "JUDGING"]
      /\ SamePlaces
      /\ UNCHANGED <<program, failedCase, hostFault, wcase, wout, main, dirs, forgotten>>
  BY DEF MarkJudging, SamePlaces, handlerVars
<1>2. wpc'[w] = "setup"
  BY <1>1 DEF WorkInv, ExecTypeOK, WorkerTypeOK
<1>3. KnowsAt(w)'
  BY <1>1, <1>2, IdleKnows DEF WorkInv, JudgingKnows, KnowsAt
<1> QED
  BY <1>1, <1>3, JudgeMoves DEF Judging

\* A failure of the machine turned into a verdict is one that Degraded allows.
LEMMA FailureKnows ==
  ASSUME WorkInv, NEW w \in Workers, wpc[w] \in Judging,
         NEW v, NEW k, ConcludeOnFailure(w, v, k), UNCHANGED <<program, wsub>>,
         Degraded(program[wsub[w]], v, k)
  PROVE  /\ hostFault \subseteq hostFault'
         /\ \A x \in Workers \ {w} : wout'[x] = wout[x]
         /\ KnowsAt(w)'
<1>1. wpc'[w] = "report" /\ wout'[w] = Verdict(v, k) /\ wsub[w] \in hostFault'
  BY DEF ConcludeOnFailure, WorkInv, ExecTypeOK, WorkerTypeOK
<1>2. wout'[w].v = v /\ wout'[w].k = k
  BY <1>1 DEF Verdict
<1>3. KnowsAt(w)'
  BY <1>1, <1>2 DEF KnowsAt
<1> QED
  BY <1>3 DEF ConcludeOnFailure, WorkInv, ExecTypeOK, WorkerTypeOK

\* A verdict the program has earned.
LEMMA ConcludeKnows ==
  ASSUME WorkInv, NEW w \in Workers,
         NEW v, NEW k, Conclude(w, v, k), UNCHANGED <<program, wsub>>,
         Earned(program[wsub[w]], v, k)
  PROVE  /\ hostFault' = hostFault
         /\ \A x \in Workers \ {w} : wout'[x] = wout[x]
         /\ KnowsAt(w)'
<1>1. wpc'[w] = "report" /\ wout'[w] = Verdict(v, k)
  BY DEF Conclude, WorkInv, ExecTypeOK, WorkerTypeOK
<1>2. wout'[w].v = v /\ wout'[w].k = k
  BY <1>1 DEF Verdict
<1>3. KnowsAt(w)'
  BY <1>1, <1>2 DEF KnowsAt
<1> QED
  BY <1>3 DEF Conclude, WorkInv, ExecTypeOK, WorkerTypeOK

\* The program being judged, and the number of its cases.
LEMMA JudgedProgram ==
  ASSUME WorkInv, NEW w \in Workers, wpc[w] \in Judging
  PROVE  /\ program[wsub[w]].runs \in Seq(Outcomes)
         /\ Len(program[wsub[w]].runs) \in Nat
         /\ program[wsub[w]].compiles \in BOOLEAN
         /\ wcase[w] \in Nat
<1>1. program[wsub[w]] \in Programs
  BY JudgingSub DEF WorkInv, ExecTypeOK, RowTypeOK
<1> QED
  BY <1>1, ProgramsAssumption DEF WorkInv, ExecTypeOK, WorkerTypeOK

LEMMA SetupInv ==
  ASSUME WorkInv, ExecTypeOK', NEW w \in Workers, Setup(w)
  PROVE  WorkInv'
<1>1. /\ wpc[w] = "setup"
      /\ dirs' = dirs \cup {wsub[w]}
      /\ SamePlaces
      /\ UNCHANGED <<program, status, failedCase, wcase, wsub, main, forgotten>>
  BY DEF Setup, SamePlaces, handlerVars
<1>2. Degraded(program[wsub[w]], "RE", 0)
  BY <1>1, JudgedProgram DEF Degraded, Judging
<1>3. CASE Continue(w, "compile")
  <2>1. wpc'[w] = "compile"
    BY <1>3 DEF Continue, WorkInv, ExecTypeOK, WorkerTypeOK
  <2>2. KnowsAt(w)'
    BY <1>1, <2>1, IdleKnows DEF WorkInv, JudgingKnows, KnowsAt
  <2> QED
    BY <1>1, <1>3, <2>2, JudgeMoves DEF Continue, Judging
<1>4. CASE ConcludeOnFailure(w, "RE", 0)
  <2>1. /\ hostFault \subseteq hostFault'
        /\ \A x \in Workers \ {w} : wout'[x] = wout[x]
        /\ KnowsAt(w)'
    BY <1>1, <1>2, <1>4, FailureKnows DEF Judging
  <2> QED
    BY <1>1, <1>4, <2>1, JudgeMoves DEF ConcludeOnFailure, Judging
<1> QED
  BY <1>3, <1>4 DEF Setup

LEMMA CompileInv ==
  ASSUME WorkInv, ExecTypeOK', NEW w \in Workers, Compile(w)
  PROVE  WorkInv'
<1>1. /\ wpc[w] = "compile"
      /\ SamePlaces
      /\ UNCHANGED <<program, status, failedCase, wcase, wsub, main, dirs, forgotten>>
  BY DEF Compile, SamePlaces, handlerVars
<1>2. CASE program[wsub[w]].compiles /\ Continue(w, "fetch")
  <2>1. wpc'[w] = "fetch"
    BY <1>2 DEF Continue, WorkInv, ExecTypeOK, WorkerTypeOK
  <2>2. KnowsAt(w)'
    BY <1>1, <1>2, <2>1 DEF WorkInv, JudgingKnows, KnowsAt
  <2> QED
    BY <1>1, <1>2, <2>2, JudgeMoves DEF Continue, Judging
<1>3. CASE ~program[wsub[w]].compiles /\ Conclude(w, "CE", 0)
  <2>1. Earned(program[wsub[w]], "CE", 0)
    BY <1>3 DEF Earned
  <2>2. /\ hostFault' = hostFault
        /\ \A x \in Workers \ {w} : wout'[x] = wout[x]
        /\ KnowsAt(w)'
    BY <1>1, <1>3, <2>1, ConcludeKnows
  <2> QED
    BY <1>1, <1>3, <2>2, JudgeMoves DEF Conclude, Judging
<1>4. CASE ConcludeOnFailure(w, "CE", 0)
  <2>1. Degraded(program[wsub[w]], "CE", 0)
    BY DEF Degraded
  <2>2. /\ hostFault \subseteq hostFault'
        /\ \A x \in Workers \ {w} : wout'[x] = wout[x]
        /\ KnowsAt(w)'
    BY <1>1, <1>4, <2>1, FailureKnows DEF Judging
  <2> QED
    BY <1>1, <1>4, <2>2, JudgeMoves DEF ConcludeOnFailure, Judging
<1> QED
  BY <1>2, <1>3, <1>4 DEF Compile

LEMMA FetchInv ==
  ASSUME WorkInv, ExecTypeOK', NEW w \in Workers, Fetch(w)
  PROVE  WorkInv'
<1>1. /\ wpc[w] = "fetch"
      /\ SamePlaces
      /\ UNCHANGED <<program, status, failedCase, wcase, wsub, main, dirs, forgotten>>
  BY DEF Fetch, SamePlaces, handlerVars
<1>2. Degraded(program[wsub[w]], "RE", 0)
  BY <1>1, JudgedProgram DEF Degraded, Judging
<1>3. CASE Continue(w, "run")
  <2>1. wpc'[w] = "run"
    BY <1>3 DEF Continue, WorkInv, ExecTypeOK, WorkerTypeOK
  <2>2. wcase[w] = 0 /\ program[wsub[w]].compiles
    BY <1>1 DEF WorkInv, JudgingKnows, KnowsAt
  <2>3. KnowsAt(w)'
    BY <1>1, <2>1, <2>2, JudgedProgram DEF KnowsAt, Judging
  <2> QED
    BY <1>1, <1>3, <2>3, JudgeMoves DEF Continue, Judging
<1>4. CASE ConcludeOnFailure(w, "RE", 0)
  <2>1. /\ hostFault \subseteq hostFault'
        /\ \A x \in Workers \ {w} : wout'[x] = wout[x]
        /\ KnowsAt(w)'
    BY <1>1, <1>2, <1>4, FailureKnows DEF Judging
  <2> QED
    BY <1>1, <1>4, <2>1, JudgeMoves DEF ConcludeOnFailure, Judging
<1> QED
  BY <1>3, <1>4 DEF Fetch

LEMMA RunCaseInv ==
  ASSUME WorkInv, ExecTypeOK', NEW w \in Workers, RunCase(w)
  PROVE  WorkInv'
<1> DEFINE runs == program[wsub[w]].runs
           i    == wcase[w] + 1
<1>1. /\ wpc[w] = "run" /\ i <= Len(runs)
      /\ SamePlaces
      /\ UNCHANGED <<program, status, failedCase, wsub, main, dirs, forgotten>>
  BY DEF RunCase, SamePlaces, handlerVars
<1>2. /\ wcase[w] \in Nat /\ runs \in Seq(Outcomes) /\ Len(runs) \in Nat
      /\ program[wsub[w]].compiles
      /\ \A j \in 1..wcase[w] : runs[j] = "pass"
      /\ i \in 1..Len(runs)
  BY <1>1, JudgedProgram DEF WorkInv, JudgingKnows, KnowsAt, Judging
<1>3. wcase \in [Workers -> Nat]
  BY DEF WorkInv, ExecTypeOK, WorkerTypeOK
<1>4. CASE runs[i] = "pass" /\ wcase' = [wcase EXCEPT ![w] = i] /\ Continue(w, "run")
  <2>1. wpc'[w] = "run" /\ wcase'[w] = i
    BY <1>3, <1>4 DEF Continue, WorkInv, ExecTypeOK, WorkerTypeOK
  <2>2. \A j \in 1..i : runs[j] = "pass"
    <3>1. \A j \in 1..i : j \in 1..wcase[w] \/ j = i
      BY <1>2
    <3> QED
      BY <1>2, <1>4, <3>1
  <2>3. KnowsAt(w)'
    BY <1>1, <1>2, <2>1, <2>2 DEF KnowsAt
  <2>4. \A x \in Workers \ {w} : wcase'[x] = wcase[x] /\ wout'[x] = wout[x]
    BY <1>3, <1>4 DEF Continue
  <2> QED
    BY <1>1, <1>4, <2>3, <2>4, JudgeMoves DEF Continue, Judging
<1>5. CASE runs[i] # "pass" /\ Conclude(w, runs[i], CaseNumber(w)) /\ UNCHANGED wcase
  <2>1. Earned(program[wsub[w]], runs[i], CaseNumber(w))
    <3>1. runs[i] \in {"WA", "RE", "TLE"}
      BY <1>2, <1>5 DEF Outcomes
    <3>2. CaseNumber(w) = i /\ 1..(i - 1) = 1..wcase[w]
      BY <1>2 DEF CaseNumber
    <3> QED
      BY <1>2, <3>1, <3>2 DEF Earned
  <2>2. /\ hostFault' = hostFault
        /\ \A x \in Workers \ {w} : wout'[x] = wout[x]
        /\ KnowsAt(w)'
    BY <1>1, <1>5, <2>1, ConcludeKnows
  <2> QED
    BY <1>1, <1>5, <2>2, JudgeMoves DEF Conclude, Judging
<1>6. CASE ConcludeOnFailure(w, "RE", CaseNumber(w)) /\ UNCHANGED wcase
  <2>1. Degraded(program[wsub[w]], "RE", CaseNumber(w))
    BY <1>2 DEF Degraded, CaseNumber
  <2>2. /\ hostFault \subseteq hostFault'
        /\ \A x \in Workers \ {w} : wout'[x] = wout[x]
        /\ KnowsAt(w)'
    BY <1>1, <1>6, <2>1, FailureKnows DEF Judging
  <2> QED
    BY <1>1, <1>6, <2>2, JudgeMoves DEF ConcludeOnFailure, Judging
<1> QED
  BY <1>4, <1>5, <1>6 DEF RunCase

LEMMA AllPassedInv ==
  ASSUME WorkInv, ExecTypeOK', NEW w \in Workers, AllPassed(w)
  PROVE  WorkInv'
<1>1. /\ wpc[w] = "run" /\ wcase[w] = Len(program[wsub[w]].runs)
      /\ Conclude(w, "AC", 0)
      /\ SamePlaces
      /\ UNCHANGED <<program, status, failedCase, wcase, wsub, main, dirs, forgotten>>
  BY DEF AllPassed, SamePlaces, handlerVars
<1>2. Earned(program[wsub[w]], "AC", 0)
  BY <1>1 DEF Earned, WorkInv, JudgingKnows, KnowsAt
<1>3. /\ hostFault' = hostFault
      /\ \A x \in Workers \ {w} : wout'[x] = wout[x]
      /\ KnowsAt(w)'
  BY <1>1, <1>2, ConcludeKnows
<1> QED
  BY <1>1, <1>3, JudgeMoves DEF Conclude, Judging

LEMMA WorkStep ==
  ASSUME WorkInv, [ExecNext]_execVars
  PROVE  WorkInv'
<1>1. ExecTypeOK'
  BY TypeStep DEF WorkInv
<1>2. ASSUME NEW w \in Workers, wpc[w] \in Idling, NEW pc \in Idling,
             main \notin {"closed", "down"},
             Goto(w, pc)
      PROVE  WorkInv'
  <2>1. \A x \in Workers : wpc'[x] = IF x = w THEN pc ELSE wpc[x]
    BY <1>2 DEF Goto, WorkInv, ExecTypeOK, WorkerTypeOK
  <2>2. StoppedIsEmpty'
    BY <1>2 DEF Goto, StoppedIsEmpty
  <2> QED
    BY <1>1, <1>2, <2>1, <2>2, IdleMoves DEF Goto, SamePlaces, handlerVars
<1>3. ASSUME NEW w \in Workers, WorkerStep(w) \/ SpuriousWakeup(w) PROVE WorkInv'
  <2>1. CASE WorkerTake(w)
    BY <1>1, <2>1, WorkerTakeInv
  <2>2. CASE JudgeStep(w)
    BY <1>1, <2>2, MarkJudgingInv, SetupInv, CompileInv, FetchInv, RunCaseInv, AllPassedInv,
       ReportInv, CleanupInv DEF JudgeStep
  <2>3. CASE \/ WorkerLoop(w) \/ WorkerContinue(w) \/ WorkerAbout(w) \/ WorkerSleep(w)
             \/ WorkerTimeout(w) \/ SpuriousWakeup(w)
    <3>1. wpc[w] \in Idling /\ wpc[w] # "exited"
      BY <2>3 DEF WorkerLoop, WorkerContinue, WorkerAbout, WorkerSleep, WorkerTimeout, TimesOut,
         SpuriousWakeup, Idling
    <3>2. \E pc \in Idling : Goto(w, pc)
      BY <2>3 DEF WorkerLoop, WorkerContinue, WorkerAbout, WorkerSleep, WorkerTimeout,
         SpuriousWakeup, Idling
    <3>3. main \notin {"closed", "down"}
      BY <3>1 DEF WorkInv, StoppedIsEmpty
    <3> QED
      BY <1>2, <3>1, <3>2, <3>3
  <2> QED
    BY <1>3, <2>1, <2>2, <2>3 DEF WorkerStep
<1>4. ASSUME NEW from, NEW to \in {"draining", "stopping", "notifying", "joining", "closed"},
             MainGoto(from, to), to = "closed" => AllJoined
      PROVE  WorkInv'
  BY <1>1, <1>4, IdleMoves DEF MainGoto, SamePlaces, StoppedIsEmpty, AllJoined, handlerVars, workerVars
<1>5. CASE NotifyAll
  <2>1. \A w \in Workers : wpc'[w] = wpc[w] \/ (wpc[w] \in Idling /\ wpc'[w] \in Idling)
    BY <1>5 DEF NotifyAll, Asleep, Idling
  <2>2. StoppedIsEmpty'
    BY <1>5 DEF NotifyAll, StoppedIsEmpty
  <2> QED
    BY <1>1, <1>5, <2>1, <2>2, IdleMoves DEF NotifyAll, SamePlaces, handlerVars
<1>6. CASE UNCHANGED execVars
  <2>1. StoppedIsEmpty' /\ SamePlaces /\ UNCHANGED <<rowVars, wpc, wcase, wout, dirs, forgotten>>
    BY <1>6 DEF execVars, handlerVars, workerVars, SamePlaces, WorkInv, StoppedIsEmpty
  <2> QED
    BY <1>1, <2>1, IdleMoves
<1>7. CASE MainStep \/ Signal
  BY <1>1, <1>4, <1>5, <1>7, LoseMemoryInv DEF MainStep, ListenReturns, ClearRunning,
     JoinAndClose, ProcessExit, Signal
<1> QED
  BY <1>1, <1>3, <1>6, <1>7, HandlerMovesInv, HInsertInv, HEnqueueInv, HNotifyInv, LoseMemoryInv, StartInv
  DEF ExecNext, Crash

\* Every reachable state satisfies the inductive invariant.
THEOREM WorkInvariant == ExecSpec => []WorkInv
<1>1. WorkInv /\ [ExecNext]_execVars => WorkInv'
  BY WorkStep
<1> QED
  BY <1>1, WorkInit, PTL DEF ExecSpec
-----------------------------------------------------------------------------
(***************************************************************************)
(* What follows.                                                           *)
(***************************************************************************)

\* A written verdict is the one the program earns, unless the machine failed.
THEOREM VerdictsCorrect == ExecSpec => []VerdictCorrect
<1>1. WorkInv => VerdictCorrect
  BY DEF WorkInv
<1> QED
  BY <1>1, WorkInvariant, PTL

\* A submission is in one place only.
THEOREM SubmissionsJudgedOnce == ExecSpec => []JudgedOnce
<1>1. WorkInv => JudgedOnce
  BY DEF WorkInv
<1> QED
  BY <1>1, WorkInvariant, PTL

\* Undecided rows are exactly those held by the process or forgotten.
THEOREM SubmissionsAccountedFor == ExecSpec => []AccountedFor
<1>1. WorkInv => AccountedFor
  BY DEF WorkInv
<1> QED
  BY <1>1, WorkInvariant, PTL

\* A judging starts in a directory that did not exist.
THEOREM SandboxesFresh == ExecSpec => []FreshSandbox
<1>1. WorkInv => FreshSandbox
  BY DEF WorkInv, NoEarlySandbox, FreshSandbox
<1> QED
  BY <1>1, WorkInvariant, PTL

\* After an orderly stop nothing undecided is left but what was forgotten: the
\* workers have exited, and what waits in the queue or with a handler is PENDING.
THEOREM StopsGracefully == ExecSpec => []GracefulStop
<1>1. WorkInv => GracefulStop
  <2> SUFFICES ASSUME WorkInv, main = "closed", NEW s \in Subs, status[s] = "JUDGING"
               PROVE  s \in forgotten
    BY DEF GracefulStop
  <2>1. s \in Held \/ s \in forgotten
    BY DEF WorkInv, AccountedFor
  <2>2. \A w \in Workers : wpc[w] \notin Judging
    BY DEF WorkInv, StoppedIsEmpty, Judging
  <2>3. s \notin QueuedSubs /\ \A h \in Handlers : hpc[h] \in Owning => hsub[h] # s
    BY DEF WorkInv, WaitingIsPending
  <2> QED
    BY <2>1, <2>2, <2>3, HeldMember
<1> QED
  BY <1>1, WorkInvariant, PTL

\* A step of the judging service is a step of the life cycle of one submission, or
\* leaves the rows alone.
LEMMA StepRefines ==
  ASSUME WorkInv, [ExecNext]_execVars
  PROVE  [Next]_vars
<1>1. ASSUME NEW h \in Handlers, NEW s \in Subs, HInsert(h, s) PROVE Next
  BY <1>1 DEF HInsert, Next, Create
<1>2. ASSUME NEW w \in Workers, wpc[w] \in Judging, hostFault' = hostFault \cup {wsub[w]},
             UNCHANGED <<program, status, failedCase>>
      PROVE  Next
  <2>1. wsub[w] \in Subs /\ status[wsub[w]] \in {"PENDING", "JUDGING"}
    BY <1>2, HeldUndecided DEF Held, WorkInv
  <2> QED
    BY <1>2, <2>1 DEF Next, HostFails
<1>3. ASSUME NEW w \in Workers, MarkJudging(w) PROVE Next \/ UNCHANGED vars
  <2>1. wsub[w] \in Subs /\ status[wsub[w]] = "PENDING"
    BY <1>3, JudgingSub DEF MarkJudging, WorkInv, WaitingIsPending, Judging
  <2> QED
    BY <1>3, <2>1 DEF MarkJudging, Next, StartJudging, vars
<1>4. ASSUME NEW w \in Workers,
             Setup(w) \/ Compile(w) \/ Fetch(w) \/ RunCase(w) \/ AllPassed(w)
      PROVE  Next \/ UNCHANGED vars
  <2>1. wpc[w] \in Judging /\ UNCHANGED <<program, status, failedCase>>
    BY <1>4 DEF Setup, Compile, Fetch, RunCase, AllPassed, Judging
  <2>2. hostFault' = hostFault \/ hostFault' = hostFault \cup {wsub[w]}
    BY <1>4 DEF Setup, Compile, Fetch, RunCase, AllPassed, Continue, Conclude,
       ConcludeOnFailure
  <2> QED
    BY <1>2, <2>1, <2>2 DEF vars
<1>5. ASSUME NEW w \in Workers, Report(w) PROVE Next \/ UNCHANGED vars
  <2> DEFINE s == wsub[w]
             v == wout[w].v
             k == wout[w].k
  <2>1. wpc[w] = "report" /\ wpc[w] \in Judging /\ UNCHANGED <<program, hostFault>>
    BY <1>5 DEF Report, Judging
  <2>2. s \in Subs /\ status[s] \in {"PENDING", "JUDGING"}
    BY <2>1, HeldUndecided DEF Held, WorkInv
  <2>3. v \in Verdicts /\ k \in Nat
    BY DEF WorkInv, ExecTypeOK, WorkerTypeOK
  <2>4. \/ Earned(program[s], v, k)
        \/ s \in hostFault /\ Degraded(program[s], v, k)
    BY <2>1 DEF WorkInv, JudgingKnows, KnowsAt
  <2>5. k \in 0..Len(program[s].runs)
    <3>1. Len(program[s].runs) \in Nat
      BY <2>1, JudgedProgram
    <3> QED
      BY <2>4, <3>1 DEF Earned, Degraded
  <2>6. CASE WriteVerdict(s, wout[w])
    <3>1. failedCase[s] = 0 /\ failedCase \in [Subs -> Nat]
      BY <2>2 DEF WorkInv, UndecidedHasNoCase, ExecTypeOK, RowTypeOK, Verdicts
    <3>2. failedCase' = [failedCase EXCEPT ![s] = k]
      <4>1. (IF k > 0 THEN k ELSE failedCase[s]) = k
        BY <2>3, <3>1
      <4>2. failedCase' = [failedCase EXCEPT ![s] = IF k > 0 THEN k ELSE failedCase[s]]
        BY <2>6 DEF WriteVerdict
      <4> QED
        BY <4>1, <4>2
    <3>3. status' = [status EXCEPT ![s] = v]
      BY <2>6 DEF WriteVerdict
    <3>4. Decide(s)
      BY <2>1, <2>2, <2>3, <2>4, <2>5, <3>2, <3>3 DEF Decide
    <3> QED
      BY <2>2, <3>4 DEF Next
  <2>7. CASE UNCHANGED <<status, failedCase>>
    BY <2>1, <2>7 DEF vars
  <2> QED
    BY <1>5, <2>6, <2>7 DEF Report
<1>6. CASE UNCHANGED rowVars
  BY <1>6 DEF rowVars, vars
<1>7. ASSUME NEW w \in Workers, WorkerStep(w) \/ SpuriousWakeup(w)
      PROVE  Next \/ UNCHANGED vars
  <2>1. CASE \/ WorkerLoop(w) \/ WorkerContinue(w) \/ WorkerAbout(w) \/ WorkerSleep(w)
             \/ WorkerTimeout(w) \/ SpuriousWakeup(w) \/ WorkerTake(w) \/ Cleanup(w)
    BY <2>1 DEF WorkerLoop, WorkerContinue, WorkerAbout, WorkerSleep, WorkerTimeout,
       SpuriousWakeup, WorkerTake, Cleanup, Goto, rowVars, vars
  <2> QED
    BY <1>3, <1>4, <1>5, <1>7, <2>1 DEF WorkerStep, JudgeStep
<1>8. CASE MainStep \/ Signal \/ Crash \/ Start
  BY <1>8 DEF MainStep, ListenReturns, ClearRunning, NotifyAll, JoinAndClose, ProcessExit,
     Signal, Crash, Start, MainGoto, LoseMemory, rowVars, vars
<1>9. ASSUME NEW h \in Handlers,
             HBegin(h) \/ HNoRow(h) \/ HDetail(h) \/ HEnqueue(h) \/ HNotify(h)
      PROVE  UNCHANGED vars
  BY <1>9 DEF HBegin, HNoRow, HDetail, HEnqueue, HNotify, rowVars, vars
<1>10. CASE UNCHANGED execVars
  BY <1>10 DEF execVars, rowVars, vars
<1> QED
  BY <1>1, <1>7, <1>8, <1>9, <1>10 DEF ExecNext

\* The judging service implements the life cycle of a submission.
THEOREM ExecutorRefinesLifecycle == ExecSpec => Lifecycle
<1>1. ExecInit => Init
  BY DEF ExecInit
<1>2. WorkInv /\ [ExecNext]_execVars => [Next]_vars
  BY StepRefines
<1> QED
  BY <1>1, <1>2, WorkInvariant, PTL DEF ExecSpec, Lifecycle, Spec

\* A verdict is never changed once it is written.
THEOREM VerdictsFinal == ExecSpec => FinalIsFinal
<1>1. ASSUME WorkInv, [ExecNext]_execVars
      PROVE  [\A s \in Subs : status[s] \in Verdicts =>
                UNCHANGED <<status[s], failedCase[s]>>]_execVars
  <2>1. [Next]_vars
    BY <1>1, StepRefines
  <2>2. /\ status \in [Subs -> {"none", "PENDING", "JUDGING"} \cup Verdicts]
        /\ failedCase \in [Subs -> Nat]
    BY <1>1 DEF WorkInv, ExecTypeOK, RowTypeOK
  <2>3. ASSUME NEW s \in Subs, status[s] \in Verdicts
        PROVE  UNCHANGED <<status[s], failedCase[s]>>
    <3>1. status[s] \notin {"none", "PENDING", "JUDGING"}
      BY <2>3 DEF Verdicts
    <3>2. CASE UNCHANGED vars
      BY <3>2 DEF vars
    <3>3. ASSUME NEW r \in Subs, Create(r) \/ StartJudging(r) \/ HostFails(r)
          PROVE  UNCHANGED <<status[s], failedCase[s]>>
      BY <2>2, <3>1, <3>3 DEF Create, StartJudging, HostFails
    <3>4. ASSUME NEW r \in Subs, Decide(r)
          PROVE  UNCHANGED <<status[s], failedCase[s]>>
      <4>1. r # s
        BY <3>1, <3>4 DEF Decide
      <4>2. PICK v, k : /\ status' = [status EXCEPT ![r] = v]
                        /\ failedCase' = [failedCase EXCEPT ![r] = k]
        BY <3>4 DEF Decide
      <4> QED
        BY <2>2, <4>1, <4>2
    <3> QED
      BY <2>1, <3>2, <3>3, <3>4 DEF Next
  <2> QED
    BY <2>3
<1>2. WorkInv /\ [ExecNext]_execVars =>
        [\A s \in Subs : status[s] \in Verdicts =>
           UNCHANGED <<status[s], failedCase[s]>>]_execVars
  BY <1>1
<1> QED
  BY <1>2, WorkInvariant, PTL DEF ExecSpec, FinalIsFinal
=============================================================================
