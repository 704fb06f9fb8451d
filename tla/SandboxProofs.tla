--------------------------- MODULE SandboxProofs ---------------------------
(***************************************************************************)
(* Proofs about Sandbox: its inductive invariant, the bound on descriptors *)
(* and the refinement of RunContract.                                      *)
(***************************************************************************)
EXTENDS Sandbox, FiniteSetTheorems, TLAPS
-----------------------------------------------------------------------------
(***************************************************************************)
(* Counting descriptors.                                                   *)
(***************************************************************************)

\* The descriptors when worker w has f[w] of them.
FdSet(f) == {d \in Workers \X (1..6) : d[2] <= f[d[1]]}

FdCounts == [Workers -> 0..6]

\* The descriptors of the workers other than w.
FdSetWithout(f, w) == {d \in FdSet(f) : d[1] # w}

LEMMA CountUpTo ==
  ASSUME NEW n \in Nat
  PROVE  IsFiniteSet(1..n) /\ Cardinality(1..n) = n
<1>1. IsFiniteSet(1..n) /\ Cardinality(1..n) = IF 1 > n THEN 0 ELSE n - 1 + 1
  <2>1. 1 \in Int /\ n \in Int
    OBVIOUS
  <2> QED
    BY <2>1, FS_Interval, Zenon
<1> QED
  BY <1>1

LEMMA FdSetFinite ==
  ASSUME NEW f
  PROVE  /\ IsFiniteSet(FdSet(f))
         /\ Cardinality(FdSet(f)) \in Nat
         /\ Cardinality(FdSet(f)) <= 6 * Cardinality(Workers)
         /\ Cardinality(Workers) \in Nat
<1>1. IsFiniteSet(1..6) /\ Cardinality(1..6) = 6
  BY CountUpTo
<1>2. IsFiniteSet(Workers) /\ Cardinality(Workers) \in Nat
  BY JobAssumption, FS_CardinalityType
<1>3. /\ IsFiniteSet(Workers \X (1..6))
      /\ Cardinality(Workers \X (1..6)) = Cardinality(Workers) * 6
  BY <1>1, <1>2, FS_Product
<1>4. FdSet(f) \in SUBSET (Workers \X (1..6))
  BY DEF FdSet
<1>5. IsFiniteSet(FdSet(f)) /\ Cardinality(FdSet(f)) <= Cardinality(Workers \X (1..6))
  BY <1>3, <1>4, FS_Subset
<1> QED
  BY <1>2, <1>3, <1>5, FS_CardinalityType

\* The descriptors of w are as many as the others leave.
LEMMA FdSetSplit ==
  ASSUME NEW f \in FdCounts, NEW w \in Workers
  PROVE  /\ Cardinality(FdSetWithout(f, w)) \in Nat
         /\ Cardinality(FdSet(f)) = Cardinality(FdSetWithout(f, w)) + f[w]
<1> DEFINE R == FdSetWithout(f, w)
           O == {w} \X (1..f[w])
<1>1. f[w] \in Int /\ f[w] >= 0 /\ f[w] <= 6
  BY DEF FdCounts
<1>2. IsFiniteSet(1..f[w]) /\ Cardinality(1..f[w]) = f[w]
  <2>1. f[w] \in Nat
    BY <1>1
  <2> QED
    BY <2>1, CountUpTo
<1>3. IsFiniteSet({w}) /\ Cardinality({w}) = 1
  BY FS_Singleton
<1>4. IsFiniteSet(O) /\ Cardinality(O) = f[w]
  <2>1. IsFiniteSet(O) /\ Cardinality(O) = Cardinality({w}) * Cardinality(1..f[w])
    BY <1>2, <1>3, FS_Product
  <2> QED
    BY <1>1, <1>2, <1>3, <2>1
<1>5. IsFiniteSet(R) /\ Cardinality(R) \in Nat
  <2>1. R \in SUBSET FdSet(f)
    BY DEF FdSetWithout
  <2> QED
    BY <2>1, FdSetFinite, FS_Subset, FS_CardinalityType
<1>6. FdSet(f) = R \cup O
  BY <1>1 DEF FdSet, FdSetWithout
<1>7. R \cap O = {}
  BY DEF FdSetWithout
<1>8. Cardinality(R \cup O) = Cardinality(R) + Cardinality(O) - Cardinality(R \cap O)
  BY <1>4, <1>5, FS_Union
<1>9. Cardinality(R \cap O) = 0
  BY <1>7, FS_EmptySet
<1> HIDE DEF R, O
<1>10. Cardinality(FdSet(f)) = Cardinality(R) + f[w]
  BY <1>1, <1>4, <1>5, <1>6, <1>8, <1>9
<1> QED
  BY <1>5, <1>10 DEF R

\* When only w opens and closes descriptors, the number changes as that of w does.
LEMMA FdSetChange ==
  ASSUME NEW f \in FdCounts, NEW g \in FdCounts, NEW w \in Workers,
         \A v \in Workers : v # w => g[v] = f[v]
  PROVE  Cardinality(FdSet(g)) - g[w] = Cardinality(FdSet(f)) - f[w]
<1>1. FdSetWithout(g, w) = FdSetWithout(f, w)
  BY DEF FdSetWithout, FdSet
<1>2. f[w] \in Int /\ g[w] \in Int
  BY DEF FdCounts
<1> QED
  BY <1>1, <1>2, FdSetSplit

\* The numbers of open descriptors of the workers.
FdsNow == [w \in Workers |-> FdsAt(w)]

LEMMA FdsNowCounts ==
  ASSUME SandboxTypeOK
  PROVE  /\ FdsNow \in FdCounts
         /\ FdsUsed = leaked + Cardinality(FdSet(FdsNow))
<1>1. \A w \in Workers : FdsAt(w) \in 0..6
  BY DEF SandboxTypeOK, FdsAt
<1>2. OpenFds = FdSet(FdsNow)
  BY DEF OpenFds, FdSet, FdsNow
<1> QED
  BY <1>1, <1>2 DEF FdsNow, FdCounts, FdsUsed

\* A step in which worker w alone opens or closes descriptors, or leaks them.
LEMMA FdsUsedChange ==
  ASSUME SandboxTypeOK, NEW w \in Workers,
         leaked' \in Nat, FdsAt(w)' \in 0..6,
         \A v \in Workers : v # w => FdsAt(v)' = FdsAt(v)
  PROVE  FdsUsed' = FdsUsed + (leaked' - leaked) + (FdsAt(w)' - FdsAt(w))
<1> DEFINE f == FdsNow
           g == [v \in Workers |-> FdsAt(v)']
<1>1. f \in FdCounts /\ FdsUsed = leaked + Cardinality(FdSet(f))
  BY FdsNowCounts
<1>2. \A v \in Workers : f[v] = FdsAt(v) /\ f[v] \in 0..6
  BY <1>1 DEF FdsNow, FdCounts
<1>3. g \in FdCounts /\ g[w] = FdsAt(w)' /\ \A v \in Workers : v # w => g[v] = f[v]
  <2>1. \A v \in Workers : FdsAt(v)' \in 0..6
    <3> TAKE v \in Workers
    <3>1. CASE v = w
      BY <3>1
    <3>2. CASE v # w
      <4>1. FdsAt(v)' = FdsAt(v)
        BY <3>2
      <4> QED
        BY <1>2, <4>1
    <3> QED
      BY <3>1, <3>2
  <2> QED
    BY <1>2, <2>1 DEF FdCounts
<1>4. OpenFds' = FdSet(g)
  BY DEF OpenFds, FdSet
<1>5. Cardinality(FdSet(g)) - g[w] = Cardinality(FdSet(f)) - f[w]
  <2> HIDE DEF f, g
  <2> QED
    BY <1>1, <1>3, FdSetChange
<1>6. Cardinality(FdSet(g)) \in Nat /\ Cardinality(FdSet(f)) \in Nat
  BY FdSetFinite
<1>7. leaked \in Nat /\ FdsUsed' = leaked' + Cardinality(FdSet(g))
  BY <1>4 DEF SandboxTypeOK, FdsUsed
<1> HIDE DEF g
<1> QED
  BY <1>1, <1>2, <1>3, <1>5, <1>6, <1>7

\* While no worker opens or closes a descriptor, the number stays.
LEMMA FdsUsedSame ==
  ASSUME leaked' = leaked, \A v \in Workers : FdsAt(v)' = FdsAt(v)
  PROVE  FdsUsed' = FdsUsed
<1>1. OpenFds' = OpenFds
  BY DEF OpenFds
<1> QED
  BY <1>1 DEF FdsUsed

LEMMA FdsUsedType ==
  ASSUME SandboxTypeOK
  PROVE  FdsUsed \in Nat
BY FdsNowCounts, FdSetFinite DEF SandboxTypeOK
-----------------------------------------------------------------------------
(***************************************************************************)
(* The inductive invariant.                                                *)
(***************************************************************************)

LEMMA SandboxInvInit == SandboxInit => SandboxInv
<1> SUFFICES ASSUME SandboxInit PROVE SandboxInv
  OBVIOUS
<1>1. OpenFds = {}
  BY DEF OpenFds, FdsAt, SandboxInit
<1>2. FdsUsed = 0
  BY <1>1, FS_EmptySet DEF FdsUsed, SandboxInit
<1>3. SandboxTypeOK
  BY <1>2, JobAssumption DEF SandboxInit, SandboxTypeOK, Answers
<1> QED
  BY <1>3 DEF SandboxInit, SandboxInv, CallsMeet, StrangersMeet, PlaceOK

LEMMA CallInv ==
  ASSUME SandboxInv, NEW w \in Workers, NEW j \in Jobs, Call(w, j)
  PROVE  SandboxInv'
<1> USE DEF SandboxInv
<1>1. /\ job' = [job EXCEPT ![w] = j] /\ pc' = [pc EXCEPT ![w] = "piping"]
      /\ pc[w] = "idle" /\ job[w] = NoJob /\ j # NoJob
      /\ ret' = [ret EXCEPT ![w] = "none"]
      /\ UNCHANGED <<made, child, inherited, leaked, forkFails>>
  BY JobAssumption DEF Call, SandboxTypeOK
<1>2. met' = [v \in Workers |-> IF v = w THEN \E u \in Workers : pc[u] # "idle"
                                ELSE met[v] \/ pc[v] # "idle"]
  BY DEF Call
<1>3. \A v \in Workers : FdsAt(v)' = FdsAt(v)
  BY <1>1 DEF SandboxTypeOK, PlaceOK, FdsAt
<1>4. SandboxTypeOK'
  BY <1>1, <1>2, <1>3, FdsUsedSame, JobAssumption DEF SandboxTypeOK, Answers
<1>5. CallsMeet'
  BY <1>1, <1>2 DEF CallsMeet, SandboxTypeOK
<1>6. StrangersMeet'
  BY <1>1 DEF StrangersMeet, SandboxTypeOK
<1>7. \A v \in Workers : PlaceOK(v)'
  BY <1>1 DEF PlaceOK, SandboxTypeOK, PipesOf
<1> QED
  BY <1>4, <1>5, <1>6, <1>7

\* A call that returns gives its descriptors back, or leaks them.
LEMMA ReturnInv ==
  ASSUME SandboxInv, NEW w \in Workers, NEW a \in Answers, NEW n \in Nat,
         n <= FdsAt(w), Return(w, a, n), forkFails' \in 0..MaxForkFails
  PROVE  SandboxInv'
<1> USE DEF SandboxInv
<1>1. /\ job' = [job EXCEPT ![w] = NoJob] /\ pc' = [pc EXCEPT ![w] = "idle"]
      /\ ret' = [ret EXCEPT ![w] = a]
      /\ made' = [made EXCEPT ![w] = 0]
      /\ child' = [child EXCEPT ![w] = "none"]
      /\ leaked' = leaked + n
      /\ met' = [met EXCEPT ![w] = FALSE]
  BY DEF Return
<1>2. inherited' = [v \in Workers |-> IF v = w THEN {}
                                      ELSE inherited[v] \ ({w} \X {"in", "out"})]
  BY DEF Return
<1>3. FdsUsed' \in Int /\ FdsUsed' <= FdsUsed
  <2>1. FdsAt(w)' = 0 /\ \A v \in Workers : v # w => FdsAt(v)' = FdsAt(v)
    BY <1>1 DEF SandboxTypeOK, FdsAt
  <2>2. FdsAt(w) \in 0..6
    BY DEF SandboxTypeOK, FdsAt
  <2>3. leaked' \in Nat /\ leaked \in Nat
    BY <1>1 DEF SandboxTypeOK
  <2>4. FdsUsed' = FdsUsed + (leaked' - leaked) + (FdsAt(w)' - FdsAt(w))
    BY <2>1, <2>3, FdsUsedChange
  <2> QED
    BY <1>1, <2>1, <2>2, <2>3, <2>4, FdsUsedType
<1>4. SandboxTypeOK'
  <2>1. FdsUsed' <= MaxFds
    BY <1>3, FdsUsedType, JobAssumption DEF SandboxTypeOK
  <2>2. inherited' \in [Workers -> SUBSET (Workers \X {"in", "out"})]
    BY <1>2 DEF SandboxTypeOK
  <2>3. \A v \in Workers : child'[v] # "running" => inherited'[v] = {}
    BY <1>1, <1>2 DEF SandboxTypeOK
  <2>4. \A v \in Workers : /\ pc'[v] = "idle" <=> job'[v] = NoJob
                           /\ pc'[v] \in {"idle", "piping"} => child'[v] = "none"
    BY <1>1 DEF SandboxTypeOK
  <2>5. /\ leaked' \in Nat
        /\ job' \in [Workers -> Jobs \cup {NoJob}]
        /\ ret' \in [Workers -> Answers]
        /\ pc' \in [Workers -> {"idle", "piping", "forked", "feeding", "waiting", "reading"}]
        /\ made' \in [Workers -> 0..3]
    BY <1>1 DEF SandboxTypeOK
  <2>6. /\ child' \in [Workers -> {"none", "running", "ended"}]
        /\ met' \in [Workers -> BOOLEAN]
    BY <1>1 DEF SandboxTypeOK
  <2> QED
    BY <2>1, <2>2, <2>3, <2>4, <2>5, <2>6 DEF SandboxTypeOK
<1>5. CallsMeet'
  BY <1>1 DEF CallsMeet, SandboxTypeOK
<1>6. StrangersMeet'
  BY <1>1, <1>2 DEF StrangersMeet, SandboxTypeOK
<1>7. \A v \in Workers : PlaceOK(v)'
  BY <1>1, JobAssumption DEF PlaceOK, SandboxTypeOK, PipesOf
<1> QED
  BY <1>4, <1>5, <1>6, <1>7

LEMMA PipeInv ==
  ASSUME SandboxInv, NEW w \in Workers, Pipe(w)
  PROVE  SandboxInv'
<1> USE DEF SandboxInv
<1>1. /\ pc[w] = "piping" /\ made[w] < PipesOf(job[w]) /\ FdsUsed + 2 <= MaxFds
      /\ made' = [made EXCEPT ![w] = @ + 1]
      /\ UNCHANGED <<job, ret, pc, child, inherited, leaked, forkFails, met>>
  BY DEF Pipe
<1>2. made[w] \in 0..2 /\ made'[w] = made[w] + 1 /\ made' \in [Workers -> 0..3]
  BY <1>1 DEF SandboxTypeOK, PipesOf
<1>3. FdsUsed' = FdsUsed + 2
  <2>1. FdsAt(w) = 2 * made[w] /\ FdsAt(w)' = 2 * made'[w]
    BY <1>1 DEF FdsAt
  <2>2. \A v \in Workers : v # w => FdsAt(v)' = FdsAt(v)
    BY <1>1 DEF SandboxTypeOK, FdsAt
  <2>3. FdsAt(w)' \in 0..6 /\ FdsAt(w)' - FdsAt(w) = 2 /\ leaked' \in Nat /\ leaked' - leaked = 0
    BY <1>1, <1>2, <2>1 DEF SandboxTypeOK
  <2>4. FdsUsed' = FdsUsed + (leaked' - leaked) + (FdsAt(w)' - FdsAt(w))
    BY <2>2, <2>3, FdsUsedChange
  <2> QED
    BY <2>3, <2>4, FdsUsedType
<1>4. SandboxTypeOK'
  BY <1>1, <1>2, <1>3 DEF SandboxTypeOK
<1>5. CallsMeet' /\ StrangersMeet'
  BY <1>1 DEF CallsMeet, StrangersMeet
<1>6. \A v \in Workers : PlaceOK(v)'
  BY <1>1, <1>2 DEF PlaceOK, SandboxTypeOK, PipesOf
<1> QED
  BY <1>4, <1>5, <1>6

\* The child inherits ends of calls that are under way only.
LEMMA ForkInv ==
  ASSUME SandboxInv, NEW w \in Workers, Fork(w)
  PROVE  SandboxInv'
<1> USE DEF SandboxInv
<1> DEFINE ends == {<<v, "in">> : v \in {u \in Workers \ {w} : InOpen(u)}} \cup
                   {<<v, "out">> : v \in {u \in Workers \ {w} : OutOpen(u)}}
<1>1. /\ pc[w] = "piping" /\ made[w] = PipesOf(job[w])
      /\ pc' = [pc EXCEPT ![w] = "forked"]
      /\ child' = [child EXCEPT ![w] = "running"]
      /\ inherited' = [inherited EXCEPT ![w] = ends]
      /\ UNCHANGED <<job, ret, made, leaked, forkFails, met>>
  BY DEF Fork
<1>2. /\ ends \in SUBSET (Workers \X {"in", "out"})
      /\ \A e \in ends : e[1] # w /\ job[e[1]] # NoJob
  BY DEF InOpen, OutOpen
<1> HIDE DEF ends
<1>3. FdsUsed' = FdsUsed
  <2>1. \A v \in Workers : FdsAt(v)' = FdsAt(v)
    BY <1>1 DEF SandboxTypeOK, FdsAt
  <2> QED
    BY <1>1, <2>1, FdsUsedSame
<1>4. SandboxTypeOK'
  BY <1>1, <1>2, <1>3 DEF SandboxTypeOK
<1>5. CallsMeet'
  BY <1>1 DEF CallsMeet
<1>6. StrangersMeet'
  BY <1>1, <1>2 DEF StrangersMeet, SandboxTypeOK
<1>7. \A v \in Workers : PlaceOK(v)'
  BY <1>1 DEF PlaceOK, SandboxTypeOK
<1> QED
  BY <1>4, <1>5, <1>6, <1>7

\* The parent goes on; it may close descriptors.
LEMMA ParentInv ==
  ASSUME SandboxInv, NEW w \in Workers, CloseChildEnds(w) \/ Feed(w)
  PROVE  SandboxInv'
<1> USE DEF SandboxInv
<1> DEFINE next == IF pc[w] = "feeding" THEN "waiting"
                   ELSE IF job[w].kind = "run" THEN "feeding" ELSE "reading"
<1>1. /\ pc[w] \in {"forked", "feeding"}
      /\ pc' = [pc EXCEPT ![w] = next]
      /\ UNCHANGED <<job, ret, made, child, inherited, leaked, forkFails, met>>
  BY DEF CloseChildEnds, Feed
<1>2. next \in {"feeding", "waiting", "reading"} /\ pc'[w] = next
  BY <1>1 DEF SandboxTypeOK
<1>3. job[w] \in Jobs /\ job[w].kind \in {"compile", "run"}
  BY <1>1, JobAssumption DEF SandboxTypeOK
<1>4. FdsUsed' <= FdsUsed /\ FdsUsed' \in Int
  <2>1. \A v \in Workers : v # w => FdsAt(v)' = FdsAt(v)
    BY <1>1 DEF SandboxTypeOK, FdsAt
  <2>2. FdsAt(w) \in 0..6 /\ FdsAt(w)' \in 0..6 /\ FdsAt(w)' <= FdsAt(w)
    BY <1>1, <1>2, <1>3 DEF SandboxTypeOK, PlaceOK, PipesOf, FdsAt
  <2>3. leaked' \in Nat /\ leaked' - leaked = 0
    BY <1>1 DEF SandboxTypeOK
  <2>4. FdsUsed' = FdsUsed + (leaked' - leaked) + (FdsAt(w)' - FdsAt(w))
    BY <2>1, <2>2, <2>3, FdsUsedChange
  <2> QED
    BY <2>2, <2>3, <2>4, FdsUsedType
<1>5. SandboxTypeOK'
  <2>1. FdsUsed' <= MaxFds
    BY <1>4, FdsUsedType, JobAssumption DEF SandboxTypeOK
  <2> QED
    BY <1>1, <1>2, <2>1 DEF SandboxTypeOK
<1>6. CallsMeet' /\ StrangersMeet'
  BY <1>1 DEF CallsMeet, StrangersMeet
<1>7. \A v \in Workers : PlaceOK(v)'
  BY <1>1, <1>2, <1>3 DEF PlaceOK, SandboxTypeOK
<1> QED
  BY <1>5, <1>6, <1>7

LEMMA ChildEndsInv ==
  ASSUME SandboxInv, NEW w \in Workers, ChildEnds(w)
  PROVE  SandboxInv'
<1> USE DEF SandboxInv
<1>1. /\ child[w] = "running" /\ ~NeverEnds(job[w])
      /\ child' = [child EXCEPT ![w] = "ended"]
      /\ inherited' = [inherited EXCEPT ![w] = {}]
      /\ UNCHANGED <<job, ret, pc, made, leaked, forkFails, met>>
  BY DEF ChildEnds, CanEnd
<1>2. FdsUsed' = FdsUsed
  BY <1>1, FdsUsedSame DEF FdsAt
<1>3. SandboxTypeOK'
  BY <1>1, <1>2 DEF SandboxTypeOK
<1>4. CallsMeet' /\ StrangersMeet'
  BY <1>1 DEF CallsMeet, StrangersMeet, SandboxTypeOK
<1>5. \A v \in Workers : PlaceOK(v)'
  BY <1>1 DEF PlaceOK, SandboxTypeOK
<1> QED
  BY <1>3, <1>4, <1>5

LEMMA ReapInv ==
  ASSUME SandboxInv, NEW w \in Workers, Reap(w)
  PROVE  SandboxInv'
<1> USE DEF SandboxInv
<1>1. /\ pc[w] = "waiting" /\ child[w] = "ended"
      /\ pc' = [pc EXCEPT ![w] = "reading"]
      /\ child' = [child EXCEPT ![w] = "none"]
      /\ UNCHANGED <<job, ret, made, inherited, leaked, forkFails, met>>
  BY DEF Reap
<1>2. FdsUsed' = FdsUsed
  <2>1. \A v \in Workers : FdsAt(v)' = FdsAt(v)
    BY <1>1 DEF SandboxTypeOK, PlaceOK, FdsAt
  <2> QED
    BY <1>1, <2>1, FdsUsedSame
<1>3. SandboxTypeOK'
  BY <1>1, <1>2 DEF SandboxTypeOK
<1>4. CallsMeet' /\ StrangersMeet'
  BY <1>1 DEF CallsMeet, StrangersMeet
<1>5. \A v \in Workers : PlaceOK(v)'
  BY <1>1 DEF PlaceOK, SandboxTypeOK
<1> QED
  BY <1>3, <1>4, <1>5

\* The way out without a pipe leaks what has been made.
LEMMA PipeFailsReturns ==
  ASSUME SandboxInv, NEW w \in Workers, PipeFails(w)
  PROVE  /\ job[w] \in Jobs /\ Failure(job[w]) \in Answers
         /\ made[w] \in 0..2 /\ FdsAt(w) = 2 * made[w]
         /\ FdsUsed + 2 > MaxFds /\ Return(w, Failure(job[w]), 2 * made[w])
         /\ UNCHANGED forkFails
BY DEF PipeFails, SandboxInv, SandboxTypeOK, Failure, Answers, FdsAt, PipesOf

\* A child that is cut off never ends, or waits for the end of its input.
LEMMA DeadlineReturns ==
  ASSUME SandboxInv, NEW w \in Workers, Deadline(w)
  PROVE  /\ job[w] \in Jobs /\ FdsAt(w) = 2
         /\ Return(w, "TLE", 2) /\ UNCHANGED forkFails
         /\ NeverEnds(job[w]) \/ (job[w].reads /\ met[w])
<1> USE DEF SandboxInv
<1>1. /\ pc[w] = "waiting" /\ child[w] = "running" /\ ~CanEnd(w)
      /\ Return(w, "TLE", 2) /\ UNCHANGED forkFails
  BY DEF Deadline
<1>2. job[w] \in Jobs /\ job[w] # NoJob
  BY <1>1, JobAssumption DEF SandboxTypeOK
<1>3. FdsAt(w) = 2
  BY <1>1 DEF FdsAt
<1>4. CASE NeverEnds(job[w])
  BY <1>1, <1>2, <1>3, <1>4
<1>5. CASE ~NeverEnds(job[w])
  <2>1. job[w].reads /\ KeptOpen(w, "in")
    BY <1>1, <1>5 DEF CanEnd
  <2>2. PICK v \in Workers \ {w} : <<w, "in">> \in inherited[v]
    BY <2>1 DEF KeptOpen
  <2>3. job[v] # NoJob
    BY <2>2 DEF StrangersMeet
  <2>4. met[w]
    BY <1>2, <2>2, <2>3 DEF CallsMeet
  <2> QED
    BY <1>1, <1>2, <1>3, <2>1, <2>4
<1> QED
  BY <1>4, <1>5

\* What is read to its end has ended by itself.
LEMMA ReadReturns ==
  ASSUME SandboxInv, NEW w \in Workers, ReadRun(w) \/ ReadCompile(w)
  PROVE  /\ job[w] \in Jobs /\ ~NeverEnds(job[w])
         /\ Reported(job[w]) \in Answers
         /\ Return(w, Reported(job[w]), 0) /\ UNCHANGED forkFails
<1> USE DEF SandboxInv
<1>1. /\ pc[w] = "reading" /\ Return(w, Reported(job[w]), 0) /\ UNCHANGED forkFails
      /\ (job[w].kind = "run") \/ child[w] = "ended"
  BY DEF ReadRun, ReadCompile
<1>2. job[w] \in Jobs
  BY <1>1 DEF SandboxTypeOK
<1>3. ~NeverEnds(job[w])
  BY <1>1 DEF PlaceOK
<1>4. Reported(job[w]) \in Answers
  BY DEF Reported, Answers
<1> QED
  BY <1>1, <1>2, <1>3, <1>4

LEMMA ForkFailsReturns ==
  ASSUME SandboxInv, NEW w \in Workers, ForkFails(w)
  PROVE  /\ job[w] \in Jobs /\ Failure(job[w]) \in Answers
         /\ forkFails < MaxForkFails /\ forkFails' = forkFails + 1
         /\ Return(w, Failure(job[w]), 0)
BY DEF ForkFails, SandboxInv, SandboxTypeOK, Failure, Answers

LEMMA SandboxInvStep ==
  ASSUME SandboxInv, [SandboxNext]_vars
  PROVE  SandboxInv'
<1>0. \A w \in Workers : FdsAt(w) \in 0..6
  BY DEF SandboxInv, SandboxTypeOK, FdsAt
<1>1. CASE UNCHANGED vars
  <2>1. FdsUsed' = FdsUsed
    BY <1>1, FdsUsedSame DEF vars, FdsAt
  <2>2. SandboxTypeOK'
    BY <1>1, <2>1 DEF SandboxInv, SandboxTypeOK, vars
  <2> QED
    BY <1>1, <2>2 DEF SandboxInv, CallsMeet, StrangersMeet, PlaceOK, vars
<1>2. ASSUME NEW w \in Workers, NEW j \in Jobs, Call(w, j) PROVE SandboxInv'
  BY <1>2, CallInv
<1>3. ASSUME NEW w \in Workers, Pipe(w) PROVE SandboxInv'
  BY <1>3, PipeInv
<1>4. ASSUME NEW w \in Workers, PipeFails(w) PROVE SandboxInv'
  <2>1. /\ Failure(job[w]) \in Answers /\ 2 * made[w] \in Nat /\ 2 * made[w] <= FdsAt(w)
        /\ Return(w, Failure(job[w]), 2 * made[w]) /\ forkFails' = forkFails
    BY <1>4, PipeFailsReturns
  <2>2. forkFails' \in 0..MaxForkFails
    BY <2>1 DEF SandboxInv, SandboxTypeOK
  <2> QED
    BY <2>1, <2>2, ReturnInv
<1>5. ASSUME NEW w \in Workers, Fork(w) PROVE SandboxInv'
  BY <1>5, ForkInv
<1>6. ASSUME NEW w \in Workers, ForkFails(w) PROVE SandboxInv'
  <2>1. /\ Failure(job[w]) \in Answers /\ Return(w, Failure(job[w]), 0)
        /\ forkFails < MaxForkFails /\ forkFails' = forkFails + 1
    BY <1>6, ForkFailsReturns
  <2>2. forkFails' \in 0..MaxForkFails
    BY <2>1, JobAssumption DEF SandboxInv, SandboxTypeOK
  <2> QED
    BY <1>0, <2>1, <2>2, ReturnInv
<1>7. ASSUME NEW w \in Workers, CloseChildEnds(w) \/ Feed(w) PROVE SandboxInv'
  BY <1>7, ParentInv
<1>8. ASSUME NEW w \in Workers, ChildEnds(w) PROVE SandboxInv'
  BY <1>8, ChildEndsInv
<1>9. ASSUME NEW w \in Workers, Reap(w) PROVE SandboxInv'
  BY <1>9, ReapInv
<1>10. ASSUME NEW w \in Workers, Deadline(w) PROVE SandboxInv'
  <2>1. FdsAt(w) = 2 /\ Return(w, "TLE", 2) /\ forkFails' = forkFails
    BY <1>10, DeadlineReturns
  <2>2. "TLE" \in Answers /\ 2 \in Nat /\ 2 <= FdsAt(w) /\ forkFails' \in 0..MaxForkFails
    BY <2>1 DEF SandboxInv, SandboxTypeOK, Answers
  <2> QED
    BY <2>1, <2>2, ReturnInv
<1>11. ASSUME NEW w \in Workers, ReadRun(w) \/ ReadCompile(w) PROVE SandboxInv'
  <2>1. /\ Reported(job[w]) \in Answers /\ Return(w, Reported(job[w]), 0)
        /\ forkFails' = forkFails
    BY <1>11, ReadReturns
  <2>2. 0 \in Nat /\ 0 <= FdsAt(w) /\ forkFails' \in 0..MaxForkFails
    BY <1>0, <2>1 DEF SandboxInv, SandboxTypeOK
  <2> QED
    BY <2>1, <2>2, ReturnInv
<1> QED
  BY <1>1, <1>2, <1>3, <1>4, <1>5, <1>6, <1>7, <1>8, <1>9, <1>10, <1>11
     DEF SandboxNext, WorkerStep

\* Every reachable state satisfies the inductive invariant.
THEOREM SandboxInvariant == SandboxSpec => []SandboxInv
<1>1. SandboxInv /\ [SandboxNext]_vars => SandboxInv'
  BY SandboxInvStep
<1> QED
  BY <1>1, SandboxInvInit, PTL DEF SandboxSpec

\* Types, and the descriptors never exceed the limit of the process, whatever has leaked.
THEOREM SandboxTypeCorrect == SandboxSpec => []SandboxTypeOK
<1>1. SandboxInv => SandboxTypeOK
  BY DEF SandboxInv
<1> QED
  BY <1>1, SandboxInvariant, PTL
-----------------------------------------------------------------------------
(***************************************************************************)
(* The refinement of RunContract.                                          *)
(***************************************************************************)

\* A return ends the call of the contract with the same answer.
LEMMA ReturnEnds ==
  ASSUME NEW w \in Workers, NEW a, NEW n, job[w] # NoJob, Return(w, a, n)
  PROVE  Contract!End(w, a) /\ leaked' = leaked + n
BY DEF Return, Contract!End

LEMMA CallBegins ==
  ASSUME SandboxTypeOK, NEW w \in Workers, NEW j \in Jobs, Call(w, j)
  PROVE  Contract!Begin(w, j)
<1>1. \A v \in Workers : v \in Contract!Calling <=> pc[v] # "idle"
  BY DEF Contract!Calling, SandboxTypeOK
<1>2. Contract!Calling # {} <=> \E u \in Workers : pc[u] # "idle"
  BY <1>1 DEF Contract!Calling
<1>3. met' = [v \in Workers |-> IF v = w THEN Contract!Calling # {}
                                ELSE met[v] \/ v \in Contract!Calling]
  BY <1>1, <1>2 DEF Call
<1>4. job[w] = NoJob
  BY DEF Call, SandboxTypeOK
<1> QED
  BY <1>3, <1>4 DEF Call, Contract!Begin

\* Without a descriptor for the next pipe, the workers together could not have all.
LEMMA PipeFailsForCause ==
  ASSUME SandboxInv, NEW w \in Workers, PipeFails(w)
  PROVE  leaked + 6 * Cardinality(Workers) > MaxFds
<1> DEFINE f == FdsNow
           g == [f EXCEPT ![w] = @ + 2]
<1>1. f \in FdCounts /\ FdsUsed = leaked + Cardinality(FdSet(f))
  BY FdsNowCounts DEF SandboxInv
<1>2. FdsUsed + 2 > MaxFds /\ f[w] \in 0..4
  BY PipeFailsReturns DEF FdsNow
<1> HIDE DEF f
<1>3. g \in FdCounts /\ g[w] = f[w] + 2 /\ \A v \in Workers : v # w => g[v] = f[v]
  BY <1>1, <1>2 DEF FdCounts
<1> HIDE DEF g
<1>4. Cardinality(FdSet(g)) - g[w] = Cardinality(FdSet(f)) - f[w]
  BY <1>1, <1>3, FdSetChange
<1>5. /\ Cardinality(FdSet(g)) \in Nat /\ Cardinality(FdSet(f)) \in Nat
      /\ Cardinality(FdSet(g)) <= 6 * Cardinality(Workers) /\ Cardinality(Workers) \in Nat
  BY FdSetFinite
<1>6. leaked \in Nat /\ MaxFds \in Nat
  BY JobAssumption DEF SandboxInv, SandboxTypeOK
<1> QED
  BY <1>1, <1>2, <1>3, <1>4, <1>5, <1>6

\* Every step of the processes is a step of the contract, or none.
LEMMA StepRefinesContract ==
  ASSUME SandboxInv, [SandboxNext]_vars
  PROVE  [Contract!ContractNext]_(Contract!contractVars)
<1> USE DEF Contract!ContractNext, NeverEnds, Failure, Contract!NeverEnds, Contract!Failure
<1>0. \A w \in Workers : job[w] \in Jobs => job[w] # NoJob
  BY JobAssumption
<1>1. CASE UNCHANGED vars
  BY <1>1 DEF vars, Contract!contractVars
<1>2. ASSUME NEW w \in Workers,
             Pipe(w) \/ Fork(w) \/ CloseChildEnds(w) \/ Feed(w) \/ ChildEnds(w) \/ Reap(w)
      PROVE  UNCHANGED Contract!contractVars
  BY <1>2 DEF Pipe, Fork, CloseChildEnds, Feed, ChildEnds, Reap, Contract!contractVars
<1>3. ASSUME NEW w \in Workers, NEW j \in Jobs, Call(w, j) PROVE Contract!ContractNext
  <2>1. Contract!Begin(w, j)
    BY <1>3, CallBegins DEF SandboxInv
  <2> QED
    BY <2>1
<1>4. ASSUME NEW w \in Workers, PipeFails(w) PROVE Contract!ContractNext
  <2>1. /\ job[w] # NoJob /\ made[w] \in 0..2 /\ UNCHANGED forkFails
        /\ Return(w, Failure(job[w]), 2 * made[w])
    BY <1>0, <1>4, PipeFailsReturns
  <2>2. Contract!End(w, Failure(job[w])) /\ leaked' = leaked + 2 * made[w]
    BY <2>1, ReturnEnds
  <2>3. leaked' \in {leaked, leaked + 2, leaked + 4}
    BY <2>1, <2>2 DEF SandboxInv, SandboxTypeOK
  <2>4. leaked + Contract!FdsOfACall * Contract!Cardinality(Workers) > MaxFds
    <3>1. Contract!Cardinality(Workers) = Cardinality(Workers)
      BY DEF Contract!Cardinality, Cardinality
    <3> QED
      BY <1>4, <3>1, PipeFailsForCause DEF Contract!FdsOfACall
  <2>5. Contract!End(w, Contract!Failure(job[w]))
    BY <2>2
  <2>6. Contract!OutOfFds(w)
    BY <2>1, <2>3, <2>4, <2>5 DEF Contract!OutOfFds
  <2> QED
    BY <2>6
<1>5. ASSUME NEW w \in Workers, ForkFails(w) PROVE Contract!ContractNext
  <2>1. /\ job[w] # NoJob /\ forkFails < MaxForkFails /\ forkFails' = forkFails + 1
        /\ Return(w, Failure(job[w]), 0)
    BY <1>0, <1>5, ForkFailsReturns
  <2>2. Contract!End(w, Failure(job[w])) /\ leaked' = leaked
    BY <2>1, ReturnEnds DEF SandboxInv, SandboxTypeOK
  <2>3. Contract!ForkFails(w)
    BY <2>1, <2>2 DEF Contract!ForkFails
  <2> QED
    BY <2>3
<1>6. ASSUME NEW w \in Workers, Deadline(w) PROVE Contract!ContractNext
  <2>1. /\ job[w] # NoJob /\ Return(w, "TLE", 2) /\ UNCHANGED forkFails
        /\ NeverEnds(job[w]) \/ (job[w].reads /\ met[w])
    BY <1>0, <1>6, DeadlineReturns
  <2>2. Contract!End(w, "TLE") /\ leaked' = leaked + 2
    BY <2>1, ReturnEnds
  <2>3. CASE NeverEnds(job[w])
    <3>1. Contract!Answer(w)
      BY <2>1, <2>2, <2>3 DEF Contract!Answer, Contract!OwnOutcome
    <3> QED
      BY <3>1
  <2>4. CASE job[w].reads /\ met[w]
    <3>1. Contract!HeldUp(w)
      BY <2>1, <2>2, <2>4 DEF Contract!HeldUp
    <3> QED
      BY <3>1
  <2> QED
    BY <2>1, <2>3, <2>4
<1>7. ASSUME NEW w \in Workers, ReadRun(w) \/ ReadCompile(w) PROVE Contract!ContractNext
  <2>1. /\ job[w] \in Jobs /\ job[w] # NoJob /\ ~NeverEnds(job[w])
        /\ Return(w, Reported(job[w]), 0) /\ UNCHANGED forkFails
    BY <1>0, <1>7, ReadReturns
  <2>2. Contract!End(w, Reported(job[w])) /\ leaked' = leaked + 0
    BY <2>1, ReturnEnds
  <2>3. CASE job[w].kind = "run" /\ job[w].end = "oom"
    <3>1. Reported(job[w]) = "TLE"
      BY <2>3 DEF Reported
    <3>2. leaked' = leaked
      BY <2>2 DEF SandboxInv, SandboxTypeOK
    <3>3. Contract!OomAsTimeout(w)
      BY <2>1, <2>2, <2>3, <3>1, <3>2 DEF Contract!OomAsTimeout
    <3> QED
      BY <3>3
  <2>4. CASE ~(job[w].kind = "run" /\ job[w].end = "oom")
    <3>1. Reported(job[w]) = Contract!OwnOutcome(job[w])
      BY <2>1, <2>4, JobAssumption DEF Reported, Contract!OwnOutcome
    <3>2. Contract!Answer(w)
      BY <2>1, <2>2, <3>1 DEF Contract!Answer
    <3> QED
      BY <3>2
  <2> QED
    BY <2>3, <2>4
<1> QED
  BY <1>1, <1>2, <1>3, <1>4, <1>5, <1>6, <1>7 DEF SandboxNext, WorkerStep

\* Calls are answered as the contract says, for any number of workers, any set of jobs
\* and any limit of descriptors.
THEOREM SandboxRefinesContract == SandboxSpec => ImplementsContract
<1>1. SandboxInit => Contract!ContractInit
  BY DEF SandboxInit, Contract!ContractInit
<1>2. SandboxInv /\ [SandboxNext]_vars => [Contract!ContractNext]_(Contract!contractVars)
  BY StepRefinesContract
<1> QED
  BY <1>1, <1>2, SandboxInvariant, PTL
     DEF SandboxSpec, ImplementsContract, Contract!ContractSpec
=============================================================================
