------------------------ MODULE ConnectionPoolProofs ------------------------
(***************************************************************************)
(* Proofs about ConnectionPool: its inductive invariant, and the safety    *)
(* properties that follow from it.                                         *)
(***************************************************************************)
EXTENDS ConnectionPool, FiniteSetTheorems, SequenceTheorems, TLAPS
-----------------------------------------------------------------------------
(***************************************************************************)
(* Sequences of connections, used from the back.                           *)
(***************************************************************************)
Elems(s) == {s[i] : i \in 1..Len(s)}

Distinct(s) == \A i, j \in 1..Len(s) : s[i] = s[j] => i = j

\* pop_back takes one element away, and the others stay.
LEMMA PopBackProperties ==
  ASSUME NEW S, NEW s \in Seq(S), s # <<>>
  PROVE  /\ Len(s) \in Nat \ {0}
         /\ PopBack(s) \in Seq(S) /\ Len(PopBack(s)) = Len(s) - 1
         /\ Back(s) \in S /\ Back(s) \in Elems(s)
         /\ Elems(s) = Elems(PopBack(s)) \cup {Back(s)}
         /\ Distinct(s) => Distinct(PopBack(s)) /\ Back(s) \notin Elems(PopBack(s))
<1>1. Len(s) \in Nat \ {0} /\ \A i \in 1..Len(s) : s[i] \in S
  BY EmptySeq, ElementOfSeq
<1>2. /\ PopBack(s) \in Seq(S) /\ Len(PopBack(s)) = Len(s) - 1
      /\ \A i \in 1..(Len(s) - 1) : PopBack(s)[i] = s[i]
  <2>1. /\ 1 \in Int /\ Len(s) - 1 \in Int
        /\ \A i \in 1..(Len(s) - 1) : s[i] \in S
    BY <1>1
  <2> DEFINE n == Len(s) - 1
             p == SubSeq(s, 1, n)
  <2>2. /\ p \in Seq(S) /\ Len(p) = IF 1 <= n THEN n - 1 + 1 ELSE 0
        /\ \A i \in 1..(n - 1 + 1) : p[i] = s[1 + i - 1]
    <3> HIDE DEF n
    <3> QED
      BY <2>1, SubSeqProperties DEF n
  <2>3. p = PopBack(s)
    BY DEF PopBack
  <2> HIDE DEF p
  <2> QED
    BY <1>1, <2>2, <2>3
<1>3. Back(s) \in S /\ Back(s) \in Elems(s)
  BY <1>1 DEF Back, Elems
<1>4. Elems(s) = Elems(PopBack(s)) \cup {Back(s)}
  <2>1. \A i \in 1..Len(s) : i \in 1..(Len(s) - 1) \/ i = Len(s)
    BY <1>1
  <2>2. \A i \in 1..(Len(s) - 1) : i \in 1..Len(s)
    BY <1>1
  <2>3. ASSUME NEW x \in Elems(s) PROVE x \in Elems(PopBack(s)) \cup {Back(s)}
    BY <1>2, <2>1 DEF Back, Elems
  <2>4. ASSUME NEW x \in Elems(PopBack(s)) PROVE x \in Elems(s)
    BY <1>2, <2>2 DEF Elems
  <2> QED
    BY <1>3, <2>3, <2>4
<1>5. ASSUME Distinct(s) PROVE Distinct(PopBack(s)) /\ Back(s) \notin Elems(PopBack(s))
  BY <1>1, <1>2, <1>5 DEF Back, Elems, Distinct
<1> QED
  BY <1>1, <1>2, <1>3, <1>4, <1>5

\* A thread that holds at most one connection holds at most two with one more.
LEMMA OneMore ==
  ASSUME NEW m, NEW n \in 0..1, m = n + 1
  PROVE  m \in 1..2
  OBVIOUS

\* push_back adds one element.
LEMMA PushBackProperties ==
  ASSUME NEW S, NEW s \in Seq(S), NEW x \in S
  PROVE  /\ Len(s) \in Nat
         /\ Append(s, x) \in Seq(S) /\ Len(Append(s, x)) = Len(s) + 1
         /\ Elems(Append(s, x)) = Elems(s) \cup {x}
         /\ Distinct(s) /\ x \notin Elems(s) => Distinct(Append(s, x))
<1>1. /\ Len(s) \in Nat
      /\ Append(s, x) \in Seq(S) /\ Len(Append(s, x)) = Len(s) + 1
      /\ \A i \in 1..Len(s) : Append(s, x)[i] = s[i]
      /\ Append(s, x)[Len(s) + 1] = x
  BY LenProperties, AppendProperties
<1>2. Elems(Append(s, x)) = Elems(s) \cup {x}
  <2>1. \A i \in 1..(Len(s) + 1) : i \in 1..Len(s) \/ i = Len(s) + 1
    BY <1>1
  <2>2. Len(s) + 1 \in 1..(Len(s) + 1) /\ \A i \in 1..Len(s) : i \in 1..(Len(s) + 1)
    BY <1>1
  <2> QED
    BY <1>1, <2>1, <2>2 DEF Elems
<1>3. ASSUME Distinct(s), x \notin Elems(s) PROVE Distinct(Append(s, x))
  BY <1>1, <1>3 DEF Distinct, Elems
<1> QED
  BY <1>1, <1>2, <1>3

LEMMA LenZero ==
  ASSUME NEW S, NEW s \in Seq(S)
  PROVE  Len(s) \in Nat /\ (s = <<>> <=> Len(s) = 0)
BY EmptySeq, LenProperties

LEMMA ElemsEmpty ==
  ASSUME NEW S, NEW s \in Seq(S)
  PROVE  Elems(s) = {} <=> s = <<>>
<1>1. CASE s = <<>>
  BY <1>1 DEF Elems
<1>2. CASE s # <<>>
  BY <1>2, PopBackProperties
<1> QED
  BY <1>1, <1>2

\* ConnExclusive in terms of the sets of elements, for a pool p, hands h and lost slots l.
ExclusiveSets(p, h, l) ==
  /\ Distinct(p)
  /\ \A t \in Threads : /\ Distinct(h[t])
                        /\ Elems(h[t]) \cap (Elems(p) \cup l) = {}
                        /\ \A u \in Threads : Elems(h[t]) \cap Elems(h[u]) # {} => t = u
  /\ Elems(p) \cap l = {}

LEMMA ConnExclusiveSets ==
  /\ ConnExclusive <=> ExclusiveSets(pool, held, lost)
  /\ ConnExclusive' <=> ExclusiveSets(pool', held', lost')
BY DEF ConnExclusive, ExclusiveSets, Distinct, Elems, HeldBy, Pooled

\* CapacityKept likewise.
CapacitySets(p, h, l) ==
  \A c \in Conns : c \in Elems(p) \/ c \in l \/ \E t \in Threads : c \in Elems(h[t])

LEMMA CapacityKeptSets ==
  /\ PoolTypeOK =>
       (CapacityKept <=> /\ stage # "closed" => CapacitySets(pool, held, lost)
                         /\ lost # {} => outages > 0)
  /\ PoolTypeOK' =>
       (CapacityKept' <=> /\ stage' # "closed" => CapacitySets(pool', held', lost')
                          /\ lost' # {} => outages' > 0)
<1>1. ASSUME NEW p \in Seq(Conns), NEW h \in [Threads -> Seq(Conns)], NEW l \in SUBSET Conns
      PROVE  Conns = Elems(p) \cup l \cup UNION {Elems(h[t]) : t \in Threads}
               <=> CapacitySets(p, h, l)
  <2>1. Elems(p) \subseteq Conns /\ \A t \in Threads : Elems(h[t]) \subseteq Conns
    BY <1>1, ElementOfSeq DEF Elems
  <2> QED
    BY <1>1, <2>1 DEF CapacitySets
<1>2. /\ Pooled = Elems(pool) /\ \A t \in Threads : HeldBy(t) = Elems(held[t])
      /\ Pooled' = Elems(pool') /\ \A t \in Threads : HeldBy(t)' = Elems(held'[t])
  BY DEF Pooled, HeldBy, Elems
<1>3. ASSUME PoolTypeOK
      PROVE  CapacityKept <=> /\ stage # "closed" => CapacitySets(pool, held, lost)
                              /\ lost # {} => outages > 0
  <2>1. pool \in Seq(Conns) /\ held \in [Threads -> Seq(Conns)] /\ lost \in SUBSET Conns
    BY <1>3 DEF PoolTypeOK
  <2> QED
    BY <1>1, <1>2, <2>1 DEF CapacityKept
<1>4. ASSUME PoolTypeOK'
      PROVE  CapacityKept' <=> /\ stage' # "closed" => CapacitySets(pool', held', lost')
                               /\ lost' # {} => outages' > 0
  <2>1. pool' \in Seq(Conns) /\ held' \in [Threads -> Seq(Conns)] /\ lost' \in SUBSET Conns
    BY <1>4 DEF PoolTypeOK
  <2> QED
    BY <1>1, <1>2, <2>1 DEF CapacityKept
<1> QED
  BY <1>3, <1>4
-----------------------------------------------------------------------------
(***************************************************************************)
(* Counting the threads on their way to the pool.                          *)
(***************************************************************************)
Awake == {t \in Threads : pc[t] \in {"get", "late"}}

LEMMA ThreadsFinite ==
  ASSUME NEW T \in SUBSET Threads
  PROVE  IsFiniteSet(T) /\ Cardinality(T) \in Nat
<1>1. IsFiniteSet(Threads)
  BY PoolAssumption, FS_Union DEF Threads
<1> QED
  BY <1>1, FS_Subset, FS_CardinalityType

LEMMA LenPool ==
  ASSUME PoolTypeOK
  PROVE  Len(pool) \in Nat /\ (pool = <<>> <=> Len(pool) = 0)
BY EmptySeq, LenProperties DEF PoolTypeOK

\* Nobody leaves the way to the pool, nobody begins to sleep, and no connection comes.
LEMMA WakeupKept ==
  ASSUME PoolTypeOK, NoLostWakeup, pool' = pool, Asleep' \subseteq Asleep,
         Awake \subseteq Awake'
  PROVE  NoLostWakeup'
<1>1. Awake \in SUBSET Threads /\ Awake' \in SUBSET Threads
  BY DEF Awake
<1>2. Cardinality(Awake) \in Nat /\ Cardinality(Awake') \in Nat /\ IsFiniteSet(Awake')
  BY <1>1, ThreadsFinite
<1>3. Cardinality(Awake) <= Cardinality(Awake')
  BY <1>2, FS_Subset
<1>4. Len(pool) \in Nat
  BY LenPool
<1> QED
  BY <1>2, <1>3, <1>4 DEF NoLostWakeup, Awake

\* No connection is in the pool.
LEMMA NoneToTake ==
  ASSUME pool' = <<>>
  PROVE  NoLostWakeup'
<1>1. Awake' \in SUBSET Threads
  BY DEF Awake
<1>2. Cardinality(Awake') \in Nat
  BY <1>1, ThreadsFinite
<1>3. Len(pool') = 0
  BY EmptySeq
<1> QED
  BY <1>2, <1>3 DEF NoLostWakeup, Awake
-----------------------------------------------------------------------------
(***************************************************************************)
(* The inductive invariant.                                                *)
(***************************************************************************)

\* The first state: every connection is in the pool once.
LEMMA PoolInvInit == PoolInit => PoolInv
<1> SUFFICES ASSUME PoolInit PROVE PoolInv
  OBVIOUS
<1> DEFINE n == Cardinality(Conns)
<1>1. n \in Nat
  BY PoolAssumption, FS_CardinalityType
<1>2. /\ pool \in [1..n -> Conns]
      /\ \A i, j \in 1..n : pool[i] = pool[j] => i = j
      /\ \A c \in Conns : \E i \in 1..n : pool[i] = c
  BY DEF PoolInit
<1>3. pool \in Seq(Conns) /\ Len(pool) = n
  <2> HIDE DEF n
  <2> QED
    BY <1>1, <1>2
<1> HIDE DEF n
<1>4. /\ \A t \in Threads : pc[t] = "idle" /\ held[t] = <<>> /\ nested[t] = FALSE
      /\ lost = {} /\ alive = Conns /\ dbUp = TRUE /\ stage = "serving"
  BY DEF PoolInit
<1>5. PoolTypeOK
  <2>1. <<>> \in Seq(Conns) /\ Len(<<>>) = 0
    BY EmptySeq
  <2> QED
    BY <1>3, <1>4, <2>1, PoolAssumption DEF PoolInit, PoolTypeOK
<1>6. ConnExclusive
  <2>1. \A t \in Threads : HeldBy(t) = {}
    BY <1>4, EmptySeq DEF HeldBy
  <2>2. \A t \in Threads : \A i \in 1..Len(held[t]) : FALSE
    BY <1>4, EmptySeq
  <2> QED
    BY <1>2, <1>3, <1>4, <2>1, <2>2 DEF ConnExclusive
<1>7. CapacityKept
  <2>1. \A c \in Conns : c \in Elems(pool)
    BY <1>2, <1>3 DEF Elems
  <2> QED
    BY <1>4, <1>5, <2>1, CapacityKeptSets DEF CapacitySets
<1>8. NoLostWakeup /\ NothingLeftOpen /\ HoldersNest /\ Aftermath
  BY <1>4 DEF NoLostWakeup, Asleep, NothingLeftOpen, HoldersNest, Aftermath
<1> QED
  BY <1>5, <1>6, <1>7, <1>8 DEF PoolInv

\* While a thread is in a call, main has not closed the pool.
LEMMA WorkingIsOpen ==
  ASSUME PoolInv, NEW t \in Threads, pc[t] # "idle"
  PROVE  stage # "closed"
BY DEF PoolInv, Aftermath

\* No connection changes hands.
LEMMA HandsSame ==
  ASSUME ConnExclusive, CapacityKept, pool' = pool, held' = held, lost' = lost,
         stage' = stage \/ stage # "closed", outages' = outages
  PROVE  ConnExclusive' /\ CapacityKept'
<1>1. Pooled' = Pooled /\ \A t \in Threads : HeldBy(t)' = HeldBy(t)
  BY DEF Pooled, HeldBy
<1>2. ConnExclusive'
  BY <1>1 DEF ConnExclusive
<1>3. CapacityKept'
  BY <1>1 DEF CapacityKept
<1> QED
  BY <1>2, <1>3

Places == {"idle", "busy", "get", "asleep", "late", "use", "release"}

\* A thread goes on without touching a connection.
LEMMA MoveInv ==
  ASSUME PoolInv, NEW t \in Threads, stage # "closed",
         UNCHANGED <<pool, held, alive, dbUp, stage, lost, outages>>,
         NEW p, pc' = [pc EXCEPT ![t] = p],
         PoolTypeOK', HoldersNest',
         p = "asleep" => pool = <<>>,
         pc[t] \in {"get", "late"} => p \in {"get", "late"} \/ pool = <<>>
  PROVE  PoolInv'
<1> USE DEF PoolInv
<1>1. ConnExclusive' /\ CapacityKept'
  BY HandsSame
<1>2. NoLostWakeup'
  <2>1. CASE pool = <<>>
    BY <2>1, NoneToTake
  <2>2. CASE pool # <<>>
    <3>1. Asleep' \subseteq Asleep /\ Awake \subseteq Awake'
      BY <2>2 DEF Asleep, Awake, PoolTypeOK
    <3> QED
      BY <3>1, WakeupKept
  <2> QED
    BY <2>1, <2>2
<1>3. NothingLeftOpen' /\ Aftermath'
  BY DEF NothingLeftOpen, Aftermath
<1> QED
  BY <1>1, <1>2, <1>3

\* The steps of a caller that touch no connection.
LEMMA CallerStepInv ==
  ASSUME PoolInv, NEW t \in Threads,
         \/ Begin(t) \/ Call(t) \/ Done(t)
         \/ Sleep(t) \/ Timeout(t) \/ GiveUp(t) \/ SpuriousWakeup(t)
         \/ Used(t) \/ GetTestcases(t)
  PROVE  PoolInv'
<1> USE DEF PoolInv
<1>0. pc[t] # "idle" => stage # "closed"
  BY WorkingIsOpen
<1>1. CASE Call(t)
  <2>1. /\ pc[t] = "busy" /\ stage # "closed" /\ pc' = [pc EXCEPT ![t] = "get"]
        /\ UNCHANGED <<pool, held, alive, dbUp, stage, lost, outages>>
    BY <1>0, <1>1 DEF Call, boundVars
  <2>2. PICK b \in IF t \in Nesting THEN BOOLEAN ELSE {FALSE} :
               nested' = [nested EXCEPT ![t] = b]
    BY <1>1 DEF Call
  <2>3. /\ nested' \in [Threads -> BOOLEAN] /\ (nested'[t] => t \in Nesting)
        /\ \A u \in Threads : u # t => nested'[u] = nested[u]
        /\ UNCHANGED <<outages, expired>>
        /\ held[t] = <<>>
    BY <1>1, <2>2, EmptySeq DEF Call, PoolTypeOK, boundVars
  <2>4. PoolTypeOK'
    BY <2>1, <2>3, EmptySeq, PoolAssumption DEF PoolTypeOK
  <2>5. HoldersNest'
    BY <2>1, <2>3 DEF HoldersNest, PoolTypeOK
  <2> QED
    BY <2>1, <2>4, <2>5, MoveInv
<1>2. CASE Sleep(t)
  <2>1. /\ pc[t] = "get" /\ pool = <<>> /\ stage # "closed" /\ pc' = [pc EXCEPT ![t] = "asleep"]
        /\ UNCHANGED <<pool, held, alive, dbUp, stage, lost, outages>>
    BY <1>0, <1>2 DEF Sleep, boundVars
  <2>2. PoolTypeOK'
    BY <1>2, PoolAssumption DEF Sleep, PoolTypeOK, boundVars
  <2>3. HoldersNest'
    BY <1>2 DEF Sleep, HoldersNest, PoolTypeOK, boundVars
  <2> QED
    BY <2>1, <2>2, <2>3, MoveInv
<1>3. CASE Timeout(t)
  <2>1. /\ pc[t] = "asleep" /\ stage # "closed" /\ pc' = [pc EXCEPT ![t] = "late"]
        /\ UNCHANGED <<pool, held, alive, dbUp, stage, lost, outages>>
    BY <1>0, <1>3 DEF Timeout, boundVars
  <2>2. PoolTypeOK'
    BY <1>3, PoolAssumption DEF Timeout, PoolTypeOK, boundVars
  <2>3. HoldersNest'
    BY <1>3 DEF Timeout, HoldersNest, PoolTypeOK, boundVars
  <2> QED
    BY <2>1, <2>2, <2>3, MoveInv
<1>4. CASE GiveUp(t)
  <2>1. /\ pc[t] = "late" /\ pool = <<>> /\ stage # "closed"
        /\ pc' = [pc EXCEPT ![t] = IF held[t] = <<>> THEN "busy" ELSE "release"]
        /\ UNCHANGED <<pool, held, alive, dbUp, stage, lost, outages>>
    BY <1>0, <1>4 DEF GiveUp, boundVars, GrantNull
  <2>2. PoolTypeOK'
    BY <1>4, EmptySeq DEF GiveUp, PoolTypeOK, boundVars, GrantNull
  <2>3. HoldersNest'
    BY <1>4 DEF GiveUp, HoldersNest, PoolTypeOK, boundVars, GrantNull
  <2> QED
    BY <2>1, <2>2, <2>3, MoveInv
<1>5. CASE SpuriousWakeup(t)
  <2>1. /\ pc[t] = "asleep" /\ stage # "closed" /\ pc' = [pc EXCEPT ![t] = "get"]
        /\ UNCHANGED <<pool, held, alive, dbUp, stage, lost, outages>>
    BY <1>0, <1>5 DEF SpuriousWakeup, boundVars
  <2>2. PoolTypeOK'
    BY <1>5, PoolAssumption DEF SpuriousWakeup, PoolTypeOK, boundVars
  <2>3. HoldersNest'
    BY <1>5 DEF SpuriousWakeup, HoldersNest, PoolTypeOK, boundVars
  <2> QED
    BY <2>1, <2>2, <2>3, MoveInv
<1>6. CASE Used(t)
  <2>1. /\ pc[t] = "use" /\ stage # "closed" /\ pc' = [pc EXCEPT ![t] = "release"]
        /\ UNCHANGED <<pool, held, alive, dbUp, stage, lost, outages>>
    BY <1>0, <1>6 DEF Used, boundVars
  <2>2. PoolTypeOK'
    BY <1>6, PoolAssumption DEF Used, PoolTypeOK, boundVars
  <2>3. HoldersNest'
    BY <1>6 DEF Used, HoldersNest, PoolTypeOK, boundVars
  <2> QED
    BY <2>1, <2>2, <2>3, MoveInv
<1>7. CASE GetTestcases(t)
  <2>1. /\ pc[t] = "use" /\ stage # "closed" /\ pc' = [pc EXCEPT ![t] = "get"]
        /\ UNCHANGED <<pool, held, alive, dbUp, stage, lost, outages>>
    BY <1>0, <1>7 DEF GetTestcases, boundVars
  <2>2. PoolTypeOK'
    BY <1>7 DEF GetTestcases, PoolTypeOK, HoldersNest, boundVars
  <2>3. HoldersNest'
    BY <1>7 DEF GetTestcases, HoldersNest, PoolTypeOK, boundVars
  <2> QED
    BY <2>1, <2>2, <2>3, MoveInv
<1>8. CASE Begin(t) \/ Done(t)
  <2>1. PICK p \in {"idle", "busy"} : pc' = [pc EXCEPT ![t] = p]
    BY <1>8 DEF Begin, Done
  <2>2. /\ pc[t] \in {"idle", "busy"} /\ stage # "closed"
        /\ UNCHANGED <<pool, nested, held, alive, dbUp, stage, lost, outages, expired>>
    BY <1>0, <1>8 DEF Begin, Done, boundVars
  <2>3. PoolTypeOK'
    BY <2>1, <2>2 DEF PoolTypeOK
  <2>4. HoldersNest'
    BY <2>1, <2>2 DEF HoldersNest, PoolTypeOK
  <2> QED
    BY <2>1, <2>2, <2>3, <2>4, MoveInv
<1> QED
  BY <1>1, <1>2, <1>3, <1>4, <1>5, <1>6, <1>7, <1>8

\* A thread takes the last connection of the pool, or loses it.
LEMMA AcquireInv ==
  ASSUME PoolInv, NEW t \in Threads, Acquire(t)
  PROVE  PoolInv'
<1> USE DEF PoolInv
<1> DEFINE c == Back(pool)
<1>1. /\ pc[t] \in {"get", "late"} /\ pool # <<>> /\ pool' = PopBack(pool)
      /\ UNCHANGED <<dbUp, stage, outages, expired>>
      /\ stage # "closed"
  BY WorkingIsOpen DEF Acquire, boundVars
<1>2. /\ c \in Conns /\ c \in Elems(pool) /\ pool' \in Seq(Conns) /\ Len(pool') = Len(pool) - 1
      /\ Len(pool) \in Nat \ {0}
      /\ Elems(pool) = Elems(pool') \cup {c} /\ c \notin Elems(pool') /\ Distinct(pool')
  BY <1>1, PopBackProperties, ConnExclusiveSets DEF ExclusiveSets, PoolTypeOK
<1>3. c \notin lost /\ \A u \in Threads : c \notin Elems(held[u])
  BY <1>2, ConnExclusiveSets DEF ExclusiveSets
<1>4. /\ Len(held[t]) \in 0..1 /\ held[t] \in Seq(Conns)
      /\ held[t] = <<>> <=> Len(held[t]) = 0
  BY <1>1, EmptySeq DEF PoolTypeOK
<1>5. \/ Grant(t, c) /\ lost' = lost /\ alive' \in {alive, alive \cup {c}}
      \/ GrantNull(t) /\ lost' = lost \cup {c} /\ alive' = alive /\ ~dbUp /\ c \notin alive
  BY DEF Acquire, PingOrReconnect
<1> HIDE DEF c
<1>6. ASSUME NEW p \in {"busy", "use", "release"}, pc' = [pc EXCEPT ![t] = p]
      PROVE  NoLostWakeup'
  <2>1. Asleep' = Asleep /\ Awake' = Awake \ {t} /\ t \in Awake
    BY <1>1, <1>6 DEF Asleep, Awake, PoolTypeOK
  <2>2. Awake \in SUBSET Threads
    BY DEF Awake
  <2>3. /\ Cardinality(Awake) \in Nat /\ Cardinality(Awake') = Cardinality(Awake) - 1
    BY <2>1, <2>2, ThreadsFinite, FS_RemoveElement
  <2> QED
    BY <1>2, <2>1, <2>3 DEF NoLostWakeup, Awake
<1>7. CASE Grant(t, c) /\ lost' = lost /\ alive' \in {alive, alive \cup {c}}
  <2>1. /\ held' = [held EXCEPT ![t] = Append(held[t], c)]
        /\ pc' = [pc EXCEPT ![t] = "use"] /\ nested' = nested
    BY <1>7 DEF Grant
  <2>2. /\ Append(held[t], c) \in Seq(Conns) /\ Len(Append(held[t], c)) = Len(held[t]) + 1
        /\ Elems(Append(held[t], c)) = Elems(held[t]) \cup {c}
        /\ Distinct(Append(held[t], c))
    BY <1>2, <1>3, <1>4, PushBackProperties, ConnExclusiveSets DEF ExclusiveSets
  <2>3. held'[t] = Append(held[t], c) /\ \A u \in Threads : u # t => held'[u] = held[u]
    BY <2>1 DEF PoolTypeOK
  <2>4. PoolTypeOK'
    <3>1. /\ held' \in [Threads -> Seq(Conns)] /\ Len(held'[t]) \in 1..2
          /\ pc' \in [Threads -> Places] /\ pc'[t] = "use"
          /\ \A u \in Threads : u # t => pc'[u] = pc[u]
      <4> DEFINE a == Append(held[t], c)
      <4>1. a \in Seq(Conns) /\ Len(a) = Len(held[t]) + 1 /\ held' = [held EXCEPT ![t] = a]
        BY <2>1, <2>2
      <4> HIDE DEF a
      <4>2. held' \in [Threads -> Seq(Conns)] /\ held'[t] = a
        BY <4>1 DEF PoolTypeOK
      <4>3. Len(held'[t]) \in 1..2
        <5>1. Len(held[t]) \in 0..1
          BY <1>1 DEF PoolTypeOK
        <5>2. Len(a) = Len(held[t]) + 1
          BY <4>1
        <5>3. Len(a) \in 1..2
          BY <5>1, <5>2, OneMore
        <5> QED
          BY <4>2, <5>3
      <4>4. /\ pc' \in [Threads -> Places] /\ pc'[t] = "use"
            /\ \A u \in Threads : u # t => pc'[u] = pc[u]
        BY <2>1 DEF PoolTypeOK, Places
      <4> QED
        BY <4>2, <4>3, <4>4
    <3>2. alive' \subseteq Conns /\ lost' \subseteq Conns
      BY <1>2, <1>7 DEF PoolTypeOK
    <3> QED
      BY <1>1, <1>2, <2>1, <2>3, <3>1, <3>2 DEF PoolTypeOK, Places
  <2>5. ConnExclusive'
    <3>1. /\ Distinct(held'[t]) /\ Elems(held'[t]) = Elems(held[t]) \cup {c}
          /\ \A u \in Threads : u # t =>
               Distinct(held'[u]) /\ Elems(held'[u]) = Elems(held[u])
      BY <2>2, <2>3, ConnExclusiveSets DEF ExclusiveSets
    <3>2. ExclusiveSets(pool, held, lost)
      BY ConnExclusiveSets
    <3>3. \A u \in Threads : /\ Distinct(held'[u])
                             /\ Elems(held'[u]) \cap (Elems(pool') \cup lost') = {}
      BY <1>2, <1>3, <1>7, <3>1, <3>2 DEF ExclusiveSets
    <3>4. \A u, v \in Threads : Elems(held'[u]) \cap Elems(held'[v]) # {} => u = v
      BY <1>3, <3>1, <3>2 DEF ExclusiveSets
    <3>5. Distinct(pool') /\ Elems(pool') \cap lost' = {}
      BY <1>2, <1>7, <3>2 DEF ExclusiveSets
    <3> QED
      BY <3>3, <3>4, <3>5, ConnExclusiveSets DEF ExclusiveSets
  <2>6. CapacityKept'
    BY <1>1, <1>2, <1>7, <2>2, <2>3, <2>4, CapacityKeptSets DEF CapacitySets
  <2>7. HoldersNest'
    BY <1>1, <1>4, <2>1, <2>2, <2>3 DEF HoldersNest, PoolTypeOK
  <2>8. NothingLeftOpen' /\ Aftermath'
    BY <1>1, <1>3, <1>7 DEF NothingLeftOpen, Aftermath
  <2>9. NoLostWakeup'
    BY <1>6, <2>1
  <2> QED
    BY <2>4, <2>5, <2>6, <2>7, <2>8, <2>9
<1>8. CASE GrantNull(t) /\ lost' = lost \cup {c} /\ alive' = alive /\ ~dbUp /\ c \notin alive
  <2> DEFINE p == IF held[t] = <<>> THEN "busy" ELSE "release"
  <2>1. /\ held' = held /\ nested' = [nested EXCEPT ![t] = FALSE]
        /\ pc' = [pc EXCEPT ![t] = p] /\ p \in {"busy", "use", "release"}
    BY <1>8 DEF GrantNull
  <2>2. PoolTypeOK'
    BY <1>1, <1>2, <1>4, <1>8, <2>1 DEF PoolTypeOK
  <2>3. ConnExclusive'
    BY <1>2, <1>3, <1>8, <2>1, ConnExclusiveSets DEF ExclusiveSets
  <2>4. CapacityKept'
    <3>1. outages' > 0
      BY <1>1, <1>8 DEF Aftermath
    <3> QED
      BY <1>1, <1>2, <1>8, <2>1, <2>2, <3>1, CapacityKeptSets DEF CapacitySets
  <2>5. HoldersNest'
    BY <2>1 DEF HoldersNest, PoolTypeOK
  <2>6. NothingLeftOpen' /\ Aftermath'
    BY <1>1, <1>8 DEF NothingLeftOpen, Aftermath
  <2>7. NoLostWakeup'
    BY <1>6, <2>1
  <2> QED
    BY <2>2, <2>3, <2>4, <2>5, <2>6, <2>7
<1> QED
  BY <1>5, <1>7, <1>8

\* A thread gives its last connection back, and wakes a thread.
LEMMA ReleaseInv ==
  ASSUME PoolInv, NEW t \in Threads, Release(t)
  PROVE  PoolInv'
<1> USE DEF PoolInv
<1> DEFINE c == Back(held[t])
           rest == PopBack(held[t])
           next == IF Len(held[t]) = 1 THEN "busy" ELSE "release"
<1>1. /\ pc[t] = "release" /\ stage # "closed"
      /\ pool' = Append(pool, c) /\ held' = [held EXCEPT ![t] = rest]
      /\ WakeOne(t, next)
      /\ nested' = [nested EXCEPT ![t] = FALSE]
      /\ UNCHANGED <<alive, dbUp, stage, lost, outages, expired>>
  BY WorkingIsOpen DEF Release, DropLast, boundVars
<1>2. held[t] \in Seq(Conns) /\ Len(held[t]) \in 1..2 /\ held[t] # <<>> /\ pool \in Seq(Conns)
  <2>1. held[t] \in Seq(Conns) /\ Len(held[t]) \in 1..2 /\ pool \in Seq(Conns)
    BY <1>1 DEF PoolTypeOK
  <2>2. held[t] # <<>>
    <3>1. Len(held[t]) \in 1..2
      BY <1>1 DEF PoolTypeOK
    <3>2. Len(held[t]) # 0
      BY <3>1
    <3> QED
      BY <2>1, <3>2, LenZero
  <2> QED
    BY <2>1, <2>2
<1>3. ExclusiveSets(pool, held, lost)
  BY ConnExclusiveSets
<1>4. /\ c \in Conns /\ c \in Elems(held[t])
      /\ rest \in Seq(Conns) /\ Len(rest) = Len(held[t]) - 1
      /\ Elems(held[t]) = Elems(rest) \cup {c} /\ c \notin Elems(rest) /\ Distinct(rest)
  BY <1>2, <1>3, PopBackProperties DEF ExclusiveSets
<1>5. /\ c \notin Elems(pool) /\ c \notin lost
      /\ \A u \in Threads : u # t => c \notin Elems(held[u])
  BY <1>3, <1>4 DEF ExclusiveSets
<1> HIDE DEF c, rest
<1>6. /\ pool' \in Seq(Conns) /\ Len(pool') = Len(pool) + 1 /\ Len(pool) \in Nat
      /\ Elems(pool') = Elems(pool) \cup {c} /\ Distinct(pool')
  BY <1>1, <1>2, <1>3, <1>4, <1>5, PushBackProperties DEF ExclusiveSets
<1>7. held'[t] = rest /\ \A u \in Threads : u # t => held'[u] = held[u]
  BY <1>1 DEF PoolTypeOK
<1>8. next \in {"busy", "release"} /\ (next = "busy" <=> Len(rest) = 0) /\ Len(rest) \in 0..1
  BY <1>2, <1>4
<1> HIDE DEF next
\* The threads other than this one and the woken one are where they were.
<1>9. /\ pc' \in [Threads -> Places] /\ pc'[t] = next
      /\ \A u \in Threads : u # t => \/ pc'[u] = pc[u]
                                     \/ pc[u] = "asleep" /\ pc'[u] = "get"
  BY <1>1, <1>8 DEF WakeOne, Asleep, PoolTypeOK, Places
<1>10. PoolTypeOK'
  <2>1. held' \in [Threads -> Seq(Conns)] /\ nested' \in [Threads -> BOOLEAN]
    BY <1>1, <1>4 DEF PoolTypeOK
  <2>2. \A u \in Threads :
          /\ pc'[u] \in {"use", "release"} => Len(held'[u]) \in 1..2
          /\ pc'[u] \notin {"use", "release"} => Len(held'[u]) \in 0..1
          /\ pc'[u] \in {"idle", "busy"} => Len(held'[u]) = 0
    <3> TAKE u \in Threads
    <3>1. CASE u = t
      <4>1. Len(rest) \in 0..1 /\ (Len(rest) = 0 => Len(rest) \notin 1..2)
        BY <1>8
      <4>2. next # "busy" => Len(rest) = 1
        BY <1>8
      <4> QED
        BY <1>7, <1>8, <1>9, <3>1, <4>1, <4>2
    <3>2. CASE u # t
      BY <1>7, <1>9, <3>2 DEF PoolTypeOK
    <3> QED
      BY <3>1, <3>2
  <2> QED
    BY <1>1, <1>6, <1>9, <2>1, <2>2 DEF PoolTypeOK, Places
<1>11. ConnExclusive'
  <2>1. \A u \in Threads : /\ Distinct(held'[u])
                           /\ Elems(held'[u]) \subseteq Elems(held[u]) /\ c \notin Elems(held'[u])
    BY <1>3, <1>4, <1>5, <1>7 DEF ExclusiveSets
  <2>2. \A u, v \in Threads : Elems(held'[u]) \cap Elems(held'[v]) # {} => u = v
    BY <1>3, <2>1 DEF ExclusiveSets
  <2>3. \A u \in Threads : Elems(held'[u]) \cap (Elems(pool') \cup lost') = {}
    BY <1>1, <1>3, <1>6, <2>1 DEF ExclusiveSets
  <2>4. Elems(pool') \cap lost' = {}
    BY <1>1, <1>3, <1>5, <1>6 DEF ExclusiveSets
  <2> QED
    BY <1>6, <2>1, <2>2, <2>3, <2>4, ConnExclusiveSets DEF ExclusiveSets
<1>12. CapacityKept'
  <2>1. \A u \in Threads : Elems(held[u]) \subseteq Elems(held'[u]) \cup {c}
    BY <1>4, <1>7
  <2> QED
    BY <1>1, <1>6, <1>10, <2>1, CapacityKeptSets DEF CapacitySets
<1>13. NoLostWakeup'
  <2>1. CASE Asleep = {}
    <3>1. Asleep' = {}
      BY <1>8, <1>9, <2>1 DEF Asleep
    <3> QED
      BY <3>1 DEF NoLostWakeup
  <2>2. CASE Asleep # {}
    <3>1. PICK u \in Asleep : pc' = [pc EXCEPT ![t] = next, ![u] = "get"]
      BY <1>1, <2>2 DEF WakeOne
    <3>2. u \in Threads /\ u # t /\ pc[u] = "asleep"
      BY <1>1 DEF Asleep
    <3>3. Awake' = Awake \cup {u} /\ u \notin Awake
      BY <1>1, <1>8, <3>1, <3>2 DEF Awake, PoolTypeOK
    <3>4. Awake \in SUBSET Threads
      BY DEF Awake
    <3>5. Cardinality(Awake) \in Nat /\ Cardinality(Awake') = Cardinality(Awake) + 1
      BY <3>3, <3>4, ThreadsFinite, FS_AddElement
    <3> QED
      BY <1>6, <2>2, <3>5 DEF NoLostWakeup, Awake
  <2> QED
    BY <2>1, <2>2
<1>14. HoldersNest'
  <2>1. nested'[t] = FALSE /\ \A u \in Threads : u # t => nested'[u] = nested[u]
    BY <1>1 DEF PoolTypeOK
  <2> QED
    BY <1>7, <1>8, <1>9, <2>1 DEF HoldersNest
<1>15. NothingLeftOpen' /\ Aftermath'
  BY <1>1 DEF NothingLeftOpen, Aftermath
<1> QED
  BY <1>10, <1>11, <1>12, <1>13, <1>14, <1>15

\* The database and the signal touch no connection's place.
LEMMA ServerInv ==
  ASSUME PoolInv, DbFails \/ DbRecovers \/ Signal \/ \E c \in Conns : Expire(c)
  PROVE  PoolInv'
<1> USE DEF PoolInv
<1>1. /\ UNCHANGED <<pool, pc, nested, held, lost>>
      /\ stage' = stage \/ stage = "serving"
      /\ outages' = outages \/ (outages < MaxOutages /\ outages' = outages + 1)
      /\ alive' \subseteq alive
      /\ ~dbUp' => outages' > 0
  <2>1. outages \in Nat /\ outages' \in Nat
    BY PoolAssumption DEF PoolTypeOK, DbFails, DbRecovers, Signal, Expire, boundVars
  <2> QED
    BY <2>1 DEF DbFails, DbRecovers, Signal, Expire, boundVars, Aftermath
<1>2. PoolTypeOK'
  <2>1. CASE DbFails
    <3>1. outages \in Nat
      BY DEF PoolTypeOK
    <3>2. outages < MaxOutages /\ outages' = outages + 1
      BY <2>1 DEF DbFails
    <3>3. outages' \in 0..MaxOutages
      BY <3>1, <3>2, PoolAssumption
    <3> QED
      BY <2>1, <3>3 DEF DbFails, PoolTypeOK
  <2>2. CASE DbRecovers \/ Signal
    BY <2>2 DEF DbRecovers, Signal, PoolTypeOK, boundVars
  <2>3. CASE \E c \in Conns : Expire(c)
    BY <2>3, PoolAssumption DEF Expire, PoolTypeOK
  <2> QED
    BY <2>1, <2>2, <2>3
<1>3. ConnExclusive'
  BY <1>1, ConnExclusiveSets DEF ExclusiveSets
<1>4. CapacityKept'
  <2>1. outages > 0 => outages' > 0
    BY <1>1, PoolAssumption DEF PoolTypeOK
  <2> QED
    BY <1>1, <1>2, <2>1, CapacityKeptSets DEF CapacitySets
<1>5. NoLostWakeup'
  <2>1. Asleep' = Asleep /\ Awake' = Awake
    BY <1>1 DEF Asleep, Awake
  <2> QED
    BY <1>1, <2>1, WakeupKept
<1>6. NothingLeftOpen' /\ HoldersNest' /\ Aftermath'
  <2>1. stage' = "closed" => stage = "closed"
    BY DEF DbFails, DbRecovers, Signal, Expire
  <2> QED
    BY <1>1, <2>1 DEF NothingLeftOpen, HoldersNest, Aftermath
<1> QED
  BY <1>2, <1>3, <1>4, <1>5, <1>6

\* At the end every connection is in the pool or lost, so that none stays open.
LEMMA CloseAllInv ==
  ASSUME PoolInv, CloseAll
  PROVE  PoolInv'
<1> USE DEF PoolInv
<1>1. /\ \A t \in Threads : pc[t] = "idle"
      /\ stage = "stopping" /\ stage' = "closed" /\ pool' = <<>> /\ alive' = alive \ Pooled
      /\ UNCHANGED <<pc, nested, held, dbUp, lost, outages, expired>>
  BY DEF CloseAll, boundVars
<1>2. \A t \in Threads : held[t] = <<>> /\ Elems(held[t]) = {}
  <2> TAKE t \in Threads
  <2>1. Len(held[t]) = 0
    BY <1>1 DEF PoolTypeOK
  <2>2. held[t] \in Seq(Conns)
    BY DEF PoolTypeOK
  <2> QED
    BY <2>1, <2>2, LenZero, ElemsEmpty
<1>3. alive' = {}
  <2>1. \A c \in Conns : c \in Elems(pool) \/ c \in lost
    BY <1>1, <1>2, CapacityKeptSets DEF CapacitySets
  <2>2. Pooled = Elems(pool)
    BY DEF Pooled, Elems
  <2> QED
    BY <1>1, <2>1, <2>2 DEF PoolTypeOK, Aftermath
<1>4. PoolTypeOK'
  BY <1>1, <1>3, EmptySeq DEF PoolTypeOK
<1>5. ConnExclusive'
  <2>1. Elems(pool') = {} /\ Distinct(pool')
    BY <1>1, EmptySeq DEF Elems, Distinct
  <2> QED
    BY <1>1, <2>1, ConnExclusiveSets DEF ExclusiveSets
<1>6. CapacityKept'
  BY <1>1, <1>4, CapacityKeptSets
<1>7. NoLostWakeup'
  BY <1>1, NoneToTake
<1>8. NothingLeftOpen' /\ HoldersNest' /\ Aftermath'
  BY <1>1, <1>2, <1>3 DEF NothingLeftOpen, HoldersNest, Aftermath
<1> QED
  BY <1>4, <1>5, <1>6, <1>7, <1>8

\* Every step keeps the invariant.
LEMMA PoolInvStep ==
  ASSUME PoolInv, [PoolNext]_poolVars
  PROVE  PoolInv'
<1>1. CASE UNCHANGED poolVars
  <2>1. UNCHANGED <<pool, pc, nested, held, alive, dbUp, stage, lost, outages, expired>>
    BY <1>1 DEF poolVars, boundVars
  <2>2. PoolTypeOK'
    BY <2>1 DEF PoolInv, PoolTypeOK
  <2>3. ConnExclusive' /\ CapacityKept'
    BY <2>1, HandsSame DEF PoolInv
  <2>4. NoLostWakeup'
    BY <2>1 DEF PoolInv, NoLostWakeup, Asleep
  <2> QED
    BY <2>1, <2>2, <2>3, <2>4 DEF PoolInv, NothingLeftOpen, HoldersNest, Aftermath
<1>2. ASSUME NEW t \in Threads, Begin(t) \/ Call(t) \/ ThreadStep(t) \/ SpuriousWakeup(t)
      PROVE  PoolInv'
  BY <1>2, AcquireInv, ReleaseInv, CallerStepInv DEF ThreadStep
<1> QED
  BY <1>1, <1>2, ServerInv, CloseAllInv DEF PoolNext

\* Every reachable state satisfies the inductive invariant.
THEOREM PoolInvariant == PoolSpec => []PoolInv
<1>1. PoolInv /\ [PoolNext]_poolVars => PoolInv'
  BY PoolInvStep
<1> QED
  BY <1>1, PoolInvInit, PTL DEF PoolSpec
-----------------------------------------------------------------------------
(***************************************************************************)
(* The properties.                                                         *)
(***************************************************************************)

\* Types: in particular no thread holds more than two connections.
THEOREM PoolTypeCorrect == PoolSpec => []PoolTypeOK
<1>1. PoolInv => PoolTypeOK
  BY DEF PoolInv
<1> QED
  BY <1>1, PoolInvariant, PTL

\* A connection is in one place: the pool, the hands of one thread, or lost.
THEOREM ConnectionsExclusive == PoolSpec => []ConnExclusive
<1>1. PoolInv => ConnExclusive
  BY DEF PoolInv
<1> QED
  BY <1>1, PoolInvariant, PTL

\* A slot disappears only by a failed reconnection, which takes an outage.
THEOREM CapacityIsKept == PoolSpec => []CapacityKept
<1>1. PoolInv => CapacityKept
  BY DEF PoolInv
<1> QED
  BY <1>1, PoolInvariant, PTL

\* Each pooled connection has a thread on its way while threads sleep.
THEOREM WakeupsNotLost == PoolSpec => []NoLostWakeup
<1>1. PoolInv => NoLostWakeup
  BY DEF PoolInv
<1> QED
  BY <1>1, PoolInvariant, PTL

\* Nothing is open after close_all.
THEOREM NothingIsLeftOpen == PoolSpec => []NothingLeftOpen
<1>1. PoolInv => NothingLeftOpen
  BY DEF PoolInv
<1> QED
  BY <1>1, PoolInvariant, PTL

\* When nobody uses or releases a connection and none is in the pool, each connection
\* is the first of a thread that runs get_problem_detail: there are as many of these.
LEMMA HoldersCount ==
  ASSUME PoolInv, lost = {}, stage # "closed", Len(pool) = 0,
         \A t \in Threads : pc[t] \notin {"use", "release"}
  PROVE  Cardinality(Conns) <= Cardinality(Nesting)
<1> USE DEF PoolInv
<1> DEFINE H == {t \in Nesting : held[t] # <<>>}
           first == [t \in H |-> held[t][1]]
<1>1. Nesting \in SUBSET Threads /\ H \in SUBSET Nesting
  BY PoolAssumption DEF Threads
<1>2. \A t \in Threads : held[t] \in Seq(Conns)
  BY DEF PoolTypeOK
<1>3. \A t \in Threads : Len(held[t]) \in 0..1
  BY DEF PoolTypeOK
<1>4. \A t \in Threads : held[t] # <<>> => t \in H
  <2> SUFFICES ASSUME NEW t \in Threads, held[t] # <<>>
               PROVE  t \in Nesting
    BY <1>1
  <2>1. Len(held[t]) # 0
    BY <1>2, LenZero
  <2>2. pc[t] \notin {"idle", "busy"}
    BY <2>1 DEF PoolTypeOK
  <2>3. pc[t] \in {"get", "asleep", "late"}
    BY <2>2 DEF PoolTypeOK
  <2> QED
    BY <2>3 DEF HoldersNest
<1>5. \A t \in H : Len(held[t]) = 1
  <2> TAKE t \in H
  <2>1. t \in Threads /\ held[t] # <<>>
    BY <1>1
  <2>2. Len(held[t]) # 0
    BY <1>2, <2>1, LenZero
  <2> QED
    BY <1>3, <2>1, <2>2
<1>6. first \in [H -> Conns]
  <2> SUFFICES ASSUME NEW t \in H PROVE held[t][1] \in Conns
    OBVIOUS
  <2>1. 1 \in 1..Len(held[t])
    BY <1>5
  <2> QED
    BY <1>1, <1>2, <2>1, ElementOfSeq
<1>7. \A c \in Conns : \E t \in H : first[t] = c
  <2> TAKE c \in Conns
  <2>1. Elems(pool) = {}
    <3>1. pool \in Seq(Conns)
      BY DEF PoolTypeOK
    <3>2. pool = <<>>
      BY <3>1, LenZero
    <3> QED
      BY <3>1, <3>2, ElemsEmpty
  <2>2. PICK t \in Threads : c \in Elems(held[t])
    BY <2>1, CapacityKeptSets DEF CapacitySets
  <2>3. PICK i \in 1..Len(held[t]) : held[t][i] = c
    BY <2>2 DEF Elems
  <2>4. held[t] # <<>>
    BY <2>2, EmptySeq DEF Elems
  <2>5. t \in H
    BY <1>4, <2>4
  <2>6. Len(held[t]) = 1
    BY <1>5, <2>5
  <2>7. i = 1
    BY <2>3, <2>6
  <2> QED
    BY <2>3, <2>5, <2>7
<1>8. IsFiniteSet(H) /\ IsFiniteSet(Nesting) /\ Cardinality(H) <= Cardinality(Nesting)
      /\ Cardinality(H) \in Nat /\ Cardinality(Nesting) \in Nat
  BY <1>1, ThreadsFinite, FS_Subset
<1>9. first \in Surjection(H, Conns)
  BY <1>6, <1>7 DEF Surjection
<1> HIDE DEF H, first
<1>10. IsFiniteSet(Conns) /\ Cardinality(Conns) <= Cardinality(H)
  BY <1>8, <1>9, FS_Surjection
<1>11. Cardinality(Conns) \in Nat
  BY <1>10, FS_CardinalityType
<1> QED
  BY <1>8, <1>10, <1>11

\* Fewer get_problem_detail than connections never hold all of them while they wait.
THEOREM HoldAndWaitNeedsAll == PoolSpec => []NoHoldAndWait
<1>1. PoolInv => NoHoldAndWait
  <2> SUFFICES ASSUME PoolInv, Cardinality(Nesting) < Cardinality(Conns), lost = {},
                      stage # "closed", ~(Len(pool) > 0),
                      \A t \in Threads : pc[t] \notin {"use", "release"}
               PROVE  FALSE
    BY DEF NoHoldAndWait, NestingFits
  <2>1. Len(pool) = 0
    BY LenPool DEF PoolInv
  <2>2. Cardinality(Conns) <= Cardinality(Nesting)
    BY <2>1, HoldersCount
  <2>3. Cardinality(Conns) \in Nat /\ Cardinality(Nesting) \in Nat
    <3>1. Nesting \in SUBSET Threads
      BY PoolAssumption DEF Threads
    <3> QED
      BY <3>1, PoolAssumption, ThreadsFinite, FS_CardinalityType
  <2> QED
    BY <2>2, <2>3
<1> QED
  BY <1>1, PoolInvariant, PTL
=============================================================================
