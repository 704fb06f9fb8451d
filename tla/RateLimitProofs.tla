-------------------------- MODULE RateLimitProofs --------------------------
(***************************************************************************)
(* Proofs about RateLimit.                                                 *)
(***************************************************************************)
EXTENDS RateLimit, TLAPS

\* Truncated whole seconds reach the window exactly when the instants do, also for a
\* request whose clock reading is older than the last submission.
LEMMA TruncationIsExact ==
  ASSUME NEW d \in Int
  PROVE  Truncated(d) < Window <=> d < WindowTicks
<1> USE RateAssumption
<1> DEFINE q == d \div Ticks
           n == (-d) \div Ticks
<1>0. WindowTicks \in Nat /\ WindowTicks > 0
  BY DEF WindowTicks
<1>1. CASE d >= 0
  <2>1. q \in Nat /\ Ticks * q <= d /\ d < Ticks * (q + 1)
    BY <1>1
  <2>2. CASE q < Window
    <3>1. Ticks * (q + 1) <= Ticks * Window
      BY <2>1, <2>2
    <3> QED
      BY <1>1, <2>1, <2>2, <3>1 DEF Truncated, WindowTicks
  <2>3. CASE q >= Window
    <3>1. Ticks * q >= Ticks * Window
      BY <2>1, <2>3
    <3> QED
      BY <1>1, <2>1, <2>3, <3>1 DEF Truncated, WindowTicks
  <2> QED
    BY <2>1, <2>2, <2>3
<1>2. CASE d < 0
  <2>1. n \in Nat
    BY <1>2
  <2> QED
    BY <1>0, <1>2, <2>1 DEF Truncated
<1> QED
  BY <1>1, <1>2

\* What the test on the table tells of the last submission.
LEMMA TooEarlyMeans ==
  ASSUME RateTypeOK, NEW u \in Users, NEW t \in 0..MaxTime
  PROVE  TooEarly(u, t) <=> lastSubmit[u] # -1 /\ t - lastSubmit[u] < WindowTicks
<1>1. lastSubmit[u] \in Int /\ t \in Int
  BY RateAssumption DEF RateTypeOK
<1>2. Truncated(t - lastSubmit[u]) < Window <=> t - lastSubmit[u] < WindowTicks
  BY <1>1, TruncationIsExact
<1> QED
  BY <1>2 DEF TooEarly, Elapsed

LEMMA RateInvInit == RateInit => RateInv
BY RateAssumption DEF RateInit, RateInv, RateTypeOK, LastGranted, Spaced, RefusedForCause

\* A check keeps the invariant: the new time comes after every earlier one.
LEMMA CheckInv ==
  ASSUME RateInv, NEW h \in Handlers, Check(h)
  PROVE  RateInv'
<1> DEFINE u == user[h]
           t == at[h]
           g == granted[u]
<1>1. u \in Users /\ t \in 0..MaxTime /\ pc[h] = "lock"
  BY DEF RateInv, RateTypeOK, Check
<1>2. /\ g \in Seq(0..MaxTime)
      /\ lastSubmit \in [Users -> {-1} \cup 0..MaxTime]
      /\ granted \in [Users -> Seq(0..MaxTime)]
      /\ answer \in [Handlers -> {"none", "granted", "refused"}]
      /\ MaxTime \in Nat /\ WindowTicks \in Nat
  BY <1>1, RateAssumption DEF RateInv, RateTypeOK, WindowTicks
<1>3. pc' = [pc EXCEPT ![h] = "idle"] /\ UNCHANGED <<clock, user, at, boots>>
  BY DEF Check
<1>4. CASE TooEarly(u, t)
  <2>1. UNCHANGED <<lastSubmit, granted>> /\ answer' = [answer EXCEPT ![h] = "refused"]
    BY <1>4 DEF Check, Record
  <2>2. lastSubmit[u] # -1 /\ t - lastSubmit[u] < WindowTicks
    BY <1>1, <1>4, TooEarlyMeans DEF RateInv
  <2>3. Len(g) \in 1..Len(g) /\ t - g[Len(g)] < WindowTicks
    BY <1>1, <1>2, <2>2 DEF RateInv, LastGranted
  <2>4. RefusedForCause'
    <3> SUFFICES ASSUME NEW x \in Handlers, answer'[x] = "refused"
                 PROVE  \E i \in 1..Len(granted[user[x]]) :
                          at[x] - granted[user[x]][i] < WindowTicks
      BY <1>3, <2>1 DEF RefusedForCause, WindowTicks
    <3>1. CASE x = h
      BY <2>3, <3>1
    <3>2. CASE x # h
      BY <1>2, <2>1, <3>2 DEF RateInv, RefusedForCause
    <3> QED
      BY <3>1, <3>2
  <2>5. RateTypeOK'
    BY <1>1, <1>3, <2>1 DEF RateInv, RateTypeOK
  <2> QED
    BY <2>1, <2>4, <2>5 DEF RateInv, LastGranted, Spaced, WindowTicks
<1>5. CASE ~TooEarly(u, t)
  <2>1. /\ lastSubmit' = [lastSubmit EXCEPT ![u] = t]
        /\ granted' = [granted EXCEPT ![u] = Append(g, t)]
        /\ answer' = [answer EXCEPT ![h] = "granted"]
    BY <1>5 DEF Check, Record
  <2>2. /\ granted'[u] = Append(g, t)
        /\ \A v \in Users : v # u => granted'[v] = granted[v] /\ lastSubmit'[v] = lastSubmit[v]
        /\ lastSubmit'[u] = t
    BY <1>1, <1>2, <2>1
  <2>3. /\ Len(Append(g, t)) = Len(g) + 1 /\ Len(g) \in Nat
        /\ Append(g, t)[Len(g) + 1] = t
        /\ \A i \in 1..Len(g) : Append(g, t)[i] = g[i] /\ g[i] \in 0..MaxTime
    BY <1>1, <1>2
  <2>4. \A i \in 1..Len(g) : t - g[i] >= WindowTicks
    <3> TAKE i \in 1..Len(g)
    <3>1. g # <<>> /\ lastSubmit[u] = g[Len(g)] /\ Len(g) \in 1..Len(g)
      BY <1>1, <1>2, <2>3 DEF RateInv, LastGranted
    <3>2. g[Len(g)] \in 0..MaxTime /\ g[i] \in 0..MaxTime
      BY <2>3, <3>1
    <3>3. t - g[Len(g)] >= WindowTicks
      <4>1. ~(t - lastSubmit[u] < WindowTicks)
        BY <1>1, <1>5, <3>1, <3>2, TooEarlyMeans, RateAssumption DEF RateInv
      <4> QED
        BY <1>1, <1>2, <3>1, <3>2, <4>1
    <3>4. i = Len(g) \/ g[Len(g)] - g[i] >= WindowTicks
      BY <1>1, <2>3, <3>1 DEF RateInv, Spaced
    <3> QED
      BY <1>1, <1>2, <3>2, <3>3, <3>4
  <2>5. Spaced'
    <3> SUFFICES ASSUME NEW v \in Users, NEW i \in 1..Len(granted'[v]),
                        NEW j \in 1..Len(granted'[v]), i < j
                 PROVE  granted'[v][j] - granted'[v][i] >= WindowTicks
      BY DEF Spaced, WindowTicks
    <3>1. CASE v # u
      BY <2>2, <3>1 DEF RateInv, Spaced
    <3>2. CASE v = u
      <4>1. i \in 1..Len(g) /\ (j = Len(g) + 1 \/ j \in 1..Len(g))
        BY <2>2, <2>3, <3>2
      <4>2. CASE j = Len(g) + 1
        BY <2>2, <2>3, <2>4, <3>2, <4>1, <4>2
      <4>3. CASE j \in 1..Len(g)
        BY <1>1, <2>2, <2>3, <3>2, <4>1, <4>3 DEF RateInv, Spaced
      <4> QED
        BY <4>1, <4>2, <4>3
    <3> QED
      BY <3>1, <3>2
  <2>6. LastGranted'
    <3> SUFFICES ASSUME NEW v \in Users
                 PROVE  \/ lastSubmit'[v] = -1 /\ granted'[v] = <<>>
                        \/ /\ granted'[v] # <<>>
                           /\ lastSubmit'[v] = granted'[v][Len(granted'[v])]
      BY DEF LastGranted
    <3>1. CASE v = u
      BY <1>1, <1>2, <2>2, <2>3, <3>1
    <3>2. CASE v # u
      BY <2>2, <3>2 DEF RateInv, LastGranted
    <3> QED
      BY <3>1, <3>2
  <2>7. RefusedForCause'
    <3> SUFFICES ASSUME NEW x \in Handlers, answer'[x] = "refused"
                 PROVE  \E i \in 1..Len(granted'[user[x]]) :
                          at[x] - granted'[user[x]][i] < WindowTicks
      BY <1>3 DEF RefusedForCause, WindowTicks
    <3>1. x # h /\ answer[x] = "refused" /\ user[x] \in Users
      BY <1>2, <2>1 DEF RateInv, RateTypeOK
    <3>2. PICK i \in 1..Len(granted[user[x]]) : at[x] - granted[user[x]][i] < WindowTicks
      BY <3>1 DEF RateInv, RefusedForCause
    <3>3. CASE user[x] # u
      BY <2>2, <3>1, <3>2, <3>3
    <3>4. CASE user[x] = u
      <4>1. i \in 1..Len(granted'[user[x]]) /\ granted'[user[x]][i] = granted[user[x]][i]
        BY <2>2, <2>3, <3>2, <3>4
      <4> QED
        BY <3>2, <4>1
    <3> QED
      BY <3>3, <3>4
  <2>8. RateTypeOK'
    <3>1. granted' \in [Users -> Seq(0..MaxTime)]
      BY <1>1, <1>2, <2>1
    <3> QED
      BY <1>1, <1>2, <1>3, <2>1, <3>1 DEF RateInv, RateTypeOK
  <2> QED
    BY <2>5, <2>6, <2>7, <2>8 DEF RateInv
<1> QED
  BY <1>4, <1>5

\* Every step keeps the invariant.
LEMMA RateInvStep ==
  ASSUME RateInv, [RateNext]_rateVars
  PROVE  RateInv'
<1> USE RateAssumption
<1>1. CASE Tick
  <2>1. RateTypeOK'
    BY <1>1 DEF Tick, RateInv, RateTypeOK
  <2> QED
    BY <1>1, <2>1 DEF Tick, RateInv, LastGranted, Spaced, RefusedForCause, WindowTicks
<1>2. CASE Restart
  BY <1>2 DEF Restart, RateInv, RateTypeOK, LastGranted, Spaced, RefusedForCause
<1>3. ASSUME NEW h \in Handlers, NEW u \in Users, ReadClock(h, u) PROVE RateInv'
  <2>1. RateTypeOK'
    BY <1>3 DEF ReadClock, RateInv, RateTypeOK
  <2>2. \A x \in Handlers : answer'[x] = "refused" =>
          answer[x] = "refused" /\ user'[x] = user[x] /\ at'[x] = at[x]
    BY <1>3 DEF ReadClock, RateInv, RateTypeOK
  <2>3. RefusedForCause'
    BY <1>3, <2>2 DEF ReadClock, RateInv, RefusedForCause, WindowTicks
  <2> QED
    BY <1>3, <2>1, <2>3 DEF ReadClock, RateInv, LastGranted, Spaced, WindowTicks
<1>4. CASE UNCHANGED rateVars
  BY <1>4 DEF rateVars, RateInv, RateTypeOK, LastGranted, Spaced, RefusedForCause, WindowTicks
<1> QED
  BY <1>1, <1>2, <1>3, <1>4, CheckInv DEF RateNext

\* Every reachable state satisfies the inductive invariant.
THEOREM RateInvariant == RateSpec => []RateInv
<1>1. RateInv /\ [RateNext]_rateVars => RateInv'
  BY RateInvStep
<1> QED
  BY <1>1, RateInvInit, PTL DEF RateSpec

\* The rate limit keeps its types, for any number of users and handlers and any window.
THEOREM RateTypeCorrect == RateSpec => []RateTypeOK
<1>1. RateInv => RateTypeOK
  BY DEF RateInv
<1> QED
  BY <1>1, RateInvariant, PTL

\* Submissions of a user that one process lets through are at least the window apart.
THEOREM SubmissionsSpaced == RateSpec => []Spaced
<1>1. RateInv => Spaced
  BY DEF RateInv
<1> QED
  BY <1>1, RateInvariant, PTL

\* A request is refused only because of one that was let through.
THEOREM RefusalsJustified == RateSpec => []RefusedForCause
<1>1. RateInv => RefusedForCause
  BY DEF RateInv
<1> QED
  BY <1>1, RateInvariant, PTL
=============================================================================
