----------------------------- MODULE RateLimit -----------------------------
(***************************************************************************)
(* The rate limit of submissions: check_rate_limit, called by the threads  *)
(* of the HTTP server at the same time. The clock is read before the mutex *)
(* of the table is taken, so the checks of two threads may take the mutex  *)
(* in the opposite order of their clock readings, and elapsed may be       *)
(* negative. The elapsed time is truncated to whole seconds.               *)
(*                                                                         *)
(* The table is in memory: a restart empties it.                           *)
(***************************************************************************)
EXTENDS Integers, Sequences

CONSTANTS
  Users,
  Handlers,   \* threads of the HTTP server
  NoUser,     \* "no user"
  Ticks,      \* instants of the steady clock per second
  Window,     \* rate_limit.submit_window_sec (0 would turn the limit off)
  MaxTime,    \* bound of the model: the last value of the clock
  MaxBoots    \* bound of the model: restarts

ASSUME RateAssumption ==
  /\ NoUser \notin Users
  /\ Ticks \in Nat \ {0}
  /\ Window \in Nat \ {0}
  /\ MaxTime \in Nat
  /\ MaxBoots \in Nat

VARIABLES
  clock,       \* steady_clock
  lastSubmit,  \* last_submit_: -1 for a user who is not in it
  pc, user,    \* handlers: program counter, the user of the request
  at,          \* the clock reading of the request
  answer,      \* what the last check of each handler answered
  granted,     \* ghost: for each user the times of the checks that answered TRUE
               \* in this process, in the order in which they took the mutex
  boots        \* restarts so far

rateVars == <<clock, lastSubmit, pc, user, at, answer, granted, boots>>

\* The window in instants of the clock.
WindowTicks == Window * Ticks

\* Truncation rounds towards zero; \div rounds down.
Truncated(d) == IF d >= 0 THEN d \div Ticks ELSE -((-d) \div Ticks)
-----------------------------------------------------------------------------
RateInit ==
  /\ clock = 0
  /\ lastSubmit = [u \in Users |-> -1]
  /\ pc = [h \in Handlers |-> "idle"]
  /\ user = [h \in Handlers |-> NoUser]
  /\ at = [h \in Handlers |-> 0]
  /\ answer = [h \in Handlers |-> "none"]
  /\ granted = [u \in Users |-> <<>>]
  /\ boots = 0

Tick ==
  /\ clock < MaxTime
  /\ clock' = clock + 1
  /\ UNCHANGED <<lastSubmit, pc, user, at, answer, granted, boots>>

\* auto now = steady_clock::now()
ReadClock(h, u) ==
  /\ pc[h] = "idle"
  /\ pc' = [pc EXCEPT ![h] = "lock"]
  /\ user' = [user EXCEPT ![h] = u]
  /\ at' = [at EXCEPT ![h] = clock]
  /\ answer' = [answer EXCEPT ![h] = "none"]
  /\ UNCHANGED <<clock, lastSubmit, granted, boots>>

Elapsed(u, t) == Truncated(t - lastSubmit[u])

\* Only what lies in the future of the last submission is compared with the window.
TooEarlyForward(u, t) ==
  lastSubmit[u] # -1 /\ t >= lastSubmit[u] /\ Elapsed(u, t) < Window

\* A request exactly one window later is refused too.
TooEarlyInclusive(u, t) == lastSubmit[u] # -1 /\ Elapsed(u, t) <= Window

TooEarly(u, t) == lastSubmit[u] # -1 /\ Elapsed(u, t) < Window

\* The table holds the time from which the user may submit again.
RecordNextAllowed(u, t) ==
  lastSubmit' = IF TooEarly(u, t) THEN lastSubmit
                ELSE [lastSubmit EXCEPT ![u] = t + WindowTicks]

\* A refused request leaves the table alone.
Record(u, t) ==
  lastSubmit' = IF TooEarly(u, t) THEN lastSubmit ELSE [lastSubmit EXCEPT ![u] = t]

\* The check, under rate_limit_mutex_; on FALSE handle_submit answers 429. On TRUE the
\* time is recorded, whatever becomes of the submission.
Check(h) ==
  LET u == user[h]
      t == at[h]
  IN  /\ pc[h] = "lock"
      /\ Record(u, t)
      /\ answer' = [answer EXCEPT ![h] = IF TooEarly(u, t) THEN "refused" ELSE "granted"]
      /\ granted' = IF TooEarly(u, t) THEN granted
                    ELSE [granted EXCEPT ![u] = Append(@, t)]
      /\ pc' = [pc EXCEPT ![h] = "idle"]
      /\ UNCHANGED <<clock, user, at, boots>>

\* The process ends, in whatever way, and another one starts. Its clock goes on.
Restart ==
  /\ boots < MaxBoots
  /\ boots' = boots + 1
  /\ lastSubmit' = [u \in Users |-> -1]
  /\ pc' = [h \in Handlers |-> "idle"]
  /\ user' = [h \in Handlers |-> NoUser]
  /\ at' = [h \in Handlers |-> 0]
  /\ answer' = [h \in Handlers |-> "none"]
  /\ granted' = [u \in Users |-> <<>>]
  /\ UNCHANGED clock

RateNext ==
  \/ Tick \/ Restart
  \/ \E h \in Handlers : Check(h) \/ \E u \in Users : ReadClock(h, u)

RateSpec == RateInit /\ [][RateNext]_rateVars
-----------------------------------------------------------------------------
(***************************************************************************)
(* Properties                                                              *)
(***************************************************************************)

\* The type invariant of the rate limit.
RateTypeOK ==
  /\ clock \in 0..MaxTime
  /\ lastSubmit \in [Users -> {-1} \cup 0..MaxTime]
  /\ pc \in [Handlers -> {"idle", "lock"}]
  /\ user \in [Handlers -> Users \cup {NoUser}]
  /\ \A h \in Handlers : pc[h] = "lock" \/ answer[h] # "none" => user[h] \in Users
  /\ at \in [Handlers -> 0..MaxTime]
  /\ answer \in [Handlers -> {"none", "granted", "refused"}]
  /\ granted \in [Users -> Seq(0..MaxTime)]
  /\ boots \in 0..MaxBoots

\* Two submissions of a user that one process lets through are at least the window
\* apart, even when their threads take the mutex in the opposite order of their clock
\* readings, and although the elapsed time is truncated.
Spaced ==
  \A u \in Users : \A i, j \in 1..Len(granted[u]) :
    i < j => granted[u][j] - granted[u][i] >= WindowTicks

\* The table holds, for each user, the last time it let through.
LastGranted ==
  \A u \in Users :
    \/ lastSubmit[u] = -1 /\ granted[u] = <<>>
    \/ granted[u] # <<>> /\ lastSubmit[u] = granted[u][Len(granted[u])]

\* A request is refused only for a submission of the same user that was let through
\* less than the window before it, or after it: neither a refused request nor one of
\* another user counts.
RefusedForCause ==
  \A h \in Handlers : answer[h] = "refused" =>
    \E i \in 1..Len(granted[user[h]]) : at[h] - granted[user[h]][i] < WindowTicks

\* The inductive invariant.
RateInv == RateTypeOK /\ LastGranted /\ Spaced /\ RefusedForCause
=============================================================================
