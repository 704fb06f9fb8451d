--------------------------- MODULE ConnectionPool ---------------------------
(***************************************************************************)
(* The pool of MySQL connections and the ways its callers use it: request  *)
(* handlers that wait for a connection without a limit (get), the one      *)
(* function that asks for a second connection while it holds a first       *)
(* (get_problem_detail, through get_testcases), and judging workers that   *)
(* give up after a while (try_get).                                        *)
(*                                                                         *)
(* The mutex of the pool is held from the test of pool_ to the return,     *)
(* the ping and the reconnection included, and by release around push_back *)
(* and notify_one, so each critical section is one step; waiting releases  *)
(* the mutex and sleeps at once.                                           *)
(*                                                                         *)
(* A member of Conns stands for one of the pool_size_ slots. Replacing a   *)
(* dead connection by a new one keeps the slot; a reconnection that fails  *)
(* hands nullptr to the caller, who returns nothing: the slot is lost.     *)
(*                                                                         *)
(* The database server is outside: it may go down, which kills every       *)
(* connection, and come back, and it may close an idle connection. A       *)
(* signal ends the process: main closes the pool when listen has returned  *)
(* and the workers have been joined.                                       *)
(***************************************************************************)
EXTENDS Naturals, Sequences, FiniteSets

CONSTANTS
  Conns,       \* the pool_size_ connections
  Handlers,    \* threads of the HTTP server, which call get
  Nesting,     \* those of them that may run get_problem_detail
  Workers,     \* judging workers, which call try_get
  MaxOutages,  \* bound of the model: outages of the database
  MaxExpired   \* bound of the model: idle connections closed by the server

ASSUME PoolAssumption ==
  /\ IsFiniteSet(Conns) /\ Conns # {}
  /\ IsFiniteSet(Handlers) /\ IsFiniteSet(Workers)
  /\ Nesting \subseteq Handlers
  /\ Handlers \cap Workers = {}
  /\ MaxOutages \in Nat /\ MaxExpired \in Nat

Threads == Handlers \cup Workers

VARIABLES
  pool,     \* pool_, used from the back
  pc,       \* "idle", "busy" with a request or a submission, or where it is in a call
  nested,   \* the call is get_problem_detail
  held,     \* the connections each thread holds, the last one on top
  alive,    \* connections that answer a ping
  dbUp,     \* the database accepts connections
  stage,    \* of main: "serving", "stopping" after a signal, "closed" at its end
  lost,     \* ghost: slots that are in the pool no more, and with no thread
  outages, expired

boundVars == <<outages, expired>>
poolVars  == <<pool, pc, nested, held, alive, dbUp, stage, lost, boundVars>>

Asleep == {t \in Threads : pc[t] = "asleep"}

Pooled == {pool[i] : i \in 1..Len(pool)}

HeldBy(t) == {held[t][i] : i \in 1..Len(held[t])}

Back(s)    == s[Len(s)]
PopBack(s) == SubSeq(s, 1, Len(s) - 1)
-----------------------------------------------------------------------------
\* init(): every connection is open; otherwise the program does not start.
PoolInit ==
  /\ pool \in {s \in [1..Cardinality(Conns) -> Conns] :
                 /\ \A i, j \in 1..Cardinality(Conns) : s[i] = s[j] => i = j
                 /\ \A c \in Conns : \E i \in 1..Cardinality(Conns) : s[i] = c}
  /\ pc = [t \in Threads |-> "idle"]
  /\ nested = [t \in Threads |-> FALSE]
  /\ held = [t \in Threads |-> <<>>]
  /\ alive = Conns
  /\ dbUp = TRUE
  /\ stage = "serving"
  /\ lost = {}
  /\ outages = 0
  /\ expired = 0

\* A handler takes a request, or a worker a submission: the server takes none after
\* the signal, a worker does until it is joined.
Begin(t) ==
  /\ pc[t] = "idle"
  /\ stage = "serving" \/ (stage = "stopping" /\ t \in Workers)
  /\ pc' = [pc EXCEPT ![t] = "busy"]
  /\ UNCHANGED <<pool, nested, held, alive, dbUp, stage, lost, boundVars>>

\* One of the calls of a request or of a submission, also of one that was under way at
\* the signal.
Call(t) ==
  /\ pc[t] = "busy"
  /\ pc' = [pc EXCEPT ![t] = "get"]
  /\ \E n \in IF t \in Nesting THEN BOOLEAN ELSE {FALSE} :
       nested' = [nested EXCEPT ![t] = n]
  /\ UNCHANGED <<pool, held, alive, dbUp, stage, lost, boundVars>>

\* The request is answered, or the submission judged.
Done(t) ==
  /\ pc[t] = "busy"
  /\ pc' = [pc EXCEPT ![t] = "idle"]
  /\ UNCHANGED <<pool, nested, held, alive, dbUp, stage, lost, boundVars>>
-----------------------------------------------------------------------------
(***************************************************************************)
(* get and try_get                                                         *)
(***************************************************************************)

\* The caller has connection c and runs its statement.
Grant(t, c) ==
  /\ held' = [held EXCEPT ![t] = Append(@, c)]
  /\ pc' = [pc EXCEPT ![t] = "use"]
  /\ UNCHANGED nested

\* The caller returns at once, also when it has another connection.
GrantNullReturns(t) ==
  /\ pc' = [pc EXCEPT ![t] = "busy"]
  /\ nested' = [nested EXCEPT ![t] = FALSE]
  /\ UNCHANGED held

\* The caller gets nullptr. It returns; get_testcases, which has none, leaves its
\* caller with the first connection still to release.
GrantNull(t) ==
  /\ pc' = [pc EXCEPT ![t] = IF held[t] = <<>> THEN "busy" ELSE "release"]
  /\ nested' = [nested EXCEPT ![t] = FALSE]
  /\ UNCHANGED held

\* A dead connection is closed and nullptr returned, without a new one.
PingOnly(t, c) ==
  \/ c \in alive /\ Grant(t, c) /\ UNCHANGED <<alive, lost>>
  \/ c \notin alive /\ GrantNull(t) /\ lost' = lost \cup {c} /\ UNCHANGED alive

\* mysql_ping, and create_connection when it fails.
PingOrReconnect(t, c) ==
  \/ c \in alive /\ Grant(t, c) /\ UNCHANGED <<alive, lost>>
  \/ c \notin alive /\ dbUp
     /\ Grant(t, c) /\ alive' = alive \cup {c} /\ UNCHANGED lost
  \/ c \notin alive /\ ~dbUp
     /\ GrantNull(t) /\ lost' = lost \cup {c} /\ UNCHANGED alive

\* pool_ is not empty: its last connection is taken.
Acquire(t) ==
  /\ pc[t] \in {"get", "late"}
  /\ pool # <<>>
  /\ pool' = PopBack(pool)
  /\ PingOrReconnect(t, Back(pool))
  /\ UNCHANGED <<dbUp, stage, boundVars>>

\* pool_ is empty: the thread waits on the condition variable.
Sleep(t) ==
  /\ pc[t] = "get"
  /\ pool = <<>>
  /\ pc' = [pc EXCEPT ![t] = "asleep"]
  /\ UNCHANGED <<pool, nested, held, alive, dbUp, stage, lost, boundVars>>

\* The deadline of try_get has passed: the predicate is tested once more.
Timeout(t) ==
  /\ t \in Workers
  /\ pc[t] = "asleep"
  /\ pc' = [pc EXCEPT ![t] = "late"]
  /\ UNCHANGED <<pool, nested, held, alive, dbUp, stage, lost, boundVars>>

\* It is still false: try_get returns nullptr.
GiveUp(t) ==
  /\ pc[t] = "late"
  /\ pool = <<>>
  /\ GrantNull(t)
  /\ UNCHANGED <<pool, alive, dbUp, stage, lost, boundVars>>

SpuriousWakeup(t) ==
  /\ pc[t] = "asleep"
  /\ pc' = [pc EXCEPT ![t] = "get"]
  /\ UNCHANGED <<pool, nested, held, alive, dbUp, stage, lost, boundVars>>
-----------------------------------------------------------------------------
(***************************************************************************)
(* The caller, and release                                                 *)
(***************************************************************************)

\* The statement has been run, or has failed.
Used(t) ==
  /\ pc[t] = "use"
  /\ pc' = [pc EXCEPT ![t] = "release"]
  /\ UNCHANGED <<pool, nested, held, alive, dbUp, stage, lost, boundVars>>

\* Any caller may ask for a second connection before it releases the first.
GetAnother(t) ==
  /\ pc[t] = "use"
  /\ Len(held[t]) = 1
  /\ pc' = [pc EXCEPT ![t] = "get"]
  /\ nested' = [nested EXCEPT ![t] = FALSE]
  /\ UNCHANGED <<pool, held, alive, dbUp, stage, lost, boundVars>>

\* get_problem_detail has found the problem: get_testcases asks for a connection
\* of its own.
GetTestcases(t) ==
  /\ pc[t] = "use"
  /\ nested[t]
  /\ pc' = [pc EXCEPT ![t] = "get"]
  /\ nested' = [nested EXCEPT ![t] = FALSE]
  /\ UNCHANGED <<pool, held, alive, dbUp, stage, lost, boundVars>>

\* What is left of the connections of a caller that releases the wrong one: the
\* first again, and never the second.
DropFirst(s) == IF Len(s) = 2 THEN <<s[2]>> ELSE <<>>

\* What is left after the last connection is released.
DropLast(s) == PopBack(s)

\* The thread that releases goes on; nobody is woken.
WakeNobody(t, next) == pc' = [pc EXCEPT ![t] = next]

\* The thread that releases goes on, and one sleeping thread, if there is one,
\* goes back to its test of pool_.
WakeOne(t, next) ==
  IF Asleep = {}
  THEN pc' = [pc EXCEPT ![t] = next]
  ELSE \E u \in Asleep : pc' = [pc EXCEPT ![t] = next, ![u] = "get"]

\* release(): push_back and notify_one.
Release(t) ==
  /\ pc[t] = "release"
  /\ pool' = Append(pool, Back(held[t]))
  /\ held' = [held EXCEPT ![t] = DropLast(@)]
  /\ WakeOne(t, IF Len(held[t]) = 1 THEN "busy" ELSE "release")
  /\ nested' = [nested EXCEPT ![t] = FALSE]
  /\ UNCHANGED <<alive, dbUp, stage, lost, boundVars>>
-----------------------------------------------------------------------------
(***************************************************************************)
(* The database server                                                     *)
(***************************************************************************)

\* The server goes down and takes every connection with it.
DbFails ==
  /\ dbUp
  /\ outages < MaxOutages
  /\ outages' = outages + 1
  /\ dbUp' = FALSE
  /\ alive' = {}
  /\ UNCHANGED <<pool, pc, nested, held, stage, lost, expired>>

DbRecovers ==
  /\ ~dbUp
  /\ dbUp' = TRUE
  /\ UNCHANGED <<pool, pc, nested, held, alive, stage, lost, boundVars>>

\* The server closes a connection that has been idle too long.
Expire(c) ==
  /\ c \in alive \cap Pooled
  /\ expired < MaxExpired
  /\ expired' = expired + 1
  /\ alive' = alive \ {c}
  /\ UNCHANGED <<pool, pc, nested, held, dbUp, stage, lost, outages>>
-----------------------------------------------------------------------------
(***************************************************************************)
(* The end of main                                                         *)
(***************************************************************************)

\* signal_handler: the server stops.
Signal ==
  /\ stage = "serving"
  /\ stage' = "stopping"
  /\ UNCHANGED <<pool, pc, nested, held, alive, dbUp, lost, boundVars>>

\* close_all when listen has returned, while workers may still be judging.
CloseBeforeJoin ==
  /\ stage = "stopping"
  /\ \A t \in Handlers : pc[t] = "idle"
  /\ stage' = "closed"
  /\ pool' = <<>>
  /\ alive' = alive \ Pooled
  /\ UNCHANGED <<pc, nested, held, dbUp, lost, boundVars>>

\* listen has returned, so the handlers are done; the workers have been joined.
CloseAll ==
  /\ stage = "stopping"
  /\ \A t \in Threads : pc[t] = "idle"
  /\ stage' = "closed"
  /\ pool' = <<>>
  /\ alive' = alive \ Pooled
  /\ UNCHANGED <<pc, nested, held, dbUp, lost, boundVars>>
-----------------------------------------------------------------------------
ThreadStep(t) ==
  \/ Acquire(t) \/ Sleep(t) \/ Timeout(t) \/ GiveUp(t)
  \/ Used(t) \/ GetTestcases(t) \/ Release(t) \/ Done(t)

PoolNext ==
  \/ \E t \in Threads : Begin(t) \/ Call(t) \/ ThreadStep(t) \/ SpuriousWakeup(t)
  \/ \E c \in Conns : Expire(c)
  \/ DbFails \/ DbRecovers
  \/ Signal \/ CloseAll

PoolSpec == PoolInit /\ [][PoolNext]_poolVars

\* A thread that can go on does, main included, a statement ends, and an outage ends.
\* Nobody owes a call, a signal, an outage, an expiry or a spurious wakeup, and a thread
\* that has been woken may find the pool empty again, each time.
FairPoolSpec ==
  /\ PoolSpec
  /\ WF_poolVars(DbRecovers) /\ WF_poolVars(CloseAll)
  /\ \A t \in Threads : WF_poolVars(ThreadStep(t))
-----------------------------------------------------------------------------
(***************************************************************************)
(* Properties                                                              *)
(***************************************************************************)

\* The type invariant of the pool.
PoolTypeOK ==
  /\ pool \in Seq(Conns)
  /\ pc \in [Threads -> {"idle", "busy", "get", "asleep", "late", "use", "release"}]
  /\ nested \in [Threads -> BOOLEAN]
  /\ held \in [Threads -> Seq(Conns)]
  /\ \A t \in Threads :
       /\ pc[t] \in {"use", "release"} => Len(held[t]) \in 1..2
       /\ pc[t] \notin {"use", "release"} => Len(held[t]) \in 0..1
       /\ pc[t] \in {"idle", "busy"} => Len(held[t]) = 0
  /\ alive \subseteq Conns
  /\ dbUp \in BOOLEAN
  /\ stage \in {"serving", "stopping", "closed"}
  /\ lost \subseteq Conns
  /\ outages \in 0..MaxOutages
  /\ expired \in 0..MaxExpired

\* A connection is never in two hands: it is in the pool once, or with one thread
\* once, or lost. MYSQL objects are not thread-safe: a connection handed out twice
\* would interleave two statements on one socket.
ConnExclusive ==
  /\ \A i, j \in 1..Len(pool) : pool[i] = pool[j] => i = j
  /\ \A t \in Threads :
       /\ \A i, j \in 1..Len(held[t]) : held[t][i] = held[t][j] => i = j
       /\ HeldBy(t) \cap (Pooled \cup lost) = {}
       /\ \A u \in Threads : HeldBy(t) \cap HeldBy(u) # {} => t = u
  /\ Pooled \cap lost = {}

\* No path of a caller keeps a connection after its call, and no slot disappears
\* before the end unless a reconnection failed, which takes an outage of the database.
CapacityKept ==
  /\ stage # "closed" => Conns = Pooled \cup lost \cup UNION {HeldBy(t) : t \in Threads}
  /\ lost # {} => outages > 0

\* A released connection never waits for a sleeping thread that nobody will wake:
\* while threads sleep, each pooled connection has a thread on its way to take it.
NoLostWakeup ==
  Asleep # {} =>
    Len(pool) <= Cardinality({t \in Threads : pc[t] \in {"get", "late"}})

\* Fewer threads run get_problem_detail than there are connections. The code does not
\* see to it: NoHoldAndWait says what it gives, RequestAnswered fails without it.
NestingFits == Cardinality(Nesting) < Cardinality(Conns)

\* When fewer threads run get_problem_detail than there are connections, and none
\* is lost, not all of them are held by threads that wait for another one.
NoHoldAndWait ==
  NestingFits /\ lost = {} /\ stage # "closed" =>
    \/ Len(pool) > 0
    \/ \E t \in Threads : pc[t] \in {"use", "release"}

\* The threads in a call of the pool, or between get and release.
Calling == {t \in Threads : pc[t] \notin {"idle", "busy"}}

\* The load ends: from some time on no thread takes work or calls. Without it a thread
\* that was woken may lose its connection to a newcomer every time: neither the mutex
\* nor the condition variable keeps an order.
LoadEnds == <>[][~\E t \in Threads : Begin(t) \/ Call(t)]_poolVars

\* While no slot is lost, and where NestingFits, every call ends when the load does: the
\* caller gets a connection and gives it back, or is told that there is none. Nobody is
\* left asleep, whoever else timed out, woke for nothing or took the connection.
AnsweredWhileWhole ==
  NestingFits /\ LoadEnds =>
    \A t \in Threads : t \in Calling ~> t \notin Calling \/ lost # {}

\* After close_all no connection is open, in the pool or in a thread's hands: none
\* comes back to a pool that nobody will close again (main.cc:62-64).
NothingLeftOpen ==
  stage = "closed" => /\ alive = {}
                      /\ pool = <<>>
                      /\ \A t \in Threads : held[t] = <<>>

\* Only a thread that runs get_problem_detail waits with a connection in its hands, and
\* it asks for a second one once.
HoldersNest ==
  \A t \in Threads :
    /\ nested[t] => t \in Nesting
    /\ nested[t] /\ pc[t] = "use" => Len(held[t]) = 1
    /\ nested[t] /\ pc[t] \in {"get", "asleep", "late"} => held[t] = <<>>
    /\ pc[t] \in {"get", "asleep", "late"} /\ held[t] # <<>> => t \in Nesting

\* What is left of an outage, and at the end of main.
Aftermath ==
  /\ lost \cap alive = {}
  /\ ~dbUp => outages > 0
  /\ stage = "closed" => \A t \in Threads : pc[t] = "idle"

\* The inductive invariant.
PoolInv ==
  /\ PoolTypeOK /\ ConnExclusive /\ CapacityKept /\ NoLostWakeup /\ NothingLeftOpen
  /\ HoldersNest /\ Aftermath

\* A signal ends the process, while no slot is lost, where NestingFits and when the load
\* ends: no caller waits for a connection for ever and keeps listen or join from
\* returning (main.cc:56-64).
StopsWhileWhole ==
  NestingFits /\ LoadEnds => (stage = "stopping" ~> stage = "closed" \/ lost # {})

\* SPEC.md:44-45, 268: every request is answered, with 500 when the database has failed;
\* here only once the load has ended, so that nobody is kept waiting by newcomers.
RequestAnswered == LoadEnds => \A t \in Threads : pc[t] # "idle" ~> pc[t] = "idle"
=============================================================================
