----------------------------- MODULE MySQLPool -----------------------------
(***************************************************************************)
(* The pool of database connections (src/src/db/mysql_pool.cpp) that every *)
(* operation of MetaStore borrows one connection from, and returns it to   *)
(* when the operation ends (the shared_ptr's deleter).                     *)
(*                                                                         *)
(* A connection that does not answer a ping is connected anew; when that   *)
(* fails too it is dropped and the pool is smaller from then on.  The      *)
(* connections in the pool differ in nothing else, so they are counted.    *)
(*                                                                         *)
(* A thread is at one of these points:                                     *)
(*   "out"      not using the pool                                         *)
(*   "waiting"  blocked on cv_                                             *)
(*   "woken"    notified, or woken spuriously, and about to take mutex_    *)
(*   "holds"    using a connection                                         *)
(***************************************************************************)
EXTENDS Naturals, FiniteSets

CONSTANTS
    Threads,    \* the I/O threads and the collector's
    Impatient,  \* those that call GetConnection with a timeout
    PoolSize,   \* config_.pool_size
    MaxCalls,   \* bound: calls of GetConnection per thread
    Faults      \* {"db"} when the database may become unreachable

ASSUME PoolAssumption ==
    /\ IsFiniteSet(Threads)
    /\ Impatient \subseteq Threads
    /\ PoolSize \in Nat
    /\ MaxCalls \in Nat

VARIABLES
    idle,       \* connections_.size()
    active,     \* active_count_
    closed,     \* closed_
    notified,   \* Close has called notify_all
    pc,         \* [Threads -> where it is]
    calls       \* [Threads -> calls made]

vars == <<idle, active, closed, notified, pc, calls>>

At(p) == {t \in Threads : pc[t] = p}

Goto(t, p) == pc' = [pc EXCEPT ![t] = p]

PoolTypeOK ==
    /\ idle \in Nat
    /\ active \in Nat
    /\ closed \in BOOLEAN
    /\ notified \in BOOLEAN
    /\ pc \in [Threads -> {"out", "waiting", "woken", "holds"}]
    /\ calls \in [Threads -> Nat]

\* Init() has made all connections; the server does not start otherwise.
Init ==
    /\ idle = PoolSize
    /\ active = 0
    /\ closed = FALSE
    /\ notified = FALSE
    /\ pc = [t \in Threads |-> "out"]
    /\ calls = [t \in Threads |-> 0]

----------------------------------------------------------------------------
(***************************************************************************)
(* GetConnection                                                           *)
(***************************************************************************)

\* Ping and the Connect after it may both fail.
MayBreak == "db" \in Faults

\* Mutant: the connection handed out is not counted.
TakeUncounted(t) ==
    /\ ~closed
    /\ idle > 0
    /\ idle' = idle - 1
    /\ Goto(t, "holds")
    /\ UNCHANGED <<active, closed, notified>>

\* The first connection is popped and handed out, or dropped (and nullptr
\* returned) when it neither answers nor can be connected anew.
Take(t) ==
    /\ ~closed
    /\ idle > 0
    /\ idle' = idle - 1
    /\ \/ /\ Goto(t, "holds")
          /\ active' = active + 1
       \/ /\ MayBreak
          /\ Goto(t, "out")
          /\ UNCHANGED active
    /\ UNCHANGED <<closed, notified>>

Call(t) ==
    /\ pc[t] = "out"
    /\ calls[t] < MaxCalls
    /\ calls' = [calls EXCEPT ![t] = @ + 1]

GetClosed(t) ==
    /\ Call(t)
    /\ closed
    /\ UNCHANGED <<idle, active, closed, notified, pc>>

\* The predicate holds at once: the thread does not wait, also when others do.
GetNow(t) ==
    /\ Call(t)
    /\ Take(t)

GetWait(t) ==
    /\ Call(t)
    /\ ~closed
    /\ idle = 0
    /\ Goto(t, "waiting")
    /\ UNCHANGED <<idle, active, closed, notified>>

SpuriousWakeup(t) ==
    /\ pc[t] = "waiting"
    /\ Goto(t, "woken")
    /\ UNCHANGED <<idle, active, closed, notified, calls>>

ReturnNull(t) ==
    /\ Goto(t, "out")
    /\ UNCHANGED <<idle, active, closed, notified>>

\* A woken thread looks at the predicate again.
WokenTakes(t) ==
    /\ pc[t] = "woken"
    /\ \/ Take(t)
       \/ closed /\ ReturnNull(t)
    /\ UNCHANGED calls

WokenWaits(t) ==
    /\ pc[t] = "woken"
    /\ ~closed
    /\ idle = 0
    /\ Goto(t, "waiting")
    /\ UNCHANGED <<idle, active, closed, notified, calls>>

\* wait_for ends: the predicate decides once more.
Timeout(t) ==
    /\ t \in Impatient
    /\ pc[t] \in {"waiting", "woken"}
    /\ \/ Take(t)
       \/ (closed \/ idle = 0) /\ ReturnNull(t)
    /\ UNCHANGED calls

----------------------------------------------------------------------------
(***************************************************************************)
(* ReturnConnection                                                        *)
(***************************************************************************)

\* notify_one: one of the waiting threads is woken, if there is any.  q is
\* pc after the step of the notifying thread.
NotifyOne(q) ==
    LET waiting == {w \in Threads : q[w] = "waiting"} IN
    IF waiting = {} THEN pc' = q
    ELSE \E w \in waiting : pc' = [q EXCEPT ![w] = "woken"]

\* Mutant: only the return to an empty pool notifies.
ReturnUsableToEmpty(t) ==
    /\ pc[t] = "holds"
    /\ ~closed
    /\ idle' = idle + 1
    /\ active' = active - 1
    /\ IF idle = 0 THEN NotifyOne([pc EXCEPT ![t] = "out"]) ELSE Goto(t, "out")
    /\ UNCHANGED <<closed, notified, calls>>

\* The connection answers, or another could be made in its place.
ReturnUsable(t) ==
    /\ pc[t] = "holds"
    /\ ~closed
    /\ idle' = idle + 1
    /\ active' = active - 1
    /\ NotifyOne([pc EXCEPT ![t] = "out"])
    /\ UNCHANGED <<closed, notified, calls>>

\* "Failed to reconnect MySQL, pool size reduced".
ReturnBroken(t) ==
    /\ MayBreak
    /\ pc[t] = "holds"
    /\ ~closed
    /\ active' = active - 1
    /\ Goto(t, "out")
    /\ UNCHANGED <<idle, closed, notified, calls>>

\* Mutant: the connection goes back to the pool although it is closed.
ReturnClosedPushes(t) ==
    /\ pc[t] = "holds"
    /\ closed
    /\ idle' = idle + 1
    /\ Goto(t, "out")
    /\ UNCHANGED <<active, closed, notified, calls>>

\* The pool is closed: the connection is deleted and not counted down.
ReturnClosed(t) ==
    /\ pc[t] = "holds"
    /\ closed
    /\ Goto(t, "out")
    /\ UNCHANGED <<idle, active, closed, notified, calls>>

----------------------------------------------------------------------------
(***************************************************************************)
(* Close                                                                   *)
(***************************************************************************)

Close ==
    /\ ~closed
    /\ closed' = TRUE
    /\ idle' = 0
    /\ UNCHANGED <<active, notified, pc, calls>>

\* Mutant: notify_one.
CloseNotifiesOne ==
    /\ closed
    /\ ~notified
    /\ notified' = TRUE
    /\ NotifyOne(pc)
    /\ UNCHANGED <<idle, active, closed, calls>>

\* notify_all, after mutex_ has been released.
CloseNotify ==
    /\ closed
    /\ ~notified
    /\ notified' = TRUE
    /\ pc' = [t \in Threads |-> IF pc[t] = "waiting" THEN "woken" ELSE pc[t]]
    /\ UNCHANGED <<idle, active, closed, calls>>

----------------------------------------------------------------------------

Get(t) ==
    \/ GetClosed(t)
    \/ GetNow(t)
    \/ GetWait(t)

Return(t) ==
    \/ ReturnUsable(t)
    \/ ReturnBroken(t)
    \/ ReturnClosed(t)

\* No thread has anything left to do with the pool.
Quiet ==
    /\ \A t \in Threads : pc[t] = "out" /\ calls[t] = MaxCalls
    /\ UNCHANGED vars

Next ==
    \/ \E t \in Threads :
          \/ Get(t)
          \/ SpuriousWakeup(t)
          \/ WokenTakes(t)
          \/ WokenWaits(t)
          \/ Timeout(t)
          \/ Return(t)
    \/ Close
    \/ CloseNotify
    \/ Quiet

Spec == Init /\ [][Next]_vars

\* Operations end and return their connection, woken threads run, and Close,
\* once begun, goes on.  Nobody need call Get or Close, no timeout is counted
\* on and no spurious wakeup.
FairSpec ==
    /\ Spec
    /\ \A t \in Threads :
          /\ WF_vars(WokenTakes(t) \/ WokenWaits(t))
          /\ WF_vars(Return(t))
    /\ WF_vars(CloseNotify)

----------------------------------------------------------------------------
(***************************************************************************)
(* Properties                                                              *)
(***************************************************************************)

\* No connection is lent twice or made up: idle and lent ones are at most
\* pool_size, active_count_ is the number lent until the pool is closed, and
\* a closed pool keeps none, also when one comes back after Close.
PoolConserves ==
    /\ idle + Cardinality(At("holds")) <= PoolSize
    /\ ~closed => active = Cardinality(At("holds"))
    /\ closed => idle = 0

\* While a connection is idle in the pool no thread sleeps on cv_ unless
\* another has been woken for it: notify_one per returned connection is enough
\* although threads that never waited take connections first, and woken ones
\* may time out or find theirs unusable.
NoSleeperBesideIdle ==
    At("waiting") # {} /\ idle > 0 => At("woken") # {}

\* Every connection has been dropped: nobody will ever notify.
Exhausted == ~closed /\ idle = 0 /\ At("holds") = {}

\* A call of GetConnection returns (after finitely many other calls), the one
\* exception being a pool whose every connection was dropped because the
\* database could not be reached: it is never filled again.
EveryCallReturns ==
    \A t \in Threads :
        pc[t] = "waiting" ~> (pc[t] \in {"out", "holds"} \/ Exhausted)

=============================================================================
