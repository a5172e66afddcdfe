-------------------------- MODULE MySQLPoolProofs --------------------------
(***************************************************************************)
(* The connection pool, for every pool size and any number of threads: the *)
(* connections are conserved, and notify_one per returned connection is    *)
(* enough to leave no thread asleep beside an idle connection.             *)
(***************************************************************************)
EXTENDS MySQLPool, FiniteSetTheorems, TLAPS

(***************************************************************************)
(* Threads at a point of the program are finitely many, and one that comes *)
(* or goes changes their number by one.                                    *)
(***************************************************************************)

LEMMA AtFinite ==
    ASSUME NEW p
    PROVE  IsFiniteSet(At(p)) /\ Cardinality(At(p)) \in Nat
  <1>1. At(p) \in SUBSET Threads
    BY DEF At
  <1> QED
    BY <1>1, PoolAssumption, FS_Subset, FS_CardinalityType

LEMMA Arrives ==
    ASSUME NEW p, NEW t \in Threads,
           pc[t] # p, pc'[t] = p,
           \A u \in Threads \ {t} : pc'[u] = p <=> pc[u] = p
    PROVE  Cardinality(At(p))' = Cardinality(At(p)) + 1
  <1>1. At(p)' = At(p) \cup {t}
    BY DEF At
  <1>2. t \notin At(p)
    BY DEF At
  <1> QED
    BY <1>1, <1>2, AtFinite, FS_AddElement

LEMMA Leaves ==
    ASSUME NEW p, NEW t \in Threads,
           pc[t] = p, pc'[t] # p,
           \A u \in Threads \ {t} : pc'[u] = p <=> pc[u] = p
    PROVE  /\ Cardinality(At(p))' = Cardinality(At(p)) - 1
           /\ Cardinality(At(p)) > 0
  <1>1. At(p)' = At(p) \ {t}
    BY DEF At
  <1>2. t \in At(p)
    BY DEF At
  <1>3. Cardinality(At(p) \ {t}) = Cardinality(At(p)) - 1
    BY <1>2, AtFinite, FS_RemoveElement
  <1>4. Cardinality(At(p)) # 0
    BY <1>2, AtFinite, FS_EmptySet
  <1> QED
    BY <1>1, <1>3, <1>4, AtFinite

LEMMA Stays ==
    ASSUME NEW p, \A u \in Threads : pc'[u] = p <=> pc[u] = p
    PROVE  At(p)' = At(p)
  BY DEF At

PcOK == pc \in [Threads -> {"out", "waiting", "woken", "holds"}]

\* A thread goes from one point to another.
LEMMA Moves ==
    ASSUME PcOK, NEW t \in Threads, NEW q \in {"out", "waiting", "woken", "holds"},
           pc[t] # q, Goto(t, q)
    PROVE  /\ PcOK'
           /\ Cardinality(At(pc[t])) > 0
           /\ Cardinality(At(q))' = Cardinality(At(q)) + 1
           /\ \A p : p = pc[t] => Cardinality(At(p))' = Cardinality(At(p)) - 1
           /\ \A p : p # pc[t] /\ p # q => At(p)' = At(p)
  <1>1. /\ PcOK' /\ pc'[t] = q
        /\ \A u \in Threads \ {t} : pc'[u] = pc[u]
    BY DEF PcOK, Goto
  <1>2. Cardinality(At(q))' = Cardinality(At(q)) + 1
    BY <1>1, Arrives
  <1>3. ASSUME NEW p, p = pc[t]
        PROVE  /\ Cardinality(At(p))' = Cardinality(At(p)) - 1
               /\ Cardinality(At(p)) > 0
    BY <1>1, <1>3, Leaves
  <1>4. ASSUME NEW p, p # pc[t], p # q
        PROVE  At(p)' = At(p)
    BY <1>1, <1>4, Stays
  <1> QED
    BY <1>1, <1>2, <1>3, <1>4

(***************************************************************************)
(* The inductive invariant.  NoSleeperBesideIdle alone is not inductive:   *)
(* with two idle connections and one woken thread that thread's turn would *)
(* leave a connection idle beside a sleeper.  It holds because while       *)
(* anybody sleeps there are as many woken threads as idle connections.     *)
(***************************************************************************)

EnoughWoken == At("waiting") = {} \/ idle <= Cardinality(At("woken"))

PInv == PoolTypeOK /\ PoolConserves /\ EnoughWoken

\* What the parts of the invariant need of a step.
LEMMA Preserved ==
    ASSUME PInv, PcOK', idle' \in Nat, active' \in Nat, closed' \in BOOLEAN,
           notified' \in BOOLEAN, calls' \in [Threads -> Nat],
           idle' + Cardinality(At("holds"))' <= PoolSize,
           ~closed' => active' = Cardinality(At("holds"))',
           closed' => idle' = 0,
           At("waiting")' = {} \/ idle' <= Cardinality(At("woken"))'
    PROVE  PInv'
  BY DEF PInv, PoolTypeOK, PoolConserves, EnoughWoken, PcOK

LEMMA InitPInv == Init => PInv
  <1> SUFFICES ASSUME Init PROVE PInv
    OBVIOUS
  <1>1. At("holds") = {} /\ At("waiting") = {}
    BY DEF Init, At
  <1>2. Cardinality(At("holds")) = 0
    BY <1>1, FS_EmptySet
  <1>3. PoolTypeOK
    BY PoolAssumption DEF Init, PoolTypeOK
  <1>4. PoolConserves
    BY <1>2, PoolAssumption DEF Init, PoolConserves
  <1> QED
    BY <1>1, <1>3, <1>4 DEF PInv, EnoughWoken

LEMMA Facts ==
    ASSUME PInv
    PROVE  /\ PcOK /\ idle \in Nat /\ active \in Nat /\ closed \in BOOLEAN
           /\ notified \in BOOLEAN /\ calls \in [Threads -> Nat]
           /\ idle + Cardinality(At("holds")) <= PoolSize
           /\ ~closed => active = Cardinality(At("holds"))
           /\ closed => idle = 0
           /\ At("waiting") = {} \/ idle <= Cardinality(At("woken"))
           /\ Cardinality(At("holds")) \in Nat
           /\ Cardinality(At("woken")) \in Nat
           /\ PoolSize \in Nat
  BY AtFinite, PoolAssumption
  DEF PInv, PoolTypeOK, PoolConserves, EnoughWoken, PcOK

LEMMA CallOK ==
    ASSUME PInv, NEW t \in Threads, Call(t)
    PROVE  calls' \in [Threads -> Nat] /\ pc[t] = "out"
  BY Facts DEF Call

\* Take, by a thread that has just called, is asleep, or was woken.
LEMMA TakeOK ==
    ASSUME PInv, NEW t \in Threads, Take(t), pc[t] \in {"out", "waiting", "woken"},
           calls' \in [Threads -> Nat]
    PROVE  PInv'
  <1>0. /\ ~closed /\ idle > 0 /\ idle' = idle - 1
        /\ UNCHANGED <<closed, notified>>
    BY DEF Take
  <1>1. CASE Goto(t, "holds") /\ active' = active + 1
    <2>1. /\ PcOK'
          /\ Cardinality(At("holds"))' = Cardinality(At("holds")) + 1
          /\ pc[t] # "woken" => At("woken")' = At("woken")
          /\ pc[t] = "woken" =>
                Cardinality(At("woken"))' = Cardinality(At("woken")) - 1
          /\ pc[t] # "waiting" => At("waiting")' = At("waiting")
      BY <1>1, Facts, Moves
    <2>2. At("waiting") = {} => At("waiting")' = {}
      BY <2>1 DEF At
    <2> QED
      BY <1>0, <1>1, <2>1, <2>2, Facts, Preserved
  <1>2. CASE Goto(t, "out") /\ UNCHANGED active /\ pc[t] # "out"
    <2>1. /\ PcOK'
          /\ At("holds")' = At("holds")
          /\ pc[t] # "woken" => At("woken")' = At("woken")
          /\ pc[t] = "woken" =>
                Cardinality(At("woken"))' = Cardinality(At("woken")) - 1
          /\ pc[t] # "waiting" => At("waiting")' = At("waiting")
      BY <1>2, Facts, Moves
    <2>2. At("waiting") = {} => At("waiting")' = {}
      BY <2>1 DEF At
    <2> QED
      BY <1>0, <1>2, <2>1, <2>2, Facts, Preserved
  <1>3. CASE Goto(t, "out") /\ UNCHANGED active /\ pc[t] = "out"
    <2>1. PcOK' /\ \A p : At(p)' = At(p)
      BY <1>3, Facts DEF Goto, At, PcOK
    <2> QED
      BY <1>0, <1>3, <2>1, Facts, Preserved
  <1> QED
    BY <1>1, <1>2, <1>3 DEF Take

\* A thread returns nullptr: the pool is closed, or none is idle.
LEMMA ReturnNullOK ==
    ASSUME PInv, NEW t \in Threads, ReturnNull(t), pc[t] \in {"waiting", "woken"},
           closed \/ idle = 0, UNCHANGED calls
    PROVE  PInv'
  <1>1. PcOK' /\ At("holds")' = At("holds")
    BY Facts, Moves DEF ReturnNull
  <1>2. idle' = 0 /\ UNCHANGED <<idle, active, closed, notified>>
    BY Facts DEF ReturnNull
  <1>3. Cardinality(At("woken"))' \in Nat
    <2>1. At("woken")' \in SUBSET Threads
      BY DEF At
    <2> QED
      BY <2>1, PoolAssumption, FS_Subset, FS_CardinalityType
  <1> QED
    BY <1>1, <1>2, <1>3, Facts, Preserved

\* A thread goes to sleep: none is idle.
LEMMA SleepOK ==
    ASSUME PInv, NEW t \in Threads, Goto(t, "waiting"), pc[t] \in {"out", "woken"},
           idle = 0, UNCHANGED <<idle, active, closed, notified>>,
           calls' \in [Threads -> Nat]
    PROVE  PInv'
  <1>1. PcOK' /\ At("holds")' = At("holds")
    BY Facts, Moves
  <1>2. Cardinality(At("woken"))' \in Nat
    <2>1. At("woken")' \in SUBSET Threads
      BY DEF At
    <2> QED
      BY <2>1, PoolAssumption, FS_Subset, FS_CardinalityType
  <1> QED
    BY <1>1, <1>2, Facts, Preserved

LEMMA SpuriousOK ==
    ASSUME PInv, NEW t \in Threads, SpuriousWakeup(t)
    PROVE  PInv'
  <1>1. /\ PcOK' /\ At("holds")' = At("holds")
        /\ Cardinality(At("woken"))' = Cardinality(At("woken")) + 1
    BY Facts, Moves DEF SpuriousWakeup
  <1>2. At("waiting") # {}
    BY DEF SpuriousWakeup, At
  <1> QED
    BY <1>1, <1>2, Facts, Preserved DEF SpuriousWakeup

\* notify_one adds a woken thread if anybody sleeps, and moves nobody else.
LEMMA NotifyOneWakes ==
    ASSUME PInv, NEW t \in Threads, pc[t] = "holds",
           NotifyOne([pc EXCEPT ![t] = "out"])
    PROVE  /\ PcOK'
           /\ Cardinality(At("holds"))' = Cardinality(At("holds")) - 1
           /\ Cardinality(At("holds")) > 0
           /\ \/ At("waiting")' = {}
              \/ Cardinality(At("woken"))' = Cardinality(At("woken")) + 1
  <1> DEFINE q == [pc EXCEPT ![t] = "out"]
             sleepers == {w \in Threads : q[w] = "waiting"}
  <1>0. PcOK /\ q \in [Threads -> {"out", "waiting", "woken", "holds"}]
    BY Facts DEF PcOK
  <1>1. CASE sleepers = {}
    <2>1. pc' = q
      BY <1>1 DEF NotifyOne
    <2>2. At("waiting")' = {}
      BY <1>1, <2>1 DEF At
    <2>3. /\ Cardinality(At("holds"))' = Cardinality(At("holds")) - 1
          /\ Cardinality(At("holds")) > 0
      BY <1>0, <2>1, Leaves DEF PcOK
    <2> QED
      BY <1>0, <2>1, <2>2, <2>3 DEF PcOK
  <1>2. CASE sleepers # {}
    <2>1. PICK w \in sleepers : pc' = [q EXCEPT ![w] = "woken"]
      BY <1>2 DEF NotifyOne
    <2>2. /\ w \in Threads /\ w # t /\ pc[w] = "waiting" /\ pc'[w] = "woken"
          /\ pc'[t] = "out" /\ PcOK'
          /\ \A u \in Threads \ {t, w} : pc'[u] = pc[u]
      BY <1>0, <2>1 DEF PcOK
    <2>3. Cardinality(At("woken"))' = Cardinality(At("woken")) + 1
      BY <2>2, Arrives
    <2>4. /\ Cardinality(At("holds"))' = Cardinality(At("holds")) - 1
          /\ Cardinality(At("holds")) > 0
      BY <2>2, Leaves
    <2> QED
      BY <2>2, <2>3, <2>4
  <1> QED
    BY <1>1, <1>2

LEMMA ReturnOK ==
    ASSUME PInv, NEW t \in Threads, Return(t)
    PROVE  PInv'
  <1>1. CASE ReturnUsable(t)
    <2>1. /\ ~closed /\ idle' = idle + 1 /\ active' = active - 1
          /\ UNCHANGED <<closed, notified, calls>>
      BY <1>1 DEF ReturnUsable
    <2>2. /\ PcOK'
          /\ Cardinality(At("holds"))' = Cardinality(At("holds")) - 1
          /\ Cardinality(At("holds")) > 0
          /\ \/ At("waiting")' = {}
             \/ Cardinality(At("woken"))' = Cardinality(At("woken")) + 1
      BY <1>1, NotifyOneWakes DEF ReturnUsable
    <2>3. At("waiting") = {} => At("waiting")' = {}
      BY <1>1, Facts DEF ReturnUsable, NotifyOne, At, PcOK
    <2> QED
      BY <2>1, <2>2, <2>3, Facts, Preserved
  <1>2. CASE ReturnBroken(t) \/ ReturnClosed(t)
    <2>1. /\ PcOK'
          /\ Cardinality(At("holds"))' = Cardinality(At("holds")) - 1
          /\ Cardinality(At("holds")) > 0
          /\ At("woken")' = At("woken") /\ At("waiting")' = At("waiting")
      BY <1>2, Facts, Moves DEF ReturnBroken, ReturnClosed
    <2> QED
      BY <1>2, <2>1, Facts, Preserved DEF ReturnBroken, ReturnClosed
  <1> QED
    BY <1>1, <1>2 DEF Return

LEMMA CloseOK ==
    ASSUME PInv, Close \/ CloseNotify
    PROVE  PInv'
  <1>1. CASE Close
    <2>1. PcOK' /\ \A p : At(p)' = At(p)
      BY <1>1, Facts DEF Close, At, PcOK
    <2> QED
      BY <1>1, <2>1, Facts, Preserved DEF Close
  <1>2. CASE CloseNotify
    <2>1. PcOK' /\ At("holds")' = At("holds") /\ At("waiting")' = {}
      BY <1>2, Facts DEF CloseNotify, At, PcOK
    <2> QED
      BY <1>2, <2>1, Facts, Preserved DEF CloseNotify
  <1> QED
    BY <1>1, <1>2

LEMMA NextPInv == PInv /\ [Next]_vars => PInv'
  <1> SUFFICES ASSUME PInv, [Next]_vars PROVE PInv'
    OBVIOUS
  <1>1. CASE UNCHANGED vars \/ Quiet
    BY <1>1 DEF Quiet, vars, PInv, PoolTypeOK, PoolConserves, EnoughWoken, At
  <1>2. ASSUME NEW t \in Threads, Get(t)
        PROVE  PInv'
    <2>1. CASE GetClosed(t)
      <3>1. PcOK' /\ \A p : At(p)' = At(p)
        BY <2>1, Facts DEF GetClosed, At, PcOK
      <3> QED
        BY <2>1, <3>1, Facts, CallOK, Preserved DEF GetClosed
    <2>2. CASE GetNow(t)
      BY <2>2, CallOK, TakeOK DEF GetNow
    <2>3. CASE GetWait(t)
      BY <2>3, CallOK, SleepOK DEF GetWait
    <2> QED
      BY <1>2, <2>1, <2>2, <2>3 DEF Get
  <1>3. ASSUME NEW t \in Threads, SpuriousWakeup(t)
        PROVE  PInv'
    BY <1>3, SpuriousOK
  <1>4. ASSUME NEW t \in Threads, WokenTakes(t)
        PROVE  PInv'
    BY <1>4, Facts, TakeOK, ReturnNullOK DEF WokenTakes
  <1>5. ASSUME NEW t \in Threads, WokenWaits(t)
        PROVE  PInv'
    BY <1>5, Facts, SleepOK DEF WokenWaits
  <1>6. ASSUME NEW t \in Threads, Timeout(t)
        PROVE  PInv'
    BY <1>6, Facts, TakeOK, ReturnNullOK DEF Timeout
  <1>7. ASSUME NEW t \in Threads, Return(t)
        PROVE  PInv'
    BY <1>7, ReturnOK
  <1>8. CASE Close \/ CloseNotify
    BY <1>8, CloseOK
  <1> QED
    BY <1>1, <1>2, <1>3, <1>4, <1>5, <1>6, <1>7, <1>8 DEF Next

LEMMA PoolInvariant == Spec => []PInv
  BY InitPInv, NextPInv, PTL DEF Spec

\* active_count_ never goes below zero and every thread is where the program
\* can be.
THEOREM PoolTypes == Spec => []PoolTypeOK
  BY PoolInvariant, PTL DEF PInv

\* Connections are neither made up nor lent twice, whatever fails, and a pool
\* that is closed keeps none.
THEOREM ConnectionsConserved == Spec => []PoolConserves
  BY PoolInvariant, PTL DEF PInv

\* One notify_one per connection that comes back, and none when a thread takes
\* or gives up, leaves no thread asleep beside an idle connection.
THEOREM NobodySleepsBesideIdle == Spec => []NoSleeperBesideIdle
  <1>1. PInv => NoSleeperBesideIdle
    <2> SUFFICES ASSUME PInv, At("waiting") # {}, idle > 0
                 PROVE  At("woken") # {}
      BY DEF NoSleeperBesideIdle
    <2>1. Cardinality(At("woken")) > 0
      BY Facts
    <2> QED
      BY <2>1, FS_EmptySet
  <1> QED
    BY <1>1, PoolInvariant, PTL
=============================================================================
