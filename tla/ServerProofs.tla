---------------------------- MODULE ServerProofs ----------------------------
(***************************************************************************)
(* The server's threads, for any number of I/O threads and connections:    *)
(* the types, that no wakeup of a loop is lost, that a loop implements the *)
(* queue of Executor, and that a closed connection stays closed.           *)
(***************************************************************************)
EXTENDS Server, FiniteSetTheorems, TLAPS

(***************************************************************************)
(* Types.  io_loops_ is not empty once Start has seen all loops ready,     *)
(* which OnNewConnection needs to find a loop.                             *)
(***************************************************************************)

LoopsKnown == main = "serving" => ioLoops # << >>

TInv == ServerTypeOK /\ LoopsKnown

LEMMA InitTInv == Init => TInv
  BY DEF Init, LoopInit, TInv, ServerTypeOK, LoopTypeOK, LoopsKnown, Points

\* GetNextLoop indexes io_loops_ within its bounds.
LEMMA NextLoopIsLoop ==
    ASSUME TInv, main = "serving"
    PROVE  GetNextLoop \in Loops
  <1>1. Len(ioLoops) \in Nat \ {0}
    BY DEF TInv, ServerTypeOK, LoopsKnown
  <1>2. (nextLoop % Len(ioLoops)) + 1 \in 1..Len(ioLoops)
    BY <1>1 DEF TInv, ServerTypeOK
  <1> QED
    BY <1>2 DEF GetNextLoop, TInv, ServerTypeOK

\* The loop's own steps change the loop's variables only.
LEMMA LoopStepType ==
    ASSUME TInv, NEW l \in Loops, LoopStep(l), UNCHANGED serverVars
    PROVE  TInv'
  <1> USE DEF TInv, ServerTypeOK, LoopTypeOK, LoopsKnown, serverVars, At, Points
  <1>1. CASE EnterLoop(l)
    BY <1>1 DEF EnterLoop
  <1>2. CASE CheckQuit(l)
    BY <1>2 DEF CheckQuit
  <1>3. CASE WaitNotified(l)
    BY <1>3 DEF WaitNotified
  <1>4. CASE WaitOther(l)
    BY <1>4 DEF WaitOther
  <1>5. CASE HandleNotify(l)
    BY <1>5 DEF HandleNotify
  <1>6. CASE SwapPending(l)
    <2>1. /\ running' \in [Loops -> Seq(Functors)]
          /\ pending' \in [Loops -> Seq(Functors)]
      BY <1>6 DEF SwapPending
    <2> QED
      BY <1>6, <2>1 DEF SwapPending
  <1>7. CASE EndPending(l)
    BY <1>7 DEF EndPending
  <1>8. CASE DestroyLoop(l)
    BY <1>8 DEF DestroyLoop
  <1> QED
    BY <1>1, <1>2, <1>3, <1>4, <1>5, <1>6, <1>7, <1>8 DEF LoopStep

\* A functor of the server keeps the type of the loops' variables.
LEMMA PushType ==
    ASSUME LoopTypeOK, NEW l, NEW f \in Functors, Push(l, f), UNCHANGED pc
    PROVE  LoopTypeOK'
  <1>1. CASE l \in Loops
    <2>1. Append(pending[l], f) \in Seq(Functors)
      BY <1>1 DEF LoopTypeOK
    <2> QED
      BY <1>1, <2>1 DEF Push, LoopTypeOK, Points
  <1>2. CASE l \notin Loops
    BY <1>2 DEF Push, LoopTypeOK, Points
  <1> QED
    BY <1>1, <1>2

LEMMA RunFunctorType ==
    ASSUME LoopTypeOK, NEW l \in Loops, RunFunctor(l)
    PROVE  LoopTypeOK'
  BY DEF RunFunctor, LoopTypeOK, Points

LEMMA ConnFunctor ==
    ASSUME NEW c \in Conns
    PROVE  <<"start", c>> \in Functors /\ <<"close", c>> \in Functors
  BY ServerAssumption DEF ServerFunctors

LEMMA IOStepType ==
    ASSUME TInv, NEW l \in Loops, IOStep(l)
    PROVE  TInv'
  <1>1. CASE Register(l)
    <2>1. LoopTypeOK'
      BY <1>1 DEF Register, At, TInv, ServerTypeOK, LoopTypeOK, Points
    <2>2. ioLoops' \in Seq(Loops) /\ ioLoops' # << >>
      BY <1>1 DEF Register, TInv, ServerTypeOK
    <2> QED
      BY <1>1, <2>1, <2>2 DEF Register, TInv, ServerTypeOK, LoopsKnown
  <1>2. CASE LoopStep(l) /\ UNCHANGED serverVars
    BY <1>2, LoopStepType
  <1>3. ASSUME NEW c \in Conns, RunStart(l, c)
        PROVE  TInv'
    <2>1. LoopTypeOK'
      BY <1>3, RunFunctorType DEF RunStart, TInv, ServerTypeOK
    <2> QED
      BY <1>3, <2>1 DEF RunStart, TInv, ServerTypeOK, LoopsKnown
  <1>4. ASSUME NEW c \in Conns, RunClose(l, c)
        PROVE  TInv'
    <2>1. LoopTypeOK'
      BY <1>4, RunFunctorType DEF RunClose, TInv, ServerTypeOK
    <2> QED
      BY <1>4, <2>1 DEF RunClose, HandleClose, TInv, ServerTypeOK, LoopsKnown
  <1>5. ASSUME NEW c \in Conns, PeerCloses(l, c)
        PROVE  TInv'
    BY <1>5 DEF PeerCloses, HandleClose, loopVars, TInv, ServerTypeOK,
                LoopTypeOK, LoopsKnown
  <1>6. ASSUME NEW c \in Conns, HandlerForceCloses(l, c)
        PROVE  TInv'
    <2>1. LoopTypeOK'
      BY <1>6, PushType, ConnFunctor
      DEF HandlerForceCloses, QueueFromHandler, TInv, ServerTypeOK
    <2> QED
      BY <1>6, <2>1
      DEF HandlerForceCloses, serverVars, TInv, ServerTypeOK, LoopsKnown
  <1> QED
    BY <1>1, <1>2, <1>3, <1>4, <1>5, <1>6 DEF IOStep

LEMMA MainStepType ==
    ASSUME TInv, MainStep
    PROVE  TInv'
  <1> USE DEF TInv, ServerTypeOK, LoopsKnown
  <1>1. CASE LoopsReady
    <2>1. Cardinality(Loops) # 0
      BY ServerAssumption, FS_EmptySet
    <2>2. ioLoops # << >>
      BY <1>1, <2>1 DEF LoopsReady
    <2> QED
      BY <1>1, <2>2 DEF LoopsReady, loopVars, LoopTypeOK
  <1>2. ASSUME NEW c \in Conns, OnNewConnection(c)
        PROVE  TInv'
    <2>1. GetNextLoop \in Loops
      BY <1>2, NextLoopIsLoop DEF OnNewConnection, Accepts
    <2>2. LoopTypeOK'
      BY <1>2, PushType, ConnFunctor DEF OnNewConnection, Accepts, QueueFromOther
    <2>3. nextLoop' \in Nat
      <3>1. Len(ioLoops) \in Nat \ {0}
        BY <1>2 DEF OnNewConnection, Accepts
      <3> QED
        BY <1>2, <3>1 DEF OnNewConnection, Accepts
    <2> QED
      BY <1>2, <2>1, <2>2, <2>3 DEF OnNewConnection, Accepts
  <1>3. ASSUME NEW c \in Conns, StopForceClose(c)
        PROVE  TInv'
    <2>1. LoopTypeOK'
      BY <1>3, PushType, ConnFunctor DEF StopForceClose, QueueFromOther
    <2> QED
      BY <1>3, <2>1 DEF StopForceClose
  <1>4. CASE Wakeup
    BY <1>4 DEF Wakeup, Notify, LoopTypeOK
  <1>5. CASE WakeupDestroyed
    BY <1>5 DEF WakeupDestroyed, loopVars, LoopTypeOK
  <1>6. CASE Stop
    BY <1>6 DEF Stop, loopVars, LoopTypeOK
  <1>7. CASE StopClear
    BY <1>7 DEF StopClear, loopVars, LoopTypeOK
  <1>8. ASSUME NEW l \in Loops, StopQuit(l)
        PROVE  TInv'
    BY <1>8 DEF StopQuit, SetQuit, LoopTypeOK
  <1>9. CASE StopJoin
    BY <1>9 DEF StopJoin, loopVars, LoopTypeOK
  <1> QED
    BY <1>1, <1>2, <1>3, <1>4, <1>5, <1>6, <1>7, <1>8, <1>9 DEF MainStep

LEMMA NextTInv == TInv /\ [Next]_vars => TInv'
  <1> SUFFICES ASSUME TInv, [Next]_vars PROVE TInv'
    OBVIOUS
  <1>1. CASE UNCHANGED vars
    BY <1>1 DEF vars, loopVars, serverVars, TInv, ServerTypeOK, LoopTypeOK, LoopsKnown
  <1>2. CASE Next
    <2>1. CASE Ended
      BY <1>1, <2>1 DEF Ended, vars, loopVars, serverVars, TInv, ServerTypeOK,
                        LoopTypeOK, LoopsKnown
    <2> QED
      BY <1>2, <2>1, IOStepType, MainStepType DEF Next
  <1> QED
    BY <1>1, <1>2

\* Every variable of the server keeps its type; in particular a connection that
\* is in connections_ is neither unaccepted nor closed, and a loop that work is
\* handed to exists.
THEOREM ServerTypes == Spec => []ServerTypeOK
  <1>1. Spec => []TInv
    BY InitTInv, NextTInv, PTL DEF Spec
  <1> QED
    BY <1>1, PTL DEF TInv

----------------------------------------------------------------------------
(***************************************************************************)
(* No lost wakeup.  NoLostWakeup speaks of a loop in epoll_wait.  What     *)
(* makes it inductive is that the same holds for functors at the points    *)
(* that lead there without another look at the queue: from the swap in     *)
(* DoPendingFunctors, around Loop's while, into epoll_wait.                *)
(***************************************************************************)

PastSwap(l) == pc[l] \in {"created", "registered", "check", "wait", "run"}

WillWake(l) == efd[l] > 0 \/ owed = l

WakeInv ==
    \A l \in Loops :
        /\ PastSwap(l) /\ pending[l] # << >> => WillWake(l)
        /\ pc[l] = "wait" /\ quit[l] => WillWake(l)

LEMMA InitWakeInv == Init => WakeInv
  BY DEF Init, LoopInit, WakeInv, PastSwap, WillWake

LEMMA LoopStepWakeInv ==
    ASSUME TInv, WakeInv, NEW l \in Loops, LoopStep(l), UNCHANGED serverVars
    PROVE  WakeInv'
  <1> USE DEF TInv, ServerTypeOK, LoopTypeOK, serverVars, At, WakeInv,
              PastSwap, WillWake
  <1>1. CASE EnterLoop(l)
    BY <1>1 DEF EnterLoop
  <1>2. CASE CheckQuit(l)
    BY <1>2 DEF CheckQuit
  <1>3. CASE WaitNotified(l)
    BY <1>3 DEF WaitNotified
  <1>4. CASE WaitOther(l)
    BY <1>4 DEF WaitOther
  <1>5. CASE HandleNotify(l)
    BY <1>5 DEF HandleNotify
  <1>6. CASE SwapPending(l)
    BY <1>6 DEF SwapPending
  <1>7. CASE EndPending(l)
    BY <1>7 DEF EndPending
  <1>8. CASE DestroyLoop(l)
    BY <1>8 DEF DestroyLoop
  <1> QED
    BY <1>1, <1>2, <1>3, <1>4, <1>5, <1>6, <1>7, <1>8 DEF LoopStep

LEMMA IOStepWakeInv ==
    ASSUME TInv, WakeInv, NEW l \in Loops, IOStep(l)
    PROVE  WakeInv'
  <1> USE DEF TInv, ServerTypeOK, LoopTypeOK, WakeInv, PastSwap, WillWake
  <1>1. CASE Register(l)
    BY <1>1 DEF Register, At
  <1>2. CASE LoopStep(l) /\ UNCHANGED serverVars
    BY <1>2, LoopStepWakeInv
  <1>3. ASSUME NEW c \in Conns, RunStart(l, c) \/ RunClose(l, c)
        PROVE  WakeInv'
    BY <1>3 DEF RunStart, RunClose, RunFunctor
  <1>4. ASSUME NEW c \in Conns, PeerCloses(l, c)
        PROVE  WakeInv'
    BY <1>4 DEF PeerCloses, loopVars
  <1>5. ASSUME NEW c \in Conns, HandlerForceCloses(l, c)
        PROVE  WakeInv'
    \* The handler's own loop is between epoll_wait and the swap.
    BY <1>5 DEF HandlerForceCloses, QueueFromHandler, Push, Handling, serverVars
  <1> QED
    BY <1>1, <1>2, <1>3, <1>4, <1>5 DEF IOStep

LEMMA MainStepWakeInv ==
    ASSUME TInv, WakeInv, MainStep
    PROVE  WakeInv'
  <1> USE DEF TInv, ServerTypeOK, LoopTypeOK, WakeInv, PastSwap, WillWake
  <1>1. CASE LoopsReady \/ Stop \/ StopClear \/ StopJoin
    BY <1>1 DEF LoopsReady, Stop, StopClear, StopJoin, loopVars
  <1>2. ASSUME NEW c \in Conns, OnNewConnection(c)
        PROVE  WakeInv'
    <2>1. PICK h \in Loops : h = GetNextLoop
      BY <1>2, NextLoopIsLoop DEF OnNewConnection, Accepts
    <2>2. /\ owed = None /\ owed' = h
          /\ pending' = [pending EXCEPT ![h] = Append(@, <<"start", c>>)]
          /\ UNCHANGED <<pc, quit, efd>>
      BY <1>2, <2>1 DEF OnNewConnection, Accepts, QueueFromOther, Push
    <2> QED
      BY <2>1, <2>2, ServerAssumption
  <1>3. ASSUME NEW c \in Conns, StopForceClose(c)
        PROVE  WakeInv'
    <2>1. /\ owed = None /\ owed' = home[c]
          /\ pending' = [pending EXCEPT ![home[c]] = Append(@, <<"close", c>>)]
          /\ UNCHANGED <<pc, quit, efd>>
      BY <1>3 DEF StopForceClose, QueueFromOther, Push
    <2> QED
      BY <2>1, ServerAssumption
  <1>4. CASE Wakeup
    <2>1. owed \in Loops /\ owed' = None
      BY <1>4 DEF Wakeup
    <2>2. /\ efd' = [efd EXCEPT ![owed] = @ + 1]
          /\ UNCHANGED <<pc, quit, pending>>
      BY <1>4 DEF Wakeup, Notify
    <2> QED
      BY <2>1, <2>2
  <1>5. CASE WakeupDestroyed
    BY <1>5 DEF WakeupDestroyed, loopVars
  <1>6. ASSUME NEW l \in Loops, StopQuit(l)
        PROVE  WakeInv'
    BY <1>6, ServerAssumption DEF StopQuit, SetQuit
  <1> QED
    BY <1>1, <1>2, <1>3, <1>4, <1>5, <1>6 DEF MainStep

LEMMA NextWakeInv == TInv /\ WakeInv /\ [Next]_vars => WakeInv'
  <1> SUFFICES ASSUME TInv, WakeInv, [Next]_vars PROVE WakeInv'
    OBVIOUS
  <1>1. CASE UNCHANGED vars
    BY <1>1 DEF vars, loopVars, serverVars, WakeInv, PastSwap, WillWake
  <1>2. CASE Ended
    BY <1>2 DEF Ended, vars, loopVars, serverVars, WakeInv, PastSwap, WillWake
  <1> QED
    BY <1>1, <1>2, IOStepWakeInv, MainStepWakeInv DEF Next

\* Whatever the number of threads that queue functors and the order in which a
\* loop reads its eventfd, swaps its queue and looks at quit_, a loop in
\* epoll_wait with something to do has its eventfd ready or is about to be
\* notified.
THEOREM NoWakeupIsLost == Spec => []NoLostWakeup
  <1>1. WakeInv => NoLostWakeup
    BY DEF WakeInv, NoLostWakeup, PastSwap, WillWake
  <1>2. Spec => [](TInv /\ WakeInv)
    BY InitTInv, NextTInv, InitWakeInv, NextWakeInv, PTL DEF Spec
  <1> QED
    BY <1>1, <1>2, PTL

----------------------------------------------------------------------------
(***************************************************************************)
(* A loop implements Executor.  Two facts about reachable states are       *)
(* needed: the swapped-out vector is empty outside of DoPendingFunctors,   *)
(* and no loop ends before Stop comes to its calls of Quit, so that the    *)
(* main thread never hands a functor to a loop that is gone.               *)
(***************************************************************************)

MainHandsOver == main \in {"starting", "serving", "closing"}

ExecInv ==
    /\ \A l \in Loops : running[l] # << >> => pc[l] = "run"
    /\ MainHandsOver =>
          \A l \in Loops : ~quit[l] /\ pc[l] \notin {"exit", "destroyed"}

LEMMA InitExecInv == Init => ExecInv
  BY DEF Init, LoopInit, ExecInv, MainHandsOver

LEMMA LoopStepExecInv ==
    ASSUME TInv, ExecInv, NEW l \in Loops, LoopStep(l), UNCHANGED serverVars
    PROVE  ExecInv'
  <1> USE DEF TInv, ServerTypeOK, LoopTypeOK, serverVars, At, ExecInv, MainHandsOver
  <1>1. CASE EnterLoop(l)
    BY <1>1 DEF EnterLoop
  <1>2. CASE CheckQuit(l)
    BY <1>2 DEF CheckQuit
  <1>3. CASE WaitNotified(l)
    BY <1>3 DEF WaitNotified
  <1>4. CASE WaitOther(l)
    BY <1>4 DEF WaitOther
  <1>5. CASE HandleNotify(l)
    BY <1>5 DEF HandleNotify
  <1>6. CASE SwapPending(l)
    BY <1>6 DEF SwapPending
  <1>7. CASE EndPending(l)
    BY <1>7 DEF EndPending
  <1>8. CASE DestroyLoop(l)
    BY <1>8 DEF DestroyLoop
  <1> QED
    BY <1>1, <1>2, <1>3, <1>4, <1>5, <1>6, <1>7, <1>8 DEF LoopStep

LEMMA NextExecInv == TInv /\ ExecInv /\ [Next]_vars => ExecInv'
  <1> SUFFICES ASSUME TInv, ExecInv, [Next]_vars PROVE ExecInv'
    OBVIOUS
  <1> USE DEF TInv, ServerTypeOK, LoopTypeOK, ExecInv, MainHandsOver
  <1>1. CASE UNCHANGED vars
    BY <1>1 DEF vars, loopVars, serverVars
  <1>2. CASE Ended
    BY <1>2 DEF Ended, vars, loopVars, serverVars
  <1>3. ASSUME NEW l \in Loops, IOStep(l)
        PROVE  ExecInv'
    <2>1. CASE Register(l)
      BY <2>1 DEF Register, At
    <2>2. CASE LoopStep(l) /\ UNCHANGED serverVars
      BY <2>2, LoopStepExecInv
    <2>3. ASSUME NEW c \in Conns, RunStart(l, c) \/ RunClose(l, c)
          PROVE  ExecInv'
      BY <2>3 DEF RunStart, RunClose, RunFunctor
    <2>4. ASSUME NEW c \in Conns, PeerCloses(l, c)
          PROVE  ExecInv'
      BY <2>4 DEF PeerCloses, loopVars
    <2>5. ASSUME NEW c \in Conns, HandlerForceCloses(l, c)
          PROVE  ExecInv'
      BY <2>5 DEF HandlerForceCloses, QueueFromHandler, Push, serverVars
    <2> QED
      BY <1>3, <2>1, <2>2, <2>3, <2>4, <2>5 DEF IOStep
  <1>4. CASE MainStep
    <2>1. CASE LoopsReady \/ Stop \/ StopClear \/ StopJoin \/ WakeupDestroyed
      BY <2>1 DEF LoopsReady, Stop, StopClear, StopJoin, WakeupDestroyed, loopVars
    <2>2. ASSUME NEW c \in Conns, OnNewConnection(c) \/ StopForceClose(c)
          PROVE  ExecInv'
      BY <2>2 DEF OnNewConnection, Accepts, StopForceClose, QueueFromOther, Push
    <2>3. CASE Wakeup
      BY <2>3 DEF Wakeup, Notify
    <2>4. ASSUME NEW l \in Loops, StopQuit(l)
          PROVE  ExecInv'
      BY <2>4 DEF StopQuit, SetQuit
    <2> QED
      BY <1>4, <2>1, <2>2, <2>3, <2>4 DEF MainStep
  <1> QED
    BY <1>1, <1>2, <1>3, <1>4 DEF Next

\* The mapping: what is handed over and not yet run, and which loops are gone.
HandedOver == [l \in Loops |-> running[l] \o pending[l]]
Gone == [l \in Loops |-> pc[l] = "destroyed"]

LEMMA ConcatAppend ==
    ASSUME NEW S, NEW s \in Seq(S), NEW u \in Seq(S), NEW f \in S
    PROVE  s \o Append(u, f) = Append(s \o u, f)
  OBVIOUS

LEMMA ConcatTail ==
    ASSUME NEW S, NEW s \in Seq(S), NEW u \in Seq(S), s # << >>
    PROVE  s \o u # << >> /\ Tail(s) \o u = Tail(s \o u)
  OBVIOUS

LEMMA ConcatEmpty ==
    ASSUME NEW S, NEW s \in Seq(S)
    PROVE  << >> \o s = s /\ s \o << >> = s
  OBVIOUS

\* A push is a Submit.
LEMMA PushSubmits ==
    ASSUME TInv, NEW l \in Loops, NEW f \in Functors, Push(l, f), UNCHANGED pc,
           pc[l] # "destroyed"
    PROVE  Exec!Submit(l)
  <1> USE DEF TInv, ServerTypeOK, LoopTypeOK
  <1>1. running'[l] \o pending'[l] = Append(running[l] \o pending[l], f)
    BY ConcatAppend DEF Push
  <1>2. HandedOver' = [HandedOver EXCEPT ![l] = Append(@, f)]
    BY <1>1 DEF Push, HandedOver
  <1>3. Gone' = Gone
    BY DEF Gone
  <1> QED
    BY <1>2, <1>3 DEF Exec!Submit, HandedOver, Gone

\* Running a functor is a RunFirst.
LEMMA RunRunsFirst ==
    ASSUME TInv, NEW l \in Loops, RunFunctor(l)
    PROVE  Exec!RunFirst(l)
  <1> USE DEF TInv, ServerTypeOK, LoopTypeOK
  <1>1. /\ running[l] \o pending[l] # << >>
        /\ running'[l] \o pending'[l] = Tail(running[l] \o pending[l])
    BY ConcatTail DEF RunFunctor
  <1>2. HandedOver' = [HandedOver EXCEPT ![l] = Tail(@)]
    BY <1>1 DEF RunFunctor, HandedOver
  <1>3. Gone' = Gone
    BY DEF Gone, RunFunctor
  <1>4. ~Gone[l] /\ HandedOver[l] # << >>
    BY <1>1 DEF Gone, HandedOver, RunFunctor
  <1> QED
    BY <1>2, <1>3, <1>4 DEF Exec!RunFirst, HandedOver, Gone

\* The other steps of a loop change nothing, its destruction shuts it down.
LEMMA LoopStepImplements ==
    ASSUME TInv, ExecInv, NEW l \in Loops, LoopStep(l)
    PROVE  [Exec!Next]_(Exec!vars)
  <1> USE DEF TInv, ServerTypeOK, LoopTypeOK, At
  <1>1. CASE SwapPending(l)
    <2>1. running[l] = << >>
      BY <1>1 DEF SwapPending, ExecInv
    <2>2. running'[l] \o pending'[l] = running[l] \o pending[l]
      BY <1>1, <2>1, ConcatEmpty DEF SwapPending
    <2>3. HandedOver' = HandedOver
      BY <1>1, <2>2 DEF SwapPending, HandedOver
    <2>4. Gone' = Gone
      BY <1>1 DEF SwapPending, Gone
    <2> QED
      BY <2>3, <2>4 DEF Exec!vars, HandedOver, Gone
  <1>2. CASE DestroyLoop(l)
    <2>1. running[l] = << >>
      BY <1>2 DEF DestroyLoop, ExecInv
    <2>2. running'[l] \o pending'[l] = << >>
      BY <1>2, <2>1, ConcatEmpty DEF DestroyLoop
    <2>3. HandedOver' = [HandedOver EXCEPT ![l] = << >>]
      BY <1>2, <2>2 DEF DestroyLoop, HandedOver
    <2>4. ~Gone[l] /\ Gone' = [Gone EXCEPT ![l] = TRUE]
      BY <1>2 DEF DestroyLoop, Gone
    <2>5. Exec!ShutDown(l)
      BY <2>3, <2>4 DEF Exec!ShutDown, HandedOver, Gone
    <2> QED
      BY <2>5 DEF Exec!Next
  <1>3. CASE \/ EnterLoop(l) \/ CheckQuit(l) \/ WaitNotified(l)
             \/ WaitOther(l) \/ HandleNotify(l) \/ EndPending(l)
    <2>1. UNCHANGED <<running, pending>>
      BY <1>3 DEF EnterLoop, CheckQuit, WaitNotified, WaitOther, HandleNotify,
                  EndPending
    <2>2. Gone' = Gone
      BY <1>3 DEF EnterLoop, CheckQuit, WaitNotified, WaitOther, HandleNotify,
                  EndPending, Gone
    <2> QED
      BY <2>1, <2>2 DEF Exec!vars, Gone
  <1> QED
    BY <1>1, <1>2, <1>3 DEF LoopStep

LEMMA NextImplements ==
    TInv /\ ExecInv /\ [Next]_vars => [Exec!Next]_(Exec!vars)
  <1> SUFFICES ASSUME TInv, ExecInv, [Next]_vars
               PROVE  [Exec!Next]_(Exec!vars)
    OBVIOUS
  <1> USE DEF TInv, ServerTypeOK, LoopTypeOK
  <1>1. CASE UNCHANGED loopVars
    BY <1>1 DEF loopVars, Exec!vars
  <1>2. CASE UNCHANGED vars \/ Ended
    BY <1>1, <1>2 DEF vars, Ended
  <1>3. ASSUME NEW l \in Loops, IOStep(l)
        PROVE  [Exec!Next]_(Exec!vars)
    <2>1. CASE Register(l)
      <3>1. Gone' = Gone
        BY <2>1 DEF Register, At, Gone
      <3> QED
        BY <2>1, <3>1 DEF Register, Exec!vars, Gone
    <2>2. CASE LoopStep(l)
      BY <2>2, LoopStepImplements
    <2>3. ASSUME NEW c \in Conns, RunStart(l, c) \/ RunClose(l, c)
          PROVE  [Exec!Next]_(Exec!vars)
      BY <2>3, RunRunsFirst DEF RunStart, RunClose, Exec!Next
    <2>4. ASSUME NEW c \in Conns, PeerCloses(l, c)
          PROVE  [Exec!Next]_(Exec!vars)
      BY <1>1, <2>4 DEF PeerCloses
    <2>5. ASSUME NEW c \in Conns, HandlerForceCloses(l, c)
          PROVE  [Exec!Next]_(Exec!vars)
      <3>1. Push(l, <<"close", c>>) /\ UNCHANGED pc /\ pc[l] # "destroyed"
        BY <2>5 DEF HandlerForceCloses, QueueFromHandler, Handling
      <3> QED
        BY <3>1, ConnFunctor, PushSubmits DEF Exec!Next
    <2> QED
      BY <1>3, <2>1, <2>2, <2>3, <2>4, <2>5 DEF IOStep
  <1>4. CASE MainStep
    <2>1. CASE LoopsReady \/ Stop \/ StopClear \/ StopJoin \/ WakeupDestroyed
      BY <1>1, <2>1 DEF LoopsReady, Stop, StopClear, StopJoin, WakeupDestroyed
    <2>2. ASSUME NEW c \in Conns, OnNewConnection(c)
          PROVE  [Exec!Next]_(Exec!vars)
      <3>1. PICK h \in Loops : h = GetNextLoop
        BY <2>2, NextLoopIsLoop DEF OnNewConnection, Accepts
      <3>2. Push(h, <<"start", c>>) /\ UNCHANGED pc
        BY <2>2, <3>1 DEF OnNewConnection, Accepts, QueueFromOther
      <3>3. pc[h] # "destroyed"
        BY <2>2 DEF OnNewConnection, Accepts, ExecInv, MainHandsOver
      <3> QED
        BY <3>2, <3>3, ConnFunctor, PushSubmits DEF Exec!Next
    <2>3. ASSUME NEW c \in Conns, StopForceClose(c)
          PROVE  [Exec!Next]_(Exec!vars)
      <3>1. Push(home[c], <<"close", c>>) /\ UNCHANGED pc
        BY <2>3 DEF StopForceClose, QueueFromOther
      <3>2. CASE home[c] \in Loops
        <4>1. pc[home[c]] # "destroyed"
          BY <2>3, <3>2 DEF StopForceClose, ExecInv, MainHandsOver
        <4> QED
          BY <3>1, <3>2, <4>1, ConnFunctor, PushSubmits DEF Exec!Next
      <3>3. CASE home[c] \notin Loops
        <4>1. UNCHANGED <<running, pending>>
          BY <3>1, <3>3 DEF Push
        <4> QED
          BY <3>1, <4>1 DEF Exec!vars
      <3> QED
        BY <3>2, <3>3
    <2>4. CASE Wakeup
      BY <2>4 DEF Wakeup, Notify, Exec!vars
    <2>5. ASSUME NEW l \in Loops, StopQuit(l)
          PROVE  [Exec!Next]_(Exec!vars)
      BY <2>5 DEF StopQuit, SetQuit, Exec!vars
    <2> QED
      BY <1>4, <2>1, <2>2, <2>3, <2>4, <2>5 DEF MainStep
  <1> QED
    BY <1>2, <1>3, <1>4 DEF Next

LEMMA InitImplements == Init => Exec!Init
  <1> SUFFICES ASSUME Init PROVE Exec!Init
    OBVIOUS
  <1>0. << >> \o << >> = << >>
    <2>1. << >> \in Seq(Functors)
      OBVIOUS
    <2> QED
      BY <2>1, ConcatEmpty
  <1>1. \A l \in Loops : running[l] \o pending[l] = << >>
    BY <1>0 DEF Init, LoopInit
  <1> QED
    BY <1>1 DEF Init, LoopInit, Exec!Init

\* To those who hand functors to it, a loop that swaps its queue out, and has
\* it pushed to meanwhile by any number of threads, is a queue from which
\* functors are run once each, in order.
THEOREM LoopsImplementExecutor == Spec => ImplementsExecutor
  <1>1. Spec => [](TInv /\ ExecInv)
    BY InitTInv, NextTInv, InitExecInv, NextExecInv, PTL DEF Spec
  <1> QED
    BY <1>1, InitImplements, NextImplements, PTL
    DEF Spec, ImplementsExecutor, Exec!Spec

----------------------------------------------------------------------------
(***************************************************************************)
(* A closed connection stays closed.  The functor of Start opens the       *)
(* connection whatever its state, so what has to be shown is that it never *)
(* runs after one that closed it.  The invariant speaks of the queue of    *)
(* the refinement, the functors handed over and not yet run: a Start that  *)
(* still waits is of a connection nothing has happened to, it waits in the *)
(* connection's own loop, and no functor of the same connection is in      *)
(* front of it.                                                            *)
(***************************************************************************)

StartsAreNew(l) ==
    \A c \in Conns : \A i \in 1 .. Len(HandedOver[l]) :
        HandedOver[l][i] = <<"start", c>> => conn[c] = "new" /\ home[c] = l

ClosesAreKnown(l) ==
    \A c \in Conns : \A i \in 1 .. Len(HandedOver[l]) :
        HandedOver[l][i] = <<"close", c>> => conn[c] # "none" /\ home[c] = l

NothingBeforeStart(l) ==
    \A c \in Conns : \A j \in 1 .. Len(HandedOver[l]) :
        HandedOver[l][j] = <<"start", c>> =>
            \A i \in 1 .. j - 1 : HandedOver[l][i] \notin {<<"start", c>>, <<"close", c>>}

QueueOrder(l) == StartsAreNew(l) /\ ClosesAreKnown(l) /\ NothingBeforeStart(l)

OrderInv ==
    /\ \A l \in Loops : QueueOrder(l)
    /\ \A c \in Conns : conn[c] # "none" => home[c] \in Loops
    /\ main = "closing" => \A c \in Conns \cap todo : conn[c] \in {"new", "open"}

LEMMA HandedOverType ==
    ASSUME TInv
    PROVE  HandedOver \in [Loops -> Seq(Functors)]
  BY DEF TInv, ServerTypeOK, LoopTypeOK, HandedOver

LEMMA InitOrderInv == Init => OrderInv
  <1> SUFFICES ASSUME Init PROVE OrderInv
    OBVIOUS
  <1>1. << >> \o << >> = << >>
    <2>1. << >> \in Seq(Functors)
      OBVIOUS
    <2> QED
      BY <2>1, ConcatEmpty
  <1>2. \A l \in Loops : HandedOver[l] = << >>
    BY <1>1 DEF Init, LoopInit, HandedOver
  <1>3. ASSUME NEW l \in Loops PROVE QueueOrder(l)
    <2>1. HandedOver[l] = << >> /\ Len(HandedOver[l]) = 0
      BY <1>2
    <2> QED
      BY <2>1 DEF QueueOrder, StartsAreNew, ClosesAreKnown, NothingBeforeStart
  <1> QED
    BY <1>3 DEF Init, OrderInv

\* A queue that is kept, has its first functor run or is dropped stays in order,
\* when the connections whose Start still waits are left alone.
LEMMA ShorterQueueOrder ==
    ASSUME TInv, NEW l \in Loops, QueueOrder(l),
           \/ HandedOver'[l] = HandedOver[l]
           \/ HandedOver[l] # << >> /\ HandedOver'[l] = Tail(HandedOver[l])
           \/ HandedOver'[l] = << >>,
           \A c \in Conns : conn[c] # "none" => conn'[c] # "none" /\ home'[c] = home[c],
           \A c \in Conns : \A i \in 1 .. Len(HandedOver'[l]) :
               HandedOver'[l][i] = <<"start", c>> => conn'[c] = conn[c]
    PROVE  QueueOrder(l)'
  <1>0. HandedOver[l] \in Seq(Functors)
    BY HandedOverType
  <1>1. PICK d \in {0, 1} :
            /\ Len(HandedOver'[l]) + d <= Len(HandedOver[l])
            /\ Len(HandedOver'[l]) \in Nat
            /\ \A i \in 1 .. Len(HandedOver'[l]) :
                   HandedOver'[l][i] = HandedOver[l][i + d]
    <2>1. CASE HandedOver'[l] = HandedOver[l]
      BY <1>0, <2>1
    <2>2. CASE HandedOver[l] # << >> /\ HandedOver'[l] = Tail(HandedOver[l])
      BY <1>0, <2>2
    <2>3. CASE HandedOver'[l] = << >>
      <3>1. Len(HandedOver'[l]) = 0
        BY <2>3
      <3> QED
        BY <1>0, <3>1
    <2> QED
      BY <2>1, <2>2, <2>3
  <1>2. \A i \in 1 .. Len(HandedOver'[l]) : i + d \in 1 .. Len(HandedOver[l])
    BY <1>0, <1>1
  <1>3. StartsAreNew(l)'
    BY <1>1, <1>2 DEF QueueOrder, StartsAreNew
  <1>4. ClosesAreKnown(l)'
    BY <1>1, <1>2 DEF QueueOrder, ClosesAreKnown
  <1>5. NothingBeforeStart(l)'
    <2>1. SUFFICES ASSUME NEW c \in Conns, NEW j \in 1 .. Len(HandedOver'[l]),
                          HandedOver'[l][j] = <<"start", c>>,
                          NEW i \in 1 .. j - 1
                   PROVE  HandedOver'[l][i] \notin {<<"start", c>>, <<"close", c>>}
      BY DEF NothingBeforeStart
    <2>2. /\ j + d \in 1 .. Len(HandedOver[l])
          /\ i + d \in 1 .. (j + d) - 1
          /\ i \in 1 .. Len(HandedOver'[l])
      BY <1>0, <1>1, <1>2
    <2>3. HandedOver[l][j + d] = <<"start", c>> /\ HandedOver'[l][i] = HandedOver[l][i + d]
      BY <1>1, <2>1, <2>2
    <2> QED
      BY <2>2, <2>3 DEF QueueOrder, NothingBeforeStart
  <1> QED
    BY <1>3, <1>4, <1>5 DEF QueueOrder

\* A functor pushed behind the others: a Start of a connection just accepted, or
\* a ForceClose of one that was accepted before.
LEMMA LongerQueueOrder ==
    ASSUME TInv, NEW l \in Loops, QueueOrder(l), NEW x \in Conns,
           \/ /\ HandedOver'[l] = Append(HandedOver[l], <<"start", x>>)
              /\ conn[x] = "none" /\ conn'[x] = "new"
           \/ /\ HandedOver'[l] = Append(HandedOver[l], <<"close", x>>)
              /\ conn[x] # "none" /\ conn'[x] = conn[x],
           home'[x] = l,
           \A c \in Conns \ {x} : conn'[c] = conn[c] /\ home'[c] = home[c]
    PROVE  QueueOrder(l)'
  <1> DEFINE n == Len(HandedOver[l])
  <1>0. HandedOver[l] \in Seq(Functors) /\ n \in Nat
    BY HandedOverType
  <1>1. /\ Len(HandedOver'[l]) = n + 1
        /\ \A i \in 1 .. n : HandedOver'[l][i] = HandedOver[l][i]
        /\ HandedOver'[l][n + 1] \in {<<"start", x>>, <<"close", x>>}
    <2>1. PICK f \in {<<"start", x>>, <<"close", x>>} :
              HandedOver'[l] = Append(HandedOver[l], f)
      OBVIOUS
    <2>2. f \in Functors
      BY ConnFunctor
    <2> QED
      BY <1>0, <2>1, <2>2
  <1>2. HandedOver'[l][n + 1] = <<"start", x>> => conn[x] = "none" /\ conn'[x] = "new"
    BY <1>0
  <1>3. HandedOver'[l][n + 1] = <<"close", x>> => conn[x] # "none" /\ conn'[x] = conn[x]
    BY <1>0
  <1>4. \A i \in 1 .. n : conn[x] = "none" =>
            HandedOver[l][i] \notin {<<"start", x>>, <<"close", x>>}
    BY DEF QueueOrder, StartsAreNew, ClosesAreKnown
  <1>5. \A i \in 1 .. n + 1 : i \in 1 .. n \/ i = n + 1
    BY <1>0
  <1> HIDE DEF n
  <1>6. StartsAreNew(l)'
    <2>1. SUFFICES ASSUME NEW c \in Conns, NEW i \in 1 .. n + 1,
                          HandedOver'[l][i] = <<"start", c>>
                   PROVE  conn'[c] = "new" /\ home'[c] = l
      BY <1>1 DEF StartsAreNew
    <2>2. CASE i = n + 1
      BY <1>1, <1>2, <2>1, <2>2
    <2>3. CASE i \in 1 .. n
      BY <1>1, <1>2, <1>3, <1>4, <2>1, <2>3 DEF QueueOrder, StartsAreNew, n
    <2> QED
      BY <1>5, <2>2, <2>3
  <1>7. ClosesAreKnown(l)'
    <2>1. SUFFICES ASSUME NEW c \in Conns, NEW i \in 1 .. n + 1,
                          HandedOver'[l][i] = <<"close", c>>
                   PROVE  conn'[c] # "none" /\ home'[c] = l
      BY <1>1 DEF ClosesAreKnown
    <2>2. CASE i = n + 1
      BY <1>1, <1>3, <2>1, <2>2
    <2>3. CASE i \in 1 .. n
      BY <1>1, <1>2, <1>3, <1>4, <2>1, <2>3 DEF QueueOrder, ClosesAreKnown, n
    <2> QED
      BY <1>5, <2>2, <2>3
  <1>8. NothingBeforeStart(l)'
    <2>1. SUFFICES ASSUME NEW c \in Conns, NEW j \in 1 .. n + 1,
                          HandedOver'[l][j] = <<"start", c>>, NEW i \in 1 .. j - 1
                   PROVE  HandedOver'[l][i] \notin {<<"start", c>>, <<"close", c>>}
      BY <1>1 DEF NothingBeforeStart
    <2>2. i \in 1 .. n /\ HandedOver'[l][i] = HandedOver[l][i]
      BY <1>0, <1>1 DEF n
    <2>3. CASE j = n + 1
      <3>1. c = x /\ conn[x] = "none"
        BY <1>1, <1>2, <2>1, <2>3
      <3> QED
        BY <1>4, <2>2, <3>1
    <2>4. CASE j \in 1 .. n
      BY <1>1, <2>1, <2>2, <2>4 DEF QueueOrder, NothingBeforeStart, n
    <2> QED
      BY <1>5, <2>3, <2>4
  <1> QED
    BY <1>6, <1>7, <1>8 DEF QueueOrder

\* A step that leaves connections and the queue alone, or only drops a queue.
LEMMA QuietOrder ==
    ASSUME TInv, OrderInv, UNCHANGED <<conn, home>>,
           \A l \in Loops : HandedOver'[l] \in {HandedOver[l], << >>},
           main' = "closing" => main = "closing" /\ todo' = todo
    PROVE  OrderInv'
  <1>1. ASSUME NEW l \in Loops PROVE QueueOrder(l)'
    BY ShorterQueueOrder DEF OrderInv
  <1> QED
    BY <1>1 DEF OrderInv

\* Running the first functor of a loop.
LEMMA RunTakesFirst ==
    ASSUME TInv, NEW l \in Loops, RunFunctor(l)
    PROVE  /\ HandedOver[l] # << >> /\ HandedOver'[l] = Tail(HandedOver[l])
           /\ HandedOver[l][1] = Head(running[l]) /\ 1 \in 1 .. Len(HandedOver[l])
           /\ \A k \in Loops \ {l} : HandedOver'[k] = HandedOver[k]
  <1> USE DEF TInv, ServerTypeOK, LoopTypeOK
  <1>1. HandedOver[l] # << >> /\ HandedOver'[l] = Tail(HandedOver[l])
    BY ConcatTail DEF RunFunctor, HandedOver
  <1>2. HandedOver[l][1] = Head(running[l])
    BY DEF RunFunctor, HandedOver
  <1>3. 1 \in 1 .. Len(HandedOver[l])
    BY <1>1, HandedOverType
  <1> QED
    BY <1>1, <1>2, <1>3 DEF RunFunctor, HandedOver

\* A push puts a functor behind those of its loop and leaves the others alone.
LEMMA PushAppends ==
    ASSUME TInv, NEW l \in Loops, NEW f \in Functors, Push(l, f)
    PROVE  /\ HandedOver'[l] = Append(HandedOver[l], f)
           /\ \A k \in Loops \ {l} : HandedOver'[k] = HandedOver[k]
  <1> USE DEF TInv, ServerTypeOK, LoopTypeOK
  <1>1. running'[l] \o pending'[l] = Append(running[l] \o pending[l], f)
    BY ConcatAppend DEF Push
  <1> QED
    BY <1>1 DEF Push, HandedOver

\* What the order says of the functor that is run.
LEMMA FirstFunctor ==
    ASSUME TInv, OrderInv, NEW l \in Loops, NEW c \in Conns, RunFunctor(l)
    PROVE  /\ Head(running[l]) = <<"start", c>> => conn[c] = "new" /\ home[c] = l
           /\ Head(running[l]) = <<"close", c>> => conn[c] # "none" /\ home[c] = l
  <1>1. 1 \in 1 .. Len(HandedOver[l]) /\ HandedOver[l][1] = Head(running[l])
    BY RunTakesFirst
  <1>2. StartsAreNew(l) /\ ClosesAreKnown(l)
    BY DEF OrderInv, QueueOrder
  <1> QED
    BY <1>1, <1>2 DEF StartsAreNew, ClosesAreKnown

\* After a functor of c, the first of its queue, has run, no Start of c is left.
LEMMA NoStartAfterRun ==
    ASSUME TInv, OrderInv, NEW l \in Loops, NEW c \in Conns, RunFunctor(l),
           Head(running[l]) \in {<<"start", c>>, <<"close", c>>}
    PROVE  \A k \in Loops : \A i \in 1 .. Len(HandedOver'[k]) :
               HandedOver'[k][i] # <<"start", c>>
  <1>0. HandedOver \in [Loops -> Seq(Functors)]
    BY HandedOverType
  <1>1. home[c] = l
    BY FirstFunctor
  <1>2. SUFFICES ASSUME NEW k \in Loops, NEW i \in 1 .. Len(HandedOver'[k]),
                        HandedOver'[k][i] = <<"start", c>>
                 PROVE  FALSE
    OBVIOUS
  <1>3. CASE k = l
    <2>1. /\ HandedOver[l] \in Seq(Functors) /\ HandedOver[l] # << >>
          /\ HandedOver'[l] = Tail(HandedOver[l])
      BY <1>0, RunTakesFirst
    <2>2. i \in 1 .. Len(Tail(HandedOver[l])) /\ Tail(HandedOver[l])[i] = <<"start", c>>
      BY <1>2, <1>3, <2>1
    <2>3. /\ i + 1 \in 1 .. Len(HandedOver[l])
          /\ HandedOver[l][i + 1] = <<"start", c>>
          /\ 1 \in 1 .. (i + 1) - 1
      BY <2>1, <2>2
    <2>4. HandedOver[l][1] \in {<<"start", c>>, <<"close", c>>}
      BY RunTakesFirst
    <2> QED
      BY <2>3, <2>4 DEF OrderInv, QueueOrder, NothingBeforeStart
  <1>4. CASE k # l
    <2>1. i \in 1 .. Len(HandedOver[k]) /\ HandedOver[k][i] = <<"start", c>>
      BY <1>2, <1>4, RunTakesFirst
    <2> QED
      BY <1>1, <1>4, <2>1 DEF OrderInv, QueueOrder, StartsAreNew
  <1> QED
    BY <1>3, <1>4

LEMMA IOStepOrder ==
    ASSUME TInv, ExecInv, OrderInv, NEW l \in Loops, IOStep(l)
    PROVE  OrderInv'
  <1> USE DEF TInv, ServerTypeOK, LoopTypeOK
  <1>1. CASE Register(l)
    BY <1>1, QuietOrder DEF Register, HandedOver
  <1>2. CASE LoopStep(l) /\ UNCHANGED serverVars
    <2>1. \A k \in Loops : HandedOver'[k] \in {HandedOver[k], << >>}
      <3>1. CASE SwapPending(l)
        <4>1. running[l] = << >>
          BY <3>1 DEF SwapPending, At, ExecInv
        <4>2. running'[l] \o pending'[l] = running[l] \o pending[l]
          BY <3>1, <4>1, ConcatEmpty DEF SwapPending
        <4> QED
          BY <3>1, <4>2 DEF SwapPending, HandedOver
      <3>2. CASE DestroyLoop(l)
        <4>1. running[l] = << >>
          BY <3>2 DEF DestroyLoop, At, ExecInv
        <4>2. running'[l] \o pending'[l] = << >>
          BY <3>2, <4>1, ConcatEmpty DEF DestroyLoop
        <4> QED
          BY <3>2, <4>2 DEF DestroyLoop, HandedOver
      <3>3. CASE UNCHANGED <<running, pending>>
        BY <3>3 DEF HandedOver
      <3> QED
        BY <1>2, <3>1, <3>2, <3>3
        DEF LoopStep, EnterLoop, CheckQuit, WaitNotified, WaitOther, HandleNotify,
            EndPending
    <2> QED
      BY <1>2, <2>1, QuietOrder DEF serverVars
  <1>3. ASSUME NEW c \in Conns, RunStart(l, c) \/ RunClose(l, c)
        PROVE  OrderInv'
    <2>1. /\ RunFunctor(l) /\ Head(running[l]) \in {<<"start", c>>, <<"close", c>>}
          /\ conn[c] # "none"
          /\ conn' \in {conn, [conn EXCEPT ![c] = "open"], [conn EXCEPT ![c] = "closed"]}
          /\ UNCHANGED <<home, main, todo>>
          /\ main # "closing" \/ conn' \in {conn, [conn EXCEPT ![c] = "open"]}
      <3>1. RunFunctor(l) /\ Head(running[l]) \in {<<"start", c>>, <<"close", c>>}
        BY <1>3 DEF RunStart, RunClose
      <3>2. conn[c] # "none"
        BY <3>1, FirstFunctor
      <3> QED
        BY <1>3, <3>1, <3>2 DEF RunStart, RunClose, HandleClose, MutexFree
    <2>2. ASSUME NEW k \in Loops PROVE QueueOrder(k)'
      <3>1. \/ HandedOver'[k] = HandedOver[k]
            \/ HandedOver[k] # << >> /\ HandedOver'[k] = Tail(HandedOver[k])
        BY <2>1, RunTakesFirst
      <3>2. \A x \in Conns : \A i \in 1 .. Len(HandedOver'[k]) :
                HandedOver'[k][i] = <<"start", x>> => conn'[x] = conn[x]
        <4>1. \A i \in 1 .. Len(HandedOver'[k]) : HandedOver'[k][i] # <<"start", c>>
          BY <2>1, NoStartAfterRun
        <4>2. \A x \in Conns : x # c => conn'[x] = conn[x]
          BY <2>1
        <4>3. SUFFICES ASSUME NEW x \in Conns, NEW i \in 1 .. Len(HandedOver'[k]),
                              HandedOver'[k][i] = <<"start", x>>
                       PROVE  conn'[x] = conn[x]
          OBVIOUS
        <4>4. x # c
          BY <4>1, <4>3
        <4> QED
          BY <4>2, <4>4
      <3>3. \A x \in Conns : conn[x] # "none" => conn'[x] # "none" /\ home'[x] = home[x]
        BY <2>1
      <3>4. QueueOrder(k)
        BY DEF OrderInv
      <3> QED
        BY <3>1, <3>2, <3>3, <3>4, ShorterQueueOrder
    <2> QED
      BY <2>1, <2>2 DEF OrderInv
  <1>4. ASSUME NEW c \in Conns, PeerCloses(l, c)
        PROVE  OrderInv'
    <2>1. /\ HandedOver' = HandedOver /\ conn[c] = "open"
          /\ conn' = [conn EXCEPT ![c] = "closed"]
          /\ main # "closing" /\ UNCHANGED <<home, main, todo>>
      BY <1>4 DEF PeerCloses, HandleClose, MutexFree, loopVars, HandedOver
    <2>2. ASSUME NEW k \in Loops PROVE QueueOrder(k)'
      <3>1. \A x \in Conns : \A i \in 1 .. Len(HandedOver'[k]) :
                HandedOver'[k][i] = <<"start", x>> => conn'[x] = conn[x]
        <4>1. StartsAreNew(k)
          BY DEF OrderInv, QueueOrder
        <4>2. \A x \in Conns : conn[x] = "new" => conn'[x] = conn[x]
          BY <2>1
        <4> QED
          BY <2>1, <4>1, <4>2 DEF StartsAreNew
      <3>2. \A x \in Conns : conn[x] # "none" => conn'[x] # "none" /\ home'[x] = home[x]
        BY <2>1
      <3>3. QueueOrder(k)
        BY DEF OrderInv
      <3> QED
        BY <2>1, <3>1, <3>2, <3>3, ShorterQueueOrder
    <2> QED
      BY <2>1, <2>2 DEF OrderInv
  <1>5. ASSUME NEW c \in Conns, HandlerForceCloses(l, c)
        PROVE  OrderInv'
    <2>1. /\ Push(l, <<"close", c>>) /\ conn[c] = "open" /\ home[c] = l
          /\ UNCHANGED <<conn, home, main, todo>>
      BY <1>5 DEF HandlerForceCloses, QueueFromHandler, serverVars
    <2>2. ASSUME NEW k \in Loops PROVE QueueOrder(k)'
      <3>1. QueueOrder(k)
        BY DEF OrderInv
      <3>2. CASE k = l
        BY <2>1, <3>1, <3>2, PushAppends, ConnFunctor, LongerQueueOrder
      <3>3. CASE k # l
        <4>1. HandedOver'[k] = HandedOver[k]
          BY <2>1, <3>3, PushAppends, ConnFunctor
        <4> QED
          BY <2>1, <3>1, <4>1, ShorterQueueOrder
      <3> QED
        BY <3>2, <3>3
    <2> QED
      BY <2>1, <2>2 DEF OrderInv
  <1> QED
    BY <1>1, <1>2, <1>3, <1>4, <1>5 DEF IOStep

LEMMA MainStepOrder ==
    ASSUME TInv, OrderInv, MainStep
    PROVE  OrderInv'
  <1> USE DEF TInv, ServerTypeOK, LoopTypeOK
  <1>1. CASE LoopsReady \/ StopClear \/ StopJoin \/ WakeupDestroyed
    <2>1. HandedOver' = HandedOver
      BY <1>1 DEF LoopsReady, StopClear, StopJoin, WakeupDestroyed, loopVars, HandedOver
    <2> QED
      BY <1>1, <2>1, QuietOrder DEF LoopsReady, StopClear, StopJoin, WakeupDestroyed
  <1>2. CASE Wakeup
    BY <1>2, QuietOrder DEF Wakeup, Notify, HandedOver
  <1>3. ASSUME NEW l \in Loops, StopQuit(l)
        PROVE  OrderInv'
    BY <1>3, QuietOrder DEF StopQuit, SetQuit, HandedOver
  <1>4. CASE Stop
    \* connections_ holds no connection that was closed.
    <2>1. HandedOver' = HandedOver
      BY <1>4 DEF Stop, loopVars, HandedOver
    <2>2. ASSUME NEW k \in Loops PROVE QueueOrder(k)'
      BY <1>4, <2>1, ShorterQueueOrder DEF Stop, OrderInv
    <2> QED
      BY <1>4, <2>2 DEF Stop, OrderInv
  <1>5. ASSUME NEW c \in Conns, OnNewConnection(c)
        PROVE  OrderInv'
    <2>1. PICK h \in Loops : h = GetNextLoop
      BY <1>5, NextLoopIsLoop DEF OnNewConnection, Accepts
    <2>2. /\ Push(h, <<"start", c>>) /\ conn[c] = "none"
          /\ conn' = [conn EXCEPT ![c] = "new"] /\ home' = [home EXCEPT ![c] = h]
          /\ main = "serving" /\ UNCHANGED main
      BY <1>5, <2>1 DEF OnNewConnection, Accepts, QueueFromOther
    <2>3. ASSUME NEW k \in Loops PROVE QueueOrder(k)'
      <3>1. QueueOrder(k)
        BY DEF OrderInv
      <3>2. CASE k = h
        BY <2>2, <3>1, <3>2, PushAppends, ConnFunctor, LongerQueueOrder
      <3>3. CASE k # h
        <4>1. HandedOver'[k] = HandedOver[k]
          BY <2>2, <3>3, PushAppends, ConnFunctor
        <4>2. \A x \in Conns : \A i \in 1 .. Len(HandedOver'[k]) :
                  HandedOver'[k][i] = <<"start", x>> => conn'[x] = conn[x]
          BY <2>2, <3>1, <4>1 DEF QueueOrder, StartsAreNew
        <4>3. \A x \in Conns : conn[x] # "none" => conn'[x] # "none" /\ home'[x] = home[x]
          BY <2>2
        <4> QED
          BY <3>1, <4>1, <4>2, <4>3, ShorterQueueOrder
      <3> QED
        BY <3>2, <3>3
    <2> QED
      BY <2>2, <2>3 DEF OrderInv
  <1>6. ASSUME NEW c \in Conns, StopForceClose(c)
        PROVE  OrderInv'
    <2>1. /\ Push(home[c], <<"close", c>>) /\ conn[c] \in {"new", "open"}
          /\ home[c] \in Loops
          /\ UNCHANGED <<conn, home, main>> /\ todo' \subseteq todo
      BY <1>6 DEF StopForceClose, QueueFromOther, OrderInv
    <2>2. ASSUME NEW k \in Loops PROVE QueueOrder(k)'
      <3>1. QueueOrder(k)
        BY DEF OrderInv
      <3>2. CASE k = home[c]
        BY <2>1, <3>1, <3>2, PushAppends, ConnFunctor, LongerQueueOrder
      <3>3. CASE k # home[c]
        <4>1. HandedOver'[k] = HandedOver[k]
          BY <2>1, <3>3, PushAppends, ConnFunctor
        <4> QED
          BY <2>1, <3>1, <4>1, ShorterQueueOrder
      <3> QED
        BY <3>2, <3>3
    <2> QED
      BY <2>1, <2>2 DEF OrderInv
  <1> QED
    BY <1>1, <1>2, <1>3, <1>4, <1>5, <1>6 DEF MainStep

LEMMA NextOrder == TInv /\ ExecInv /\ OrderInv /\ [Next]_vars => OrderInv'
  <1> SUFFICES ASSUME TInv, ExecInv, OrderInv, [Next]_vars PROVE OrderInv'
    OBVIOUS
  <1>1. CASE UNCHANGED vars \/ Ended
    BY <1>1, QuietOrder DEF Ended, vars, loopVars, serverVars, HandedOver
  <1> QED
    BY <1>1, IOStepOrder, MainStepOrder DEF Next

\* No step opens a closed connection.
LEMMA NextKeepsClosed ==
    ASSUME TInv, OrderInv, [Next]_vars, NEW c \in Conns, conn[c] = "closed"
    PROVE  conn'[c] = "closed"
  <1> USE DEF TInv, ServerTypeOK, LoopTypeOK
  <1>1. ASSUME NEW l \in Loops, NEW x \in Conns, RunStart(l, x)
        PROVE  conn'[c] = "closed"
    <2>1. conn[x] = "new"
      BY <1>1, FirstFunctor DEF RunStart
    <2> QED
      BY <1>1, <2>1 DEF RunStart
  <1>2. ASSUME NEW l \in Loops, IOStep(l)
        PROVE  conn'[c] = "closed"
    BY <1>1, <1>2
    DEF IOStep, Register, serverVars, RunClose, PeerCloses, HandleClose,
        HandlerForceCloses
  <1>3. CASE MainStep
    BY <1>3 DEF MainStep, LoopsReady, OnNewConnection, Accepts, StopForceClose, Wakeup,
                WakeupDestroyed, Stop, StopClear, StopQuit, StopJoin
  <1> QED
    BY <1>2, <1>3 DEF Next, Ended, vars, serverVars

\* Whatever the number of loops and connections, and however the accepting
\* thread, Stop, the peers and the timers interleave: the functor of Start never
\* runs on a connection that was closed, so a closed connection stays closed.
THEOREM ClosedConnectionsStayClosed == Spec => ClosedStaysClosed
  <1>1. Spec => [](TInv /\ ExecInv /\ OrderInv)
    BY InitTInv, NextTInv, InitExecInv, NextExecInv, InitOrderInv, NextOrder, PTL DEF Spec
  <1>2. TInv /\ OrderInv /\ [Next]_vars
            => [\A c \in Conns : conn[c] = "closed" => conn'[c] = "closed"]_vars
    BY NextKeepsClosed
  <1> QED
    BY <1>1, <1>2, PTL DEF Spec, ClosedStaysClosed
=============================================================================
