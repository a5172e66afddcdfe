------------------------------- MODULE Server -------------------------------
(***************************************************************************)
(* The server's threads (src/src/server/server.cpp): the main thread       *)
(* starts the I/O threads, accepts connections and hands each to the loop  *)
(* of an I/O thread, and on SIGINT or SIGTERM closes the connections,      *)
(* makes the loops quit and joins the threads.  A connection is, here, its *)
(* life cycle; module HttpConnection has what happens on it.               *)
(*                                                                         *)
(* The signal handler runs Stop on the main thread.  It is modelled where  *)
(* the main thread is between two connections.                             *)
(***************************************************************************)
EXTENDS EventLoop, FiniteSets

CONSTANTS
    Conns,      \* the connections clients may open
    None        \* no loop

ServerFunctors == {"start", "close"} \X Conns

\* Start() waits until io_threads loops are ready: there is at least one and
\* they are finitely many.  What is queued are connections' functors.
ASSUME ServerAssumption ==
    /\ IsFiniteSet(Loops) /\ Loops # {}
    /\ Functors = ServerFunctors
    /\ None \notin Loops

VARIABLES
    conn,           \* [Conns -> "none", "new" (not started), "open", "closed"]
    home,           \* [Conns -> Loops or None]: the connection's loop_
    connections,    \* connections_, guarded by connections_mutex_
    ioLoops,        \* io_loops_: the loops in the order they registered
    nextLoop,       \* next_loop_index_, modulo the number of loops
    main,           \* where the main thread is
    owed,           \* the loop the main thread is about to Wakeup, or None
    todo            \* Stop: connections, then loops, its for statement still has

serverVars == <<conn, home, connections, ioLoops, nextLoop, main, owed, todo>>
vars == <<loopVars, serverVars>>

ServerTypeOK ==
    /\ LoopTypeOK
    /\ conn \in [Conns -> {"none", "new", "open", "closed"}]
    /\ home \in [Conns -> Loops \cup {None}]
    /\ connections \subseteq {c \in Conns : conn[c] \in {"new", "open"}}
    /\ ioLoops \in Seq(Loops)
    /\ nextLoop \in Nat
    /\ main \in {"starting", "serving", "closing", "quitting", "joining",
                 "stopped", "crashed"}
    /\ owed \in Loops \cup {None}
    /\ todo \subseteq (Conns \cup Loops)

Init ==
    /\ LoopInit
    /\ conn = [c \in Conns |-> "none"]
    /\ home = [c \in Conns |-> None]
    /\ connections = {}
    /\ ioLoops = << >>
    /\ nextLoop = 0
    /\ main = "starting"
    /\ owed = None
    /\ todo = {}

----------------------------------------------------------------------------
(***************************************************************************)
(* The I/O threads                                                         *)
(***************************************************************************)

\* The thread of l adds its loop to io_loops_ and counts it as ready.
Register(l) ==
    /\ At(l, "created", "registered")
    /\ ioLoops' = Append(ioLoops, l)
    /\ UNCHANGED <<quit, pending, running, efd>>
    /\ UNCHANGED <<conn, home, connections, nextLoop, main, owed, todo>>

\* Stop holds connections_mutex_ while it goes over the connections.
MutexFree == main # "closing"

\* Mutant: OnConnectionClose keeps the connection in connections_.
HandleCloseKeeps(c) ==
    \/ /\ conn[c] = "closed"
       /\ UNCHANGED <<conn, connections>>
    \/ /\ conn[c] # "closed"
       /\ MutexFree
       /\ conn' = [conn EXCEPT ![c] = "closed"]
       /\ UNCHANGED connections

\* HttpConnection::HandleClose and, through close_callback_,
\* Server::OnConnectionClose.  Nothing happens on a closed connection.
HandleClose(c) ==
    \/ /\ conn[c] = "closed"
       /\ UNCHANGED <<conn, connections>>
    \/ /\ conn[c] # "closed"
       /\ MutexFree
       /\ conn' = [conn EXCEPT ![c] = "closed"]
       /\ connections' = connections \ {c}

\* The functor of HttpConnection::Start: EnableReading, SetIdleTimeout.
RunStart(l, c) ==
    /\ RunFunctor(l)
    /\ Head(running[l]) = <<"start", c>>
    /\ conn' = [conn EXCEPT ![c] = "open"]
    /\ UNCHANGED <<home, connections, ioLoops, nextLoop, main, owed, todo>>

\* The functor of HttpConnection::ForceClose.
RunClose(l, c) ==
    /\ RunFunctor(l)
    /\ Head(running[l]) = <<"close", c>>
    /\ HandleClose(c)
    /\ UNCHANGED <<home, ioLoops, nextLoop, main, owed, todo>>

\* A handler of the connection closes it: end of file or an error.
PeerCloses(l, c) ==
    /\ Handling(l)
    /\ home[c] = l
    /\ conn[c] = "open"
    /\ HandleClose(c)
    /\ UNCHANGED loopVars
    /\ UNCHANGED <<home, ioLoops, nextLoop, main, owed, todo>>

IsQueued(f, l) == \E i \in 1 .. Len(pending[l]) : pending[l][i] = f

\* A handler calls ForceClose: the idle timer, or a failed upload.  (Bound:
\* not while one of its ForceClose functors waits to be swapped out.)
HandlerForceCloses(l, c) ==
    /\ home[c] = l
    /\ conn[c] = "open"
    /\ ~IsQueued(<<"close", c>>, l)
    /\ QueueFromHandler(l, <<"close", c>>)
    /\ UNCHANGED serverVars

----------------------------------------------------------------------------
(***************************************************************************)
(* The main thread: Start                                                  *)
(***************************************************************************)

\* All loops are ready: start the collector, listen, enter the main loop.
LoopsReady ==
    /\ main = "starting"
    /\ Len(ioLoops) = Cardinality(Loops)
    /\ main' = "serving"
    /\ UNCHANGED loopVars
    /\ UNCHANGED <<conn, home, connections, ioLoops, nextLoop, owed, todo>>

GetNextLoop == ioLoops[(nextLoop % Len(ioLoops)) + 1]

\* Acceptor::HandleRead accepts one connection after the other, and only on
\* the main thread.
Accepts(c) ==
    /\ main = "serving"
    /\ owed = None
    /\ conn[c] = "none"

\* A connection is accepted, put into connections_ and handed to a loop.
OnNewConnection(c) ==
    /\ Accepts(c)
    /\ conn' = [conn EXCEPT ![c] = "new"]
    /\ home' = [home EXCEPT ![c] = GetNextLoop]
    /\ nextLoop' = (nextLoop + 1) % Len(ioLoops)
    /\ connections' = connections \cup {c}
    /\ QueueFromOther(GetNextLoop, <<"start", c>>)
    /\ owed' = GetNextLoop
    /\ UNCHANGED <<ioLoops, main, todo>>

\* The Wakeup that ends QueueInLoop and Quit.
Wakeup ==
    /\ owed # None
    /\ main # "crashed"
    /\ pc[owed] # "destroyed"
    /\ Notify(owed)
    /\ owed' = None
    /\ UNCHANGED <<conn, home, connections, ioLoops, nextLoop, main, todo>>

\* The loop has seen quit_ and is gone before Quit calls Wakeup: Notify runs
\* on a deleted notifier, which does nothing or ends the process.
WakeupDestroyed ==
    /\ owed # None
    /\ main # "crashed"
    /\ pc[owed] = "destroyed"
    /\ owed' = None
    /\ main' \in {main, "crashed"}
    /\ UNCHANGED loopVars
    /\ UNCHANGED <<conn, home, connections, ioLoops, nextLoop, todo>>

----------------------------------------------------------------------------
(***************************************************************************)
(* The main thread: Stop                                                   *)
(***************************************************************************)

\* The acceptor and the collector are gone; connections_mutex_ is taken.
Stop ==
    /\ main = "serving"
    /\ owed = None
    /\ main' = "closing"
    /\ todo' = connections
    /\ UNCHANGED loopVars
    /\ UNCHANGED <<conn, home, connections, ioLoops, nextLoop, owed>>

StopForceClose(c) ==
    /\ main = "closing"
    /\ owed = None
    /\ c \in todo
    /\ todo' = todo \ {c}
    /\ QueueFromOther(home[c], <<"close", c>>)
    /\ owed' = home[c]
    /\ UNCHANGED <<conn, home, connections, ioLoops, nextLoop, main>>

\* connections_.clear(), and the mutex is released.
StopClear ==
    /\ main = "closing"
    /\ owed = None
    /\ todo = {}
    /\ connections' = {}
    /\ main' = "quitting"
    /\ todo' = Loops
    /\ UNCHANGED loopVars
    /\ UNCHANGED <<conn, home, ioLoops, nextLoop, owed>>

\* The next loop of io_loops_ is told to quit.
StopQuit(l) ==
    /\ main = "quitting"
    /\ owed = None
    /\ l = ioLoops[Len(ioLoops) - Cardinality(todo) + 1]
    /\ todo' = todo \ {l}
    /\ SetQuit(l)
    /\ owed' = l
    /\ main' = IF todo = {l} THEN "joining" ELSE main
    /\ UNCHANGED <<conn, home, connections, ioLoops, nextLoop>>

\* Every I/O thread has ended.
StopJoin ==
    /\ main = "joining"
    /\ owed = None
    /\ \A l \in Loops : pc[l] = "destroyed"
    /\ main' = "stopped"
    /\ ioLoops' = << >>
    /\ UNCHANGED loopVars
    /\ UNCHANGED <<conn, home, connections, nextLoop, owed, todo>>

----------------------------------------------------------------------------

IOStep(l) ==
    \/ Register(l)
    \/ LoopStep(l) /\ UNCHANGED serverVars
    \/ \E c \in Conns :
          \/ RunStart(l, c)
          \/ RunClose(l, c)
          \/ PeerCloses(l, c)
          \/ HandlerForceCloses(l, c)

MainStep ==
    \/ LoopsReady
    \/ \E c \in Conns : OnNewConnection(c) \/ StopForceClose(c)
    \/ Wakeup
    \/ WakeupDestroyed
    \/ Stop
    \/ StopClear
    \/ \E l \in Loops : StopQuit(l)
    \/ StopJoin

\* The process has ended.
Ended ==
    /\ main \in {"stopped", "crashed"}
    /\ UNCHANGED vars

Alive == main # "crashed"

Next ==
    \/ \E l \in Loops : Alive /\ IOStep(l)
    \/ MainStep
    \/ Ended

Spec == Init /\ [][Next]_vars

\* Steps an I/O thread takes without anything from outside.  epoll_wait is
\* left only because of the eventfd: the timer's tick every second, the
\* timeout of ten and the sockets are not counted on.
OwnSteps(l) ==
    /\ Alive
    /\ \/ Register(l)
       \/ /\ \/ EnterLoop(l) \/ CheckQuit(l) \/ WaitNotified(l) \/ HandleNotify(l)
             \/ SwapPending(l) \/ EndPending(l) \/ DestroyLoop(l)
          /\ UNCHANGED serverVars
       \/ \E c \in Conns : RunStart(l, c) \/ RunClose(l, c)

\* Threads are scheduled; clients need not connect and no signal need come.
MainOwnSteps ==
    \/ LoopsReady
    \/ \E c \in Conns : StopForceClose(c)
    \/ Wakeup
    \/ WakeupDestroyed
    \/ StopClear
    \/ \E l \in Loops : StopQuit(l)
    \/ StopJoin

FairSpec ==
    /\ Spec
    /\ \A l \in Loops : WF_vars(OwnSteps(l))
    /\ WF_vars(MainOwnSteps)

----------------------------------------------------------------------------
(***************************************************************************)
(* Properties                                                              *)
(***************************************************************************)

\* A loop that sleeps in epoll_wait although functors are queued for it or it
\* has been told to quit is about to be woken: the eventfd is ready, or the
\* thread that queued or called Quit has its Wakeup still to do.  The reset of
\* the eventfd in HandleRead and the swap in DoPendingFunctors never lose a
\* wakeup that came in between.
NoLostWakeup ==
    \A l \in Loops :
        pc[l] = "wait" /\ (pending[l] # << >> \/ quit[l])
            => efd[l] > 0 \/ owed = l

\* The functor of Start does not look at the connection's state: run after a
\* close it would watch the socket and arm the idle timer of a connection
\* nobody holds any more.  Functors of one loop keep their order, so a closed
\* connection is never opened again, whoever closed it.
ClosedStaysClosed ==
    [][\A c \in Conns : conn[c] = "closed" => conn'[c] = "closed"]_vars

\* To the callers of RunInLoop and QueueInLoop a loop is a queue from which
\* functors are run once each and in order, although DoPendingFunctors swaps
\* the queue out and others go on pushing; only a loop that has ended drops any.
Exec == INSTANCE Executor WITH
    queue <- [l \in Loops |-> running[l] \o pending[l]],
    shut <- [l \in Loops |-> pc[l] = "destroyed"]

ImplementsExecutor == Exec!Spec

Stopping == main \notin {"starting", "serving", "closing"}

\* A connection that was accepted is started and one that ForceClose was
\* called for is closed, even when no timer ticks and no socket is ready,
\* unless the loops are told to quit first.
QueuedFunctorTakesEffect ==
    \A c \in Conns :
        /\ conn[c] = "new" ~> (conn[c] # "new" \/ Stopping)
        /\ (\E l \in Loops : IsQueued(<<"close", c>>, l))
              ~> (conn[c] = "closed" \/ Stopping)

HasEnded == main \in {"stopped", "crashed"}

\* Stop comes to its end (all threads joined) when every I/O thread had
\* entered Loop() before it.
StopEnds ==
    (main = "closing" /\ \A l \in Loops : pc[l] \notin {"created", "registered"})
        ~> HasEnded

=============================================================================
