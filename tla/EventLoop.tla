----------------------------- MODULE EventLoop -----------------------------
(***************************************************************************)
(* The event loops of the I/O threads (src/src/net/epoll/event_loop.cpp)   *)
(* and the eventfd that wakes them (notifier.cpp).                         *)
(*                                                                         *)
(* A loop waits in epoll_wait, handles the events that are ready and then  *)
(* runs the functors other threads, or its own handlers, have queued.  The *)
(* module has the loop's own steps and the halves of QueueInLoop and Quit  *)
(* other threads execute: the change under the mutex, and Wakeup.          *)
(*                                                                         *)
(* A loop's thread is at one of these points:                              *)
(*   "created"    the thread runs, its EventLoop is not in io_loops_ yet   *)
(*   "registered" in io_loops_, Loop() not entered                         *)
(*   "check"      at the condition of Loop's while                         *)
(*   "wait"       in epoll_wait                                            *)
(*   "woken"      handling events, the eventfd's still among them          *)
(*   "dispatch"   handling events, the eventfd's handled or not ready      *)
(*   "run"        in DoPendingFunctors (calling_pending_functors_)         *)
(*   "exit"       Loop() has returned                                      *)
(*   "destroyed"  the EventLoop is destroyed, the thread has ended         *)
(***************************************************************************)
EXTENDS Naturals, Sequences

CONSTANTS
    Loops,      \* the I/O threads' loops
    Functors    \* what may be queued

VARIABLES
    pc,         \* [Loops -> points of the loop's thread]
    quit,       \* [Loops -> BOOLEAN]: quit_
    pending,    \* [Loops -> Seq(Functors)]: pending_functors_
    running,    \* [Loops -> Seq(Functors)]: the swapped-out vector, rest of it
    efd         \* [Loops -> Nat]: the counter of the notifier's eventfd

loopVars == <<pc, quit, pending, running, efd>>

Points == {"created", "registered", "check", "wait", "woken", "dispatch",
           "run", "exit", "destroyed"}

LoopTypeOK ==
    /\ pc \in [Loops -> Points]
    /\ quit \in [Loops -> BOOLEAN]
    /\ pending \in [Loops -> Seq(Functors)]
    /\ running \in [Loops -> Seq(Functors)]
    /\ efd \in [Loops -> Nat]

LoopInit ==
    /\ pc = [l \in Loops |-> "created"]
    /\ quit = [l \in Loops |-> FALSE]
    /\ pending = [l \in Loops |-> << >>]
    /\ running = [l \in Loops |-> << >>]
    /\ efd = [l \in Loops |-> 0]

At(l, from, to) ==
    /\ pc[l] = from
    /\ pc' = [pc EXCEPT ![l] = to]

Handling(l) == pc[l] \in {"woken", "dispatch"}

----------------------------------------------------------------------------
(***************************************************************************)
(* QueueInLoop, Wakeup and Quit                                            *)
(***************************************************************************)

\* Mutant: the functor is put in front.
PushFront(l, f) ==
    /\ pending' = [pending EXCEPT ![l] = <<f>> \o @]
    /\ UNCHANGED <<quit, running, efd>>

\* The push under mutex_.  pc is left to the caller.
Push(l, f) ==
    /\ pending' = [pending EXCEPT ![l] = Append(@, f)]
    /\ UNCHANGED <<quit, running, efd>>

\* QueueInLoop from a handler of the loop's own thread: neither on another
\* thread nor in DoPendingFunctors, so there is no Wakeup.
QueueFromHandler(l, f) ==
    /\ Handling(l)
    /\ Push(l, f)
    /\ UNCHANGED pc

\* QueueInLoop from another thread, which owes the loop a Wakeup after it.
QueueFromOther(l, f) ==
    /\ Push(l, f)
    /\ UNCHANGED pc

\* Quit from another thread, which owes the loop a Wakeup after it.
SetQuit(l) ==
    /\ quit' = [quit EXCEPT ![l] = TRUE]
    /\ UNCHANGED <<pc, pending, running, efd>>

\* Mutant: a zero is written, which does not make the eventfd readable.
NotifyZero(l) == UNCHANGED loopVars

\* Notifier::Notify: write(event_fd_, 1).
Notify(l) ==
    /\ efd' = [efd EXCEPT ![l] = @ + 1]
    /\ UNCHANGED <<pc, quit, pending, running>>

----------------------------------------------------------------------------
(***************************************************************************)
(* The loop's thread                                                       *)
(***************************************************************************)

\* Loop() is entered: quit_ = false.
EnterLoop(l) ==
    /\ At(l, "registered", "check")
    /\ quit' = [quit EXCEPT ![l] = FALSE]
    /\ UNCHANGED <<pending, running, efd>>

CheckQuit(l) ==
    /\ At(l, "check", IF quit[l] THEN "exit" ELSE "wait")
    /\ UNCHANGED <<quit, pending, running, efd>>

\* epoll_wait returns because of the eventfd.
WaitNotified(l) ==
    /\ efd[l] > 0
    /\ At(l, "wait", "woken")
    /\ UNCHANGED <<quit, pending, running, efd>>

\* epoll_wait returns for another reason (a timer tick, a socket, a signal,
\* the timeout) while the eventfd is not ready.
WaitOther(l) ==
    /\ efd[l] = 0
    /\ At(l, "wait", "dispatch")
    /\ UNCHANGED <<quit, pending, running, efd>>

\* Notifier::HandleRead resets the eventfd's counter.
HandleNotify(l) ==
    /\ At(l, "woken", "dispatch")
    /\ efd' = [efd EXCEPT ![l] = 0]
    /\ UNCHANGED <<quit, pending, running>>

\* Mutant: the queue is copied and not emptied.
CopyPending(l) ==
    /\ At(l, "dispatch", "run")
    /\ running' = [running EXCEPT ![l] = pending[l]]
    /\ UNCHANGED <<quit, pending, efd>>

\* DoPendingFunctors takes the whole queue.
SwapPending(l) ==
    /\ At(l, "dispatch", "run")
    /\ running' = [running EXCEPT ![l] = pending[l]]
    /\ pending' = [pending EXCEPT ![l] = << >>]
    /\ UNCHANGED <<quit, efd>>

\* One functor of the vector is run.  Its effect is the caller's.
RunFunctor(l) ==
    /\ pc[l] = "run"
    /\ running[l] # << >>
    /\ running' = [running EXCEPT ![l] = Tail(@)]
    /\ UNCHANGED <<pc, quit, pending, efd>>

\* Mutant: the eventfd is read after the functors have been run.
EndPendingReads(l) ==
    /\ running[l] = << >>
    /\ At(l, "run", "check")
    /\ efd' = [efd EXCEPT ![l] = 0]
    /\ UNCHANGED <<quit, pending, running>>

\* Mutant: the loop waits again without looking at quit_.
EndPendingWaits(l) ==
    /\ running[l] = << >>
    /\ At(l, "run", "wait")
    /\ UNCHANGED <<quit, pending, running, efd>>

EndPending(l) ==
    /\ running[l] = << >>
    /\ At(l, "run", "check")
    /\ UNCHANGED <<quit, pending, running, efd>>

\* ~EventLoop: the notifier goes, and with it what is still queued.
DestroyLoop(l) ==
    /\ At(l, "exit", "destroyed")
    /\ pending' = [pending EXCEPT ![l] = << >>]
    /\ UNCHANGED <<quit, running, efd>>

LoopStep(l) ==
    \/ EnterLoop(l)
    \/ CheckQuit(l)
    \/ WaitNotified(l)
    \/ WaitOther(l)
    \/ HandleNotify(l)
    \/ SwapPending(l)
    \/ EndPending(l)
    \/ DestroyLoop(l)

=============================================================================
