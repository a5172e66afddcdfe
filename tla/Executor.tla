------------------------------ MODULE Executor ------------------------------
(***************************************************************************)
(* What EventLoop::RunInLoop and QueueInLoop promise to the threads that   *)
(* call them: a loop has one queue; functors are run one at a time, each   *)
(* once, in the order in which they were handed over.  Only a loop that    *)
(* has been shut down drops what is left in its queue.                     *)
(***************************************************************************)
EXTENDS Sequences

CONSTANTS Loops, Functors

VARIABLES
    queue,      \* [Loops -> Seq(Functors)]: handed over, not yet run
    shut        \* [Loops -> BOOLEAN]: the loop has ended

vars == <<queue, shut>>

Init ==
    /\ queue = [l \in Loops |-> << >>]
    /\ shut = [l \in Loops |-> FALSE]

Submit(l) ==
    /\ ~shut[l]
    /\ \E f \in Functors : queue' = [queue EXCEPT ![l] = Append(@, f)]
    /\ UNCHANGED shut

RunFirst(l) ==
    /\ ~shut[l]
    /\ queue[l] # << >>
    /\ queue' = [queue EXCEPT ![l] = Tail(@)]
    /\ UNCHANGED shut

ShutDown(l) ==
    /\ ~shut[l]
    /\ shut' = [shut EXCEPT ![l] = TRUE]
    /\ queue' = [queue EXCEPT ![l] = << >>]

Next == \E l \in Loops : Submit(l) \/ RunFirst(l) \/ ShutDown(l)

Spec == Init /\ [][Next]_vars

=============================================================================
