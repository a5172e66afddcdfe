---------------------------- MODULE MCTimerWheel ----------------------------
(***************************************************************************)
(* Instance of TimerWheel for TLC.                                         *)
(***************************************************************************)
EXTENDS TimerWheel, TLC

\* Which address the heap gives to a new entry makes no difference.
Addresses == Permutations(Pointers)

=============================================================================
