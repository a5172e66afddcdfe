---------------------------- MODULE MCObjectTxn ----------------------------
(***************************************************************************)
(* Instances of ObjectTxn for TLC.                                         *)
(***************************************************************************)
EXTENDS ObjectTxn, TLC

\* Every key has an index entry of its own.
OwnSlot == [k \in Keys |-> k]

\* Requests, keys and contents are interchangeable.
Symmetry == Permutations(Requests) \cup Permutations(Keys) \cup Permutations(Content)

=============================================================================
