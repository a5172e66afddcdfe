--------------------------- MODULE MCObjectStore ---------------------------
(***************************************************************************)
(* Instances of ObjectStore for TLC.                                       *)
(***************************************************************************)
EXTENDS ObjectStore, TLC

\* Every key has an index entry of its own (keys of at most 255 characters).
OwnSlot == [k \in Keys |-> k]

\* Requests, keys (each its own slot) and contents are interchangeable.
Symmetry == Permutations(Requests) \cup Permutations(Keys) \cup Permutations(Content)

=============================================================================
