----------------------------- MODULE MCMetadata -----------------------------
(***************************************************************************)
(* One bucket with two spellings of its name, and four keys: a and A are   *)
(* spellings of one key, ab is a longer key with the same entry in the     *)
(* unique index, and z has an entry of its own.                            *)
(***************************************************************************)
EXTENDS Metadata, TLC

CONSTANTS foo, Foo, a, A, ab, z, v1, v2, ik

OneFold == [n \in Names |-> 1]
WeightOf == (a :> 1) @@ (A :> 1) @@ (ab :> 2) @@ (z :> 3)
EntryOf == (a :> 1) @@ (A :> 1) @@ (ab :> 1) @@ (z :> 2)

\* The second content is put with an Idempotency-Key.
KeyOf == (v1 :> None) @@ (v2 :> ik)

\* The bucket's row, if there is one, is foo at first and the object's a, but its
\* entry in Redis is that of A.  Requests name the bucket and the object by one
\* spelling or the other; of z there is only the row, which listings come to
\* after a, A and ab.
Start == [names |-> {foo}, keys |-> {a, z}, entries |-> {A}]

Requested ==
    ({"createBucket", "getBucket", "deleteBucket"} \X {Foo} \X {a} \X {v1})
    \cup ({"listBuckets", "list"} \X {foo} \X {a} \X {v1})
    \cup ({"get"} \X {foo} \X {A, ab} \X {v1})
    \cup ({"delete"} \X {foo} \X {A} \X {v1})
    \cup ({"put"} \X {foo} \X {A, ab} \X {v1})
    \cup ({"put"} \X {foo} \X {a, ab} \X {v2})

Symmetric == Permutations(Threads)
=============================================================================
