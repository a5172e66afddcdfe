----------------------------- MODULE MetaStore -----------------------------
(***************************************************************************)
(* The MySQL tables behind MetaStore and the transactions MetaStore runs   *)
(* on them, each as one committed step.  The tables are                    *)
(*                                                                         *)
(*   cas_blobs        blobs (the rows present) and refCount (their counts) *)
(*   objects          objKey, objCas: one row per entry of the unique      *)
(*                    index uk_bucket_key(bucket_id, object_key(255))      *)
(*   multipart_parts  partCas: one row per (upload_id, part_number)        *)
(*                                                                         *)
(* The unique index of `objects' covers a prefix of the key only, so rows  *)
(* are indexed by Slots and SlotOf gives the index entry of a key: keys    *)
(* that agree on their first 255 characters share a slot.  One bucket is   *)
(* modelled; a key is a (bucket_id, object_key) pair.                      *)
(***************************************************************************)
EXTENDS Naturals, FiniteSets

CONSTANTS
    Keys,       \* object keys
    Slots,      \* entries of the unique index uk_bucket_key
    SlotOf,     \* the index entry of each key
    Content,    \* CAS keys, i.e. SHA256 values of stored contents
    PartIds,    \* (upload_id, part_number) pairs
    None        \* no value: an absent row, an absent result

ASSUME TablesAssumption ==
    /\ IsFiniteSet(Slots)
    /\ IsFiniteSet(PartIds)
    /\ SlotOf \in [Keys -> Slots]
    /\ None \notin Content
    /\ None \notin Keys

VARIABLES
    blobs,      \* the cas_keys that have a row in cas_blobs
    refCount,   \* cas_blobs.ref_count (0 where there is no row)
    objKey,     \* objects.object_key of the row in each slot, or None
    objCas,     \* objects.cas_key of the row in each slot, or None
    partCas     \* multipart_parts.cas_key of each part row, or None

metaVars == <<blobs, refCount, objKey, objCas, partCas>>

ObjectRefs(c) == {s \in Slots : objCas[s] = c}
PartRefs(c) == {p \in PartIds : partCas[p] = c}

\* Rows whose foreign key points at the cas_blobs row of c.
References(c) == Cardinality(ObjectRefs(c)) + Cardinality(PartRefs(c))

(***************************************************************************)
(* Statements the transactions are made of.                                *)
(***************************************************************************)

\* Mutant: INSERT IGNORE, which leaves the count of an existing row alone.
InsertIgnore(count, c) == [count EXCEPT ![c] = IF @ = 0 THEN 1 ELSE @]

\* INSERT INTO cas_blobs ... ON DUPLICATE KEY UPDATE ref_count = ref_count + 1
Increment(count, c) == [count EXCEPT ![c] = @ + 1]

\* UPDATE cas_blobs SET ref_count = IF(ref_count>0, ref_count-1, 0)
Decrement(count, c) == [count EXCEPT ![c] = IF @ > 0 THEN @ - 1 ELSE 0]

\* SELECT cas_key FROM objects WHERE ... object_key=k: compares the whole key.
Found(k) == objKey[SlotOf[k]] = k

\* The unique index rejects an INSERT of k ("Duplicate entry").
Duplicate(k) == objKey[SlotOf[k]] # None

(***************************************************************************)
(* PutObjectWithRefCount.  The fast path inserts the count and the row in  *)
(* one transaction.  The slow path first reads the row FOR UPDATE: a row   *)
(* that is found stays locked until the commit, so the rest of the         *)
(* transaction is one step; a row that is not found locks nothing at READ  *)
(* COMMITTED, and the upsert applies later to whatever is there by then.   *)
(***************************************************************************)

\* Fast path: the key is new, nothing is replaced.
InsertObject(k, c) ==
    /\ ~Duplicate(k)
    /\ blobs' = blobs \cup {c}
    /\ refCount' = Increment(refCount, c)
    /\ objKey' = [objKey EXCEPT ![SlotOf[k]] = k]
    /\ objCas' = [objCas EXCEPT ![SlotOf[k]] = c]
    /\ UNCHANGED partCas

\* Slow path, old row found: one reference moves from the old content to c.
OverwriteObject(k, c) ==
    LET old == objCas[SlotOf[k]]
    IN  /\ Found(k)
        /\ blobs' = blobs \cup {c}
        /\ refCount' = IF old = c
                       THEN refCount
                       ELSE Decrement(Increment(refCount, c), old)
        /\ objCas' = [objCas EXCEPT ![SlotOf[k]] = c]
        /\ UNCHANGED <<objKey, partCas>>

\* Mutant: the count is read before it is decremented.
ReplacedCandidateTooEarly(k, c) ==
    LET old == objCas[SlotOf[k]]
    IN  IF old # c /\ refCount[old] = 0 THEN old ELSE None

\* The old content whose count reached 0, returned to be handed to the GC.
ReplacedCandidate(k, c) ==
    LET old == objCas[SlotOf[k]]
    IN  IF old # c /\ Decrement(refCount, old)[old] = 0 THEN old ELSE None

\* Slow path, old row not found when it was read: the upsert counts c and
\* overwrites the row now in the slot, whose content is not counted down and
\* whose object_key is kept (ON DUPLICATE KEY UPDATE does not assign it).
UpsertObject(k, c) ==
    /\ blobs' = blobs \cup {c}
    /\ refCount' = Increment(refCount, c)
    /\ objKey' = [objKey EXCEPT ![SlotOf[k]] = IF Duplicate(k) THEN @ ELSE k]
    /\ objCas' = [objCas EXCEPT ![SlotOf[k]] = c]
    /\ UNCHANGED partCas

\* DeleteObjectWithRefCount, row found.
RemoveObject(k) ==
    /\ Found(k)
    /\ refCount' = Decrement(refCount, objCas[SlotOf[k]])
    /\ objKey' = [objKey EXCEPT ![SlotOf[k]] = None]
    /\ objCas' = [objCas EXCEPT ![SlotOf[k]] = None]
    /\ UNCHANGED <<blobs, partCas>>

\* Mutant: the count is read before it is decremented.
RemovedCandidateTooEarly(k) ==
    LET old == objCas[SlotOf[k]]
    IN  IF refCount[old] = 0 THEN old ELSE None

\* The content of the deleted row, if its count reached 0.
RemovedCandidate(k) ==
    LET old == objCas[SlotOf[k]]
    IN  IF Decrement(refCount, old)[old] = 0 THEN old ELSE None

(***************************************************************************)
(* What the garbage collector asks of the tables.                          *)
(***************************************************************************)

\* Mutant: the count alone decides.
CanDeleteByCount(c) == c \in blobs /\ refCount[c] = 0

\* CanDeleteCasBlob: the row is there, its count is 0, no object and no part
\* refers to it.  The row is locked while the references are counted.
CanDeleteCasBlob(c) ==
    /\ c \in blobs
    /\ refCount[c] = 0
    /\ ObjectRefs(c) = {}
    /\ PartRefs(c) = {}

\* DELETE FROM cas_blobs: the foreign keys of objects and multipart_parts
\* refuse it while a row refers to c.
DeleteCasBlob(c) ==
    /\ ObjectRefs(c) = {} /\ PartRefs(c) = {}
    /\ blobs' = blobs \ {c}
    /\ refCount' = [refCount EXCEPT ![c] = 0]
    /\ UNCHANGED <<objKey, objCas, partCas>>

\* An `objects' row has all its columns, and is at the index entry of its key.
RowsWellFormed ==
    \A s \in Slots : /\ (objKey[s] = None) <=> (objCas[s] = None)
                     /\ objKey[s] # None => SlotOf[objKey[s]] = s

(***************************************************************************)
(* The tables of a server that has been running: any objects and parts,    *)
(* counted exactly.                                                        *)
(***************************************************************************)
MetaInit ==
    /\ objKey \in [Slots -> Keys \cup {None}]
    /\ objCas \in [Slots -> Content \cup {None}]
    /\ RowsWellFormed
    /\ partCas \in [PartIds -> Content \cup {None}]
    /\ refCount = [c \in Content |-> References(c)]
    /\ blobs = {c \in Content : References(c) > 0}

MetaTypeOK ==
    /\ blobs \subseteq Content
    /\ refCount \in [Content -> Nat]
    /\ objKey \in [Slots -> Keys \cup {None}]
    /\ objCas \in [Slots -> Content \cup {None}]
    /\ partCas \in [PartIds -> Content \cup {None}]
    /\ RowsWellFormed

\* ref_count is never too low: under every interleaving of overwrites, deletes
\* and collections, each content that rows of `objects' and `multipart_parts'
\* refer to has its cas_blobs row, with a count at least their number.  It is
\* what makes "the count reached 0" a reason to hand a content to the GC.
CountsCoverReferences ==
    \A c \in Content : /\ References(c) <= refCount[c]
                       /\ References(c) > 0 => c \in blobs

=============================================================================
