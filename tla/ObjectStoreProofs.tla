------------------------- MODULE ObjectStoreProofs -------------------------
(***************************************************************************)
(* Proofs about ObjectStore for every number of keys, contents, parts and  *)
(* requests, every batch size, and every set of failures.                  *)
(***************************************************************************)
EXTENDS ObjectStore, FiniteSetTheorems, SequenceTheorems, TLAPS

\* References to a content are finitely many, so they can be counted.
LEMMA ReferencesNat ==
    ASSUME NEW c
    PROVE  /\ IsFiniteSet(ObjectRefs(c)) /\ Cardinality(ObjectRefs(c)) \in Nat
           /\ IsFiniteSet(PartRefs(c)) /\ Cardinality(PartRefs(c)) \in Nat
           /\ References(c) \in Nat
<1>1. /\ ObjectRefs(c) \in SUBSET Slots
      /\ PartRefs(c) \in SUBSET PartIds
  BY DEF ObjectRefs, PartRefs
<1>2. IsFiniteSet(ObjectRefs(c)) /\ IsFiniteSet(PartRefs(c))
  BY <1>1, FS_Subset, TablesAssumption
<1> QED
  BY <1>2, FS_CardinalityType DEF References

\* What a transaction does to the type of the tables.
LEMMA TablesTypeOK ==
    ASSUME MetaTypeOK,
           \/ \E k \in Keys, c \in Content : InsertObject(k, c)
           \/ \E k \in Keys, c \in Content : OverwriteObject(k, c)
           \/ \E k \in Keys, c \in Content : UpsertObject(k, c)
           \/ \E k \in Keys : RemoveObject(k)
           \/ \E c \in Content : DeleteCasBlob(c)
           \/ UNCHANGED metaVars
    PROVE  MetaTypeOK'
<1> USE TablesAssumption DEF MetaTypeOK, RowsWellFormed, Increment, Decrement
<1>1. CASE \E k \in Keys, c \in Content : InsertObject(k, c)
  BY <1>1 DEF InsertObject, Duplicate
<1>2. CASE \E k \in Keys, c \in Content : OverwriteObject(k, c)
  <2>1. PICK k \in Keys, c \in Content : OverwriteObject(k, c)
    BY <1>2
  <2>2. objCas[SlotOf[k]] \in Content
    BY <2>1 DEF OverwriteObject, Found
  <2> QED
    BY <2>1, <2>2 DEF OverwriteObject, Found
<1>3. CASE \E k \in Keys, c \in Content : UpsertObject(k, c)
  BY <1>3 DEF UpsertObject, Duplicate
<1>4. CASE \E k \in Keys : RemoveObject(k)
  <2>1. PICK k \in Keys : RemoveObject(k)
    BY <1>4
  <2>2. objCas[SlotOf[k]] \in Content
    BY <2>1 DEF RemoveObject, Found
  <2> QED
    BY <2>1, <2>2 DEF RemoveObject, Found
<1>5. CASE \E c \in Content : DeleteCasBlob(c)
  BY <1>5 DEF DeleteCasBlob
<1>6. CASE UNCHANGED metaVars
  BY <1>6 DEF metaVars
<1> QED
  BY <1>1, <1>2, <1>3, <1>4, <1>5, <1>6

\* The key the collector is at is a content.
LEMMA GCKeyIsContent ==
    ASSUME GCTypeOK, gc.pc # "wait"
    PROVE  GCKey \in Content
BY DEF GCTypeOK, CollectorOK, GCKey

\* Moving on to the next key of the batch keeps the collector well typed.
LEMMA GCNextKeyTypeOK ==
    ASSUME GCTypeOK, gc.pc # "wait", GCNextKey
    PROVE  CollectorOK'
<1>1. Tail(gc.batch) \in Seq(Content)
  BY DEF GCTypeOK, CollectorOK
<1> QED
  BY <1>1 DEF GCNextKey, GCPcs, CollectorOK

\* So does a jump within the loop body.
LEMMA GCGotoTypeOK ==
    ASSUME GCTypeOK, gc.pc # "wait",
           NEW pc \in GCPcs \ {"wait"}, NEW m \in BOOLEAN,
           m => pc = "recheck",
           \/ gc' = [gc EXCEPT !.pc = pc, !.moved = m]
           \/ GCGoto(pc) /\ (gc.moved => pc \in {"restore", "remove"})
    PROVE  CollectorOK'
BY DEF GCTypeOK, CollectorOK, GCGoto, GCPcs

\* Every step of the collector is well typed.
LEMMA CollectorTypeOK ==
    ASSUME TypeOK, CollectorStep
    PROVE  TypeOK'
<1> USE DEF TypeOK, CollectorStep
<1>a. ASSUME gc.pc # "wait"
      PROVE  /\ files' \in {files, files \ {GCKey}, files \cup {GCKey}} => files' \subseteq Content
             /\ stranded' \in {stranded, stranded \cup {GCKey}} => stranded' \subseteq Content
  BY <1>a, GCKeyIsContent DEF GCTypeOK
<1>1. CASE GCIdle
  BY <1>1 DEF GCIdle, gcVars, metaVars, GCTypeOK, CollectorOK, MetaTypeOK, RowsWellFormed
<1>2. CASE GCTakeBatch
  <2> DEFINE n == IF Len(pending) < BatchSize THEN Len(pending) ELSE BatchSize
  <2>1. /\ pending \in Seq(Content) /\ pending # <<>>
        /\ Len(pending) \in Nat \ {0}
    BY <1>2 DEF GCTakeBatch, GCTypeOK
  <2>2. n \in Nat \ {0} /\ n <= Len(pending)
    BY <2>1, CollectorAssumption
  <2>3. /\ SubSeq(pending, 1, n) \in Seq(Content)
        /\ SubSeq(pending, 1, n) # <<>>
        /\ SubSeq(pending, n + 1, Len(pending)) \in Seq(Content)
    <3>1. /\ \A i \in 1 .. n : pending[i] \in Content
          /\ \A i \in n + 1 .. Len(pending) : pending[i] \in Content
      BY <2>1, <2>2
    <3>2. /\ SubSeq(pending, 1, n) \in Seq(Content)
          /\ Len(SubSeq(pending, 1, n)) = n
      BY <2>2, <3>1, SubSeqProperties
    <3>3. SubSeq(pending, n + 1, Len(pending)) \in Seq(Content)
      BY <2>1, <2>2, <3>1, SubSeqProperties
    <3> QED
      BY <2>2, <3>2, <3>3
  <2>4. MetaTypeOK'
    BY <1>2, TablesTypeOK DEF GCTakeBatch
  <2> QED
    BY <1>2, <2>3, <2>4 DEF GCTakeBatch, GCTypeOK, CollectorOK, GCPcs
<1>3. CASE GCCheck \/ GCProbe \/ GCRecheck \/ GCRemove \/ GCCallback
  <2>1. MetaTypeOK'
    BY <1>3, TablesTypeOK DEF GCCheck, GCProbe, GCRecheck, GCRemove, GCCallback
  <2>2. CollectorOK'
    BY <1>3, GCNextKeyTypeOK, GCGotoTypeOK
       DEF GCCheck, GCProbe, GCRecheck, GCRemove, GCCallback, GCPcs, GCTypeOK, CollectorOK
  <2> QED
    BY <1>3, <2>1, <2>2 DEF GCCheck, GCProbe, GCRecheck, GCRemove, GCCallback, GCTypeOK
<1>4. CASE GCQuarantine \/ GCRestore \/ GCFileError
  <2>1. MetaTypeOK'
    BY <1>4, TablesTypeOK DEF GCQuarantine, GCRestore, GCFileError
  <2>2. CollectorOK'
    BY <1>4, GCNextKeyTypeOK, GCGotoTypeOK
       DEF GCQuarantine, GCRestore, GCFileError, GCPcs, GCTypeOK, CollectorOK
  <2>3. files' \subseteq Content /\ stranded' \subseteq Content
    BY <1>4, <1>a DEF GCQuarantine, GCRestore, GCFileError
  <2> QED
    BY <1>4, <2>1, <2>2, <2>3 DEF GCQuarantine, GCRestore, GCFileError, GCTypeOK
<1>5. CASE GCDeleteRow
  <2>1. MetaTypeOK'
    BY <1>5, TablesTypeOK, GCKeyIsContent DEF GCDeleteRow
  <2> QED
    BY <1>5, <2>1, GCNextKeyTypeOK DEF GCDeleteRow, GCTypeOK
<1>6. CASE GCDatabaseError
  <2>1. MetaTypeOK'
    BY <1>6, TablesTypeOK DEF GCDatabaseError
  <2>2. CollectorOK'
    BY <1>6, GCNextKeyTypeOK, GCGotoTypeOK DEF GCDatabaseError, GCPcs, GCTypeOK, CollectorOK
  <2> QED
    BY <1>6, <2>1, <2>2 DEF GCDatabaseError, GCTypeOK
<1> QED
  BY <1>1, <1>2, <1>3, <1>4, <1>5, <1>6 DEF GCStep

\* The end of a transaction leaves the request well typed.
LEMMA CommittedTypeOK ==
    ASSUME TypeOK, NEW r \in Requests, NEW cand \in Content \cup {None},
           Committed(r, cand) \/ Finish(r)
    PROVE  req' \in [Requests -> Request]
BY DEF TypeOK, Committed, Finish, Idle, Request

\* The candidates that transactions return are contents.
LEMMA CandidateType ==
    ASSUME MetaTypeOK, NEW k \in Keys, Found(k)
    PROVE  /\ objCas[SlotOf[k]] \in Content
           /\ \A c : ReplacedCandidate(k, c) \in Content \cup {None}
           /\ RemovedCandidate(k) \in Content \cup {None}
BY TablesAssumption DEF MetaTypeOK, RowsWellFormed, Found, ReplacedCandidate, RemovedCandidate

\* What the state of a request says about its fields.
LEMMA RequestFields ==
    ASSUME TypeOK, NEW r \in Requests
    PROVE  /\ req[r].pc \in PutPcs => req[r] \in [pc : PutPcs, key : Keys, cas : Content, attempt : 0 .. MaxAttempts]
           /\ req[r].pc = "delete" => req[r].key \in Keys
           /\ req[r].pc = "enqueue" => req[r].cas \in Content
BY DEF TypeOK, Request, Idle, PutPcs

\* Every step of a request is well typed.
LEMMA RequestTypeOK ==
    ASSUME TypeOK, NEW r \in Requests, RequestStep(r)
    PROVE  TypeOK'
<1>a. ASSUME req[r].pc \in PutPcs, NEW pc \in PutPcs, NEW a \in 0 .. MaxAttempts,
             Goto(r, pc) \/ req' = [req EXCEPT ![r].pc = pc, ![r].attempt = a]
      PROVE  req' \in [Requests -> Request]
  <2>1. req'[r] \in [pc : PutPcs, key : Keys, cas : Content, attempt : 0 .. MaxAttempts]
    BY <1>a, RequestFields DEF Goto, TypeOK
  <2> QED
    BY <1>a, <2>1 DEF Goto, TypeOK, Request
<1>b. ASSUME UNCHANGED gcVars  PROVE  GCTypeOK'
  BY <1>b DEF gcVars, GCTypeOK, CollectorOK, TypeOK
<1>c. ASSUME UNCHANGED metaVars  PROVE  MetaTypeOK'
  BY <1>c, TablesTypeOK DEF TypeOK
<1>1. CASE BeginPut(r)
  <2>1. req' \in [Requests -> Request]
    <3>1. PICK k \in Keys, c \in Content, pc \in {"store", "handler"} :
             req' = [req EXCEPT ![r] = [pc |-> pc, key |-> k, cas |-> c, attempt |-> 0]]
      BY <1>1 DEF BeginPut
    <3>2. [pc |-> pc, key |-> k, cas |-> c, attempt |-> 0] \in Request
      BY RequestsAssumption DEF Request, PutPcs
    <3> QED
      BY <3>1, <3>2 DEF TypeOK
  <2> QED BY <1>1, <2>1, <1>b, <1>c DEF BeginPut, TypeOK
<1>2. CASE BeginDelete(r)
  <2>1. req' \in [Requests -> Request]
    <3>1. PICK k \in Keys : req' = [req EXCEPT ![r] = [Idle("delete") EXCEPT !.key = k]]
      BY <1>2 DEF BeginDelete
    <3>2. [Idle("delete") EXCEPT !.key = k] \in Request
      BY DEF Request, Idle
    <3> QED
      BY <3>1, <3>2 DEF TypeOK
  <2> QED BY <1>2, <2>1, <1>b, <1>c DEF BeginDelete, TypeOK
<1>3. CASE CommitWrite(r) \/ PutDuplicate(r) \/ PutSelectNone(r)
  <2>1. req' \in [Requests -> Request]
    BY <1>3, <1>a, RequestFields DEF CommitWrite, PutDuplicate, PutSelectNone, PutPcs
  <2> QED
    BY <1>3, <1>b, <1>c, <2>1 DEF CommitWrite, PutDuplicate, PutSelectNone, TypeOK
<1>4. CASE CommitRename(r)
  BY <1>4, <1>a, <1>c, RequestFields DEF CommitRename, TypeOK, GCTypeOK, CollectorOK, PutPcs
<1>5. CASE PutFast(r) \/ PutUpsert(r)
  <2>1. req[r].key \in Keys /\ req[r].cas \in Content
    BY <1>5, RequestFields DEF PutFast, PutUpsert, PutPcs
  <2>2. MetaTypeOK' /\ req' \in [Requests -> Request]
    BY <1>5, <2>1, TablesTypeOK, CommittedTypeOK DEF PutFast, PutUpsert, TypeOK
  <2>3. blind' \subseteq Slots
    BY <1>5, <2>1, TablesAssumption DEF PutFast, PutUpsert, TypeOK, NoteCommit
  <2> QED
    BY <1>5, <1>b, <2>2, <2>3 DEF PutFast, PutUpsert, TypeOK
<1>6. CASE PutOverwrite(r)
  <2>1. req[r].key \in Keys /\ req[r].cas \in Content
    BY <1>6, RequestFields DEF PutOverwrite, PutPcs
  <2>2. MetaTypeOK'
    BY <1>6, <2>1, TablesTypeOK DEF PutOverwrite, TypeOK
  <2>3. req' \in [Requests -> Request]
    BY <1>6, <2>1, CandidateType, CommittedTypeOK DEF PutOverwrite, OverwriteObject, TypeOK
  <2>4. blind' \subseteq Slots
    BY <1>6, <2>1, TablesAssumption DEF PutOverwrite, TypeOK, NoteCommit
  <2> QED
    BY <1>6, <1>b, <2>2, <2>3, <2>4 DEF PutOverwrite, TypeOK
<1>7. CASE DeleteObject(r)
  <2>1. req[r].key \in Keys
    BY <1>7, RequestFields DEF DeleteObject
  <2>2. MetaTypeOK'
    BY <1>7, <2>1, TablesTypeOK DEF DeleteObject, TypeOK
  <2>3. req' \in [Requests -> Request]
    BY <1>7, <2>1, CandidateType, CommittedTypeOK DEF DeleteObject, RemoveObject, TypeOK
  <2> QED
    BY <1>7, <1>b, <2>2, <2>3 DEF DeleteObject, TypeOK
<1>8. CASE Enqueue(r)
  <2>1. pending' \in Seq(Content)
    BY <1>8, RequestFields DEF Enqueue, AddPendingDelete, TypeOK, GCTypeOK
  <2>2. req' \in [Requests -> Request]
    BY <1>8, CommittedTypeOK DEF Enqueue
  <2> QED
    BY <1>8, <1>c, <2>1, <2>2 DEF Enqueue, TypeOK, GCTypeOK, CollectorOK
<1>9. CASE DeleteMissing(r) \/ RejectUpload(r) \/ RejectPut(r) \/ RequestError(r)
  <2>1. req' \in [Requests -> Request]
    BY <1>9, CommittedTypeOK DEF DeleteMissing, RejectUpload, RejectPut, RequestError
  <2> QED
    BY <1>9, <1>b, <1>c, <2>1 DEF DeleteMissing, RejectUpload, RejectPut, RequestError, TypeOK
<1>10. CASE PutAborted(r)
  <2>1. CASE req[r].attempt + 1 < MaxAttempts
    <3>1. req[r].pc \in PutPcs /\ req[r].attempt + 1 \in 0 .. MaxAttempts
      BY <1>10, <2>1, RequestFields, RequestsAssumption DEF PutAborted, PutPcs
    <3>2. req' = [req EXCEPT ![r].pc = "fast", ![r].attempt = req[r].attempt + 1]
      BY <1>10, <2>1 DEF PutAborted, TypeOK
    <3>3. req' \in [Requests -> Request]
      BY <3>1, <3>2, <1>a DEF PutPcs
    <3> QED
      BY <1>10, <1>b, <1>c, <3>3 DEF PutAborted, TypeOK
  <2>2. CASE ~(req[r].attempt + 1 < MaxAttempts)
    BY <1>10, <2>2, <1>b, <1>c, CommittedTypeOK DEF PutAborted, TypeOK
  <2> QED
    BY <2>1, <2>2
<1> QED
  BY <1>1, <1>2, <1>3, <1>4, <1>5, <1>6, <1>7, <1>8, <1>9, <1>10
     DEF RequestStep, PutStep, DeleteStep, RequestFails

\* A crash is well typed.
LEMMA CrashTypeOK ==
    ASSUME TypeOK, Crash
    PROVE  TypeOK'
<1>1. MetaTypeOK'
  BY TablesTypeOK DEF Crash, TypeOK
<1>2. GCTypeOK'
  BY GCKeyIsContent DEF Crash, GCCrash, GCWaiting, TypeOK, GCTypeOK, CollectorOK, GCPcs
<1>3. req' \in [Requests -> Request]
  BY DEF Crash, TypeOK, Request
<1> QED
  BY <1>1, <1>2, <1>3 DEF Crash, TypeOK

\* Type correctness of tables, files, queue, collector and requests.
THEOREM TypeCorrect == Spec => []TypeOK
<1>1. Init => TypeOK
  <2> SUFFICES ASSUME Init  PROVE TypeOK
    OBVIOUS
  <2>1. MetaTypeOK
    <3>1. \A c \in Content : References(c) \in Nat
      BY ReferencesNat DEF Init, MetaInit
    <3> QED
      BY <3>1 DEF Init, MetaInit, MetaTypeOK
  <2>2. GCTypeOK
    BY <2>1 DEF Init, GCInit, GCWaiting, GCTypeOK, CollectorOK, GCPcs, MetaTypeOK
  <2>3. req \in [Requests -> Request]
    BY DEF Init, Request
  <2> QED
    BY <2>1, <2>2, <2>3 DEF Init, TypeOK
<1>2. TypeOK /\ [Next]_vars => TypeOK'
  <2>1. CASE UNCHANGED vars
    BY <2>1 DEF vars, metaVars, gcVars, TypeOK, MetaTypeOK, RowsWellFormed, GCTypeOK, CollectorOK
  <2> QED
    BY <2>1, RequestTypeOK, CollectorTypeOK, CrashTypeOK DEF Next
<1> QED
  BY <1>1, <1>2, PTL DEF Spec

----------------------------------------------------------------------------
(***************************************************************************)
(* Reference counts.                                                       *)
(***************************************************************************)

\* Writing content c (or None) to the row of slot s moves one reference.
LEMMA MoveReference ==
    ASSUME MetaTypeOK, NEW s \in Slots, NEW c \in Content \cup {None},
           objCas' = [objCas EXCEPT ![s] = c], partCas' = partCas,
           NEW x \in Content
    PROVE  References(x)' = IF objCas[s] = c THEN References(x)
                            ELSE IF x = c THEN References(x) + 1
                            ELSE IF x = objCas[s] THEN References(x) - 1
                            ELSE References(x)
<1>1. PartRefs(x)' = PartRefs(x)
  BY DEF PartRefs
<1>2. ObjectRefs(x)' = IF x = c THEN ObjectRefs(x) \cup {s} ELSE ObjectRefs(x) \ {s}
  BY DEF ObjectRefs, MetaTypeOK
<1>3. s \in ObjectRefs(x) <=> objCas[s] = x
  BY DEF ObjectRefs
<1>4. /\ Cardinality(ObjectRefs(x) \cup {s}) = IF objCas[s] = x THEN Cardinality(ObjectRefs(x))
                                              ELSE Cardinality(ObjectRefs(x)) + 1
      /\ Cardinality(ObjectRefs(x) \ {s}) = IF objCas[s] = x THEN Cardinality(ObjectRefs(x)) - 1
                                            ELSE Cardinality(ObjectRefs(x))
  BY <1>3, ReferencesNat, FS_AddElement, FS_RemoveElement
<1> QED
  BY <1>1, <1>2, <1>4, ReferencesNat DEF References

\* References depend on the rows of objects and multipart_parts only.
LEMMA SameReferences ==
    ASSUME objCas' = objCas, partCas' = partCas, NEW x
    PROVE  /\ References(x)' = References(x)
           /\ ObjectRefs(x)' = ObjectRefs(x)
           /\ PartRefs(x)' = PartRefs(x)
BY DEF References, ObjectRefs, PartRefs

\* No rows refer to a content exactly when it has no references.
LEMMA NoReferences ==
    ASSUME NEW c
    PROVE  (References(c) = 0) <=> (ObjectRefs(c) = {} /\ PartRefs(c) = {})
BY ReferencesNat, FS_EmptySet DEF References

\* Each transaction keeps every count at or above the references.
LEMMA TransactionsCover ==
    ASSUME MetaTypeOK, CountsCoverReferences,
           \/ \E k \in Keys, c \in Content : InsertObject(k, c)
           \/ \E k \in Keys, c \in Content : OverwriteObject(k, c)
           \/ \E k \in Keys, c \in Content : UpsertObject(k, c)
           \/ \E k \in Keys : RemoveObject(k)
           \/ \E c \in Content : DeleteCasBlob(c)
           \/ UNCHANGED metaVars
    PROVE  CountsCoverReferences'
<1> SUFFICES ASSUME NEW x \in Content
             PROVE  /\ References(x)' <= refCount'[x]
                    /\ References(x)' > 0 => x \in blobs'
  BY DEF CountsCoverReferences
<1>a. /\ References(x) \in Nat /\ refCount[x] \in Nat
      /\ References(x) <= refCount[x]
      /\ References(x) > 0 => x \in blobs
      /\ refCount \in [Content -> Nat]
  BY ReferencesNat DEF CountsCoverReferences, MetaTypeOK
<1>1. ASSUME NEW k \in Keys, NEW c \in Content, InsertObject(k, c) \/ UpsertObject(k, c)
      PROVE  /\ References(x)' <= refCount'[x]
             /\ References(x)' > 0 => x \in blobs'
  <2>1. /\ SlotOf[k] \in Slots
        /\ objCas' = [objCas EXCEPT ![SlotOf[k]] = c] /\ partCas' = partCas
        /\ blobs' = blobs \cup {c}
        /\ refCount' = Increment(refCount, c)
    BY <1>1, TablesAssumption DEF InsertObject, UpsertObject
  <2>2. References(x)' = IF objCas[SlotOf[k]] = c THEN References(x)
                         ELSE IF x = c THEN References(x) + 1
                         ELSE IF x = objCas[SlotOf[k]] THEN References(x) - 1
                         ELSE References(x)
    BY <2>1, MoveReference
  <2>3. refCount'[x] = IF x = c THEN refCount[x] + 1 ELSE refCount[x]
    BY <2>1, <1>a DEF Increment
  <2> QED
    BY <1>a, <2>1, <2>2, <2>3
<1>2. ASSUME NEW k \in Keys, NEW c \in Content, OverwriteObject(k, c)
      PROVE  /\ References(x)' <= refCount'[x]
             /\ References(x)' > 0 => x \in blobs'
  <2> DEFINE old == objCas[SlotOf[k]]
  <2>1. /\ SlotOf[k] \in Slots
        /\ objCas' = [objCas EXCEPT ![SlotOf[k]] = c] /\ partCas' = partCas
        /\ blobs' = blobs \cup {c}
        /\ refCount' = IF old = c THEN refCount ELSE Decrement(Increment(refCount, c), old)
    BY <1>2, TablesAssumption DEF OverwriteObject
  <2>2. old \in Content
    BY <1>2, CandidateType DEF OverwriteObject
  <2>3. References(x)' = IF old = c THEN References(x)
                         ELSE IF x = c THEN References(x) + 1
                         ELSE IF x = old THEN References(x) - 1
                         ELSE References(x)
    BY <2>1, MoveReference
  <2>4. CASE old = c
    BY <1>a, <2>1, <2>3, <2>4
  <2>5. CASE old # c
    <3>1. refCount'[x] = IF x = c THEN refCount[x] + 1
                         ELSE IF x = old THEN IF refCount[x] > 0 THEN refCount[x] - 1 ELSE 0
                         ELSE refCount[x]
      BY <1>a, <2>1, <2>2, <2>5 DEF Increment, Decrement
    <3> QED
      BY <1>a, <2>1, <2>3, <2>5, <3>1
  <2> QED
    BY <2>4, <2>5
<1>3. ASSUME NEW k \in Keys, RemoveObject(k)
      PROVE  /\ References(x)' <= refCount'[x]
             /\ References(x)' > 0 => x \in blobs'
  <2> DEFINE old == objCas[SlotOf[k]]
  <2>1. /\ SlotOf[k] \in Slots
        /\ objCas' = [objCas EXCEPT ![SlotOf[k]] = None] /\ partCas' = partCas
        /\ blobs' = blobs
        /\ refCount' = Decrement(refCount, old)
    BY <1>3, TablesAssumption DEF RemoveObject
  <2>2. old \in Content
    BY <1>3, CandidateType DEF RemoveObject
  <2>3. References(x)' = IF x = old THEN References(x) - 1 ELSE References(x)
    <3>1. References(x)' = IF old = None THEN References(x)
                           ELSE IF x = None THEN References(x) + 1
                           ELSE IF x = old THEN References(x) - 1
                           ELSE References(x)
      BY <2>1, MoveReference
    <3>2. x # None /\ old # None
      BY <2>2, TablesAssumption
    <3> QED
      BY <3>1, <3>2
  <2>4. refCount'[x] = IF x = old THEN IF refCount[x] > 0 THEN refCount[x] - 1 ELSE 0
                       ELSE refCount[x]
    BY <1>a, <2>1, <2>2 DEF Decrement
  <2> QED
    BY <1>a, <2>1, <2>3, <2>4
<1>4. ASSUME NEW c \in Content, DeleteCasBlob(c)
      PROVE  /\ References(x)' <= refCount'[x]
             /\ References(x)' > 0 => x \in blobs'
  BY <1>4, <1>a, SameReferences, NoReferences DEF DeleteCasBlob
<1>5. CASE UNCHANGED metaVars
  BY <1>5, <1>a, SameReferences DEF metaVars
<1> QED
  BY <1>1, <1>2, <1>3, <1>4, <1>5

\* Every step is a transaction of MetaStore or leaves the tables alone.
LEMMA StepsAreTransactions ==
    ASSUME TypeOK, [Next]_vars
    PROVE  \/ \E k \in Keys, c \in Content : InsertObject(k, c)
           \/ \E k \in Keys, c \in Content : OverwriteObject(k, c)
           \/ \E k \in Keys, c \in Content : UpsertObject(k, c)
           \/ \E k \in Keys : RemoveObject(k)
           \/ \E c \in Content : DeleteCasBlob(c)
           \/ UNCHANGED metaVars
<1>1. CASE UNCHANGED vars
  BY <1>1 DEF vars
<1>2. CASE Crash
  BY <1>2 DEF Crash
<1>3. CASE CollectorStep
  <2>1. CASE GCDeleteRow
    BY <2>1, GCKeyIsContent DEF GCDeleteRow, TypeOK
  <2>2. CASE ~GCDeleteRow
    BY <1>3, <2>2 DEF CollectorStep, GCStep, GCIdle, GCTakeBatch, GCCheck, GCProbe, GCQuarantine,
       GCRecheck, GCRestore, GCRemove, GCCallback, GCDatabaseError, GCFileError
  <2> QED
    BY <2>1, <2>2
<1>4. ASSUME NEW r \in Requests, RequestStep(r)
      PROVE  \/ \E k \in Keys, c \in Content : InsertObject(k, c)
             \/ \E k \in Keys, c \in Content : OverwriteObject(k, c)
             \/ \E k \in Keys, c \in Content : UpsertObject(k, c)
             \/ \E k \in Keys : RemoveObject(k)
             \/ UNCHANGED metaVars
  <2>1. CASE PutFast(r) \/ PutOverwrite(r) \/ PutUpsert(r)
    BY <2>1, RequestFields DEF PutFast, PutOverwrite, PutUpsert, PutPcs
  <2>2. CASE DeleteObject(r)
    BY <2>2, RequestFields DEF DeleteObject
  <2>3. CASE ~(PutFast(r) \/ PutOverwrite(r) \/ PutUpsert(r) \/ DeleteObject(r))
    BY <1>4, <2>3 DEF RequestStep, PutStep, DeleteStep, RequestFails, BeginPut, BeginDelete,
       CommitWrite, CommitRename, PutDuplicate, PutSelectNone, DeleteMissing, Enqueue,
       RejectUpload, RejectPut, PutAborted, RequestError
  <2> QED
    BY <2>1, <2>2, <2>3
<1> QED
  BY <1>1, <1>2, <1>3, <1>4 DEF Next

\* ref_count never falls below the number of rows that refer to a content, and
\* a content that rows refer to has a cas_blobs row: for any number of
\* concurrent PUTs and DELETEs, with the collector running, and through aborts,
\* errors and crashes.
THEOREM CountsNeverTooLow == Spec => []CountsCoverReferences
<1>1. Init => CountsCoverReferences
  BY ReferencesNat DEF Init, MetaInit, CountsCoverReferences
<1>2. TypeOK /\ CountsCoverReferences /\ [Next]_vars => CountsCoverReferences'
  BY StepsAreTransactions, TransactionsCover DEF TypeOK
<1> QED
  BY <1>1, <1>2, TypeCorrect, PTL DEF Spec

----------------------------------------------------------------------------
(***************************************************************************)
(* The quarantine protocol.                                                *)
(***************************************************************************)

\* A commit of content c to slot s keeps the promise: either c is at its final
\* path, or s is recorded as blind; the other slots are as before.
LEMMA CommitSurvives ==
    ASSUME TypeOK, CommittedContentSurvives,
           NEW s \in Slots, NEW c \in Content \cup {None},
           objCas' = [objCas EXCEPT ![s] = c], partCas' = partCas, UNCHANGED gcVars,
           \/ c # None /\ NoteCommit(s, c)
           \/ c = None /\ blind' = blind \ {s}
    PROVE  CommittedContentSurvives'
<1>1. \A x : Kept(x)' <=> Kept(x)
  BY DEF Kept, InQuarantine, Condemned, GCKey, gcVars
<1>2. \A t \in Slots \ {s} : objCas'[t] = objCas[t] /\ (t \in blind' <=> t \in blind)
  BY DEF TypeOK, MetaTypeOK, NoteCommit
<1>3. objCas'[s] = c /\ (s \notin blind' => c = None \/ c \in files)
  BY DEF TypeOK, MetaTypeOK, NoteCommit
<1> QED
  BY <1>1, <1>2, <1>3 DEF CommittedContentSurvives, Kept

\* The collector takes bytes off the disk only after a check that found no row
\* referring to them.
LEMMA CollectorKeepsBytes ==
    ASSUME TypeOK, CollectorStep, NEW x \in Content, Kept(x),
           ObjectRefs(x) # {} \/ PartRefs(x) # {}
    PROVE  Kept(x)'
<1> USE DEF Kept, InQuarantine, Condemned
<1>1. CASE GCIdle \/ GCTakeBatch \/ GCCheck \/ GCProbe \/ GCCallback \/ GCDeleteRow \/ GCRemove
  <2>1. ~InQuarantine(x) \/ Condemned(x)
    BY <1>1 DEF GCIdle, GCTakeBatch, GCCheck, GCProbe, GCCallback, GCDeleteRow, GCRemove,
       TypeOK, GCTypeOK, CollectorOK
  <2>2. files' = files /\ stranded' = stranded
    BY <1>1 DEF GCIdle, GCTakeBatch, GCCheck, GCProbe, GCCallback, GCDeleteRow, GCRemove, gcVars
  <2> QED
    BY <2>1, <2>2
<1>2. CASE GCQuarantine
  <2>1. CASE GCKey \in files
    <3>1. gc'.pc = "recheck" /\ gc'.moved /\ gc'.batch = gc.batch
      BY <1>2, <2>1 DEF GCQuarantine, TypeOK, GCTypeOK, CollectorOK
    <3> QED
      BY <1>2, <2>1, <3>1 DEF GCQuarantine, GCKey
  <2>2. CASE GCKey \notin files
    <3>1. ~gc.moved
      BY <1>2 DEF GCQuarantine, TypeOK, GCTypeOK, CollectorOK
    <3>2. files' = files /\ stranded' = stranded
      BY <1>2, <2>2 DEF GCQuarantine
    <3> QED
      BY <3>1, <3>2
  <2> QED
    BY <2>1, <2>2
<1>3. CASE GCRecheck
  <2>1. files' = files /\ stranded' = stranded /\ gc.pc = "recheck"
    BY <1>3 DEF GCRecheck
  <2>2. CASE x \in files \/ x \in stranded
    BY <2>1, <2>2
  <2>3. CASE gc.moved /\ GCKey = x
    <3>1. ~CanDeleteCasBlob(GCKey)
      BY <2>3 DEF CanDeleteCasBlob
    <3>2. gc' = [gc EXCEPT !.pc = "restore"]
      BY <1>3, <2>3, <3>1 DEF GCRecheck, GCGoto
    <3>3. gc'.pc = "restore" /\ gc'.moved = gc.moved /\ gc'.batch = gc.batch
      BY <3>2 DEF TypeOK, GCTypeOK, CollectorOK
    <3> QED
      BY <2>3, <3>3 DEF GCKey
  <2> QED
    BY <2>2, <2>3
<1>4. CASE GCRestore
  BY <1>4 DEF GCRestore
<1>5. CASE GCFileError
  BY <1>5 DEF GCFileError
<1>6. CASE GCDatabaseError
  <2>1. CASE gc.pc = "recheck" /\ gc.moved
    <3>1. gc' = [gc EXCEPT !.pc = "restore"]
      BY <1>6, <2>1 DEF GCDatabaseError, GCGoto
    <3>2. gc'.pc = "restore" /\ gc'.moved = gc.moved /\ gc'.batch = gc.batch
      BY <3>1 DEF TypeOK, GCTypeOK, CollectorOK
    <3> QED
      BY <1>6, <3>2 DEF GCDatabaseError, GCKey
  <2>2. CASE ~gc.moved
    BY <1>6, <2>2 DEF GCDatabaseError
  <2>3. gc.moved => gc.pc = "recheck"
    BY <1>6 DEF GCDatabaseError, TypeOK, GCTypeOK, CollectorOK
  <2> QED
    BY <2>1, <2>2, <2>3
<1> QED
  BY <1>1, <1>2, <1>3, <1>4, <1>5, <1>6 DEF CollectorStep, GCStep

LEMMA CollectorSurvives ==
    ASSUME TypeOK, CommittedContentSurvives, CollectorStep
    PROVE  CommittedContentSurvives'
<1>1. objCas' = objCas /\ partCas' = partCas /\ blind' = blind
  BY DEF CollectorStep, GCStep, GCIdle, GCTakeBatch, GCCheck, GCProbe, GCQuarantine,
     GCRecheck, GCRestore, GCRemove, GCCallback, GCDatabaseError, GCFileError, GCDeleteRow,
     DeleteCasBlob, metaVars
<1>2. \A s \in Slots : objCas[s] # None => objCas[s] \in Content /\ ObjectRefs(objCas[s]) # {}
  BY DEF TypeOK, MetaTypeOK, ObjectRefs
<1>3. \A p \in PartIds : partCas[p] # None => partCas[p] \in Content /\ PartRefs(partCas[p]) # {}
  BY DEF TypeOK, MetaTypeOK, PartRefs
<1> QED
  BY <1>1, <1>2, <1>3, CollectorKeepsBytes DEF CommittedContentSurvives

\* The bytes of every object committed while its file was in place, and of every
\* part, stay on disk, however commits interleave with the collector's checks,
\* rename, restore and unlink, and through every failure.
THEOREM QuarantineIsSafe == Spec => []CommittedContentSurvives
<1>1. Init => CommittedContentSurvives
  <2> SUFFICES ASSUME Init  PROVE CommittedContentSurvives
    OBVIOUS
  <2>1. ASSUME NEW c \in Content, ObjectRefs(c) # {} \/ PartRefs(c) # {}
        PROVE  c \in files
    BY <2>1, NoReferences, ReferencesNat DEF Init, MetaInit, GCInit
  <2> QED
    BY <2>1 DEF Init, MetaInit, CommittedContentSurvives, Kept, ObjectRefs, PartRefs
<1>2. TypeOK /\ CommittedContentSurvives /\ [Next]_vars => CommittedContentSurvives'
  <2> SUFFICES ASSUME TypeOK, CommittedContentSurvives, [Next]_vars
               PROVE  CommittedContentSurvives'
    OBVIOUS
  <2>a. ASSUME UNCHANGED <<metaVars, blind>>, \A x \in Content : Kept(x) => Kept(x)'
        PROVE  CommittedContentSurvives'
    BY <2>a DEF metaVars, CommittedContentSurvives, TypeOK, MetaTypeOK
  <2>1. CASE UNCHANGED vars
    BY <2>1, <2>a DEF vars, gcVars, Kept, InQuarantine, Condemned, GCKey
  <2>2. CASE Crash
    <3>1. \A x : Kept(x) => Kept(x)'
      BY <2>2 DEF Crash, GCCrash, Kept, InQuarantine, Condemned
    <3> QED
      BY <2>2, <2>a, <3>1 DEF Crash
  <2>3. CASE CollectorStep
    BY <2>3, CollectorSurvives
  <2>4. ASSUME NEW r \in Requests, RequestStep(r)
        PROVE  CommittedContentSurvives'
    <3>1. CASE PutFast(r) \/ PutOverwrite(r) \/ PutUpsert(r)
      <4>1. req[r].key \in Keys /\ req[r].cas \in Content
        BY <3>1, RequestFields DEF PutFast, PutOverwrite, PutUpsert, PutPcs
      <4>2. /\ SlotOf[req[r].key] \in Slots /\ req[r].cas # None
            /\ objCas' = [objCas EXCEPT ![SlotOf[req[r].key]] = req[r].cas]
            /\ partCas' = partCas
            /\ UNCHANGED gcVars
            /\ NoteCommit(SlotOf[req[r].key], req[r].cas)
        BY <3>1, <4>1, TablesAssumption
           DEF PutFast, PutOverwrite, PutUpsert, InsertObject, OverwriteObject, UpsertObject
      <4> QED
        BY <4>1, <4>2, CommitSurvives
    <3>2. CASE DeleteObject(r)
      <4>1. /\ SlotOf[req[r].key] \in Slots
            /\ objCas' = [objCas EXCEPT ![SlotOf[req[r].key]] = None]
            /\ partCas' = partCas
            /\ UNCHANGED gcVars
            /\ blind' = blind \ {SlotOf[req[r].key]}
        BY <3>2, RequestFields, TablesAssumption DEF DeleteObject, RemoveObject
      <4> QED
        BY <4>1, CommitSurvives
    <3>3. CASE CommitRename(r)
      <4>1. \A x : Kept(x) => Kept(x)'
        BY <3>3 DEF CommitRename, Kept, InQuarantine, Condemned, GCKey
      <4> QED
        BY <3>3, <2>a, <4>1 DEF CommitRename
    <3>4. CASE ~(PutFast(r) \/ PutOverwrite(r) \/ PutUpsert(r) \/ DeleteObject(r) \/ CommitRename(r))
      <4>1. UNCHANGED <<metaVars, files, stranded, gc, blind>>
        BY <2>4, <3>4 DEF RequestStep, PutStep, DeleteStep, RequestFails, BeginPut, BeginDelete,
           CommitWrite, PutDuplicate, PutSelectNone, DeleteMissing, Enqueue,
           RejectUpload, RejectPut, PutAborted, RequestError, gcVars
      <4> QED
        BY <4>1, <2>a DEF Kept, InQuarantine, Condemned, GCKey
    <3> QED
      BY <3>1, <3>2, <3>3, <3>4
  <2> QED
    BY <2>1, <2>2, <2>3, <2>4 DEF Next
<1> QED
  BY <1>1, <1>2, TypeCorrect, PTL DEF Spec

----------------------------------------------------------------------------
(***************************************************************************)
(* The collector's queue.                                                  *)
(***************************************************************************)

\* Between the check that cancels a deletion and the restoring rename, the key
\* is still in the batch but will be dropped: should its count be 0 again by
\* then, it must have been handed over again.
CancelledIsQueued ==
    gc.pc = "restore" =>
        (GCKey \in blobs /\ refCount[GCKey] = 0 => HandedOver(GCKey, Tail(gc.batch)))

\* Nobody but the collector removes the file it is about to move.
ProbedIsThere == gc.pc = "quarantine" => GCKey \in files

QueueInv ==
    /\ TypeOK
    /\ CountsCoverReferences
    /\ ProbedIsThere
    /\ ZeroCountIsQueued
    /\ CancelledIsQueued

\* A content the collector will not drop is the head of the batch or in its tail.
LEMMA HeadOrTail ==
    ASSUME TypeOK, gc.pc # "wait", NEW c, HandedOver(c, gc.batch)
    PROVE  c = GCKey \/ HandedOver(c, Tail(gc.batch))
<1>1. gc.batch \in Seq(Content) /\ gc.batch # <<>>
  BY DEF TypeOK, GCTypeOK, CollectorOK
<1>2. ASSUME NEW i \in DOMAIN gc.batch, gc.batch[i] = c, i # 1
      PROVE  i - 1 \in DOMAIN Tail(gc.batch) /\ Tail(gc.batch)[i - 1] = c
  BY <1>1, <1>2
<1>3. GCKey = gc.batch[1]
  BY <1>1 DEF GCKey
<1> QED
  BY <1>2, <1>3 DEF HandedOver

\* The head of the batch may be dropped when a check refused it: by
\* CountsCoverReferences it then has no row or a count above 0.
LEMMA RefusedIsNotZero ==
    ASSUME TypeOK, CountsCoverReferences, NEW c \in Content, ~CanDeleteCasBlob(c)
    PROVE  c \notin blobs \/ refCount[c] # 0
BY NoReferences, ReferencesNat DEF CanDeleteCasBlob, CountsCoverReferences, TypeOK, MetaTypeOK

\* Steps of the collector forget nothing, unless they fail.
LEMMA CollectorForgetsNothing ==
    ASSUME QueueInv, CollectorStep, Faults \subseteq {"header"}
    PROVE  ZeroCountIsQueued' /\ CancelledIsQueued'
<1> USE DEF QueueInv
<1>0. req' = req
  BY DEF CollectorStep
<1>n. ASSUME gc.pc # "wait", GCNextKey, UNCHANGED <<blobs, refCount, pending>>,
             GCKey \notin blobs \/ refCount[GCKey] # 0 \/ HandedOver(GCKey, Tail(gc.batch))
      PROVE  ZeroCountIsQueued' /\ CancelledIsQueued'
  <2>1. gc'.batch = Tail(gc.batch) /\ gc'.pc # "restore"
    BY <1>n DEF GCNextKey
  <2>2. \A c : HandedOver(c, Tail(gc.batch)) => HandedOver(c, gc.batch)'
    BY <1>0, <1>n, <2>1 DEF HandedOver
  <2>3. ASSUME NEW c \in blobs, refCount[c] = 0  PROVE HandedOver(c, gc.batch)'
    BY <1>n, <2>2, <2>3, HeadOrTail DEF ZeroCountIsQueued
  <2> QED
    BY <1>n, <2>1, <2>3 DEF ZeroCountIsQueued, CancelledIsQueued
<1>g. ASSUME UNCHANGED <<blobs, refCount, pending>>, gc'.batch = gc.batch, gc'.pc # "restore"
      PROVE  ZeroCountIsQueued' /\ CancelledIsQueued'
  BY <1>g, <1>0 DEF ZeroCountIsQueued, CancelledIsQueued, HandedOver
<1>t. gc \in [pc : GCPcs, batch : Seq(Content), moved : BOOLEAN]
  BY DEF TypeOK, GCTypeOK, CollectorOK
<1>k. gc.pc # "wait" => GCKey \in Content
  BY GCKeyIsContent DEF TypeOK
<1>1. CASE GCIdle
  BY <1>1, <1>0 DEF GCIdle, gcVars, metaVars, ZeroCountIsQueued, CancelledIsQueued, HandedOver, GCKey
<1>2. CASE GCTakeBatch
  <2> DEFINE n == IF Len(pending) < BatchSize THEN Len(pending) ELSE BatchSize
  <2>1. pending \in Seq(Content) /\ Len(pending) \in Nat
    BY DEF TypeOK, GCTypeOK
  <2>2. n \in Nat /\ n <= Len(pending)
    BY <2>1, CollectorAssumption
  <2>3. /\ gc'.batch = SubSeq(pending, 1, n) /\ gc'.pc = "check"
        /\ pending' = SubSeq(pending, n + 1, Len(pending))
        /\ gc.batch = <<>> /\ blobs' = blobs /\ refCount' = refCount
    BY <1>2 DEF GCTakeBatch, metaVars, TypeOK, GCTypeOK, CollectorOK
  <2>4. ASSUME NEW i \in 1 .. Len(pending)
        PROVE  \/ i \in DOMAIN gc'.batch /\ gc'.batch[i] = pending[i]
               \/ i - n \in DOMAIN pending' /\ pending'[i - n] = pending[i]
    BY <2>1, <2>2, <2>3, SMTT(30)
  <2>5. \A c : HandedOver(c, gc.batch) => HandedOver(c, gc.batch)'
    <3> SUFFICES ASSUME NEW c, HandedOver(c, gc.batch)  PROVE HandedOver(c, gc.batch)'
      OBVIOUS
    <3>1. CASE \E r \in Requests : req[r].pc = "enqueue" /\ req[r].cas = c
      BY <1>0, <3>1 DEF HandedOver
    <3>2. CASE \E i \in DOMAIN pending : pending[i] = c
      <4>1. PICK i \in 1 .. Len(pending) : pending[i] = c
        BY <2>1, <3>2
      <4>2. CASE i \in DOMAIN gc'.batch /\ gc'.batch[i] = pending[i]
        BY <4>1, <4>2 DEF HandedOver
      <4>3. CASE i - n \in DOMAIN pending' /\ pending'[i - n] = pending[i]
        BY <4>1, <4>3 DEF HandedOver
      <4> QED
        BY <2>4, <4>2, <4>3
    <3>3. DOMAIN gc.batch = {}
      BY <2>3
    <3> QED
      BY <3>1, <3>2, <3>3 DEF HandedOver
  <2> QED
    BY <2>3, <2>5 DEF ZeroCountIsQueued, CancelledIsQueued
<1>3. CASE GCCheck \/ GCCallback
  <2>1. gc.pc # "wait" /\ UNCHANGED <<blobs, refCount, pending>>
    BY <1>3 DEF GCCheck, GCCallback, metaVars
  <2>2. CASE CanDeleteCasBlob(GCKey)
    BY <1>3, <1>g, <1>t, <2>1, <2>2 DEF GCCheck, GCCallback, GCGoto
  <2>3. CASE ~CanDeleteCasBlob(GCKey)
    BY <1>3, <1>n, <1>k, <2>1, <2>3, RefusedIsNotZero DEF GCCheck, GCCallback
  <2> QED
    BY <2>2, <2>3
<1>4. CASE GCProbe \/ GCRemove
  BY <1>4, <1>g, <1>t DEF GCProbe, GCRemove, GCGoto, metaVars
<1>5. CASE GCQuarantine
  <2>1. gc.pc = "quarantine" /\ UNCHANGED <<blobs, refCount, pending>>
    BY <1>5 DEF GCQuarantine, metaVars
  <2>2. GCKey \in files
    BY <2>1 DEF ProbedIsThere
  <2> QED
    BY <1>5, <1>g, <1>t, <2>1, <2>2 DEF GCQuarantine
<1>6. CASE GCRecheck
  <2>1. gc.pc = "recheck" /\ UNCHANGED <<blobs, refCount, pending>>
    BY <1>6 DEF GCRecheck, metaVars
  <2>2. CASE CanDeleteCasBlob(GCKey)
    BY <1>6, <1>g, <1>t, <2>1, <2>2 DEF GCRecheck, GCGoto
  <2>3. CASE ~CanDeleteCasBlob(GCKey) /\ gc.moved
    <3>1. GCKey \notin blobs \/ refCount[GCKey] # 0
      BY <1>k, <2>1, <2>3, RefusedIsNotZero
    <3>2. gc'.batch = gc.batch
      BY <1>6, <1>t, <2>3 DEF GCRecheck, GCGoto
    <3> QED
      BY <1>0, <2>1, <3>1, <3>2 DEF ZeroCountIsQueued, CancelledIsQueued, HandedOver, GCKey
  <2>4. CASE ~CanDeleteCasBlob(GCKey) /\ ~gc.moved
    BY <1>6, <1>n, <1>k, <2>1, <2>4, RefusedIsNotZero DEF GCRecheck
  <2> QED
    BY <2>2, <2>3, <2>4
<1>7. CASE GCRestore
  BY <1>7, <1>n DEF GCRestore, metaVars, CancelledIsQueued
<1>8. CASE GCDeleteRow
  <2>1. gc.pc = "deleteRow" /\ GCNextKey /\ pending' = pending
    BY <1>8 DEF GCDeleteRow
  <2>2. CASE DeleteCasBlob(GCKey)
    <3>1. gc'.batch = Tail(gc.batch) /\ gc'.pc # "restore"
      BY <2>1 DEF GCNextKey
    <3>2. /\ blobs' = blobs \ {GCKey}
          /\ \A c \in Content \ {GCKey} : refCount'[c] = refCount[c]
      BY <2>2 DEF DeleteCasBlob, TypeOK, MetaTypeOK
    <3>3. ASSUME NEW c \in blobs', refCount'[c] = 0  PROVE HandedOver(c, gc.batch)'
      <4>1. c # GCKey /\ c \in blobs /\ refCount[c] = 0
        BY <3>2, <3>3 DEF TypeOK, MetaTypeOK
      <4>2. HandedOver(c, Tail(gc.batch))
        BY <2>1, <4>1, HeadOrTail DEF ZeroCountIsQueued
      <4> QED
        BY <1>0, <2>1, <3>1, <4>2 DEF HandedOver
    <3> QED
      BY <3>1, <3>3 DEF ZeroCountIsQueued, CancelledIsQueued
  <2>3. CASE ~DeleteCasBlob(GCKey)
    <3>1. ~CanDeleteCasBlob(GCKey) /\ UNCHANGED <<blobs, refCount>>
      BY <1>8, <2>3 DEF GCDeleteRow, CanDeleteCasBlob, metaVars
    <3> QED
      BY <1>n, <1>k, <2>1, <3>1, RefusedIsNotZero
  <2> QED
    BY <2>2, <2>3
<1>9. ~GCDatabaseError /\ ~GCFileError
  BY DEF GCDatabaseError, GCFileError
<1> QED
  BY <1>1, <1>2, <1>3, <1>4, <1>5, <1>6, <1>7, <1>8, <1>9 DEF CollectorStep, GCStep

\* A transaction that lowers a count to 0 leaves its request about to queue the
\* content.
LEMMA TransactionHandsOver ==
    ASSUME QueueInv, Faults \subseteq {"header"}, NEW r \in Requests, UNCHANGED gcVars,
           req[r].pc # "enqueue",
           NEW cand \in Content \cup {None}, Committed(r, cand),
           \A c \in Content : c \in blobs' /\ refCount'[c] = 0 /\ c # cand
                               => c \in blobs /\ refCount[c] = 0,
           blobs' \subseteq Content
    PROVE  ZeroCountIsQueued' /\ CancelledIsQueued'
<1> USE DEF QueueInv
<1>1. IF cand = None THEN Finish(r)
      ELSE req' = [req EXCEPT ![r] = [Idle("enqueue") EXCEPT !.cas = cand]]
  BY DEF Committed
<1>2. pending' = pending /\ gc' = gc
  BY DEF gcVars
<1>3. ASSUME NEW q \in Requests, req[q].pc = "enqueue"
      PROVE  req'[q] = req[q]
  BY <1>1, <1>3 DEF TypeOK, Finish
<1>4. \A c \in Content : \A b : HandedOver(c, b) => HandedOver(c, b)'
  BY <1>2, <1>3 DEF HandedOver
<1>5. cand # None => req'[r].pc = "enqueue" /\ req'[r].cas = cand
  BY <1>1 DEF TypeOK, Idle
<1>6. cand # None => \A b : HandedOver(cand, b)'
  BY <1>5 DEF HandedOver
<1>7. ZeroCountIsQueued'
  <2> SUFFICES ASSUME NEW c \in blobs', refCount'[c] = 0  PROVE HandedOver(c, gc.batch)'
    BY DEF ZeroCountIsQueued
  <2>1. CASE c = cand
    BY <2>1, <1>6, TablesAssumption
  <2>2. CASE c # cand
    <3>1. HandedOver(c, gc.batch)
      BY <2>2 DEF ZeroCountIsQueued
    <3> QED
      BY <1>2, <1>3, <3>1 DEF HandedOver
  <2> QED
    BY <2>1, <2>2
<1>8. CancelledIsQueued'
  <2> SUFFICES ASSUME gc.pc = "restore", GCKey \in blobs', refCount'[GCKey] = 0
               PROVE  HandedOver(GCKey, Tail(gc.batch))'
    BY <1>2 DEF CancelledIsQueued, GCKey
  <2>1. CASE GCKey = cand
    BY <1>2, <1>5, <2>1, TablesAssumption DEF HandedOver, GCKey
  <2>2. CASE GCKey # cand
    <3>1. HandedOver(GCKey, Tail(gc.batch))
      BY <2>2 DEF CancelledIsQueued
    <3> QED
      BY <1>2, <1>3, <3>1 DEF HandedOver, GCKey
  <2> QED
    BY <2>1, <2>2
<1> QED
  BY <1>7, <1>8

\* Requests forget nothing, as long as no answer to a COMMIT is lost.
LEMMA RequestForgetsNothing ==
    ASSUME QueueInv, Faults \subseteq {"header"}, NEW r \in Requests, RequestStep(r)
    PROVE  ZeroCountIsQueued' /\ CancelledIsQueued'
<1> USE DEF QueueInv
<1>t. /\ refCount \in [Content -> Nat] /\ blobs \subseteq Content
      /\ blobs' \subseteq Content
  BY RequestTypeOK DEF TypeOK, MetaTypeOK
<1>1. CASE PutFast(r) \/ PutUpsert(r)
  <2>1. /\ req[r].pc # "enqueue" /\ UNCHANGED gcVars /\ Committed(r, None)
        /\ blobs' = blobs \cup {req[r].cas} /\ refCount' = Increment(refCount, req[r].cas)
    BY <1>1 DEF PutFast, PutUpsert, InsertObject, UpsertObject
  <2>2. req[r].cas \in Content
    BY <1>1, RequestFields DEF PutFast, PutUpsert, PutPcs
  <2>3. \A c \in Content : c \in blobs' /\ refCount'[c] = 0 => c \in blobs /\ refCount[c] = 0
    BY <1>t, <2>1, <2>2 DEF Increment
  <2> QED
    BY <1>t, <2>1, <2>3, TransactionHandsOver
<1>2. CASE PutOverwrite(r)
  <2> DEFINE k == req[r].key
             new == req[r].cas
             old == objCas[SlotOf[k]]
  <2>1. k \in Keys /\ new \in Content
    BY <1>2, RequestFields DEF PutOverwrite, PutPcs
  <2>2. /\ Found(k) /\ req[r].pc # "enqueue" /\ UNCHANGED gcVars
        /\ Committed(r, ReplacedCandidate(k, new))
        /\ blobs' = blobs \cup {new}
        /\ refCount' = IF old = new THEN refCount
                       ELSE Decrement(Increment(refCount, new), old)
    BY <1>2 DEF PutOverwrite, OverwriteObject
  <2>3. old \in Content /\ ReplacedCandidate(k, new) \in Content \cup {None}
    BY <2>1, <2>2, CandidateType DEF TypeOK
  <2>4. old \in blobs
    <3>1. SlotOf[k] \in ObjectRefs(old)
      BY <2>1, TablesAssumption DEF ObjectRefs
    <3>2. References(old) > 0
      BY <3>1, NoReferences, ReferencesNat
    <3> QED
      BY <2>3, <3>2 DEF CountsCoverReferences
  <2>5. ASSUME NEW c \in Content, c \in blobs', refCount'[c] = 0, c # ReplacedCandidate(k, new)
        PROVE  c \in blobs /\ refCount[c] = 0
    <3>1. CASE old = new
      BY <2>2, <2>4, <2>5, <3>1
    <3>2. CASE old # new
      <4>1. /\ refCount'[new] = refCount[new] + 1
            /\ refCount'[old] = Decrement(refCount, old)[old]
            /\ \A x \in Content \ {new, old} : refCount'[x] = refCount[x]
        BY <1>t, <2>1, <2>2, <2>3, <3>2 DEF Increment, Decrement
      <4>2. c # new
        BY <1>t, <2>1, <2>5, <4>1
      <4>3. c # old
        BY <2>5, <3>2, <4>1 DEF ReplacedCandidate
      <4> QED
        BY <2>2, <2>5, <4>1, <4>2, <4>3
    <3> QED
      BY <3>1, <3>2
  <2> QED
    BY <1>t, <2>2, <2>3, <2>5, TransactionHandsOver
<1>3. CASE DeleteObject(r)
  <2> DEFINE k == req[r].key
             old == objCas[SlotOf[k]]
  <2>1. k \in Keys
    BY <1>3, RequestFields DEF DeleteObject
  <2>2. /\ Found(k) /\ req[r].pc # "enqueue" /\ UNCHANGED gcVars
        /\ Committed(r, RemovedCandidate(k))
        /\ blobs' = blobs
        /\ refCount' = Decrement(refCount, old)
    BY <1>3 DEF DeleteObject, RemoveObject
  <2>3. old \in Content /\ RemovedCandidate(k) \in Content \cup {None}
    BY <2>1, <2>2, CandidateType DEF TypeOK
  <2>4. ASSUME NEW c \in Content, c \in blobs', refCount'[c] = 0, c # RemovedCandidate(k)
        PROVE  c \in blobs /\ refCount[c] = 0
    BY <1>t, <2>2, <2>3, <2>4 DEF Decrement, RemovedCandidate
  <2> QED
    BY <1>t, <2>2, <2>3, <2>4, TransactionHandsOver
<1>4. CASE Enqueue(r)
  <2>1. /\ req[r].pc = "enqueue" /\ pending' = Append(pending, req[r].cas)
        /\ UNCHANGED <<blobs, refCount, gc>>
        /\ req' = [req EXCEPT ![r] = Idle("done")]
    BY <1>4 DEF Enqueue, AddPendingDelete, metaVars, Finish
  <2>2. pending \in Seq(Content) /\ req[r].cas \in Content
    BY <2>1, RequestFields DEF TypeOK, GCTypeOK
  <2>3. /\ Len(pending) + 1 \in DOMAIN pending' /\ pending'[Len(pending) + 1] = req[r].cas
        /\ \A i \in DOMAIN pending : i \in DOMAIN pending' /\ pending'[i] = pending[i]
    BY <2>1, <2>2
  <2>4. \A q \in Requests : q = r \/ req'[q] = req[q]
    BY <2>1 DEF TypeOK
  <2>5. ZeroCountIsQueued'
    BY <2>1, <2>3, <2>4 DEF ZeroCountIsQueued, HandedOver
  <2>6. CancelledIsQueued'
    BY <2>1, <2>3, <2>4 DEF CancelledIsQueued, HandedOver, GCKey
  <2> QED
    BY <2>5, <2>6
<1>5. CASE ~(PutFast(r) \/ PutOverwrite(r) \/ PutUpsert(r) \/ DeleteObject(r) \/ Enqueue(r))
  <2>1. /\ UNCHANGED <<blobs, refCount, pending, gc>>
        /\ req[r].pc # "enqueue"
        /\ \A q \in Requests : q = r \/ req'[q] = req[q]
    BY <1>5 DEF RequestStep, PutStep, DeleteStep, RequestFails, BeginPut, BeginDelete,
       CommitWrite, CommitRename, PutDuplicate, PutSelectNone, DeleteMissing,
       RejectUpload, RejectPut, PutAborted, RequestError, gcVars, metaVars, Goto, Finish, TypeOK
  <2> QED
    BY <2>1 DEF ZeroCountIsQueued, CancelledIsQueued, HandedOver, GCKey
<1> QED
  BY <1>1, <1>2, <1>3, <1>4, <1>5

\* Without database errors, aborted statements, file errors and crashes no
\* content with count 0 is ever forgotten by the handlers and the collector
\* together.  (One aborted SELECT ... FOR UPDATE of the collector is enough to
\* forget a content: the key is skipped and nobody queues it again.)
THEOREM NothingForgotten ==
    ASSUME Faults \subseteq {"header"}
    PROVE  Spec => []ZeroCountIsQueued
<1>1. Init => ProbedIsThere /\ ZeroCountIsQueued /\ CancelledIsQueued
  <2> SUFFICES ASSUME Init  PROVE ProbedIsThere /\ ZeroCountIsQueued /\ CancelledIsQueued
    OBVIOUS
  <2>1. \A c \in blobs : refCount[c] # 0
    BY ReferencesNat DEF Init, MetaInit
  <2>2. gc.pc = "wait"
    BY DEF Init, GCInit, GCWaiting
  <2> QED
    BY <2>1, <2>2 DEF ProbedIsThere, ZeroCountIsQueued, CancelledIsQueued
<1>2. QueueInv /\ [Next]_vars => (ProbedIsThere /\ ZeroCountIsQueued /\ CancelledIsQueued)'
  <2> SUFFICES ASSUME QueueInv, [Next]_vars
               PROVE  (ProbedIsThere /\ ZeroCountIsQueued /\ CancelledIsQueued)'
    OBVIOUS
  <2>1. CASE UNCHANGED vars
    BY <2>1 DEF vars, metaVars, gcVars, QueueInv, ProbedIsThere, ZeroCountIsQueued,
       CancelledIsQueued, HandedOver, GCKey
  <2>2. ~Crash
    BY DEF Crash
  <2>3. CASE CollectorStep
    <3>t. gc \in [pc : GCPcs, batch : Seq(Content), moved : BOOLEAN]
      BY DEF QueueInv, TypeOK, GCTypeOK, CollectorOK
    <3>a. GCProbe => ProbedIsThere'
      BY <3>t DEF GCProbe, GCGoto, ProbedIsThere, GCKey
    <3>b. GCIdle => ProbedIsThere'
      BY DEF GCIdle, gcVars, ProbedIsThere
    <3>c. ASSUME ~GCProbe, ~GCIdle  PROVE ProbedIsThere'
      <4>1. GCNextKey \/ GCTakeBatch => gc'.pc # "quarantine"
        BY DEF GCNextKey, GCTakeBatch
      <4>2. \A pc \in GCPcs \ {"quarantine"} : GCGoto(pc) => gc'.pc # "quarantine"
        BY <3>t DEF GCGoto
      <4>3. GCQuarantine \/ GCRemove => gc'.pc # "quarantine"
        BY <3>t, <4>1 DEF GCQuarantine, GCRemove
      <4>4. gc'.pc # "quarantine"
        BY <2>3, <3>c, <4>1, <4>2, <4>3 DEF CollectorStep, GCStep, GCCheck, GCRecheck, GCRestore,
           GCCallback, GCDatabaseError, GCFileError, GCDeleteRow, GCPcs
      <4> QED
        BY <4>4 DEF ProbedIsThere
    <3>1. ProbedIsThere'
      BY <3>a, <3>b, <3>c
    <3> QED
      BY <2>3, <3>1, CollectorForgetsNothing
  <2>4. ASSUME NEW r \in Requests, RequestStep(r)
        PROVE  (ProbedIsThere /\ ZeroCountIsQueued /\ CancelledIsQueued)'
    <3>1. gc' = gc /\ files \subseteq files'
      BY <2>4 DEF RequestStep, PutStep, DeleteStep, RequestFails, BeginPut, BeginDelete,
         CommitWrite, CommitRename, PutFast, PutDuplicate, PutOverwrite, PutSelectNone, PutUpsert,
         DeleteObject, DeleteMissing, Enqueue, RejectUpload, RejectPut, PutAborted, RequestError, gcVars
    <3> QED
      BY <2>4, <3>1, RequestForgetsNothing DEF QueueInv, ProbedIsThere, GCKey
  <2> QED
    BY <2>1, <2>2, <2>3, <2>4 DEF Next
<1> QED
  BY <1>1, <1>2, TypeCorrect, CountsNeverTooLow, PTL DEF Spec, QueueInv

=============================================================================
