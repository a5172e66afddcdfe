-------------------------- MODULE ObjectTxnProofs --------------------------
(***************************************************************************)
(* The statements of the object transactions, for any number of requests,  *)
(* keys and contents: types, that a check of the collector is atomic, and  *)
(* that the row locks make every transaction one step of ObjectStore.      *)
(***************************************************************************)
EXTENDS ObjectTxn, FiniteSetTheorems, SequenceTheorems, TLAPS

(***************************************************************************)
(* The inductive invariant.  A transaction that has read or written a row  *)
(* holds its lock, so that what it remembers of the row is still true.     *)
(***************************************************************************)

TxnPcs == {"new", "store", "sSelect", "enqueue", "done"}
             \cup FastPcs \cup SlowPcs \cup DeletePcs

TxnRecords ==
    [pc : TxnPcs, key : Keys \cup {None}, cas : Content \cup {None},
     old : Content \cup {None}, newRef : Nat, oldRef : Nat, attempt : 0 .. MaxAttempts - 1]

\* The fields a transaction at each statement has.
FieldsOK(t) ==
    /\ t \in TxnRecords
    /\ t.pc \in {"store", "sSelect"} \cup FastPcs \cup SlowPcs => t.key \in Keys /\ t.cas \in Content
    /\ t.pc \in DeletePcs => t.key \in Keys /\ t.cas = None /\ t.attempt = 0
    /\ t.pc = "enqueue" => t.key = None /\ t.cas \in Content /\ t.attempt = 0
    /\ t.pc \in {"new", "done"} => t = Fresh(t.pc)
    /\ t.pc = "store" => t.attempt = 0
    /\ t.pc \in {"sDec", "dDec", "dCommit"} => t.old \in Content
    /\ t.pc \notin SlowPcs \cup {"dDec", "dCommit"} => t.old = None
    /\ t.pc \in {"sInc", "sDec"} => t.old # t.cas

\* newRef is the count to be written for cas, oldRef the one for old.
CountsNew(t) ==
    \/ t.pc \in {"fInsert", "fCommit", "sDec"}
    \/ t.pc \in {"sUpsert", "sCommit"} /\ t.old # t.cas

CountsOld(t) ==
    \/ t.pc \in {"sUpsert", "sCommit"} /\ t.old \notin {None, t.cas}
    \/ t.pc = "dCommit"

HoldsSlot(t) == t.pc \in {"fCommit", "sCommit"} \/ t.old # None

Lower(n) == IF n > 0 THEN n - 1 ELSE 0

\* What transaction r, at t, holds and knows.
TxnInv(r, t) ==
    /\ CountsNew(t) => casLock[t.cas] = r /\ t.newRef = refCount[t.cas] + 1
    /\ CountsOld(t) => casLock[t.old] = r /\ t.oldRef = Lower(refCount[t.old])
    /\ HoldsSlot(t) => slotLock[SlotOf[t.key]] = r
    /\ t.old # None => objKey[SlotOf[t.key]] = t.key /\ objCas[SlotOf[t.key]] = t.old
    /\ t.pc = "fCommit" => ~Duplicate(t.key)

CheckInv ==
    /\ chk \in [pc : {"idle", "objects", "parts", "yes"}, cas : Content \cup {None}]
    /\ chk.pc \in {"objects", "parts"} =>
          /\ chk.cas \in Content /\ casLock[chk.cas] = Checker
          /\ chk.cas \in blobs /\ refCount[chk.cas] = 0
    /\ chk.pc = "parts" => ObjectRefs(chk.cas) = {}

\* The foreign key of `objects'.
RowsHaveBlobs == \A s \in Slots : objCas[s] # None => objCas[s] \in blobs

LockTypes ==
    /\ casLock \in [Content -> Requests \cup {Checker, None}]
    /\ slotLock \in [Slots -> Requests \cup {None}]

Inv ==
    /\ MetaTypeOK /\ RowsHaveBlobs /\ LockTypes
    /\ txn \in [Requests -> TxnRecords]
    /\ \A r \in Requests : FieldsOK(txn[r]) /\ TxnInv(r, txn[r])
    /\ CheckInv
    /\ pending \in Seq(Content)

----------------------------------------------------------------------------
(***************************************************************************)
(* Locks                                                                   *)
(***************************************************************************)

\* A step of r leaves the locks of others alone.
SparesLocks(r) ==
    /\ \A c \in Content : casLock[c] \notin {None, r} => casLock'[c] = casLock[c]
    /\ \A s \in Slots : slotLock[s] \notin {None, r} => slotLock'[s] = slotLock[s]

KeepsLocks(r) ==
    /\ \A c \in Content : casLock[c] = r => casLock'[c] = r
    /\ \A s \in Slots : slotLock[s] = r => slotLock'[s] = r

LEMMA LockCasOK ==
    ASSUME LockTypes, NEW r \in Requests \cup {Checker}, NEW c \in Content,
           LockCas(r, c), UNCHANGED slotLock
    PROVE  LockTypes' /\ SparesLocks(r) /\ KeepsLocks(r) /\ casLock'[c] = r
  BY DEF LockTypes, LockCas, Owns, SparesLocks, KeepsLocks

LEMMA LockSlotOK ==
    ASSUME LockTypes, NEW r \in Requests, Slot(r) \in Slots, LockSlot(r), UNCHANGED casLock
    PROVE  LockTypes' /\ SparesLocks(r) /\ KeepsLocks(r) /\ slotLock'[Slot(r)] = r
  BY DEF LockTypes, LockSlot, Owns, SparesLocks, KeepsLocks

LEMMA ReleaseOK ==
    ASSUME LockTypes, NEW r, Release(r)
    PROVE  LockTypes' /\ SparesLocks(r)
  BY DEF LockTypes, Release, SparesLocks

LEMMA SameLocksOK ==
    ASSUME LockTypes, NEW r, UNCHANGED locks
    PROVE  LockTypes' /\ SparesLocks(r) /\ KeepsLocks(r)
  BY DEF LockTypes, locks, SparesLocks, KeepsLocks

(***************************************************************************)
(* What a step of a request does to the others                             *)
(***************************************************************************)

\* Tables change only where r holds the lock; a reference to a content is only
\* added by the holder of its row.
SparesRows(r) ==
    /\ \A c \in Content : casLock[c] \notin {None, r} => refCount'[c] = refCount[c]
    /\ \A s \in Slots : slotLock[s] \notin {None, r} =>
                           objKey'[s] = objKey[s] /\ objCas'[s] = objCas[s]
    /\ \A s \in Slots : objCas'[s] \in {objCas[s], None} \/ casLock[objCas'[s]] = r
    /\ blobs \subseteq blobs'
    /\ partCas' = partCas

\* The transaction itself.
Moves(r) ==
    /\ txn' \in [Requests -> TxnRecords]
    /\ \A q \in Requests \ {r} : txn'[q] = txn[q]
    /\ FieldsOK(txn[r])' /\ TxnInv(r, txn[r])'

LEMMA OthersUndisturbed ==
    ASSUME Inv, NEW r \in Requests \cup {Checker}, NEW q \in Requests \ {r},
           SparesLocks(r), SparesRows(r), txn'[q] = txn[q]
    PROVE  FieldsOK(txn[q])' /\ TxnInv(q, txn[q])'
  <1> DEFINE t == txn[q]
  <1>1. FieldsOK(t) /\ TxnInv(q, t) /\ q \notin {None, r}
    BY CheckerAssumption DEF Inv
  <1>2. FieldsOK(txn[q])'
    BY <1>1 DEF FieldsOK, Fresh
  <1>3. CountsNew(t) => t.cas \in Content
    BY <1>1 DEF FieldsOK, CountsNew, FastPcs, SlowPcs
  <1>4. CountsOld(t) => t.old \in Content
    BY <1>1 DEF FieldsOK, CountsOld, TxnRecords, SlowPcs
  <1>5. HoldsSlot(t) => SlotOf[t.key] \in Slots
    <2>1. t.old # None => t.pc \in SlowPcs \cup {"dDec", "dCommit"}
      BY <1>1 DEF FieldsOK
    <2>2. HoldsSlot(t) => t.key \in Keys
      BY <1>1, <2>1 DEF FieldsOK, HoldsSlot, FastPcs, SlowPcs, DeletePcs
    <2> QED
      BY <2>2, TablesAssumption
  <1> HIDE DEF t
  <1>6. CountsNew(t) => casLock'[t.cas] = q /\ t.newRef = refCount'[t.cas] + 1
    BY <1>1, <1>3 DEF TxnInv, SparesLocks, SparesRows
  <1>7. CountsOld(t) => casLock'[t.old] = q /\ t.oldRef = Lower(refCount'[t.old])
    BY <1>1, <1>4 DEF TxnInv, SparesLocks, SparesRows
  <1>8. HoldsSlot(t) => /\ slotLock'[SlotOf[t.key]] = q
                        /\ objKey'[SlotOf[t.key]] = objKey[SlotOf[t.key]]
                        /\ objCas'[SlotOf[t.key]] = objCas[SlotOf[t.key]]
    BY <1>1, <1>5 DEF TxnInv, SparesLocks, SparesRows
  <1>9. t.old # None \/ t.pc = "fCommit" => HoldsSlot(t)
    BY DEF HoldsSlot
  <1>10. /\ t.old # None => objKey'[SlotOf[t.key]] = t.key /\ objCas'[SlotOf[t.key]] = t.old
         /\ t.pc = "fCommit" => ~(objKey'[SlotOf[t.key]] # None)
    BY <1>1, <1>8, <1>9 DEF TxnInv, Duplicate
  <1>11. TxnInv(q, t)'
    <2>1. t' = t
      BY DEF t
    <2> QED
      BY <1>6, <1>7, <1>8, <1>10, <2>1 DEF TxnInv, CountsNew, CountsOld, HoldsSlot, Duplicate
  <1> QED
    BY <1>2, <1>11 DEF t

LEMMA CheckUndisturbed ==
    ASSUME Inv, NEW r \in Requests, SparesLocks(r), SparesRows(r), chk' = chk
    PROVE  CheckInv'
  <1>1. CheckInv /\ Checker \notin {None, r}
    BY CheckerAssumption DEF Inv
  <1>2. chk.pc \in {"objects", "parts"} =>
           casLock'[chk.cas] = Checker /\ refCount'[chk.cas] = refCount[chk.cas]
    BY <1>1 DEF CheckInv, SparesLocks, SparesRows
  <1>3. chk.pc = "parts" => ObjectRefs(chk.cas)' = {}
    <2> SUFFICES ASSUME chk.pc = "parts", NEW s \in Slots, objCas'[s] = chk.cas
                 PROVE  FALSE
      BY DEF ObjectRefs
    <2>1. objCas[s] # chk.cas /\ chk.cas # None /\ casLock[chk.cas] = Checker
      BY <1>1, TablesAssumption DEF CheckInv, ObjectRefs
    <2> QED
      BY <1>1, <2>1 DEF SparesRows
  <1> QED
    BY <1>1, <1>2, <1>3 DEF CheckInv, SparesRows

LEMMA StepKeepsInv ==
    ASSUME Inv, NEW r \in Requests, SparesLocks(r), SparesRows(r), Moves(r),
           MetaTypeOK', RowsHaveBlobs', LockTypes', chk' = chk, pending' \in Seq(Content)
    PROVE  Inv'
  <1>1. \A q \in Requests : FieldsOK(txn[q])' /\ TxnInv(q, txn[q])'
    BY OthersUndisturbed DEF Moves
  <1>2. CheckInv'
    BY CheckUndisturbed
  <1> QED
    BY <1>1, <1>2 DEF Inv, Moves

(***************************************************************************)
(* Statements that leave the tables alone                                  *)
(***************************************************************************)

\* A transaction at one of these statements remembers nothing of any row.
Blank(u) ==
    /\ u.old = None
    /\ u.pc \in {"new", "store", "fInc", "sSelect", "sInc", "enqueue", "done", "dSelect"}

LEMMA BlankKnowsNothing ==
    ASSUME NEW u, Blank(u)
    PROVE  ~CountsNew(u) /\ ~CountsOld(u) /\ ~HoldsSlot(u) /\ u.pc # "fCommit" /\ u.old = None
  BY DEF Blank, CountsNew, CountsOld, HoldsSlot

\* What TxnInv says of the next state when the tables do not change.
Knows(r, u) ==
    /\ CountsNew(u) => casLock'[u.cas] = r /\ u.newRef = refCount[u.cas] + 1
    /\ CountsOld(u) => casLock'[u.old] = r /\ u.oldRef = Lower(refCount[u.old])
    /\ HoldsSlot(u) => slotLock'[SlotOf[u.key]] = r
    /\ u.old # None => objKey[SlotOf[u.key]] = u.key /\ objCas[SlotOf[u.key]] = u.old
    /\ u.pc = "fCommit" => ~Duplicate(u.key)

LEMMA QuietKeepsInv ==
    ASSUME Inv, NEW r \in Requests, NEW u, txn' = [txn EXCEPT ![r] = u],
           FieldsOK(u), Knows(r, u), SparesLocks(r), LockTypes',
           UNCHANGED <<metaVars, chk>>, pending' \in Seq(Content)
    PROVE  Inv'
  <1>1. SparesRows(r)
    BY DEF SparesRows, metaVars
  <1>2. MetaTypeOK' /\ RowsHaveBlobs'
    BY DEF Inv, MetaTypeOK, RowsWellFormed, RowsHaveBlobs, metaVars
  <1>3. txn' \in [Requests -> TxnRecords] /\ txn'[r] = u
        /\ \A q \in Requests \ {r} : txn'[q] = txn[q]
    BY DEF Inv, FieldsOK
  <1>4. FieldsOK(txn[r])'
    BY <1>3 DEF FieldsOK, Fresh
  <1>5. TxnInv(r, txn[r])'
    <2>1. UNCHANGED <<refCount, objKey, objCas>>
      BY DEF metaVars
    <2> QED
      BY <1>3, <2>1 DEF Knows, TxnInv, CountsNew, CountsOld, HoldsSlot, Duplicate
  <1>6. Moves(r)
    BY <1>3, <1>4, <1>5 DEF Moves
  <1> QED
    BY <1>1, <1>2, <1>6, StepKeepsInv

\* A transaction that remembers nothing, whatever happens to its locks.
LEMMA BlankKeepsInv ==
    ASSUME Inv, NEW r \in Requests, NEW u, txn' = [txn EXCEPT ![r] = u],
           FieldsOK(u), Blank(u), SparesLocks(r), LockTypes',
           UNCHANGED <<metaVars, chk>>, pending' \in Seq(Content)
    PROVE  Inv'
  BY BlankKnowsNothing, QuietKeepsInv DEF Knows

LEMMA TxnFacts ==
    ASSUME Inv, NEW r \in Requests
    PROVE  /\ FieldsOK(txn[r]) /\ TxnInv(r, txn[r]) /\ txn[r] \in TxnRecords
           /\ LockTypes /\ MetaTypeOK /\ pending \in Seq(Content)
           /\ txn[r].key \in Keys => Slot(r) = SlotOf[txn[r].key] /\ Slot(r) \in Slots
  BY TablesAssumption DEF Inv, Slot

LEMMA BeginPutInv ==
    ASSUME Inv, NEW r \in Requests, BeginPut(r)
    PROVE  Inv'
  <1>1. PICK k \in Keys, c \in Content :
           txn' = [txn EXCEPT ![r] = [Fresh("store") EXCEPT !.key = k, !.cas = c]]
    BY DEF BeginPut
  <1> DEFINE u == [Fresh("store") EXCEPT !.key = k, !.cas = c]
  <1>2. /\ u.pc = "store" /\ u.key = k /\ u.cas = c /\ u.old = None
        /\ u.newRef = 0 /\ u.oldRef = 0 /\ u.attempt = 0
        /\ u \in TxnRecords
    <2>1. Fresh("store") \in TxnRecords
      BY AttemptsAssumption DEF Fresh, TxnRecords, TxnPcs
    <2>2. /\ u.pc = "store" /\ u.key = k /\ u.cas = c /\ u.old = None
        /\ u.newRef = 0 /\ u.oldRef = 0 /\ u.attempt = 0
      BY DEF Fresh
    <2>3. u \in TxnRecords
      BY <2>1 DEF TxnRecords
    <2> QED
      BY <2>2, <2>3
  <1> HIDE DEF u
  <1>3. FieldsOK(u) /\ Blank(u)
    BY <1>2
    DEF FieldsOK, Blank, TxnRecords, TxnPcs, FastPcs, SlowPcs, DeletePcs
  <1>4. UNCHANGED <<metaVars, locks, chk, pending>>
    BY DEF BeginPut
  <1> QED
    BY <1>1, <1>3, <1>4, TxnFacts, SameLocksOK, BlankKeepsInv DEF u

LEMMA BeginDeleteInv ==
    ASSUME Inv, NEW r \in Requests, BeginDelete(r)
    PROVE  Inv'
  <1>1. PICK k \in Keys : txn' = [txn EXCEPT ![r] = [Fresh("dSelect") EXCEPT !.key = k]]
    BY DEF BeginDelete
  <1> DEFINE u == [Fresh("dSelect") EXCEPT !.key = k]
  <1>2. u = [pc |-> "dSelect", key |-> k, cas |-> None, old |-> None,
             newRef |-> 0, oldRef |-> 0, attempt |-> 0]
    BY DEF Fresh
  <1> HIDE DEF u
  <1>3. FieldsOK(u) /\ Blank(u)
    BY <1>2, AttemptsAssumption
    DEF FieldsOK, Blank, TxnRecords, TxnPcs, FastPcs, SlowPcs, DeletePcs
  <1>4. UNCHANGED <<metaVars, locks, chk, pending>>
    BY DEF BeginDelete
  <1> QED
    BY <1>1, <1>3, <1>4, TxnFacts, SameLocksOK, BlankKeepsInv DEF u

\* The answer of a request.
LEMMA FreshDone ==
    /\ FieldsOK(Fresh("done")) /\ Blank(Fresh("done"))
    /\ Fresh("done") \in TxnRecords
  BY AttemptsAssumption
  DEF Fresh, FieldsOK, Blank, TxnRecords, TxnPcs, FastPcs, SlowPcs, DeletePcs

LEMMA StoredInv ==
    ASSUME Inv, NEW r \in Requests, Stored(r)
    PROVE  Inv'
  <1> DEFINE t == txn[r]
             u == [t EXCEPT !.pc = "fInc"]
  <1>1. FieldsOK(t) /\ t.pc = "store"
    BY TxnFacts DEF Stored
  <1>2. txn' = [txn EXCEPT ![r] = u] /\ UNCHANGED <<metaVars, locks, chk, pending>>
    BY DEF Stored
  <1> HIDE DEF t
  <1>3. FieldsOK(u) /\ Blank(u)
    BY <1>1 DEF FieldsOK, Blank, TxnRecords, TxnPcs, FastPcs, SlowPcs, DeletePcs
  <1> HIDE DEF u
  <1> QED
    BY <1>2, <1>3, TxnFacts, SameLocksOK, BlankKeepsInv

LEMMA FastIncrementInv ==
    ASSUME Inv, NEW r \in Requests, FastIncrement(r)
    PROVE  Inv'
  <1> DEFINE t == txn[r]
             n == refCount[t.cas] + 1
             u == [t EXCEPT !.pc = "fInsert", !.newRef = n]
  <1>1. FieldsOK(t) /\ t.pc = "fInc" /\ LockCas(r, t.cas)
    BY TxnFacts DEF FastIncrement
  <1>2. txn' = [txn EXCEPT ![r] = u] /\ UNCHANGED <<metaVars, slotLock, chk, pending>>
    BY DEF FastIncrement
  <1>3. t.cas \in Content /\ n \in Nat
    BY <1>1, TxnFacts DEF FieldsOK, FastPcs, MetaTypeOK
  <1>4. n = refCount[t.cas] + 1
    OBVIOUS
  <1> HIDE DEF t, n
  <1>5. FieldsOK(u) /\ u.old = None /\ u.pc = "fInsert" /\ u.cas = t.cas /\ u.newRef = n
    <2>1. t \in TxnRecords /\ "fInsert" \in TxnPcs
      BY <1>1 DEF FieldsOK, TxnPcs, FastPcs
    <2>2. /\ u \in TxnRecords /\ u.pc = "fInsert" /\ u.cas = t.cas /\ u.key = t.key
          /\ u.old = t.old /\ u.newRef = n
      BY <1>3, <2>1 DEF TxnRecords
    <2> HIDE DEF u
    <2> QED
      BY <1>1, <2>2 DEF FieldsOK, FastPcs, SlowPcs, DeletePcs
  <1> HIDE DEF u
  <1>6. LockTypes' /\ SparesLocks(r) /\ casLock'[u.cas] = r
    BY <1>1, <1>2, <1>3, <1>5, TxnFacts, LockCasOK
  <1>7. Knows(r, u)
    BY <1>4, <1>5, <1>6 DEF Knows, CountsOld, HoldsSlot
  <1> QED
    BY <1>2, <1>5, <1>6, <1>7, TxnFacts, QuietKeepsInv

LEMMA FastInsertInv ==
    ASSUME Inv, NEW r \in Requests, FastInsert(r)
    PROVE  Inv'
  <1> DEFINE t == txn[r]
             u == [t EXCEPT !.pc = "fCommit"]
  <1>1. FieldsOK(t) /\ TxnInv(r, t) /\ t.pc = "fInsert" /\ LockSlot(r) /\ ~Duplicate(t.key)
    BY TxnFacts DEF FastInsert
  <1>2. txn' = [txn EXCEPT ![r] = u] /\ UNCHANGED <<metaVars, casLock, chk, pending>>
    BY DEF FastInsert
  <1>3. t.key \in Keys
    BY <1>1 DEF FieldsOK, FastPcs
  <1>4. Slot(r) = SlotOf[t.key] /\ Slot(r) \in Slots
    BY <1>3, TxnFacts
  <1> HIDE DEF t
  <1>5. FieldsOK(u) /\ u.old = None /\ u.pc = "fCommit" /\ u.cas = t.cas
        /\ u.newRef = t.newRef /\ u.key = t.key
    BY <1>1 DEF FieldsOK, TxnRecords, TxnPcs, FastPcs, SlowPcs, DeletePcs
  <1> HIDE DEF u
  <1>6. LockTypes' /\ SparesLocks(r) /\ slotLock'[SlotOf[u.key]] = r
    BY <1>1, <1>2, <1>4, <1>5, TxnFacts, LockSlotOK
  <1>7. Knows(r, u)
    BY <1>1, <1>2, <1>5, <1>6 DEF Knows, TxnInv, CountsNew, CountsOld, HoldsSlot
  <1> QED
    BY <1>2, <1>5, <1>6, <1>7, TxnFacts, QuietKeepsInv

LEMMA FastDuplicateInv ==
    ASSUME Inv, NEW r \in Requests, FastDuplicate(r)
    PROVE  Inv'
  <1> DEFINE t == txn[r]
             u == [t EXCEPT !.pc = "sSelect", !.newRef = 0]
  <1>1. FieldsOK(t) /\ t.pc = "fInsert" /\ Release(r)
    BY TxnFacts DEF FastDuplicate
  <1>2. txn' = [txn EXCEPT ![r] = u] /\ UNCHANGED <<metaVars, chk, pending>>
    BY DEF FastDuplicate
  <1> HIDE DEF t
  <1>3. FieldsOK(u) /\ Blank(u)
    BY <1>1 DEF FieldsOK, Blank, TxnRecords, TxnPcs, FastPcs, SlowPcs, DeletePcs
  <1> HIDE DEF u
  <1> QED
    BY <1>1, <1>2, <1>3, TxnFacts, ReleaseOK, BlankKeepsInv

LEMMA SlowIncrementInv ==
    ASSUME Inv, NEW r \in Requests, SlowIncrement(r)
    PROVE  Inv'
  <1> DEFINE t == txn[r]
             n == refCount[t.cas] + 1
             p == IF t.old = None THEN "sUpsert" ELSE "sDec"
             u == [t EXCEPT !.pc = p, !.newRef = n]
  <1>1. FieldsOK(t) /\ TxnInv(r, t) /\ t.pc = "sInc" /\ LockCas(r, t.cas)
    BY TxnFacts DEF SlowIncrement
  <1>2. txn' = [txn EXCEPT ![r] = u] /\ UNCHANGED <<metaVars, slotLock, chk, pending>>
    BY DEF SlowIncrement
  <1>3. t.cas \in Content /\ n \in Nat /\ t.cas # None
    BY <1>1, TxnFacts, TablesAssumption DEF FieldsOK, SlowPcs, MetaTypeOK
  <1>4. n = refCount[t.cas] + 1
    OBVIOUS
  <1>5. (p = "sUpsert" /\ t.old = None) \/ (p = "sDec" /\ t.old # None)
    OBVIOUS
  <1> HIDE DEF t, n, p
  <1>6. FieldsOK(u) /\ u.old = t.old /\ u.pc = p /\ u.cas = t.cas /\ u.newRef = n /\ u.key = t.key
    <2>1. t \in TxnRecords /\ p \in TxnPcs
      BY <1>1, <1>5 DEF FieldsOK, TxnPcs, SlowPcs
    <2>2. /\ u \in TxnRecords /\ u.pc = p /\ u.cas = t.cas /\ u.key = t.key
          /\ u.old = t.old /\ u.newRef = n
      BY <1>3, <2>1 DEF TxnRecords
    <2>3. t.old \in Content \cup {None}
      BY <2>1 DEF TxnRecords
    <2> HIDE DEF u
    <2> QED
      BY <1>1, <1>5, <2>2, <2>3 DEF FieldsOK, FastPcs, SlowPcs, DeletePcs
  <1> HIDE DEF u
  <1>7. LockTypes' /\ SparesLocks(r) /\ KeepsLocks(r) /\ casLock'[u.cas] = r
    BY <1>1, <1>2, <1>3, <1>6, TxnFacts, LockCasOK
  <1>8. Knows(r, u)
    <2>1. ~CountsOld(u)
      BY <1>5, <1>6 DEF CountsOld
    <2>2. HoldsSlot(u) => t.old # None
      BY <1>5, <1>6 DEF HoldsSlot
    <2>3. t.old # None => slotLock[SlotOf[t.key]] = r /\ objKey[SlotOf[t.key]] = t.key
                          /\ objCas[SlotOf[t.key]] = t.old
      BY <1>1 DEF TxnInv, HoldsSlot
    <2> QED
      BY <1>2, <1>4, <1>5, <1>6, <1>7, <2>1, <2>2, <2>3 DEF Knows
  <1> QED
    BY <1>2, <1>6, <1>7, <1>8, TxnFacts, QuietKeepsInv

LEMMA DecrementIsLower ==
    ASSUME MetaTypeOK, NEW c \in Content
    PROVE  Decrement(refCount, c)[c] = Lower(refCount[c]) /\ Lower(refCount[c]) \in Nat
  BY DEF MetaTypeOK, Decrement, Lower

LEMMA SlowDecrementInv ==
    ASSUME Inv, NEW r \in Requests, SlowDecrement(r)
    PROVE  Inv'
  <1> DEFINE t == txn[r]
             n == Decrement(refCount, t.old)[t.old]
             u == [t EXCEPT !.pc = "sUpsert", !.oldRef = n]
  <1>1. FieldsOK(t) /\ TxnInv(r, t) /\ t.pc = "sDec" /\ LockCas(r, t.old)
    BY TxnFacts DEF SlowDecrement
  <1>2. txn' = [txn EXCEPT ![r] = u] /\ UNCHANGED <<metaVars, slotLock, chk, pending>>
    BY DEF SlowDecrement
  <1>3. t.old \in Content /\ t.cas \in Content /\ t.old # t.cas /\ t.old # None /\ t.cas # None
    BY <1>1, TablesAssumption DEF FieldsOK, SlowPcs
  <1>4. n = Lower(refCount[t.old]) /\ n \in Nat
    BY <1>3, TxnFacts, DecrementIsLower
  <1> HIDE DEF t, n
  <1>5. FieldsOK(u) /\ u.old = t.old /\ u.pc = "sUpsert" /\ u.cas = t.cas
        /\ u.newRef = t.newRef /\ u.oldRef = n /\ u.key = t.key
    <2>1. t \in TxnRecords /\ "sUpsert" \in TxnPcs
      BY <1>1 DEF FieldsOK, TxnPcs, SlowPcs
    <2>2. /\ u \in TxnRecords /\ u.pc = "sUpsert" /\ u.cas = t.cas /\ u.key = t.key
          /\ u.old = t.old /\ u.newRef = t.newRef /\ u.oldRef = n
      BY <1>4, <2>1 DEF TxnRecords
    <2> HIDE DEF u
    <2> QED
      BY <1>1, <2>2 DEF FieldsOK, FastPcs, SlowPcs, DeletePcs
  <1> HIDE DEF u
  <1>6. LockTypes' /\ SparesLocks(r) /\ KeepsLocks(r) /\ casLock'[u.old] = r
    BY <1>1, <1>2, <1>3, <1>5, TxnFacts, LockCasOK
  <1>7. /\ casLock[t.cas] = r /\ t.newRef = refCount[t.cas] + 1
        /\ slotLock[SlotOf[t.key]] = r /\ objKey[SlotOf[t.key]] = t.key
        /\ objCas[SlotOf[t.key]] = t.old
    BY <1>1, <1>3 DEF TxnInv, CountsNew, HoldsSlot
  <1>8. casLock'[t.cas] = r
    BY <1>3, <1>6, <1>7 DEF KeepsLocks
  <1>9. Knows(r, u)
    BY <1>2, <1>3, <1>4, <1>5, <1>6, <1>7, <1>8 DEF Knows
  <1> QED
    BY <1>2, <1>5, <1>6, <1>9, TxnFacts, QuietKeepsInv

LEMMA DeleteDecrementInv ==
    ASSUME Inv, NEW r \in Requests, DeleteDecrement(r)
    PROVE  Inv'
  <1> DEFINE t == txn[r]
             n == Decrement(refCount, t.old)[t.old]
             u == [t EXCEPT !.pc = "dCommit", !.oldRef = n]
  <1>1. FieldsOK(t) /\ TxnInv(r, t) /\ t.pc = "dDec" /\ LockCas(r, t.old)
    BY TxnFacts DEF DeleteDecrement
  <1>2. txn' = [txn EXCEPT ![r] = u] /\ UNCHANGED <<metaVars, slotLock, chk, pending>>
    BY DEF DeleteDecrement
  <1>3. t.old \in Content /\ t.old # None
    BY <1>1, TablesAssumption DEF FieldsOK
  <1>4. n = Lower(refCount[t.old]) /\ n \in Nat
    BY <1>3, TxnFacts, DecrementIsLower
  <1> HIDE DEF t, n
  <1>5. FieldsOK(u) /\ u.old = t.old /\ u.pc = "dCommit" /\ u.oldRef = n /\ u.key = t.key
    <2>1. t \in TxnRecords /\ "dCommit" \in TxnPcs
      BY <1>1 DEF FieldsOK, TxnPcs, DeletePcs
    <2>2. /\ u \in TxnRecords /\ u.pc = "dCommit" /\ u.cas = t.cas /\ u.key = t.key
          /\ u.old = t.old /\ u.oldRef = n /\ u.attempt = t.attempt
      BY <1>4, <2>1 DEF TxnRecords
    <2> HIDE DEF u
    <2> QED
      BY <1>1, <2>2 DEF FieldsOK, FastPcs, SlowPcs, DeletePcs
  <1> HIDE DEF u
  <1>6. LockTypes' /\ SparesLocks(r) /\ KeepsLocks(r) /\ casLock'[u.old] = r
    BY <1>1, <1>2, <1>3, <1>5, TxnFacts, LockCasOK
  <1>7. /\ slotLock[SlotOf[t.key]] = r /\ objKey[SlotOf[t.key]] = t.key
        /\ objCas[SlotOf[t.key]] = t.old
    BY <1>1, <1>3 DEF TxnInv, HoldsSlot
  <1>8. Knows(r, u)
    BY <1>2, <1>4, <1>5, <1>6, <1>7 DEF Knows, CountsNew
  <1> QED
    BY <1>2, <1>5, <1>6, <1>8, TxnFacts, QuietKeepsInv

LEMMA SlowUpsertInv ==
    ASSUME Inv, NEW r \in Requests, SlowUpsert(r)
    PROVE  Inv'
  <1> DEFINE t == txn[r]
             u == [t EXCEPT !.pc = "sCommit"]
  <1>1. FieldsOK(t) /\ TxnInv(r, t) /\ t.pc = "sUpsert" /\ LockSlot(r)
    BY TxnFacts DEF SlowUpsert
  <1>2. txn' = [txn EXCEPT ![r] = u] /\ UNCHANGED <<metaVars, casLock, chk, pending>>
    BY DEF SlowUpsert
  <1>3. t.key \in Keys
    BY <1>1 DEF FieldsOK, SlowPcs
  <1>4. Slot(r) = SlotOf[t.key] /\ Slot(r) \in Slots
    BY <1>3, TxnFacts
  <1> HIDE DEF t
  <1>5. FieldsOK(u) /\ u.old = t.old /\ u.pc = "sCommit" /\ u.cas = t.cas
        /\ u.newRef = t.newRef /\ u.oldRef = t.oldRef /\ u.key = t.key
    BY <1>1 DEF FieldsOK, TxnRecords, TxnPcs, FastPcs, SlowPcs, DeletePcs
  <1> HIDE DEF u
  <1>6. LockTypes' /\ SparesLocks(r) /\ slotLock'[SlotOf[u.key]] = r
    BY <1>1, <1>2, <1>4, <1>5, TxnFacts, LockSlotOK
  <1>7. (CountsNew(u) => CountsNew(t)) /\ (CountsOld(u) => CountsOld(t))
    BY <1>1, <1>5 DEF CountsNew, CountsOld
  <1>8. Knows(r, u)
    BY <1>1, <1>2, <1>5, <1>6, <1>7 DEF Knows, TxnInv
  <1> QED
    BY <1>2, <1>5, <1>6, <1>8, TxnFacts, QuietKeepsInv

LEMMA SelectForUpdateInv ==
    ASSUME Inv, NEW r \in Requests, SelectForUpdate(r)
    PROVE  Inv'
  <1> DEFINE t == txn[r]
             old == objCas[Slot(r)]
             p == IF old = t.cas THEN "sUpsert" ELSE "sInc"
  <1>1. FieldsOK(t) /\ t.pc = "sSelect" /\ t.old = None
    BY TxnFacts DEF SelectForUpdate, FieldsOK, SlowPcs
  <1>2. UNCHANGED <<metaVars, casLock, chk, pending>>
    BY DEF SelectForUpdate
  <1>3. t.key \in Keys /\ t.cas \in Content /\ t \in TxnRecords
    BY <1>1 DEF FieldsOK
  <1>4. Slot(r) = SlotOf[t.key] /\ Slot(r) \in Slots
    BY <1>3, TxnFacts
  <1>5. CASE Found(t.key)
    <2> DEFINE u == [t EXCEPT !.old = old, !.pc = p]
    <2>1. LockSlot(r) /\ txn' = [txn EXCEPT ![r] = u]
      BY <1>5 DEF SelectForUpdate
    <2>2. objKey[Slot(r)] = t.key /\ old \in Content /\ old # None
      BY <1>3, <1>4, <1>5, TxnFacts, TablesAssumption
      DEF Found, MetaTypeOK, RowsWellFormed
    <2>3. (p = "sUpsert" /\ old = t.cas) \/ (p = "sInc" /\ old # t.cas)
      OBVIOUS
    <2>4. objCas[Slot(r)] = old
      OBVIOUS
    <2> HIDE DEF t, old, p
    <2>5. "sUpsert" \in TxnPcs /\ "sInc" \in TxnPcs
      BY DEF TxnPcs, SlowPcs
    <2>6. /\ u \in TxnRecords /\ u.pc = p /\ u.cas = t.cas /\ u.key = t.key /\ u.old = old
      <3>1. u.pc = p /\ u.cas = t.cas /\ u.key = t.key /\ u.old = old
        BY <1>3 DEF TxnRecords
      <3>2. u \in TxnRecords
        BY <1>3, <2>2, <2>3, <2>5 DEF TxnRecords
      <3> QED
        BY <3>1, <3>2
    <2> HIDE DEF u
    <2>7. FieldsOK(u)
      BY <1>1, <1>3, <2>2, <2>3, <2>6 DEF FieldsOK, FastPcs, SlowPcs, DeletePcs
    <2>8. LockTypes' /\ SparesLocks(r) /\ slotLock'[SlotOf[u.key]] = r
      BY <1>2, <1>4, <2>1, <2>6, TxnFacts, LockSlotOK
    <2>9. ~CountsNew(u) /\ ~CountsOld(u)
      BY <2>3, <2>6 DEF CountsNew, CountsOld
    <2>10. Knows(r, u)
      BY <1>4, <2>2, <2>3, <2>4, <2>6, <2>8, <2>9 DEF Knows
    <2> QED
      BY <1>2, <2>1, <2>7, <2>8, <2>10, TxnFacts, QuietKeepsInv
  <1>6. CASE ~Found(t.key)
    <2> DEFINE u == [t EXCEPT !.pc = "sInc"]
    <2>1. txn' = [txn EXCEPT ![r] = u] /\ UNCHANGED slotLock
      BY <1>6 DEF SelectForUpdate
    <2> HIDE DEF t
    <2>2. FieldsOK(u) /\ Blank(u)
      BY <1>1, <1>3, TablesAssumption DEF FieldsOK, Blank, TxnRecords, TxnPcs, FastPcs, SlowPcs, DeletePcs
    <2> HIDE DEF u
    <2>3. UNCHANGED locks
      BY <1>2, <2>1 DEF locks
    <2> QED
      BY <1>2, <2>1, <2>2, <2>3, TxnFacts, SameLocksOK, BlankKeepsInv
  <1> QED
    BY <1>5, <1>6

LEMMA DeleteSelectInv ==
    ASSUME Inv, NEW r \in Requests, DeleteSelect(r)
    PROVE  Inv'
  <1> DEFINE t == txn[r]
             old == objCas[Slot(r)]
  <1>1. FieldsOK(t) /\ t.pc = "dSelect"
    BY TxnFacts DEF DeleteSelect
  <1>2. UNCHANGED <<metaVars, casLock, chk, pending>>
    BY DEF DeleteSelect
  <1>3. t.key \in Keys /\ t \in TxnRecords
    BY <1>1 DEF FieldsOK, DeletePcs
  <1>4. Slot(r) = SlotOf[t.key] /\ Slot(r) \in Slots
    BY <1>3, TxnFacts
  <1>5. CASE Found(t.key)
    <2> DEFINE u == [t EXCEPT !.pc = "dDec", !.old = old]
    <2>1. LockSlot(r) /\ txn' = [txn EXCEPT ![r] = u]
      BY <1>5 DEF DeleteSelect
    <2>2. objKey[Slot(r)] = t.key /\ old \in Content /\ old # None
      BY <1>3, <1>4, <1>5, TxnFacts, TablesAssumption
      DEF Found, MetaTypeOK, RowsWellFormed
    <2>3. objCas[Slot(r)] = old
      OBVIOUS
    <2> HIDE DEF t, old
    <2>4. "dDec" \in TxnPcs
      BY DEF TxnPcs, DeletePcs
    <2>5. /\ u \in TxnRecords /\ u.pc = "dDec" /\ u.cas = t.cas /\ u.key = t.key
          /\ u.old = old /\ u.attempt = t.attempt
      <3>1. /\ u.pc = "dDec" /\ u.cas = t.cas /\ u.key = t.key /\ u.old = old
            /\ u.attempt = t.attempt
        BY <1>3 DEF TxnRecords
      <3>2. u \in TxnRecords
        BY <1>3, <2>2, <2>4 DEF TxnRecords
      <3> QED
        BY <3>1, <3>2
    <2> HIDE DEF u
    <2>6. FieldsOK(u)
      BY <1>1, <1>3, <2>2, <2>5 DEF FieldsOK, FastPcs, SlowPcs, DeletePcs
    <2>7. LockTypes' /\ SparesLocks(r) /\ slotLock'[SlotOf[u.key]] = r
      BY <1>2, <1>4, <2>1, <2>5, TxnFacts, LockSlotOK
    <2>8. Knows(r, u)
      BY <1>4, <2>2, <2>3, <2>5, <2>7 DEF Knows, CountsNew, CountsOld
    <2> QED
      BY <1>2, <2>1, <2>6, <2>7, <2>8, TxnFacts, QuietKeepsInv
  <1>6. CASE ~Found(t.key)
    <2>1. txn' = [txn EXCEPT ![r] = Fresh("done")] /\ UNCHANGED locks
      BY <1>2, <1>6 DEF DeleteSelect, Answer, locks
    <2> QED
      BY <1>2, <2>1, FreshDone, TxnFacts, SameLocksOK, BlankKeepsInv
  <1> QED
    BY <1>5, <1>6

LEMMA EnqueueInv ==
    ASSUME Inv, NEW r \in Requests, Enqueue(r)
    PROVE  Inv'
  <1>1. txn[r].cas \in Content
    BY TxnFacts DEF Enqueue, FieldsOK
  <1>2. pending' \in Seq(Content)
    BY <1>1, TxnFacts DEF Enqueue
  <1>3. txn' = [txn EXCEPT ![r] = Fresh("done")] /\ UNCHANGED <<metaVars, locks, chk>>
    BY DEF Enqueue, Answer
  <1> QED
    BY <1>2, <1>3, FreshDone, TxnFacts, SameLocksOK, BlankKeepsInv

LEMMA AbortedInv ==
    ASSUME Inv, NEW r \in Requests, Aborted(r)
    PROVE  Inv'
  <1> DEFINE t == txn[r]
  <1>1. FieldsOK(t) /\ Blocked(r) /\ Release(r) /\ UNCHANGED <<metaVars, chk, pending>>
    BY TxnFacts DEF Aborted
  <1>2. LockTypes' /\ SparesLocks(r)
    BY <1>1, TxnFacts, ReleaseOK
  <1>3. CASE t.pc \notin DeletePcs /\ t.attempt + 1 < MaxAttempts
    <2> DEFINE u == [Fresh("fInc") EXCEPT !.key = t.key, !.cas = t.cas, !.attempt = t.attempt + 1]
    <2>1. txn' = [txn EXCEPT ![r] = u]
      BY <1>3 DEF Aborted
    <2>2. t.pc \in {"store", "sSelect"} \cup FastPcs \cup SlowPcs
      BY <1>1, <1>3 DEF Blocked, FastPcs, SlowPcs, DeletePcs
    <2>3. t.key \in Keys /\ t.cas \in Content /\ t.attempt + 1 \in 0 .. MaxAttempts - 1
      BY <1>1, <1>3, <2>2, AttemptsAssumption DEF FieldsOK, TxnRecords
    <2> DEFINE n == t.attempt + 1
    <2> HIDE DEF t, n
    <2>4. /\ u.pc = "fInc" /\ u.key = t.key /\ u.cas = t.cas /\ u.old = None
          /\ u \in TxnRecords
      <3>1. Fresh("fInc") \in TxnRecords
        BY AttemptsAssumption DEF Fresh, TxnRecords, TxnPcs, FastPcs
      <3>2. u.pc = "fInc" /\ u.key = t.key /\ u.cas = t.cas /\ u.old = None
        BY DEF Fresh
      <3>3. u \in TxnRecords
        BY <2>3, <3>1 DEF TxnRecords
      <3> QED
        BY <3>2, <3>3
    <2> HIDE DEF u
    <2>5. FieldsOK(u) /\ Blank(u)
      BY <2>3, <2>4 DEF FieldsOK, Blank, FastPcs, SlowPcs, DeletePcs
    <2> QED
      BY <1>1, <1>2, <2>1, <2>5, TxnFacts, BlankKeepsInv
  <1>4. CASE ~(t.pc \notin DeletePcs /\ t.attempt + 1 < MaxAttempts)
    <2>1. txn' = [txn EXCEPT ![r] = Fresh("done")]
      BY <1>4 DEF Aborted, Answer
    <2> QED
      BY <1>1, <1>2, <2>1, FreshDone, TxnFacts, BlankKeepsInv
  <1> QED
    BY <1>3, <1>4

(***************************************************************************)
(* Commits                                                                 *)
(***************************************************************************)

LEMMA CommitKeepsInv ==
    ASSUME Inv, NEW r \in Requests, NEW u, txn' = [txn EXCEPT ![r] = u],
           FieldsOK(u), Blank(u), Release(r), UNCHANGED <<chk, pending>>,
           SparesRows(r), MetaTypeOK', RowsHaveBlobs'
    PROVE  Inv'
  <1>1. LockTypes' /\ SparesLocks(r) /\ pending' \in Seq(Content)
    BY ReleaseOK DEF Inv
  <1>2. txn' \in [Requests -> TxnRecords] /\ txn'[r] = u
        /\ \A q \in Requests \ {r} : txn'[q] = txn[q]
    BY DEF Inv, FieldsOK
  <1>3. FieldsOK(txn[r])'
    BY <1>2 DEF FieldsOK, Fresh
  <1>4. TxnInv(r, txn[r])'
    BY <1>2, BlankKnowsNothing DEF TxnInv, CountsNew, CountsOld, HoldsSlot
  <1>5. Moves(r)
    BY <1>2, <1>3, <1>4 DEF Moves
  <1> QED
    BY <1>1, <1>5, StepKeepsInv

\* The record Finish makes: an answer, or a content to queue.
LEMMA FinishRecord ==
    ASSUME NEW r \in Requests, NEW cand \in Content \cup {None}, Finish(r, cand)
    PROVE  \E u : FieldsOK(u) /\ Blank(u) /\ txn' = [txn EXCEPT ![r] = u]
  <1>1. CASE cand = None
    BY <1>1, FreshDone DEF Finish, Answer
  <1>2. CASE cand # None
    <2> DEFINE u == [Fresh("enqueue") EXCEPT !.cas = cand]
    <2>1. txn' = [txn EXCEPT ![r] = u]
      BY <1>2 DEF Finish
    <2>2. u = [pc |-> "enqueue", key |-> None, cas |-> cand, old |-> None,
               newRef |-> 0, oldRef |-> 0, attempt |-> 0]
      BY DEF Fresh
    <2> HIDE DEF u
    <2>3. FieldsOK(u) /\ Blank(u)
      BY <1>2, <2>2, AttemptsAssumption
      DEF FieldsOK, Blank, TxnRecords, TxnPcs, FastPcs, SlowPcs, DeletePcs
    <2> QED
      BY <2>1, <2>3
  <1> QED
    BY <1>1, <1>2

LEMMA FastCommitInv ==
    ASSUME Inv, NEW r \in Requests, FastCommit(r)
    PROVE  Inv'
  <1> DEFINE t == txn[r]
             s == Slot(r)
  <1>1. FieldsOK(t) /\ TxnInv(r, t) /\ t.pc = "fCommit"
    BY TxnFacts DEF FastCommit
  <1>2. t.key \in Keys /\ t.cas \in Content /\ t \in TxnRecords
    BY <1>1 DEF FieldsOK, FastPcs
  <1>3. s = SlotOf[t.key] /\ s \in Slots /\ t.newRef \in Nat
    BY <1>2, TxnFacts DEF TxnRecords
  <1>4. casLock[t.cas] = r /\ slotLock[s] = r
    BY <1>1, <1>3 DEF TxnInv, CountsNew, HoldsSlot
  <1>5. /\ blobs' = blobs \cup {t.cas}
        /\ refCount' = [refCount EXCEPT ![t.cas] = t.newRef]
        /\ objKey' = [objKey EXCEPT ![s] = t.key]
        /\ objCas' = [objCas EXCEPT ![s] = t.cas]
        /\ partCas' = partCas
    BY DEF FastCommit
  <1>6. MetaTypeOK /\ RowsHaveBlobs /\ t.cas # None /\ t.key # None /\ r # None
    BY <1>2, TablesAssumption, CheckerAssumption DEF Inv
  <1>7. Release(r) /\ txn' = [txn EXCEPT ![r] = Fresh("done")] /\ UNCHANGED <<chk, pending>>
    BY DEF FastCommit, Answer
  <1> HIDE DEF t, s
  <1>8. MetaTypeOK' /\ RowsHaveBlobs'
    BY <1>2, <1>3, <1>5, <1>6 DEF MetaTypeOK, RowsHaveBlobs, RowsWellFormed
  <1>9. SparesRows(r)
    BY <1>2, <1>3, <1>4, <1>5, <1>6 DEF MetaTypeOK, SparesRows
  <1> QED
    BY <1>7, <1>8, <1>9, FreshDone, CommitKeepsInv

LEMMA DeleteCommitInv ==
    ASSUME Inv, NEW r \in Requests, DeleteCommit(r)
    PROVE  Inv'
  <1> DEFINE t == txn[r]
             s == Slot(r)
             cand == IF t.oldRef = 0 THEN t.old ELSE None
  <1>1. FieldsOK(t) /\ TxnInv(r, t) /\ t.pc = "dCommit"
    BY TxnFacts DEF DeleteCommit
  <1>2. t.key \in Keys /\ t.old \in Content /\ t \in TxnRecords /\ t.old # None
    BY <1>1, TablesAssumption DEF FieldsOK, DeletePcs
  <1>3. s = SlotOf[t.key] /\ s \in Slots /\ t.oldRef \in Nat
    BY <1>2, TxnFacts DEF TxnRecords
  <1>4. casLock[t.old] = r /\ slotLock[s] = r
    BY <1>1, <1>2, <1>3 DEF TxnInv, CountsOld, HoldsSlot
  <1>5. /\ blobs' = blobs
        /\ refCount' = [refCount EXCEPT ![t.old] = t.oldRef]
        /\ objKey' = [objKey EXCEPT ![s] = None]
        /\ objCas' = [objCas EXCEPT ![s] = None]
        /\ partCas' = partCas
    BY DEF DeleteCommit
  <1>6. MetaTypeOK /\ RowsHaveBlobs /\ r # None
    BY CheckerAssumption DEF Inv
  <1>7. Release(r) /\ Finish(r, cand) /\ UNCHANGED <<chk, pending>>
    BY DEF DeleteCommit
  <1>8. cand \in Content \cup {None}
    BY <1>2
  <1> HIDE DEF t, s, cand
  <1>9. MetaTypeOK' /\ RowsHaveBlobs'
    BY <1>2, <1>3, <1>5, <1>6 DEF MetaTypeOK, RowsHaveBlobs, RowsWellFormed
  <1>10. SparesRows(r)
    BY <1>2, <1>3, <1>4, <1>5, <1>6 DEF MetaTypeOK, SparesRows
  <1>11. PICK u : FieldsOK(u) /\ Blank(u) /\ txn' = [txn EXCEPT ![r] = u]
    BY <1>7, <1>8, FinishRecord
  <1> QED
    BY <1>7, <1>9, <1>10, <1>11, CommitKeepsInv

LEMMA SlowCommitInv ==
    ASSUME Inv, NEW r \in Requests, SlowCommit(r)
    PROVE  Inv'
  <1> DEFINE t == txn[r]
             s == Slot(r)
             counted == IF t.old = t.cas THEN {} ELSE {t.cas}
             released == {t.old} \ {t.cas, None}
             cand == IF released # {} /\ t.oldRef = 0 THEN t.old ELSE None
             count == [c \in Content |-> CASE c \in counted  -> t.newRef
                                           [] c \in released -> t.oldRef
                                           [] OTHER -> refCount[c]]
             k == IF Duplicate(t.key) THEN objKey[s] ELSE t.key
  <1>1. FieldsOK(t) /\ TxnInv(r, t) /\ t.pc = "sCommit"
    BY TxnFacts DEF SlowCommit
  <1>2. /\ t.key \in Keys /\ t.cas \in Content /\ t.old \in Content \cup {None}
        /\ t \in TxnRecords /\ t.newRef \in Nat /\ t.oldRef \in Nat
    BY <1>1 DEF FieldsOK, SlowPcs, TxnRecords
  <1>3. s = SlotOf[t.key] /\ s \in Slots
    BY <1>2, TxnFacts
  <1>4. /\ slotLock[s] = r
        /\ t.old # t.cas => casLock[t.cas] = r
        /\ t.old \notin {None, t.cas} => casLock[t.old] = r
        /\ t.old # None => objKey[s] = t.key /\ objCas[s] = t.old
    BY <1>1, <1>3 DEF TxnInv, CountsNew, CountsOld, HoldsSlot
  <1>5. /\ blobs' = blobs \cup counted
        /\ refCount' = count
        /\ objKey' = [objKey EXCEPT ![s] = k]
        /\ objCas' = [objCas EXCEPT ![s] = t.cas]
        /\ partCas' = partCas
    BY DEF SlowCommit
  <1>6. MetaTypeOK /\ RowsHaveBlobs /\ t.cas # None /\ t.key # None /\ r # None
    BY <1>2, TablesAssumption, CheckerAssumption DEF Inv
  <1>7. Release(r) /\ Finish(r, cand) /\ UNCHANGED <<chk, pending>>
    BY DEF SlowCommit
  <1>8. cand \in Content \cup {None}
    BY <1>2
  <1>9. k # None /\ k \in Keys /\ SlotOf[k] = s
    BY <1>2, <1>3, <1>6 DEF Duplicate, MetaTypeOK, RowsWellFormed
  <1>10. /\ count \in [Content -> Nat]
         /\ \A c \in Content : count[c] = refCount[c] \/ casLock[c] = r
    <2>1. \A c \in Content : count[c] \in Nat /\ (count[c] = refCount[c] \/ casLock[c] = r)
      <3> SUFFICES ASSUME NEW c \in Content
                   PROVE  count[c] \in Nat /\ (count[c] = refCount[c] \/ casLock[c] = r)
        OBVIOUS
      <3>1. CASE c \in counted
        BY <1>2, <1>4, <3>1
      <3>2. CASE c \notin counted /\ c \in released
        BY <1>2, <1>4, <3>2
      <3>3. CASE c \notin counted /\ c \notin released
        BY <1>6, <3>3 DEF MetaTypeOK
      <3> QED
        BY <3>1, <3>2, <3>3
    <2>2. count = [c \in Content |-> count[c]]
      OBVIOUS
    <2> HIDE DEF count
    <2> QED
      BY <2>1, <2>2
  <1>11. counted \subseteq Content /\ (t.cas \in counted \/ t.old = t.cas)
    BY <1>2
  <1> HIDE DEF t, s, cand, count, k, counted, released
  <1>12. MetaTypeOK'
    <2>1. RowsWellFormed'
      BY <1>3, <1>5, <1>6, <1>9 DEF MetaTypeOK, RowsWellFormed
    <2> QED
      BY <1>2, <1>3, <1>5, <1>6, <1>9, <1>10, <1>11, <2>1 DEF MetaTypeOK
  <1>13. RowsHaveBlobs'
    <2>1. t.cas \in blobs'
      BY <1>3, <1>4, <1>5, <1>6, <1>11 DEF RowsHaveBlobs
    <2> QED
      BY <1>3, <1>5, <1>6, <2>1 DEF RowsHaveBlobs, MetaTypeOK
  <1>14. SparesRows(r)
    <2>1. \A c \in Content : casLock[c] \notin {None, r} => refCount'[c] = refCount[c]
      BY <1>5, <1>10
    <2>2. \A x \in Slots : slotLock[x] \notin {None, r} =>
                              objKey'[x] = objKey[x] /\ objCas'[x] = objCas[x]
      BY <1>3, <1>4, <1>5, <1>6 DEF MetaTypeOK
    <2>3. \A x \in Slots : objCas'[x] \in {objCas[x], None} \/ casLock[objCas'[x]] = r
      BY <1>3, <1>4, <1>5, <1>6 DEF MetaTypeOK
    <2> QED
      BY <1>5, <2>1, <2>2, <2>3 DEF SparesRows
  <1>15. PICK u : FieldsOK(u) /\ Blank(u) /\ txn' = [txn EXCEPT ![r] = u]
    BY <1>7, <1>8, FinishRecord
  <1> QED
    BY <1>7, <1>12, <1>13, <1>14, <1>15, CommitKeepsInv

(***************************************************************************)
(* The collector's check                                                   *)
(***************************************************************************)

LEMMA CheckerKeepsInv ==
    ASSUME Inv, SparesLocks(Checker), LockTypes', CheckInv',
           UNCHANGED <<metaVars, txn, pending>>
    PROVE  Inv'
  <1>1. SparesRows(Checker)
    BY DEF SparesRows, metaVars
  <1>2. MetaTypeOK' /\ RowsHaveBlobs'
    BY DEF Inv, MetaTypeOK, RowsWellFormed, RowsHaveBlobs, metaVars
  <1>3. \A q \in Requests : FieldsOK(txn[q])' /\ TxnInv(q, txn[q])'
    BY <1>1, OthersUndisturbed, CheckerAssumption
  <1> QED
    BY <1>2, <1>3 DEF Inv

LEMMA CheckStepInv ==
    ASSUME Inv, Check
    PROVE  Inv'
  <1> USE CheckerAssumption
  <1>1. UNCHANGED <<metaVars, txn, pending>> /\ UNCHANGED <<blobs, refCount, objCas>>
    BY DEF Check, CheckLock, CheckObjects, CheckParts, CheckEnd, metaVars
  <1>2. LockTypes /\ CheckInv
    BY DEF Inv
  <1>3. CASE CheckLock
    <2>1. PICK c \in Content : /\ c \in blobs
                               /\ refCount[c] = 0
                               /\ LockCas(Checker, c)
                               /\ chk' = [pc |-> "objects", cas |-> c]
      BY <1>3 DEF CheckLock
    <2>2. LockTypes' /\ SparesLocks(Checker) /\ casLock'[c] = Checker
      BY <1>2, <1>3, <2>1, LockCasOK DEF CheckLock
    <2>3. CheckInv'
      BY <1>1, <2>1, <2>2 DEF CheckInv
    <2> QED
      BY <1>1, <2>2, <2>3, CheckerKeepsInv
  <1>4. CASE CheckObjects
    <2>1. CASE ObjectRefs(chk.cas) = {}
      <3>1. chk' = [chk EXCEPT !.pc = "parts"] /\ UNCHANGED locks /\ chk.pc = "objects"
        BY <1>4, <2>1 DEF CheckObjects
      <3>2. LockTypes' /\ SparesLocks(Checker)
        BY <1>2, <3>1, SameLocksOK
      <3>3. chk'.pc = "parts" /\ chk'.cas = chk.cas
            /\ chk' \in [pc : {"idle", "objects", "parts", "yes"}, cas : Content \cup {None}]
        BY <1>2, <3>1 DEF CheckInv
      <3>4. ObjectRefs(chk.cas)' = {}
        BY <1>1, <2>1, <3>3 DEF ObjectRefs
      <3>5. UNCHANGED casLock
        BY <3>1 DEF locks
      <3>6. CheckInv'
        BY <1>1, <1>2, <3>1, <3>3, <3>4, <3>5 DEF CheckInv
      <3> QED
        BY <1>1, <3>2, <3>6, CheckerKeepsInv
    <2>2. CASE ObjectRefs(chk.cas) # {}
      <3>1. chk' = NoCheck /\ Release(Checker)
        BY <1>4, <2>2 DEF CheckObjects
      <3>2. CheckInv'
        BY <3>1 DEF CheckInv, NoCheck
      <3> QED
        BY <1>1, <1>2, <3>1, <3>2, ReleaseOK, CheckerKeepsInv
    <2> QED
      BY <2>1, <2>2
  <1>5. CASE CheckParts
    <2>1. Release(Checker) /\ chk.pc = "parts"
      BY <1>5 DEF CheckParts
    <2>2. chk' = [chk EXCEPT !.pc = "yes"] \/ chk' = NoCheck
      BY <1>5 DEF CheckParts
    <2>3. chk' \in [pc : {"idle", "objects", "parts", "yes"}, cas : Content \cup {None}]
          /\ chk'.pc \in {"yes", "idle"}
      BY <1>2, <2>2 DEF CheckInv, NoCheck
    <2>4. CheckInv'
      BY <2>3 DEF CheckInv
    <2> QED
      BY <1>1, <1>2, <2>1, <2>4, ReleaseOK, CheckerKeepsInv
  <1>6. CASE CheckEnd
    <2>1. chk' = NoCheck /\ UNCHANGED locks
      BY <1>6 DEF CheckEnd
    <2>2. CheckInv'
      BY <2>1 DEF CheckInv, NoCheck
    <2> QED
      BY <1>1, <1>2, <2>1, <2>2, SameLocksOK, CheckerKeepsInv
  <1> QED
    BY <1>3, <1>4, <1>5, <1>6 DEF Check

----------------------------------------------------------------------------

LEMMA InitInv == Init => Inv
  <1> SUFFICES ASSUME Init PROVE Inv
    OBVIOUS
  <1> USE TablesAssumption, CheckerAssumption, AttemptsAssumption
  <1>1. ASSUME NEW c
        PROVE  /\ References(c) \in Nat
               /\ \A s \in Slots : objCas[s] = c => References(c) > 0
    <2>1. ObjectRefs(c) \in SUBSET Slots /\ PartRefs(c) \in SUBSET PartIds
      BY DEF ObjectRefs, PartRefs
    <2>2. IsFiniteSet(ObjectRefs(c)) /\ IsFiniteSet(PartRefs(c))
      BY <2>1, FS_Subset
    <2>3. Cardinality(ObjectRefs(c)) \in Nat /\ Cardinality(PartRefs(c)) \in Nat
      BY <2>2, FS_CardinalityType
    <2>4. ASSUME NEW s \in Slots, objCas[s] = c
          PROVE  Cardinality(ObjectRefs(c)) # 0
      <3>1. s \in ObjectRefs(c)
        BY <2>4 DEF ObjectRefs
      <3> QED
        BY <2>2, <3>1, FS_EmptySet
    <2> QED
      BY <2>3, <2>4 DEF References
  <1>2. MetaTypeOK
    BY <1>1 DEF Init, MetaInit, MetaTypeOK
  <1>3. RowsHaveBlobs
    BY <1>1 DEF Init, MetaInit, RowsHaveBlobs
  <1>4. FieldsOK(Fresh("new")) /\ Blank(Fresh("new")) /\ Fresh("new") \in TxnRecords
    BY DEF Fresh, FieldsOK, Blank, TxnRecords, TxnPcs, FastPcs, SlowPcs, DeletePcs
  <1>5. \A r \in Requests : txn[r] = Fresh("new")
    BY DEF Init
  <1>6. \A r \in Requests : FieldsOK(txn[r]) /\ TxnInv(r, txn[r])
    BY <1>4, <1>5, BlankKnowsNothing DEF TxnInv
  <1>7. CheckInv /\ LockTypes
    BY DEF Init, CheckInv, NoCheck, LockTypes
  <1>8. txn \in [Requests -> TxnRecords] /\ pending \in Seq(Content)
    BY <1>4 DEF Init
  <1> QED
    BY <1>2, <1>3, <1>6, <1>7, <1>8 DEF Inv

LEMMA StutterInv == Inv /\ UNCHANGED vars => Inv'
  <1> SUFFICES ASSUME Inv, UNCHANGED vars PROVE Inv'
    OBVIOUS
  <1>1. UNCHANGED <<metaVars, casLock, slotLock, txn, chk, pending>>
    BY DEF vars, locks
  <1>2. LockTypes' /\ SparesLocks(Checker)
    BY <1>1 DEF Inv, LockTypes, SparesLocks
  <1>3. UNCHANGED <<blobs, refCount, objCas>>
    BY <1>1 DEF metaVars
  <1>4. CheckInv'
    BY <1>1, <1>3 DEF Inv, CheckInv, ObjectRefs
  <1> QED
    BY <1>1, <1>2, <1>4, CheckerKeepsInv

LEMMA NextInv == Inv /\ [Next]_vars => Inv'
  <1> SUFFICES ASSUME Inv, [Next]_vars PROVE Inv'
    OBVIOUS
  <1>1. ASSUME NEW r \in Requests, BeginPut(r) \/ BeginDelete(r) \/ Statement(r) \/ Aborted(r)
        PROVE  Inv'
    BY <1>1, BeginPutInv, BeginDeleteInv, StoredInv, FastIncrementInv, FastInsertInv,
       FastDuplicateInv, FastCommitInv, SelectForUpdateInv, SlowIncrementInv,
       SlowDecrementInv, SlowUpsertInv, SlowCommitInv, DeleteSelectInv,
       DeleteDecrementInv, DeleteCommitInv, EnqueueInv, AbortedInv DEF Statement
  <1>2. CASE AllAnswered \/ UNCHANGED vars
    BY <1>2, StutterInv DEF AllAnswered
  <1> QED
    BY <1>1, <1>2, CheckStepInv DEF Next

LEMMA SpecInv == Spec => []Inv
  BY InitInv, NextInv, PTL DEF Spec

\* The tables, the locks, the state of every transaction and what it remembers
\* keep their types, rows of `objects' keep all their columns, and a request is
\* never retried beyond MaxAttempts (kMaxRetries of PutObjectWithRefCount).
THEOREM TransactionTypes == Spec => []TypeOK
  <1>1. Inv => TypeOK
    BY DEF Inv, LockTypes, CheckInv, TypeOK, TxnRecords, TxnPcs
  <1> QED
    BY <1>1, SpecInv, PTL

\* CanDeleteCasBlob reads the count, the objects and the parts with three
\* statements, the last two without locks, while PUTs and DELETEs of any number
\* of other connections commit in between; when it answers yes, all three hold
\* at that moment.  The lock on the cas_blobs row is what makes it so: a
\* transaction that adds a reference to the content needs that row.
THEOREM CheckOfCollectorIsAtomic == Spec => CheckIsAtomic
  <1>1. ASSUME Inv, [Next]_vars
        PROVE  [chk.pc # "yes" /\ chk'.pc = "yes" => CanDeleteCasBlob(chk'.cas)]_vars
    <2> SUFFICES ASSUME Next, chk.pc # "yes", chk'.pc = "yes"
                 PROVE  CanDeleteCasBlob(chk'.cas)
      BY <1>1
    <2>1. CASE Check
      <3>1. CheckParts
        <4>1. chk \in [pc : {"idle", "objects", "parts", "yes"}, cas : Content \cup {None}]
          BY <1>1 DEF Inv, CheckInv
        <4> QED
          BY <2>1, <4>1 DEF Check, CheckLock, CheckObjects, CheckEnd, NoCheck
      <3>2. PartRefs(chk.cas) = {} /\ chk' = [chk EXCEPT !.pc = "yes"] /\ chk.pc = "parts"
        BY <3>1 DEF CheckParts, NoCheck
      <3>3. CheckInv
        BY <1>1 DEF Inv
      <3>4. chk'.cas = chk.cas
        BY <3>2, <3>3 DEF CheckInv
      <3> QED
        BY <3>2, <3>3, <3>4 DEF CheckInv, CanDeleteCasBlob
    <2>2. ASSUME NEW r \in Requests, BeginPut(r) \/ BeginDelete(r) \/ Statement(r) \/ Aborted(r)
          PROVE  chk' = chk
      BY <2>2 DEF BeginPut, BeginDelete, Statement, Stored, FastIncrement, FastInsert,
           FastDuplicate, FastCommit, SelectForUpdate, SlowIncrement, SlowDecrement,
           SlowUpsert, SlowCommit, DeleteSelect, DeleteDecrement, DeleteCommit, Enqueue, Aborted
    <2>3. AllAnswered => chk' = chk
      BY DEF AllAnswered, vars
    <2> QED
      BY <2>1, <2>2, <2>3 DEF Next
  <1> QED
    BY <1>1, SpecInv, PTL DEF Spec, CheckIsAtomic

----------------------------------------------------------------------------
(***************************************************************************)
(* The refinement of ObjectStore                                           *)
(***************************************************************************)

areq == [r \in Requests |-> AbstractRequest(txn[r])]

\* A step of r, seen by ObjectStore.
LEMMA AbstractStep ==
    ASSUME Inv, NEW r \in Requests, NEW u, txn' = [txn EXCEPT ![r] = u]
    PROVE  areq' = [areq EXCEPT ![r] = AbstractRequest(u)]
  <1>1. \A q \in Requests : txn'[q] = IF q = r THEN u ELSE txn[q]
    BY DEF Inv
  <1>2. areq' = [q \in Requests |-> AbstractRequest(txn'[q])]
    BY DEF areq, AbstractRequest, AbstractPc
  <1>3. \A q \in Requests : AbstractRequest(txn'[q]) =
                              IF q = r THEN AbstractRequest(u) ELSE AbstractRequest(txn[q])
    BY <1>1
  <1> HIDE DEF AbstractRequest
  <1> QED
    BY <1>2, <1>3 DEF areq

\* The abstract program counters.
LEMMA AbstractPcs ==
    ASSUME NEW t
    PROVE  /\ t.pc \in FastPcs => AbstractPc(t) = IF t.attempt = 0 THEN "handler" ELSE "fast"
           /\ t.pc = "sSelect" => AbstractPc(t) = "select"
           /\ t.pc \in SlowPcs => AbstractPc(t) = IF t.old = None THEN "upsert" ELSE "select"
           /\ t.pc \in DeletePcs => AbstractPc(t) = "delete"
           /\ t.pc \in {"new", "store", "enqueue", "done"} => AbstractPc(t) = t.pc
  BY DEF AbstractPc, FastPcs, SlowPcs, DeletePcs

LEMMA AbstractOf ==
    ASSUME NEW r \in Requests
    PROVE  /\ areq[r] = AbstractRequest(txn[r])
           /\ areq[r].pc = AbstractPc(txn[r]) /\ areq[r].key = txn[r].key
           /\ areq[r].cas = txn[r].cas /\ areq[r].attempt = txn[r].attempt
  BY DEF areq, AbstractRequest

\* A step that leaves the tables, the queue and the abstract request alone.
LEMMA StutterStep ==
    ASSUME Inv, NEW r \in Requests, NEW u, txn' = [txn EXCEPT ![r] = u],
           UNCHANGED <<metaVars, pending>>,
           AbstractPc(u) = AbstractPc(txn[r]), u.key = txn[r].key, u.cas = txn[r].cas,
           u.attempt = txn[r].attempt
    PROVE  UNCHANGED Store!vars
  <1>1. areq' = [areq EXCEPT ![r] = AbstractRequest(u)]
    BY AbstractStep
  <1>2. AbstractRequest(u) = areq[r]
    BY DEF AbstractRequest, areq
  <1>3. areq' = areq
    BY <1>1, <1>2 DEF areq
  <1> QED
    BY <1>3 DEF Store!vars, Store!metaVars, Store!gcVars, metaVars, areq

LEMMA BeginPutRefines ==
    ASSUME Inv, NEW r \in Requests, BeginPut(r)
    PROVE  Store!BeginPut(r)
  <1>1. PICK k \in Keys, c \in Content :
           txn' = [txn EXCEPT ![r] = [Fresh("store") EXCEPT !.key = k, !.cas = c]]
    BY DEF BeginPut
  <1> DEFINE u == [Fresh("store") EXCEPT !.key = k, !.cas = c]
  <1>2. u.pc = "store" /\ u.key = k /\ u.cas = c /\ u.attempt = 0
    BY DEF Fresh
  <1> HIDE DEF u
  <1>3. areq' = [areq EXCEPT ![r] = AbstractRequest(u)]
    BY <1>1, AbstractStep DEF u
  <1>4. AbstractRequest(u) = [pc |-> "store", key |-> k, cas |-> c, attempt |-> 0]
    BY <1>2, AbstractPcs DEF AbstractRequest
  <1>5. areq[r].pc = "new"
    BY AbstractOf, AbstractPcs DEF BeginPut
  <1>6. UNCHANGED <<metaVars, pending>>
    BY DEF BeginPut
  <1>7. \E key \in Keys, cas \in Content,
           pc \in {"store"} \cup (IF "header" \in {"abort"} THEN {"handler"} ELSE {}) :
           areq' = [areq EXCEPT ![r] = [pc |-> pc, key |-> key, cas |-> cas, attempt |-> 0]]
    BY <1>1, <1>3, <1>4
  <1> QED
    BY <1>5, <1>6, <1>7 DEF Store!BeginPut, Store!metaVars, Store!gcVars, metaVars, areq

LEMMA BeginDeleteRefines ==
    ASSUME Inv, NEW r \in Requests, BeginDelete(r)
    PROVE  Store!BeginDelete(r)
  <1>1. PICK k \in Keys : txn' = [txn EXCEPT ![r] = [Fresh("dSelect") EXCEPT !.key = k]]
    BY DEF BeginDelete
  <1> DEFINE u == [Fresh("dSelect") EXCEPT !.key = k]
  <1>2. u.pc = "dSelect" /\ u.key = k /\ u.cas = None /\ u.attempt = 0
    BY DEF Fresh
  <1> HIDE DEF u
  <1>3. areq' = [areq EXCEPT ![r] = AbstractRequest(u)]
    BY <1>1, AbstractStep DEF u
  <1>4. AbstractRequest(u) = [pc |-> "delete", key |-> k, cas |-> None, attempt |-> 0]
    BY <1>2, AbstractPcs DEF AbstractRequest, DeletePcs
  <1>5. areq[r].pc = "new"
    BY AbstractOf, AbstractPcs DEF BeginDelete
  <1>6. UNCHANGED <<metaVars, pending>>
    BY DEF BeginDelete
  <1>7. [Store!Idle("delete") EXCEPT !.key = k] = [pc |-> "delete", key |-> k, cas |-> None, attempt |-> 0]
    BY DEF Store!Idle
  <1> QED
    BY <1>3, <1>4, <1>5, <1>6, <1>7 DEF Store!BeginDelete, Store!metaVars, Store!gcVars, metaVars, areq

\* An answer, seen by ObjectStore.
LEMMA AnswerRefines ==
    ASSUME Inv, NEW r \in Requests, Answer(r)
    PROVE  Store!Finish(r)
  <1>1. areq' = [areq EXCEPT ![r] = AbstractRequest(Fresh("done"))]
    BY AbstractStep DEF Answer
  <1>2. AbstractRequest(Fresh("done")) = Store!Idle("done")
    BY AbstractPcs DEF AbstractRequest, Fresh, Store!Idle
  <1> QED
    BY <1>1, <1>2 DEF Store!Finish, areq

\* A step to another abstract program counter.
LEMMA GotoRefines ==
    ASSUME Inv, NEW r \in Requests, NEW u, txn' = [txn EXCEPT ![r] = u], NEW p,
           AbstractPc(u) = p, u.key = txn[r].key, u.cas = txn[r].cas,
           u.attempt = txn[r].attempt
    PROVE  Store!Goto(r, p)
  <1>1. areq' = [areq EXCEPT ![r] = AbstractRequest(u)]
    BY AbstractStep
  <1>2. AbstractRequest(u) = [areq[r] EXCEPT !.pc = p]
    <2>1. areq[r] = [pc |-> AbstractPc(txn[r]), key |-> txn[r].key, cas |-> txn[r].cas,
                     attempt |-> txn[r].attempt]
      BY DEF areq, AbstractRequest
    <2>2. AbstractRequest(u) = [pc |-> p, key |-> txn[r].key, cas |-> txn[r].cas,
                                attempt |-> txn[r].attempt]
      BY DEF AbstractRequest
    <2> QED
      BY <2>1, <2>2
  <1> QED
    BY <1>1, <1>2 DEF Store!Goto, areq

\* The collector of ObjectStore, which this specification leaves waiting.
LEMMA QuietRefines ==
    ASSUME UNCHANGED <<metaVars, pending>>
    PROVE  UNCHANGED Store!metaVars /\ UNCHANGED Store!gcVars
  BY DEF Store!metaVars, Store!gcVars, metaVars

LEMMA StoredRefines ==
    ASSUME Inv, NEW r \in Requests, Stored(r)
    PROVE  Store!CommitWrite(r)
  <1> DEFINE t == txn[r]
             u == [t EXCEPT !.pc = "fInc"]
  <1>1. FieldsOK(t) /\ t.pc = "store" /\ txn' = [txn EXCEPT ![r] = u]
    BY TxnFacts DEF Stored
  <1>2. t \in TxnRecords /\ t.cas \in Content /\ t.attempt = 0
    BY <1>1 DEF FieldsOK
  <1>3. u.pc = "fInc" /\ u.key = t.key /\ u.cas = t.cas /\ u.attempt = t.attempt
    BY <1>2 DEF TxnRecords
  <1> HIDE DEF u
  <1>4. AbstractPc(u) = "handler"
    BY <1>2, <1>3, AbstractPcs DEF FastPcs
  <1>5. Store!Goto(r, "handler")
    BY <1>1, <1>3, <1>4, GotoRefines
  <1>6. areq[r].pc = "store" /\ areq[r].cas \in Content
    BY <1>1, <1>2, AbstractOf, AbstractPcs
  <1>7. UNCHANGED Store!metaVars /\ UNCHANGED Store!gcVars
    BY QuietRefines DEF Stored
  <1> QED
    BY <1>5, <1>6, <1>7 DEF Store!CommitWrite, Store!Goto, areq

LEMMA FastIncrementRefines ==
    ASSUME Inv, NEW r \in Requests, FastIncrement(r)
    PROVE  UNCHANGED Store!vars
  <1> DEFINE t == txn[r]
             u == [t EXCEPT !.pc = "fInsert", !.newRef = refCount[t.cas] + 1]
  <1>1. t \in TxnRecords /\ t.pc = "fInc" /\ txn' = [txn EXCEPT ![r] = u]
        /\ UNCHANGED <<metaVars, pending>>
    BY TxnFacts DEF FastIncrement
  <1>2. u.pc = "fInsert" /\ u.key = t.key /\ u.cas = t.cas /\ u.attempt = t.attempt
    BY <1>1 DEF TxnRecords
  <1> HIDE DEF u
  <1>3. AbstractPc(u) = AbstractPc(t)
    BY <1>1, <1>2, AbstractPcs DEF FastPcs
  <1> QED
    BY <1>1, <1>2, <1>3, StutterStep

LEMMA FastInsertRefines ==
    ASSUME Inv, NEW r \in Requests, FastInsert(r)
    PROVE  UNCHANGED Store!vars
  <1> DEFINE t == txn[r]
             u == [t EXCEPT !.pc = "fCommit"]
  <1>1. t \in TxnRecords /\ t.pc = "fInsert" /\ txn' = [txn EXCEPT ![r] = u]
        /\ UNCHANGED <<metaVars, pending>>
    BY TxnFacts DEF FastInsert
  <1>2. u.pc = "fCommit" /\ u.key = t.key /\ u.cas = t.cas /\ u.attempt = t.attempt
    BY <1>1 DEF TxnRecords
  <1> HIDE DEF u
  <1>3. AbstractPc(u) = AbstractPc(t)
    BY <1>1, <1>2, AbstractPcs DEF FastPcs
  <1> QED
    BY <1>1, <1>2, <1>3, StutterStep

LEMMA FastDuplicateRefines ==
    ASSUME Inv, NEW r \in Requests, FastDuplicate(r)
    PROVE  Store!PutDuplicate(r)
  <1> DEFINE t == txn[r]
             u == [t EXCEPT !.pc = "sSelect", !.newRef = 0]
  <1>1. /\ t \in TxnRecords /\ t.pc = "fInsert" /\ txn' = [txn EXCEPT ![r] = u]
        /\ UNCHANGED <<metaVars, pending>> /\ Duplicate(t.key)
    BY TxnFacts DEF FastDuplicate
  <1>2. u.pc = "sSelect" /\ u.key = t.key /\ u.cas = t.cas /\ u.attempt = t.attempt
    BY <1>1 DEF TxnRecords
  <1> HIDE DEF u
  <1>3. AbstractPc(u) = "select"
    BY <1>2, AbstractPcs
  <1>4. Store!Goto(r, "select")
    BY <1>1, <1>2, <1>3, GotoRefines
  <1>5. areq[r].pc \in {"handler", "fast"} /\ areq[r].key = t.key
    BY <1>1, AbstractOf, AbstractPcs DEF FastPcs
  <1>6. Store!Duplicate(areq[r].key)
    BY <1>1, <1>5 DEF Store!Duplicate, Duplicate
  <1> QED
    BY <1>1, <1>4, <1>5, <1>6, QuietRefines DEF Store!PutDuplicate, areq

LEMMA FastCommitRefines ==
    ASSUME Inv, NEW r \in Requests, FastCommit(r)
    PROVE  Store!PutFast(r)
  <1> DEFINE t == txn[r]
  <1>1. FieldsOK(t) /\ TxnInv(r, t) /\ t.pc = "fCommit" /\ MetaTypeOK
    BY TxnFacts DEF FastCommit
  <1>2. t.key \in Keys /\ t.cas \in Content
    BY <1>1 DEF FieldsOK, FastPcs
  <1>3. Slot(r) = SlotOf[t.key] /\ t.newRef = refCount[t.cas] + 1 /\ ~Duplicate(t.key)
    BY <1>1, <1>2, TxnFacts DEF TxnInv, CountsNew
  <1>4. Store!InsertObject(t.key, t.cas)
    BY <1>1, <1>2, <1>3
    DEF FastCommit, Store!InsertObject, Store!Duplicate, Duplicate, Store!Increment
  <1>5. Store!Finish(r)
    BY AnswerRefines DEF FastCommit
  <1>6. areq[r].pc \in {"handler", "fast"} /\ areq[r].key = t.key /\ areq[r].cas = t.cas
    BY <1>1, AbstractOf, AbstractPcs DEF FastPcs
  <1>7. Store!NoteCommit(SlotOf[t.key], t.cas)
    BY <1>2 DEF Store!NoteCommit
  <1>8. UNCHANGED Store!gcVars
    BY DEF FastCommit, Store!gcVars
  <1>9. Store!Committed(r, None)
    BY <1>5 DEF Store!Committed
  <1> HIDE DEF t
  <1> QED
    BY <1>4, <1>6, <1>7, <1>8, <1>9 DEF Store!PutFast, areq

LEMMA SelectForUpdateRefines ==
    ASSUME Inv, NEW r \in Requests, SelectForUpdate(r)
    PROVE  Store!PutSelectNone(r) \/ UNCHANGED Store!vars
  <1> DEFINE t == txn[r]
             old == objCas[Slot(r)]
             p == IF old = t.cas THEN "sUpsert" ELSE "sInc"
  <1>1. FieldsOK(t) /\ t \in TxnRecords /\ t.pc = "sSelect" /\ t.old = None
        /\ UNCHANGED <<metaVars, pending>>
    BY TxnFacts DEF SelectForUpdate, FieldsOK, SlowPcs
  <1>2. t.key \in Keys /\ Slot(r) = SlotOf[t.key] /\ Slot(r) \in Slots
    BY <1>1, TxnFacts DEF FieldsOK
  <1>3. AbstractPc(t) = "select"
    BY <1>1, AbstractPcs
  <1>4. CASE Found(t.key)
    <2> DEFINE u == [t EXCEPT !.old = old, !.pc = p]
    <2>1. txn' = [txn EXCEPT ![r] = u]
      BY <1>4 DEF SelectForUpdate
    <2>2. old # None
      BY <1>2, <1>4, TxnFacts, TablesAssumption DEF Found, MetaTypeOK, RowsWellFormed
    <2>3. p \in SlowPcs
      BY DEF SlowPcs
    <2> HIDE DEF p
    <2>4. u.pc = p /\ u.key = t.key /\ u.cas = t.cas /\ u.attempt = t.attempt /\ u.old = old
      BY <1>1 DEF TxnRecords
    <2> HIDE DEF u
    <2>5. AbstractPc(u) = "select"
      BY <2>2, <2>3, <2>4, AbstractPcs
    <2> QED
      BY <1>1, <1>3, <2>1, <2>4, <2>5, StutterStep
  <1>5. CASE ~Found(t.key)
    <2> DEFINE u == [t EXCEPT !.pc = "sInc"]
    <2>1. txn' = [txn EXCEPT ![r] = u]
      BY <1>5 DEF SelectForUpdate
    <2>2. u.pc = "sInc" /\ u.key = t.key /\ u.cas = t.cas /\ u.attempt = t.attempt /\ u.old = None
      BY <1>1 DEF TxnRecords
    <2> HIDE DEF u
    <2>3. AbstractPc(u) = "upsert"
      BY <2>2, AbstractPcs DEF SlowPcs
    <2>4. Store!Goto(r, "upsert")
      BY <2>1, <2>2, <2>3, GotoRefines
    <2>5. areq[r].pc = "select" /\ areq[r].key = t.key
      BY <1>3, AbstractOf
    <2>6. ~Store!Found(areq[r].key)
      BY <1>5, <2>5 DEF Store!Found, Found
    <2> QED
      BY <1>1, <2>4, <2>5, <2>6, QuietRefines DEF Store!PutSelectNone, areq
  <1> QED
    BY <1>4, <1>5

LEMMA SlowIncrementRefines ==
    ASSUME Inv, NEW r \in Requests, SlowIncrement(r)
    PROVE  UNCHANGED Store!vars
  <1> DEFINE t == txn[r]
             p == IF t.old = None THEN "sUpsert" ELSE "sDec"
             u == [t EXCEPT !.pc = p, !.newRef = refCount[t.cas] + 1]
  <1>1. t \in TxnRecords /\ t.pc = "sInc" /\ txn' = [txn EXCEPT ![r] = u]
        /\ UNCHANGED <<metaVars, pending>>
    BY TxnFacts DEF SlowIncrement
  <1>2. p \in SlowPcs
    BY DEF SlowPcs
  <1> HIDE DEF p
  <1>3. u.pc = p /\ u.key = t.key /\ u.cas = t.cas /\ u.attempt = t.attempt /\ u.old = t.old
    BY <1>1 DEF TxnRecords
  <1> HIDE DEF u
  <1>4. AbstractPc(u) = AbstractPc(t)
    BY <1>1, <1>2, <1>3, AbstractPcs DEF SlowPcs
  <1> QED
    BY <1>1, <1>3, <1>4, StutterStep

LEMMA SlowDecrementRefines ==
    ASSUME Inv, NEW r \in Requests, SlowDecrement(r)
    PROVE  UNCHANGED Store!vars
  <1> DEFINE t == txn[r]
             u == [t EXCEPT !.pc = "sUpsert", !.oldRef = Decrement(refCount, t.old)[t.old]]
  <1>1. t \in TxnRecords /\ t.pc = "sDec" /\ txn' = [txn EXCEPT ![r] = u]
        /\ UNCHANGED <<metaVars, pending>>
    BY TxnFacts DEF SlowDecrement
  <1>2. u.pc = "sUpsert" /\ u.key = t.key /\ u.cas = t.cas /\ u.attempt = t.attempt /\ u.old = t.old
    BY <1>1 DEF TxnRecords
  <1> HIDE DEF u
  <1>3. AbstractPc(u) = AbstractPc(t)
    BY <1>1, <1>2, AbstractPcs DEF SlowPcs
  <1> QED
    BY <1>1, <1>2, <1>3, StutterStep

LEMMA SlowUpsertRefines ==
    ASSUME Inv, NEW r \in Requests, SlowUpsert(r)
    PROVE  UNCHANGED Store!vars
  <1> DEFINE t == txn[r]
             u == [t EXCEPT !.pc = "sCommit"]
  <1>1. t \in TxnRecords /\ t.pc = "sUpsert" /\ txn' = [txn EXCEPT ![r] = u]
        /\ UNCHANGED <<metaVars, pending>>
    BY TxnFacts DEF SlowUpsert
  <1>2. u.pc = "sCommit" /\ u.key = t.key /\ u.cas = t.cas /\ u.attempt = t.attempt /\ u.old = t.old
    BY <1>1 DEF TxnRecords
  <1> HIDE DEF u
  <1>3. AbstractPc(u) = AbstractPc(t)
    BY <1>1, <1>2, AbstractPcs DEF SlowPcs
  <1> QED
    BY <1>1, <1>2, <1>3, StutterStep

LEMMA DeleteSelectRefines ==
    ASSUME Inv, NEW r \in Requests, DeleteSelect(r)
    PROVE  Store!DeleteMissing(r) \/ UNCHANGED Store!vars
  <1> DEFINE t == txn[r]
  <1>1. t \in TxnRecords /\ t.pc = "dSelect" /\ UNCHANGED <<metaVars, pending>>
    BY TxnFacts DEF DeleteSelect
  <1>2. AbstractPc(t) = "delete"
    BY <1>1, AbstractPcs DEF DeletePcs
  <1>3. CASE Found(t.key)
    <2> DEFINE u == [t EXCEPT !.pc = "dDec", !.old = objCas[Slot(r)]]
    <2>1. txn' = [txn EXCEPT ![r] = u]
      BY <1>3 DEF DeleteSelect
    <2>2. u.pc = "dDec" /\ u.key = t.key /\ u.cas = t.cas /\ u.attempt = t.attempt
      BY <1>1 DEF TxnRecords
    <2> HIDE DEF u
    <2>3. AbstractPc(u) = "delete"
      BY <2>2, AbstractPcs DEF DeletePcs
    <2> QED
      BY <1>1, <1>2, <2>1, <2>2, <2>3, StutterStep
  <1>4. CASE ~Found(t.key)
    <2>1. Store!Finish(r)
      BY <1>4, AnswerRefines DEF DeleteSelect
    <2>2. areq[r].pc = "delete" /\ areq[r].key = t.key
      BY <1>2, AbstractOf
    <2>3. ~Store!Found(areq[r].key)
      BY <1>4, <2>2 DEF Store!Found, Found
    <2> QED
      BY <1>1, <2>1, <2>2, <2>3, QuietRefines DEF Store!DeleteMissing, areq
  <1> QED
    BY <1>3, <1>4

LEMMA DeleteDecrementRefines ==
    ASSUME Inv, NEW r \in Requests, DeleteDecrement(r)
    PROVE  UNCHANGED Store!vars
  <1> DEFINE t == txn[r]
             u == [t EXCEPT !.pc = "dCommit", !.oldRef = Decrement(refCount, t.old)[t.old]]
  <1>1. t \in TxnRecords /\ t.pc = "dDec" /\ txn' = [txn EXCEPT ![r] = u]
        /\ UNCHANGED <<metaVars, pending>>
    BY TxnFacts DEF DeleteDecrement
  <1>2. u.pc = "dCommit" /\ u.key = t.key /\ u.cas = t.cas /\ u.attempt = t.attempt
    BY <1>1 DEF TxnRecords
  <1> HIDE DEF u
  <1>3. AbstractPc(u) = AbstractPc(t)
    BY <1>1, <1>2, AbstractPcs DEF DeletePcs
  <1> QED
    BY <1>1, <1>2, <1>3, StutterStep

\* The end of a transaction, seen by ObjectStore.
LEMMA FinishRefines ==
    ASSUME Inv, NEW r \in Requests, NEW cand, Finish(r, cand)
    PROVE  Store!Committed(r, cand)
  <1>1. CASE cand = None
    BY <1>1, AnswerRefines DEF Finish, Store!Committed
  <1>2. CASE cand # None
    <2> DEFINE u == [Fresh("enqueue") EXCEPT !.cas = cand]
    <2>1. areq' = [areq EXCEPT ![r] = AbstractRequest(u)]
      BY <1>2, AbstractStep DEF Finish
    <2>2. u.pc = "enqueue" /\ u.key = None /\ u.cas = cand /\ u.attempt = 0
      BY DEF Fresh
    <2> HIDE DEF u
    <2>3. AbstractRequest(u) = [pc |-> "enqueue", key |-> None, cas |-> cand, attempt |-> 0]
      BY <2>2, AbstractPcs DEF AbstractRequest
    <2>4. [Store!Idle("enqueue") EXCEPT !.cas = cand]
            = [pc |-> "enqueue", key |-> None, cas |-> cand, attempt |-> 0]
      BY DEF Store!Idle
    <2> QED
      BY <1>2, <2>1, <2>3, <2>4 DEF Store!Committed, areq
  <1> QED
    BY <1>1, <1>2

LEMMA DeleteCommitRefines ==
    ASSUME Inv, NEW r \in Requests, DeleteCommit(r)
    PROVE  Store!DeleteObject(r)
  <1> DEFINE t == txn[r]
             cand == IF t.oldRef = 0 THEN t.old ELSE None
  <1>1. FieldsOK(t) /\ TxnInv(r, t) /\ t.pc = "dCommit" /\ MetaTypeOK
    BY TxnFacts DEF DeleteCommit
  <1>2. t.key \in Keys /\ t.old \in Content /\ t.old # None
    BY <1>1, TablesAssumption DEF FieldsOK, DeletePcs
  <1>3. /\ Slot(r) = SlotOf[t.key]
        /\ objKey[SlotOf[t.key]] = t.key /\ objCas[SlotOf[t.key]] = t.old
        /\ t.oldRef = Lower(refCount[t.old])
    BY <1>1, <1>2, TxnFacts DEF TxnInv, CountsOld
  <1>4. Decrement(refCount, t.old) = [refCount EXCEPT ![t.old] = t.oldRef]
    BY <1>3 DEF Decrement, Lower
  <1>5. /\ refCount' = [refCount EXCEPT ![t.old] = t.oldRef]
        /\ objKey' = [objKey EXCEPT ![SlotOf[t.key]] = None]
        /\ objCas' = [objCas EXCEPT ![SlotOf[t.key]] = None]
        /\ UNCHANGED <<blobs, partCas, pending>>
    BY <1>3 DEF DeleteCommit
  <1>6. Store!RemoveObject(t.key)
    BY <1>3, <1>4, <1>5
    DEF Store!RemoveObject, Store!Found, Store!Decrement, Decrement
  <1>7. Store!RemovedCandidate(t.key) = cand
    <2>1. Store!Decrement(refCount, t.old)[t.old] = t.oldRef
      BY <1>1, <1>2, <1>3 DEF Store!Decrement, Lower, MetaTypeOK
    <2> QED
      BY <1>3, <2>1 DEF Store!RemovedCandidate
  <1>8. Store!Committed(r, cand)
    BY FinishRefines DEF DeleteCommit
  <1>9. areq[r].pc = "delete" /\ areq[r].key = t.key
    BY <1>1, AbstractOf, AbstractPcs DEF DeletePcs
  <1>10. UNCHANGED Store!gcVars
    BY <1>5 DEF Store!gcVars
  <1> HIDE DEF t, cand
  <1> QED
    BY <1>6, <1>7, <1>8, <1>9, <1>10 DEF Store!DeleteObject, areq

LEMMA SlowCommitRefines ==
    ASSUME Inv, NEW r \in Requests, SlowCommit(r)
    PROVE  Store!PutUpsert(r) \/ Store!PutOverwrite(r)
  <1> DEFINE t == txn[r]
             counted == IF t.old = t.cas THEN {} ELSE {t.cas}
             released == {t.old} \ {t.cas, None}
             cand == IF released # {} /\ t.oldRef = 0 THEN t.old ELSE None
             count == [c \in Content |-> CASE c \in counted  -> t.newRef
                                           [] c \in released -> t.oldRef
                                           [] OTHER -> refCount[c]]
             k == IF Duplicate(t.key) THEN objKey[SlotOf[t.key]] ELSE t.key
  <1>1. FieldsOK(t) /\ TxnInv(r, t) /\ t.pc = "sCommit" /\ MetaTypeOK /\ RowsHaveBlobs
    BY TxnFacts DEF SlowCommit, Inv
  <1>2. t.key \in Keys /\ t.cas \in Content /\ t.cas # None /\ t.old \in Content \cup {None}
    BY <1>1, TablesAssumption DEF FieldsOK, SlowPcs, TxnRecords
  <1>3. /\ Slot(r) = SlotOf[t.key] /\ SlotOf[t.key] \in Slots
        /\ t.old # t.cas => t.newRef = refCount[t.cas] + 1
        /\ t.old \notin {None, t.cas} => t.oldRef = Lower(refCount[t.old])
        /\ t.old # None => objKey[SlotOf[t.key]] = t.key /\ objCas[SlotOf[t.key]] = t.old
    BY <1>1, <1>2, TxnFacts DEF TxnInv, CountsNew, CountsOld
  <1>4. /\ blobs' = blobs \cup counted
        /\ refCount' = count
        /\ objKey' = [objKey EXCEPT ![SlotOf[t.key]] = k]
        /\ objCas' = [objCas EXCEPT ![SlotOf[t.key]] = t.cas]
        /\ UNCHANGED <<partCas, pending>>
        /\ Finish(r, cand)
    BY <1>3 DEF SlowCommit
  <1>5. UNCHANGED Store!gcVars
    BY <1>4 DEF Store!gcVars
  <1>6. Store!NoteCommit(SlotOf[t.key], t.cas)
    BY <1>2 DEF Store!NoteCommit
  <1>7. Store!Committed(r, cand)
    BY <1>4, FinishRefines
  <1>8. areq[r].key = t.key /\ areq[r].cas = t.cas
        /\ areq[r].pc = IF t.old = None THEN "upsert" ELSE "select"
    BY <1>1, AbstractOf, AbstractPcs DEF SlowPcs
  <1>9. CASE t.old = None
    <2>1. counted = {t.cas} /\ released = {} /\ cand = None
      BY <1>2, <1>9
    <2>2. count = Store!Increment(refCount, t.cas)
      <3>1. count = [c \in Content |-> IF c = t.cas THEN t.newRef ELSE refCount[c]]
        BY <2>1
      <3> QED
        BY <1>1, <1>2, <1>3, <1>9, <3>1 DEF Store!Increment, MetaTypeOK
    <2>3. Store!UpsertObject(t.key, t.cas)
      <3>1. k = IF Store!Duplicate(t.key) THEN objKey[SlotOf[t.key]] ELSE t.key
        BY DEF Store!Duplicate, Duplicate
      <3>2. blobs' = blobs \cup {t.cas} /\ refCount' = Store!Increment(refCount, t.cas)
        BY <1>4, <2>1, <2>2
      <3> HIDE DEF t, k
      <3> QED
        BY <1>4, <3>1, <3>2 DEF Store!UpsertObject
    <2> HIDE DEF t, cand
    <2> QED
      BY <1>5, <1>6, <1>7, <1>8, <1>9, <2>1, <2>3 DEF Store!PutUpsert, areq
  <1>10. CASE t.old # None
    <2>1. t.old \in Content /\ k = t.key /\ Store!Found(t.key) /\ objCas[SlotOf[t.key]] = t.old
          /\ objKey[SlotOf[t.key]] = t.key
      BY <1>2, <1>3, <1>10 DEF Duplicate, Store!Found
    <2>2. blobs' = blobs \cup {t.cas}
      <3>1. t.old = t.cas => t.cas \in blobs
        BY <1>1, <1>3, <1>10, <2>1 DEF RowsHaveBlobs
      <3> QED
        BY <1>4, <3>1
    <2>3. objKey' = objKey
      BY <1>1, <1>4, <2>1 DEF MetaTypeOK
    <2>4. refCount' = IF t.old = t.cas THEN refCount
                      ELSE Store!Decrement(Store!Increment(refCount, t.cas), t.old)
      <3>1. CASE t.old = t.cas
        <4>1. count = [c \in Content |-> refCount[c]]
          BY <3>1
        <4> QED
          BY <1>1, <1>4, <3>1, <4>1 DEF MetaTypeOK
      <3>2. CASE t.old # t.cas
        <4>1. counted = {t.cas} /\ released = {t.old}
          BY <1>10, <3>2
        <4>2. count = [c \in Content |-> IF c = t.cas THEN refCount[t.cas] + 1
                                         ELSE IF c = t.old THEN Lower(refCount[t.old])
                                         ELSE refCount[c]]
          BY <1>3, <1>10, <3>2, <4>1
        <4>3. Store!Decrement(Store!Increment(refCount, t.cas), t.old)
                = [c \in Content |-> IF c = t.cas THEN refCount[t.cas] + 1
                                     ELSE IF c = t.old THEN Lower(refCount[t.old])
                                     ELSE refCount[c]]
          BY <1>1, <1>2, <2>1, <3>2 DEF Store!Decrement, Store!Increment, Lower, MetaTypeOK
        <4> QED
          BY <1>4, <3>2, <4>2, <4>3
      <3> QED
        BY <3>1, <3>2
    <2>5. Store!OverwriteObject(t.key, t.cas)
      BY <1>4, <2>1, <2>2, <2>3, <2>4 DEF Store!OverwriteObject
    <2>6. Store!ReplacedCandidate(t.key, t.cas) = cand
      <3>1. t.old # t.cas => Store!Decrement(refCount, t.old)[t.old] = t.oldRef
        BY <1>1, <1>3, <1>10, <2>1 DEF Store!Decrement, Lower, MetaTypeOK
      <3>2. released # {} <=> t.old # t.cas
        BY <1>10
      <3> QED
        BY <2>1, <3>1, <3>2 DEF Store!ReplacedCandidate
    <2> HIDE DEF t, cand
    <2> QED
      BY <1>5, <1>6, <1>7, <1>8, <1>10, <2>5, <2>6 DEF Store!PutOverwrite, areq
  <1> QED
    BY <1>9, <1>10

LEMMA EnqueueRefines ==
    ASSUME Inv, NEW r \in Requests, Enqueue(r)
    PROVE  Store!Enqueue(r)
  <1>1. Store!Finish(r)
    BY AnswerRefines DEF Enqueue
  <1>2. areq[r].pc = "enqueue" /\ areq[r].cas = txn[r].cas
    BY AbstractOf, AbstractPcs DEF Enqueue
  <1>3. UNCHANGED Store!metaVars
    BY DEF Enqueue, Store!metaVars, metaVars
  <1> QED
    BY <1>1, <1>2, <1>3 DEF Store!Enqueue, Store!AddPendingDelete, Enqueue, areq

LEMMA AbortedRefines ==
    ASSUME Inv, NEW r \in Requests, Aborted(r)
    PROVE  Store!PutAborted(r) \/ Store!RequestError(r)
  <1> DEFINE t == txn[r]
  <1>1. FieldsOK(t) /\ t \in TxnRecords /\ Blocked(r) /\ UNCHANGED <<metaVars, pending>>
    BY TxnFacts DEF Aborted
  <1>2. t.pc \in {"fInc", "sInc", "sDec", "dDec", "fInsert", "sSelect", "sUpsert", "dSelect"}
    BY <1>1 DEF Blocked
  <1>3. UNCHANGED Store!metaVars /\ UNCHANGED Store!gcVars
    BY <1>1, QuietRefines
  <1>4. CASE t.pc \notin DeletePcs
    <2>1. areq[r].pc \in {"handler", "fast", "select", "upsert"} /\ areq[r].attempt = t.attempt
      BY <1>2, <1>4, AbstractOf, AbstractPcs DEF FastPcs, SlowPcs, DeletePcs
    <2>2. CASE t.attempt + 1 < MaxAttempts
      <3> DEFINE u == [Fresh("fInc") EXCEPT !.key = t.key, !.cas = t.cas, !.attempt = t.attempt + 1]
      <3>1. txn' = [txn EXCEPT ![r] = u]
        BY <1>4, <2>2 DEF Aborted
      <3>2. u.pc = "fInc" /\ u.key = t.key /\ u.cas = t.cas /\ u.attempt = t.attempt + 1
        BY DEF Fresh
      <3>3. t.attempt \in Nat
        BY <1>1, AttemptsAssumption DEF TxnRecords
      <3> HIDE DEF u
      <3>4. areq' = [areq EXCEPT ![r] = AbstractRequest(u)]
        BY <3>1, AbstractStep
      <3>5. AbstractPc(u) = "fast"
        BY <3>2, <3>3, AbstractPcs DEF FastPcs
      <3>6. AbstractRequest(u) = [pc |-> "fast", key |-> t.key, cas |-> t.cas,
                                  attempt |-> t.attempt + 1]
        BY <3>2, <3>5 DEF AbstractRequest
      <3>7. areq[r] = [pc |-> AbstractPc(t), key |-> t.key, cas |-> t.cas, attempt |-> t.attempt]
        BY DEF areq, AbstractRequest
      <3>8. AbstractRequest(u) = [areq[r] EXCEPT !.pc = "fast", !.attempt = areq[r].attempt + 1]
        <4> DEFINE n == t.attempt + 1
        <4>1. areq[r].attempt + 1 = n
          BY <3>7
        <4>2. AbstractRequest(u) = [pc |-> "fast", key |-> t.key, cas |-> t.cas, attempt |-> n]
          BY <3>6
        <4> HIDE DEF n
        <4>3. AbstractRequest(u) = [areq[r] EXCEPT !.pc = "fast", !.attempt = n]
          <5> DEFINE x == areq[r]
                     v == AbstractRequest(u)
                     a == AbstractPc(t)
          <5>1. x = [pc |-> a, key |-> t.key, cas |-> t.cas, attempt |-> t.attempt]
            BY <3>7
          <5>2. v = [pc |-> "fast", key |-> t.key, cas |-> t.cas, attempt |-> n]
            BY <4>2
          <5> HIDE DEF x, v, a, t, u
          <5>3. [x EXCEPT !.pc = "fast", !.attempt = n]
                  = [pc |-> "fast", key |-> t.key, cas |-> t.cas, attempt |-> n]
            <6> DEFINE y == [x EXCEPT !.pc = "fast"]
            <6>1. y = [pc |-> "fast", key |-> t.key, cas |-> t.cas, attempt |-> t.attempt]
              BY <5>1
            <6>2. [x EXCEPT !.pc = "fast", !.attempt = n] = [y EXCEPT !.attempt = n]
              OBVIOUS
            <6> HIDE DEF y
            <6>3. [y EXCEPT !.attempt = n]
                    = [pc |-> "fast", key |-> t.key, cas |-> t.cas, attempt |-> n]
              BY <6>1
            <6> QED
              BY <6>2, <6>3
          <5> QED
            BY <5>2, <5>3 DEF x, v
        <4> QED
          BY <4>1, <4>3
      <3>9. areq' = [areq EXCEPT ![r].pc = "fast", ![r].attempt = @ + 1]
        BY <3>4, <3>8
      <3> QED
        BY <1>3, <2>1, <2>2, <3>9 DEF Store!PutAborted, areq
    <2>3. CASE ~(t.attempt + 1 < MaxAttempts)
      <3>1. Store!Finish(r)
        BY <2>3, AnswerRefines DEF Aborted
      <3> QED
        BY <1>3, <2>1, <2>3, <3>1 DEF Store!PutAborted, areq
    <2> QED
      BY <2>2, <2>3
  <1>5. CASE t.pc \in DeletePcs
    <2>1. areq[r].pc = "delete"
      BY <1>5, AbstractOf, AbstractPcs
    <2>2. Store!Finish(r)
      BY <1>5, AnswerRefines DEF Aborted
    <2> QED
      BY <1>3, <2>1, <2>2 DEF Store!RequestError, areq
  <1> QED
    BY <1>4, <1>5

LEMMA StepRefines ==
    ASSUME Inv, [Next]_vars
    PROVE  [Store!Next]_(Store!vars)
  <1>1. ASSUME NEW r \in Requests, BeginPut(r) \/ BeginDelete(r) \/ Statement(r) \/ Aborted(r)
        PROVE  Store!RequestStep(r) \/ UNCHANGED Store!vars
    <2>1. CASE BeginPut(r) \/ BeginDelete(r) \/ Aborted(r)
      BY <2>1, BeginPutRefines, BeginDeleteRefines, AbortedRefines
      DEF Store!RequestStep, Store!RequestFails
    <2>2. CASE Stored(r) \/ FastIncrement(r) \/ FastInsert(r) \/ FastDuplicate(r) \/ FastCommit(r)
      BY <2>2, StoredRefines, FastIncrementRefines, FastInsertRefines, FastDuplicateRefines,
         FastCommitRefines DEF Store!RequestStep, Store!PutStep
    <2>3. CASE SelectForUpdate(r) \/ SlowIncrement(r) \/ SlowDecrement(r) \/ SlowUpsert(r)
               \/ SlowCommit(r)
      BY <2>3, SelectForUpdateRefines, SlowIncrementRefines, SlowDecrementRefines,
         SlowUpsertRefines, SlowCommitRefines DEF Store!RequestStep, Store!PutStep
    <2>4. CASE DeleteSelect(r) \/ DeleteDecrement(r) \/ DeleteCommit(r) \/ Enqueue(r)
      BY <2>4, DeleteSelectRefines, DeleteDecrementRefines, DeleteCommitRefines, EnqueueRefines
      DEF Store!RequestStep, Store!DeleteStep
    <2> QED
      BY <1>1, <2>1, <2>2, <2>3, <2>4 DEF Statement
  <1>2. CASE Check \/ AllAnswered \/ UNCHANGED vars
    <2>1. UNCHANGED <<metaVars, txn, pending>>
      BY <1>2 DEF Check, CheckLock, CheckObjects, CheckParts, CheckEnd, AllAnswered, vars
    <2>2. areq' = areq
      BY <2>1 DEF areq
    <2> QED
      BY <2>1, <2>2, QuietRefines DEF Store!vars, areq
  <1> QED
    BY <1>1, <1>2 DEF Next, Store!Next

LEMMA InitRefines == Init => Store!Init
  <1> SUFFICES ASSUME Init PROVE Store!Init
    OBVIOUS
  <1>1. Store!MetaInit
    <2>1. ASSUME NEW c PROVE Store!References(c) = References(c)
      <3>1. Store!ObjectRefs(c) = ObjectRefs(c) /\ Store!PartRefs(c) = PartRefs(c)
        BY DEF ObjectRefs, Store!ObjectRefs, PartRefs, Store!PartRefs
      <3>2. \A S : Store!Cardinality(S) = Cardinality(S)
        BY DEF Store!Cardinality, Cardinality
      <3> QED
        BY <3>1, <3>2 DEF References, Store!References
    <2>2. Store!RowsWellFormed
      BY DEF Init, MetaInit, RowsWellFormed, Store!RowsWellFormed
    <2> QED
      BY <2>1, <2>2 DEF Init, MetaInit, Store!MetaInit
  <1>2. blobs \subseteq Content
    BY DEF Init, MetaInit
  <1>3. Store!GCInit
    BY <1>2 DEF Init, Store!GCInit, Store!GCWaiting
  <1>4. areq = [r \in Requests |-> Store!Idle("new")]
    <2>1. \A r \in Requests : txn[r] = Fresh("new")
      BY DEF Init
    <2>2. AbstractRequest(Fresh("new")) = Store!Idle("new")
      BY AbstractPcs DEF AbstractRequest, Fresh, Store!Idle
    <2> QED
      BY <2>1, <2>2 DEF areq
  <1> QED
    BY <1>1, <1>3, <1>4 DEF Store!Init, areq

\* However the statements of concurrent PUTs and DELETEs interleave, wait for
\* one another's row locks, abort and start over, the tables and the queue of
\* the collector change as if each transaction were one step of ObjectStore
\* (two when the row to overwrite is not found): what is proved of ObjectStore
\* holds of the statements MetaStore sends.
THEOREM RowLocksMakeTransactionsAtomic == Spec => ImplementsObjectStore
  <1>1. Init => Store!Init
    BY InitRefines
  <1>2. Inv /\ [Next]_vars => [Store!Next]_(Store!vars)
    BY StepRefines
  <1> QED
    BY <1>1, <1>2, SpecInv, PTL DEF Spec, ImplementsObjectStore, Store!Spec

=============================================================================
