----------------------------- MODULE ObjectTxn -----------------------------
(***************************************************************************)
(* PutObjectWithRefCount, DeleteObjectWithRefCount and CanDeleteCasBlob    *)
(* statement by statement, as InnoDB runs them at READ COMMITTED: a        *)
(* statement takes exclusive locks on the rows it reads FOR UPDATE or      *)
(* writes, waits while another transaction holds them, and keeps them      *)
(* until COMMIT or ROLLBACK; a row that is not found is not locked; what a *)
(* transaction has written is seen by others when it commits.              *)
(*                                                                         *)
(* ObjectStore treats each of these transactions as one step (two when the *)
(* row to overwrite is not found).  ImplementsObjectStore states that this *)
(* is right: the locks make the statements atomic.                         *)
(***************************************************************************)
EXTENDS MetaStore, Sequences

CONSTANTS Requests, MaxAttempts

ASSUME AttemptsAssumption == MaxAttempts \in Nat \ {0}

VARIABLES
    casLock,    \* the transaction that holds the cas_blobs row of a content
    slotLock,   \* the transaction that holds an `objects' index entry
    txn,        \* the request's position in its transaction and what it wrote
    chk,        \* a CanDeleteCasBlob transaction of the collector
    pending     \* what the handlers have queued for the collector

locks == <<casLock, slotLock>>
vars == <<metaVars, locks, txn, chk, pending>>

Checker == "collector"
ASSUME CheckerAssumption == Checker \notin Requests /\ None \notin Requests /\ None # Checker

FastPcs == {"fInc", "fInsert", "fCommit"}
SlowPcs == {"sInc", "sDec", "sUpsert", "sCommit"}
DeletePcs == {"dSelect", "dDec", "dCommit"}

\* old: the cas_key the SELECT found, or None; newRef and oldRef: the counts the
\* transaction has written to the rows of cas and old.
Fresh(pc) == [pc |-> pc, key |-> None, cas |-> None, old |-> None,
              newRef |-> 0, oldRef |-> 0, attempt |-> 0]

Slot(r) == SlotOf[txn[r].key]

Owns(r, o) == o \in {None, r}

Release(r) ==
    /\ casLock' = [c \in Content |-> IF casLock[c] = r THEN None ELSE casLock[c]]
    /\ slotLock' = [s \in Slots |-> IF slotLock[s] = r THEN None ELSE slotLock[s]]

\* Take the lock on the cas_blobs row of c, present or about to be inserted.
LockCas(r, c) ==
    /\ Owns(r, casLock[c])
    /\ casLock' = [casLock EXCEPT ![c] = r]

LockSlot(r) ==
    /\ Owns(r, slotLock[Slot(r)])
    /\ slotLock' = [slotLock EXCEPT ![Slot(r)] = r]

\* The response to the client.
Answer(r) == txn' = [txn EXCEPT ![r] = Fresh("done")]

\* The response, or first the content to queue.
Finish(r, cand) ==
    IF cand = None
    THEN Answer(r)
    ELSE txn' = [txn EXCEPT ![r] = [Fresh("enqueue") EXCEPT !.cas = cand]]

(***************************************************************************)
(* PutObjectWithRefCount: the fast path.                                   *)
(***************************************************************************)
BeginPut(r) ==
    /\ txn[r].pc = "new"
    /\ \E k \in Keys, c \in Content :
          txn' = [txn EXCEPT ![r] = [Fresh("store") EXCEPT !.key = k, !.cas = c]]
    /\ UNCHANGED <<metaVars, locks, chk, pending>>

Stored(r) ==
    /\ txn[r].pc = "store"
    /\ txn' = [txn EXCEPT ![r].pc = "fInc"]
    /\ UNCHANGED <<metaVars, locks, chk, pending>>

FastIncrement(r) ==
    /\ txn[r].pc = "fInc"
    /\ LockCas(r, txn[r].cas)
    /\ txn' = [txn EXCEPT ![r].pc = "fInsert", ![r].newRef = refCount[txn[r].cas] + 1]
    /\ UNCHANGED <<metaVars, slotLock, chk, pending>>

FastInsert(r) ==
    /\ txn[r].pc = "fInsert"
    /\ LockSlot(r)
    /\ ~Duplicate(txn[r].key)
    /\ txn' = [txn EXCEPT ![r].pc = "fCommit"]
    /\ UNCHANGED <<metaVars, casLock, chk, pending>>

\* "Duplicate entry": roll back and take the slow path.
FastDuplicate(r) ==
    /\ txn[r].pc = "fInsert"
    /\ Owns(r, slotLock[Slot(r)])
    /\ Duplicate(txn[r].key)
    /\ txn' = [txn EXCEPT ![r].pc = "sSelect", ![r].newRef = 0]
    /\ Release(r)
    /\ UNCHANGED <<metaVars, chk, pending>>

FastCommit(r) ==
    LET t == txn[r]
    IN  /\ t.pc = "fCommit"
        /\ blobs' = blobs \cup {t.cas}
        /\ refCount' = [refCount EXCEPT ![t.cas] = t.newRef]
        /\ objKey' = [objKey EXCEPT ![Slot(r)] = t.key]
        /\ objCas' = [objCas EXCEPT ![Slot(r)] = t.cas]
        /\ Release(r)
        /\ Answer(r)
        /\ UNCHANGED <<partCas, chk, pending>>

(***************************************************************************)
(* PutObjectWithRefCount: the slow path.                                   *)
(***************************************************************************)
SelectForUpdate(r) ==
    LET t == txn[r]
        old == objCas[Slot(r)]
    IN  /\ t.pc = "sSelect"
        /\ IF Found(t.key)
           THEN /\ LockSlot(r)
                /\ txn' = [txn EXCEPT ![r].old = old,
                                      ![r].pc = IF old = t.cas THEN "sUpsert" ELSE "sInc"]
           ELSE /\ Owns(r, slotLock[Slot(r)])
                /\ txn' = [txn EXCEPT ![r].pc = "sInc"]
                /\ UNCHANGED slotLock
        /\ UNCHANGED <<metaVars, casLock, chk, pending>>

SlowIncrement(r) ==
    LET t == txn[r]
    IN  /\ t.pc = "sInc"
        /\ LockCas(r, t.cas)
        /\ txn' = [txn EXCEPT ![r].pc = IF t.old = None THEN "sUpsert" ELSE "sDec",
                              ![r].newRef = refCount[t.cas] + 1]
        /\ UNCHANGED <<metaVars, slotLock, chk, pending>>

\* Mutant: the old count is read without a lock on its row.
SlowDecrementUnlocked(r) ==
    LET t == txn[r]
    IN  /\ t.pc = "sDec"
        /\ txn' = [txn EXCEPT ![r].pc = "sUpsert",
                              ![r].oldRef = Decrement(refCount, t.old)[t.old]]
        /\ UNCHANGED <<metaVars, locks, chk, pending>>

SlowDecrement(r) ==
    LET t == txn[r]
    IN  /\ t.pc = "sDec"
        /\ LockCas(r, t.old)
        /\ txn' = [txn EXCEPT ![r].pc = "sUpsert",
                              ![r].oldRef = Decrement(refCount, t.old)[t.old]]
        /\ UNCHANGED <<metaVars, slotLock, chk, pending>>

SlowUpsert(r) ==
    /\ txn[r].pc = "sUpsert"
    /\ LockSlot(r)
    /\ txn' = [txn EXCEPT ![r].pc = "sCommit"]
    /\ UNCHANGED <<metaVars, casLock, chk, pending>>

SlowCommit(r) ==
    LET t == txn[r]
        counted == IF t.old = t.cas THEN {} ELSE {t.cas}
        released == {t.old} \ {t.cas, None}
    IN  /\ t.pc = "sCommit"
        /\ blobs' = blobs \cup counted
        /\ refCount' = [c \in Content |-> CASE c \in counted  -> t.newRef
                                            [] c \in released -> t.oldRef
                                            [] OTHER -> refCount[c]]
        /\ objKey' = [objKey EXCEPT ![Slot(r)] = IF Duplicate(t.key) THEN @ ELSE t.key]
        /\ objCas' = [objCas EXCEPT ![Slot(r)] = t.cas]
        /\ Release(r)
        /\ Finish(r, IF released # {} /\ t.oldRef = 0 THEN t.old ELSE None)
        /\ UNCHANGED <<partCas, chk, pending>>

(***************************************************************************)
(* DeleteObjectWithRefCount.  The DELETE acts on the row just locked.      *)
(***************************************************************************)
BeginDelete(r) ==
    /\ txn[r].pc = "new"
    /\ \E k \in Keys : txn' = [txn EXCEPT ![r] = [Fresh("dSelect") EXCEPT !.key = k]]
    /\ UNCHANGED <<metaVars, locks, chk, pending>>

DeleteSelect(r) ==
    /\ txn[r].pc = "dSelect"
    /\ IF Found(txn[r].key)
       THEN /\ LockSlot(r)
            /\ txn' = [txn EXCEPT ![r].pc = "dDec", ![r].old = objCas[Slot(r)]]
       ELSE /\ Owns(r, slotLock[Slot(r)])
            /\ Answer(r)
            /\ UNCHANGED slotLock
    /\ UNCHANGED <<metaVars, casLock, chk, pending>>

DeleteDecrement(r) ==
    LET t == txn[r]
    IN  /\ t.pc = "dDec"
        /\ LockCas(r, t.old)
        /\ txn' = [txn EXCEPT ![r].pc = "dCommit",
                              ![r].oldRef = Decrement(refCount, t.old)[t.old]]
        /\ UNCHANGED <<metaVars, slotLock, chk, pending>>

DeleteCommit(r) ==
    LET t == txn[r]
    IN  /\ t.pc = "dCommit"
        /\ refCount' = [refCount EXCEPT ![t.old] = t.oldRef]
        /\ objKey' = [objKey EXCEPT ![Slot(r)] = None]
        /\ objCas' = [objCas EXCEPT ![Slot(r)] = None]
        /\ Release(r)
        /\ Finish(r, IF t.oldRef = 0 THEN t.old ELSE None)
        /\ UNCHANGED <<blobs, partCas, chk, pending>>

Enqueue(r) ==
    /\ txn[r].pc = "enqueue"
    /\ pending' = Append(pending, txn[r].cas)
    /\ Answer(r)
    /\ UNCHANGED <<metaVars, locks, chk>>

(***************************************************************************)
(* InnoDB aborts a transaction that waits for a lock, as a deadlock victim *)
(* or because the wait timed out.  A PUT starts over, at most MaxAttempts  *)
(* times; a DELETE fails.                                                  *)
(***************************************************************************)
Blocked(r) ==
    LET t == txn[r]
    IN  \/ t.pc \in {"fInc", "sInc"} /\ ~Owns(r, casLock[t.cas])
        \/ t.pc \in {"sDec", "dDec"} /\ ~Owns(r, casLock[t.old])
        \/ t.pc \in {"fInsert", "sSelect", "sUpsert", "dSelect"} /\ ~Owns(r, slotLock[Slot(r)])

\* Mutant: the last retry is one too many.
AbortedOnceMore(r) ==
    LET t == txn[r]
    IN  /\ Blocked(r)
        /\ IF t.pc \notin DeletePcs /\ t.attempt < MaxAttempts
           THEN txn' = [txn EXCEPT ![r] = [Fresh("fInc") EXCEPT !.key = t.key, !.cas = t.cas,
                                                               !.attempt = t.attempt + 1]]
           ELSE Answer(r)
        /\ Release(r)
        /\ UNCHANGED <<metaVars, chk, pending>>

\* Mutant: retries are not counted.
AbortedUncounted(r) ==
    LET t == txn[r]
    IN  /\ Blocked(r)
        /\ IF t.pc \notin DeletePcs
           THEN txn' = [txn EXCEPT ![r] = [Fresh("fInc") EXCEPT !.key = t.key, !.cas = t.cas,
                                                               !.attempt = t.attempt]]
           ELSE Answer(r)
        /\ Release(r)
        /\ UNCHANGED <<metaVars, chk, pending>>

Aborted(r) ==
    LET t == txn[r]
    IN  /\ Blocked(r)
        /\ IF t.pc \notin DeletePcs /\ t.attempt + 1 < MaxAttempts
           THEN txn' = [txn EXCEPT ![r] = [Fresh("fInc") EXCEPT !.key = t.key, !.cas = t.cas,
                                                               !.attempt = t.attempt + 1]]
           ELSE Answer(r)
        /\ Release(r)
        /\ UNCHANGED <<metaVars, chk, pending>>

(***************************************************************************)
(* CanDeleteCasBlob, as the collector runs it: lock the row and read its   *)
(* count, then count the references of each table with a plain read, then  *)
(* commit.  A row that is absent or counted ends it at once.               *)
(***************************************************************************)
NoCheck == [pc |-> "idle", cas |-> None]

\* Mutant: the count is read without FOR UPDATE.
CheckWithoutLock ==
    /\ chk.pc = "idle"
    /\ \E c \in Content :
          /\ c \in blobs
          /\ refCount[c] = 0
          /\ chk' = [pc |-> "objects", cas |-> c]
    /\ UNCHANGED <<metaVars, locks, txn, pending>>

CheckLock ==
    /\ chk.pc = "idle"
    /\ \E c \in Content :
          /\ c \in blobs
          /\ refCount[c] = 0
          /\ LockCas(Checker, c)
          /\ chk' = [pc |-> "objects", cas |-> c]
    /\ UNCHANGED <<metaVars, slotLock, txn, pending>>

CheckObjects ==
    /\ chk.pc = "objects"
    /\ IF ObjectRefs(chk.cas) = {}
       THEN chk' = [chk EXCEPT !.pc = "parts"] /\ UNCHANGED locks
       ELSE chk' = NoCheck /\ Release(Checker)
    /\ UNCHANGED <<metaVars, txn, pending>>

CheckParts ==
    /\ chk.pc = "parts"
    /\ chk' = IF PartRefs(chk.cas) = {} THEN [chk EXCEPT !.pc = "yes"] ELSE NoCheck
    /\ Release(Checker)
    /\ UNCHANGED <<metaVars, txn, pending>>

CheckEnd ==
    /\ chk.pc = "yes"
    /\ chk' = NoCheck
    /\ UNCHANGED <<metaVars, locks, txn, pending>>

----------------------------------------------------------------------------

Init ==
    /\ MetaInit
    /\ casLock = [c \in Content |-> None]
    /\ slotLock = [s \in Slots |-> None]
    /\ txn = [r \in Requests |-> Fresh("new")]
    /\ chk = NoCheck
    /\ pending = <<>>

Statement(r) ==
    \/ Stored(r)
    \/ FastIncrement(r)
    \/ FastInsert(r)
    \/ FastDuplicate(r)
    \/ FastCommit(r)
    \/ SelectForUpdate(r)
    \/ SlowIncrement(r)
    \/ SlowDecrement(r)
    \/ SlowUpsert(r)
    \/ SlowCommit(r)
    \/ DeleteSelect(r)
    \/ DeleteDecrement(r)
    \/ DeleteCommit(r)
    \/ Enqueue(r)

Check == CheckLock \/ CheckObjects \/ CheckParts \/ CheckEnd

\* All requests are answered: the server waits for the next one.
AllAnswered ==
    /\ \A r \in Requests : txn[r].pc = "done"
    /\ UNCHANGED vars

Next ==
    \/ \E r \in Requests : BeginPut(r) \/ BeginDelete(r) \/ Statement(r) \/ Aborted(r)
    \/ Check
    \/ AllAnswered

Spec == Init /\ [][Next]_vars

\* A thread goes on to its next statement, and InnoDB ends every lock wait: it
\* grants the lock or aborts the waiting transaction (deadlock detection,
\* innodb_lock_wait_timeout).
FairSpec ==
    /\ Spec
    /\ \A r \in Requests : WF_vars(Statement(r) \/ Aborted(r))

TypeOK ==
    /\ MetaTypeOK
    /\ casLock \in [Content -> Requests \cup {Checker, None}]
    /\ slotLock \in [Slots -> Requests \cup {None}]
    /\ txn \in [Requests ->
         [pc : {"new", "store", "sSelect", "enqueue", "done"} \cup FastPcs \cup SlowPcs \cup DeletePcs,
          key : Keys \cup {None}, cas : Content \cup {None}, old : Content \cup {None},
          newRef : Nat, oldRef : Nat, attempt : 0 .. MaxAttempts - 1]]
    /\ chk \in [pc : {"idle", "objects", "parts", "yes"}, cas : Content \cup {None}]
    /\ pending \in Seq(Content)

----------------------------------------------------------------------------
(***************************************************************************)
(* The requests of ObjectStore that the transactions implement.            *)
(***************************************************************************)
AbstractPc(t) ==
    CASE t.pc \in FastPcs   -> IF t.attempt = 0 THEN "handler" ELSE "fast"
      [] t.pc = "sSelect"   -> "select"
      [] t.pc \in SlowPcs   -> IF t.old = None THEN "upsert" ELSE "select"
      [] t.pc \in DeletePcs -> "delete"
      [] OTHER              -> t.pc

AbstractRequest(t) ==
    [pc |-> AbstractPc(t), key |-> t.key, cas |-> t.cas, attempt |-> t.attempt]

Store == INSTANCE ObjectStore WITH
    BatchSize <- 1,
    Faults <- {"abort"},
    files <- Content,
    stranded <- {},
    gc <- [pc |-> "wait", batch |-> <<>>, moved |-> FALSE],
    req <- [r \in Requests |-> AbstractRequest(txn[r])],
    blind <- {}

\* The statements of concurrent PUTs and DELETEs implement the transactions of
\* ObjectStore: the row locks make each of them atomic, counts included, except
\* that an upsert after an unsuccessful SELECT FOR UPDATE is a step of its own.
ImplementsObjectStore == Store!Spec

\* When CanDeleteCasBlob answers yes, its count and its references are those of
\* one moment, although it reads them with three statements.
CheckIsAtomic ==
    [][chk.pc # "yes" /\ chk'.pc = "yes" => CanDeleteCasBlob(chk'.cas)]_vars

\* Lock waits and deadlocks never leave a request without an answer.
EveryRequestAnswered ==
    \A r \in Requests : txn[r].pc # "new" ~> txn[r].pc = "done"

=============================================================================
