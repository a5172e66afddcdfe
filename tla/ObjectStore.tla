---------------------------- MODULE ObjectStore ----------------------------
(***************************************************************************)
(* PUT and DELETE of objects as the server executes them, on top of the    *)
(* tables (MetaStore) and of the files and their collector                 *)
(* (GarbageCollector).  A request runs on one I/O thread from its first    *)
(* byte to its response; requests on different connections run on          *)
(* different threads and interleave at every database transaction and at   *)
(* every file operation.                                                   *)
(*                                                                         *)
(* A PUT body is streamed to a temporary file, then committed to the CAS   *)
(* (Server::OnRequest, DataStore::CommitWrite) BEFORE the request is       *)
(* routed, authenticated and handled (ObjectHandlers::PutObject).          *)
(***************************************************************************)
EXTENDS GarbageCollector

CONSTANTS
    Requests,     \* the requests clients send, each served once
    MaxAttempts   \* kMaxRetries of PutObjectWithRefCount

ASSUME RequestsAssumption == MaxAttempts \in Nat \ {0}

VARIABLES
    req,    \* the state of each request
    blind   \* history: the slots whose row was committed at a moment its file
            \* was not at the final path

vars == <<metaVars, gcVars, req, blind>>

PutPcs == {"store", "rename", "handler", "fast", "select", "upsert"}

Idle(pc) == [pc |-> pc, key |-> None, cas |-> None, attempt |-> 0]

\* The key and the content are cleared when the request no longer needs them;
\* on "enqueue", cas is the content to queue.
Request ==
    {Idle("new"), Idle("done")}
    \cup [pc : PutPcs, key : Keys, cas : Content, attempt : 0 .. MaxAttempts]
    \cup [pc : {"delete"}, key : Keys, cas : {None}, attempt : {0}]
    \cup [pc : {"enqueue"}, key : {None}, cas : Content, attempt : {0}]

Goto(r, pc) == req' = [req EXCEPT ![r].pc = pc]
Finish(r) == req' = [req EXCEPT ![r] = Idle("done")]

\* The end of a transaction that freed `cand': back in the handler, which has
\* a key to queue or is finished.  A COMMIT whose answer is lost is reported
\* as an error although it took effect, and its candidate is dropped.
Committed(r, cand) ==
    \/ IF cand = None
       THEN Finish(r)
       ELSE req' = [req EXCEPT ![r] = [Idle("enqueue") EXCEPT !.cas = cand]]
    \/ /\ "db" \in Faults
       /\ cand # None
       /\ Finish(r)

\* History: was the file of the content just committed at its final path?
NoteCommit(s, c) == blind' = IF c \in files THEN blind \ {s} ELSE blind \cup {s}

(***************************************************************************)
(* PUT                                                                     *)
(***************************************************************************)

\* The body has been written to a temporary file; or there is no body, and the
\* handler takes the content the client names.
BeginPut(r) ==
    /\ req[r].pc = "new"
    /\ \E k \in Keys, c \in Content,
          pc \in {"store"} \cup (IF "header" \in Faults THEN {"handler"} ELSE {}) :
          req' = [req EXCEPT ![r] = [pc |-> pc, key |-> k, cas |-> c, attempt |-> 0]]
    /\ UNCHANGED <<metaVars, gcVars, blind>>

\* CommitWrite, first half: deduplicate against the file already there.
CommitWrite(r) ==
    /\ req[r].pc = "store"
    /\ Goto(r, IF req[r].cas \in files THEN "handler" ELSE "rename")
    /\ UNCHANGED <<metaVars, gcVars, blind>>

\* CommitWrite, second half: rename the temporary file to the final path.
CommitRename(r) ==
    /\ req[r].pc = "rename"
    /\ files' = files \cup {req[r].cas}
    /\ Goto(r, "handler")
    /\ UNCHANGED <<metaVars, stranded, pending, gc, blind>>

\* The upload fails before it is stored: connection closed, checksum
\* mismatch, or (with "io") the rename failed.  The temporary file is removed.
RejectUpload(r) ==
    /\ \/ req[r].pc = "store"
       \/ req[r].pc = "rename" /\ "io" \in Faults
    /\ Finish(r)
    /\ UNCHANGED <<metaVars, gcVars, blind>>

\* The stored upload is refused before it reaches the tables: middleware, no
\* such bucket, checksum, idempotency replay or conflict.  The file stays.
RejectPut(r) ==
    /\ req[r].pc = "handler"
    /\ Finish(r)
    /\ UNCHANGED <<metaVars, gcVars, blind>>

PutFast(r) ==
    /\ req[r].pc \in {"handler", "fast"}
    /\ InsertObject(req[r].key, req[r].cas)
    /\ NoteCommit(SlotOf[req[r].key], req[r].cas)
    /\ Committed(r, None)
    /\ UNCHANGED gcVars

\* "Duplicate entry": the fast path is rolled back, the slow path starts.
PutDuplicate(r) ==
    /\ req[r].pc \in {"handler", "fast"}
    /\ Duplicate(req[r].key)
    /\ Goto(r, "select")
    /\ UNCHANGED <<metaVars, gcVars, blind>>

\* SELECT ... FOR UPDATE finds the row, and holds it until the commit.
PutOverwrite(r) ==
    /\ req[r].pc = "select"
    /\ OverwriteObject(req[r].key, req[r].cas)
    /\ NoteCommit(SlotOf[req[r].key], req[r].cas)
    /\ Committed(r, ReplacedCandidate(req[r].key, req[r].cas))
    /\ UNCHANGED gcVars

\* SELECT ... FOR UPDATE finds no row, and locks none.
PutSelectNone(r) ==
    /\ req[r].pc = "select"
    /\ ~Found(req[r].key)
    /\ Goto(r, "upsert")
    /\ UNCHANGED <<metaVars, gcVars, blind>>

PutUpsert(r) ==
    /\ req[r].pc = "upsert"
    /\ UpsertObject(req[r].key, req[r].cas)
    /\ NoteCommit(SlotOf[req[r].key], req[r].cas)
    /\ Committed(r, None)
    /\ UNCHANGED gcVars

\* InnoDB aborts the transaction: start over, or give up on the last attempt.
PutAborted(r) ==
    /\ "abort" \in Faults
    /\ req[r].pc \in {"handler", "fast", "select", "upsert"}
    /\ IF req[r].attempt + 1 < MaxAttempts
       THEN req' = [req EXCEPT ![r].pc = "fast", ![r].attempt = @ + 1]
       ELSE Finish(r)
    /\ UNCHANGED <<metaVars, gcVars, blind>>

(***************************************************************************)
(* DELETE                                                                  *)
(***************************************************************************)

\* DeleteObject has seen the object's metadata (in the table or in Redis).
BeginDelete(r) ==
    /\ req[r].pc = "new"
    /\ \E k \in Keys : req' = [req EXCEPT ![r] = [Idle("delete") EXCEPT !.key = k]]
    /\ UNCHANGED <<metaVars, gcVars, blind>>

DeleteObject(r) ==
    /\ req[r].pc = "delete"
    /\ RemoveObject(req[r].key)
    /\ blind' = blind \ {SlotOf[req[r].key]}
    /\ Committed(r, RemovedCandidate(req[r].key))
    /\ UNCHANGED gcVars

DeleteMissing(r) ==
    /\ req[r].pc = "delete"
    /\ ~Found(req[r].key)
    /\ Finish(r)
    /\ UNCHANGED <<metaVars, gcVars, blind>>

(***************************************************************************)
(* Both                                                                    *)
(***************************************************************************)

\* The handler passes the freed content to the collector and responds.
Enqueue(r) ==
    /\ req[r].pc = "enqueue"
    /\ AddPendingDelete(req[r].cas)
    /\ Finish(r)
    /\ UNCHANGED <<metaVars, files, stranded, gc, blind>>

\* The database fails, or aborts a DELETE, which is not retried: an error
\* response.  A stored file stays where it is.
RequestError(r) ==
    /\ \/ "db" \in Faults /\ req[r].pc \in {"handler", "fast", "select", "upsert", "delete"}
       \/ "abort" \in Faults /\ req[r].pc = "delete"
    /\ Finish(r)
    /\ UNCHANGED <<metaVars, gcVars, blind>>

\* The server process dies and is restarted: tables and files survive,
\* requests in progress and the collector's queue do not.
Crash ==
    /\ "crash" \in Faults
    /\ req' = [r \in Requests |->
                 IF req[r].pc = "new" THEN req[r] ELSE Idle("done")]
    /\ GCCrash
    /\ UNCHANGED <<metaVars, blind>>

----------------------------------------------------------------------------

Init ==
    /\ MetaInit
    /\ GCInit
    /\ req = [r \in Requests |-> Idle("new")]
    /\ blind = {}

PutStep(r) ==
    \/ CommitWrite(r)
    \/ CommitRename(r)
    \/ PutFast(r)
    \/ PutDuplicate(r)
    \/ PutOverwrite(r)
    \/ PutSelectNone(r)
    \/ PutUpsert(r)

DeleteStep(r) ==
    \/ DeleteObject(r)
    \/ DeleteMissing(r)

RequestFails(r) ==
    \/ RejectUpload(r)
    \/ RejectPut(r)
    \/ PutAborted(r)
    \/ RequestError(r)

RequestStep(r) ==
    \/ BeginPut(r)
    \/ BeginDelete(r)
    \/ PutStep(r)
    \/ DeleteStep(r)
    \/ Enqueue(r)
    \/ RequestFails(r)

CollectorStep ==
    /\ GCStep
    /\ UNCHANGED <<req, blind>>

Next ==
    \/ \E r \in Requests : RequestStep(r)
    \/ CollectorStep
    \/ Crash

Spec == Init /\ [][Next]_vars

\* The collector thread loops for ever and each I/O thread runs the request it
\* has taken to its end; clients need not send anything.
FairSpec ==
    /\ Spec
    /\ WF_vars(CollectorStep)
    /\ \A r \in Requests : WF_vars(PutStep(r) \/ DeleteStep(r) \/ Enqueue(r))

----------------------------------------------------------------------------

TypeOK ==
    /\ MetaTypeOK
    /\ GCTypeOK
    /\ req \in [Requests -> Request]
    /\ blind \subseteq Slots

\* The bytes of c are somewhere on disk: at the final path, in the hands of the
\* collector, or in a quarantine file that a failure left behind.
OnDisk(c) == c \in files \/ InQuarantine(c) \/ c \in stranded

\* They are there to stay: not only in a file the collector is about to unlink.
Kept(c) == c \in files \/ (InQuarantine(c) /\ ~Condemned(c)) \/ c \in stranded

\* The quarantine protocol of ProcessBatch keeps the bytes of every object
\* whose transaction committed while its file was at the final path, however
\* the commit interleaves with the collector's two checks, its rename, its
\* unlink, failures and crashes: they are never even in a file the collector is
\* about to unlink.  The bytes of uploaded parts are kept too.  (A restore that
\* fails, or a crash, may leave them in quarantine, where no GET finds them.)
CommittedContentSurvives ==
    /\ \A s \in Slots \ blind : objCas[s] # None => Kept(objCas[s])
    /\ \A p \in PartIds : partCas[p] # None => Kept(partCas[p])

\* c waits for the collector in its queue, in `batch', or in a handler that is
\* about to queue it.
HandedOver(c, batch) ==
    \/ \E i \in DOMAIN pending : pending[i] = c
    \/ \E i \in DOMAIN batch : batch[i] = c
    \/ \E r \in Requests : req[r].pc = "enqueue" /\ req[r].cas = c

\* No content with count 0 is forgotten while the server runs without errors
\* and InnoDB aborts nothing.
\* The collector drops a key without requeueing it whenever a check says no,
\* so this rests on whoever makes the count 0 again queueing it again.
ZeroCountIsQueued ==
    \A c \in blobs : refCount[c] = 0 => HandedOver(c, gc.batch)

\* A content whose count is 0 is eventually reclaimed (its row deleted) or
\* referred to again.
ZeroCountIsReclaimed ==
    \A c \in Content : (c \in blobs /\ refCount[c] = 0)
                          ~> ~(c \in blobs /\ refCount[c] = 0)

(***************************************************************************)
(* A claim of the comments that the code does not keep.                    *)
(***************************************************************************)

\* CommitWrite drops the upload and relies on the file already stored; the
\* collector cancels a deletion when the content "became referenced again":
\* the bytes of every object are on disk.
ObjectContentOnDisk ==
    \A s \in Slots : objCas[s] # None => OnDisk(objCas[s])

=============================================================================
