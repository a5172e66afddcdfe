----------------------------- MODULE Multipart -----------------------------
(***************************************************************************)
(* Multipart uploads (MultipartHandlers), next to the PUT and DELETE       *)
(* requests of ObjectStore and on the same tables, files and collector.    *)
(*                                                                         *)
(* UploadPart stores its body like a PUT and counts it in one transaction. *)
(* CompleteUpload and AbortUpload are not transactions: they read the      *)
(* parts, (merge them into an object,) count each part down, queue it, and *)
(* delete the upload, whose part rows go with it (ON DELETE CASCADE), each *)
(* with statements of their own.                                           *)
(***************************************************************************)
EXTENDS ObjectStore

CONSTANTS
    Uploads,        \* upload ids (UUIDs, never reused)
    UploadKey,      \* the object key each upload is for
    MaxParts,       \* part numbers are 1 .. MaxParts
    PartContent,    \* the contents clients upload as parts
    Concat(_),      \* the CAS key of the concatenation of a list of contents
    PartRequests,   \* multipart requests, each served once
    Sequential      \* TRUE: clients finish an upload once, after its parts

ASSUME UploadsAssumption ==
    /\ MaxParts \in Nat
    /\ PartIds = Uploads \X (1 .. MaxParts)
    /\ UploadKey \in [Uploads -> Keys]
    /\ PartContent \subseteq Content
    /\ \A n \in 1 .. MaxParts : \A list \in [1 .. n -> PartContent] : Concat(list) \in Content
    /\ None \notin Uploads
    /\ Sequential \in BOOLEAN

VARIABLES
    uploads,    \* multipart_uploads: "none" before, "open", "gone" after
    mp          \* the state of each multipart request

mpVars == <<uploads, mp>>
allVars == <<vars, mpVars>>

Ops == {"none", "part", "complete", "abort"}
MpPcs == {"new", "store", "rename", "lookup", "select", "upsert", "enqueue",
          "list", "merge", "mstore", "mrename", "fast", "oselect", "oupsert",
          "oenqueue", "cleanup", "unlink", "release", "relcheck", "drop", "done"}

\* part: the row an UploadPart is for; cas: the content being stored or queued;
\* list: the parts still to be merged or released.
PartRequest ==
    [pc : MpPcs, op : Ops, up : Uploads \cup {None}, part : PartIds \cup {None},
     cas : Content \cup {None}, list : Seq(Content), attempt : 0 .. MaxAttempts]

NewRequest == [pc |-> "new", op |-> "none", up |-> None, part |-> None,
               cas |-> None, list |-> <<>>, attempt |-> 0]

\* The response is sent; which upload the request was about is remembered.
MpFinish(r) ==
    mp' = [mp EXCEPT ![r] = [NewRequest EXCEPT !.pc = "done", !.op = mp[r].op, !.up = mp[r].up]]
MpGoto(r, pc) == mp' = [mp EXCEPT ![r].pc = pc]

\* MetaStore::ListParts: the contents of the parts in the order of their numbers.
PartNumbers(u) == {n \in 1 .. MaxParts : partCas[<<u, n>>] # None}
Rank(ns, n) == Cardinality({m \in ns : m <= n})
ListParts(u) ==
    LET ns == PartNumbers(u)
    IN  [i \in 1 .. Cardinality(ns) |-> partCas[<<u, CHOOSE n \in ns : Rank(ns, n) = i>>]]

Active(r) == mp[r].pc \notin {"new", "done"}
Finishes(r, u) == mp[r].op \in {"complete", "abort"} /\ mp[r].up = u

\* The row of a new upload; its id is a fresh UUID.
CreateMultipartUpload(u) ==
    /\ uploads[u] = "none"
    /\ uploads' = [uploads EXCEPT ![u] = "open"]

InitUpload(u) ==
    /\ CreateMultipartUpload(u)
    /\ UNCHANGED <<vars, mp>>

(***************************************************************************)
(* UploadPart and PutPartWithRefCount                                      *)
(***************************************************************************)

\* The body is in a temporary file; or there is no body, and the handler takes
\* the content the client names.
BeginPart(r) ==
    /\ mp[r].pc = "new"
    /\ \E p \in PartIds, c \in PartContent,
          pc \in {"store"} \cup (IF "header" \in Faults THEN {"lookup"} ELSE {}) :
          /\ Sequential => \A q \in PartRequests : ~Finishes(q, p[1])
          /\ mp' = [mp EXCEPT ![r] = [NewRequest EXCEPT !.pc = pc, !.op = "part",
                                        !.up = p[1], !.part = p, !.cas = c]]
    /\ UNCHANGED <<vars, uploads>>

StorePart(r) ==
    /\ mp[r].pc = "store"
    /\ MpGoto(r, IF mp[r].cas \in files THEN "lookup" ELSE "rename")
    /\ UNCHANGED <<vars, uploads>>

RenamePart(r) ==
    /\ mp[r].pc = "rename"
    /\ files' = files \cup {mp[r].cas}
    /\ MpGoto(r, "lookup")
    /\ UNCHANGED <<metaVars, stranded, pending, gc, req, blind, uploads>>

\* The connection is lost, the checksum is wrong, a file operation fails, or the
\* stored part is refused (middleware, another bucket or key).
RejectPart(r) ==
    /\ \/ mp[r].pc \in {"store", "lookup"}
       \/ mp[r].pc = "rename" /\ "io" \in Faults
    /\ MpFinish(r)
    /\ UNCHANGED <<vars, uploads>>

\* GetMultipartUpload; a part refused here leaves its file behind.
LookupUpload(r) ==
    /\ mp[r].pc = "lookup"
    /\ IF uploads[mp[r].up] = "open" THEN MpGoto(r, "select") ELSE MpFinish(r)
    /\ UNCHANGED <<vars, uploads>>

\* Commit the part row and respond, after queueing `cand'; if the answer to the
\* COMMIT is lost, `cand' is dropped.
PartCommitted(r, cand) ==
    LET t == mp[r]
    IN  /\ partCas' = [partCas EXCEPT ![t.part] = t.cas]
        /\ blobs' = blobs \cup {t.cas}
        /\ \/ IF cand = None THEN MpFinish(r)
              ELSE mp' = [mp EXCEPT ![r].pc = "enqueue", ![r].cas = cand]
           \/ "db" \in Faults /\ cand # None /\ MpFinish(r)
        /\ UNCHANGED <<objKey, objCas, gcVars, req, blind, uploads>>

\* Mutant: a part uploaded again with the same content is counted down.
PartOverwriteMiscounts(r) ==
    LET c == mp[r].cas
        old == partCas[mp[r].part]
        count == Decrement(IF old = c THEN refCount ELSE Increment(refCount, c), old)
    IN  /\ mp[r].pc = "select"
        /\ old # None
        /\ refCount' = count
        /\ PartCommitted(r, IF old # c /\ count[old] = 0 THEN old ELSE None)

\* SELECT ... FOR UPDATE finds the part and holds it until the commit.
PartOverwrite(r) ==
    LET c == mp[r].cas
        old == partCas[mp[r].part]
        count == IF old = c THEN refCount ELSE Decrement(Increment(refCount, c), old)
    IN  /\ mp[r].pc = "select"
        /\ old # None
        /\ refCount' = count
        /\ PartCommitted(r, IF old # c /\ count[old] = 0 THEN old ELSE None)

PartSelectNone(r) ==
    /\ mp[r].pc = "select"
    /\ partCas[mp[r].part] = None
    /\ MpGoto(r, "upsert")
    /\ UNCHANGED <<vars, uploads>>

\* The upsert counts its content and replaces what is there by now; the foreign
\* key refuses it when the upload is gone.
PartUpsert(r) ==
    /\ mp[r].pc = "upsert"
    /\ uploads[mp[r].up] = "open"
    /\ refCount' = Increment(refCount, mp[r].cas)
    /\ PartCommitted(r, None)

PartEnqueue(r) ==
    /\ mp[r].pc = "enqueue"
    /\ AddPendingDelete(mp[r].cas)
    /\ MpFinish(r)
    /\ UNCHANGED <<metaVars, files, stranded, gc, req, blind, uploads>>

\* The foreign key or the database refuses: an error response, and no cleanup
\* for an upload that was streamed.
PartFails(r) ==
    /\ \/ mp[r].pc = "upsert" /\ uploads[mp[r].up] # "open"
       \/ mp[r].pc \in {"select", "upsert"} /\ "db" \in Faults
    /\ MpFinish(r)
    /\ UNCHANGED <<vars, uploads>>

\* InnoDB aborts the transaction: start over, or give up on the last attempt.
PartAborted(r) ==
    /\ "abort" \in Faults
    /\ mp[r].pc \in {"select", "upsert"}
    /\ IF mp[r].attempt + 1 < MaxAttempts
       THEN mp' = [mp EXCEPT ![r].pc = "select", ![r].attempt = @ + 1]
       ELSE MpFinish(r)
    /\ UNCHANGED <<vars, uploads>>

(***************************************************************************)
(* CompleteUpload: read the parts, merge them, put the object.             *)
(***************************************************************************)

\* GetMultipartUpload finds the upload.
BeginFinish(r) ==
    /\ mp[r].pc = "new"
    /\ \E u \in Uploads, op \in {"complete", "abort"} :
          /\ uploads[u] = "open"
          /\ Sequential => \A q \in PartRequests :
                              ~Finishes(q, u) /\ ~(Active(q) /\ mp[q].up = u)
          /\ mp' = [mp EXCEPT ![r] = [NewRequest EXCEPT !.pc = "list", !.op = op, !.up = u]]
    /\ UNCHANGED <<vars, uploads>>

\* ListParts, compared with the client's list; nothing to merge is an error.
CompleteList(r) ==
    LET list == ListParts(mp[r].up)
    IN  /\ mp[r].pc = "list"
        /\ mp[r].op = "complete"
        /\ \/ list # <<>> /\ mp' = [mp EXCEPT ![r].pc = "merge", ![r].list = list]
           \/ MpFinish(r)
        /\ UNCHANGED <<vars, uploads>>

\* DataStore::Merge reads the parts at their final paths.
Merge(r) ==
    LET list == mp[r].list
    IN  /\ mp[r].pc = "merge"
        /\ IF \A i \in DOMAIN list : list[i] \in files
           THEN mp' = [mp EXCEPT ![r].pc = "mstore", ![r].cas = Concat(list)]
           ELSE MpFinish(r)
        /\ UNCHANGED <<vars, uploads>>

\* A file operation of the merge fails; the temporary file is removed.
MergeFails(r) ==
    /\ "io" \in Faults
    /\ mp[r].pc \in {"merge", "mrename"}
    /\ MpFinish(r)
    /\ UNCHANGED <<vars, uploads>>

StoreMerged(r) ==
    /\ mp[r].pc = "mstore"
    /\ MpGoto(r, IF mp[r].cas \in files THEN "fast" ELSE "mrename")
    /\ UNCHANGED <<vars, uploads>>

RenameMerged(r) ==
    /\ mp[r].pc = "mrename"
    /\ files' = files \cup {mp[r].cas}
    /\ MpGoto(r, "fast")
    /\ UNCHANGED <<metaVars, stranded, pending, gc, req, blind, uploads>>

\* The object is committed; on to the release of the parts, or, if the answer to
\* the COMMIT is lost, to the cleanup.
ObjectCommitted(r, cand) ==
    /\ NoteCommit(SlotOf[UploadKey[mp[r].up]], mp[r].cas)
    /\ \/ IF cand = None
          THEN MpGoto(r, "release")
          ELSE mp' = [mp EXCEPT ![r].pc = "oenqueue", ![r].cas = cand]
       \/ "db" \in Faults /\ MpGoto(r, "cleanup")
    /\ UNCHANGED <<gcVars, req, uploads>>

CompleteFast(r) ==
    /\ mp[r].pc = "fast"
    /\ InsertObject(UploadKey[mp[r].up], mp[r].cas)
    /\ ObjectCommitted(r, None)

CompleteDuplicate(r) ==
    /\ mp[r].pc = "fast"
    /\ Duplicate(UploadKey[mp[r].up])
    /\ MpGoto(r, "oselect")
    /\ UNCHANGED <<vars, uploads>>

CompleteOverwrite(r) ==
    LET k == UploadKey[mp[r].up]
    IN  /\ mp[r].pc = "oselect"
        /\ OverwriteObject(k, mp[r].cas)
        /\ ObjectCommitted(r, ReplacedCandidate(k, mp[r].cas))

CompleteSelectNone(r) ==
    /\ mp[r].pc = "oselect"
    /\ ~Found(UploadKey[mp[r].up])
    /\ MpGoto(r, "oupsert")
    /\ UNCHANGED <<vars, uploads>>

CompleteUpsert(r) ==
    /\ mp[r].pc = "oupsert"
    /\ UpsertObject(UploadKey[mp[r].up], mp[r].cas)
    /\ ObjectCommitted(r, None)

CompleteEnqueue(r) ==
    /\ mp[r].pc = "oenqueue"
    /\ AddPendingDelete(mp[r].cas)
    /\ MpGoto(r, "release")
    /\ UNCHANGED <<metaVars, files, stranded, gc, req, blind, uploads>>

\* InnoDB aborts PutObjectWithRefCount, which starts over.
CompleteAborted(r) ==
    /\ "abort" \in Faults
    /\ mp[r].pc \in {"fast", "oselect", "oupsert"}
    /\ mp[r].attempt + 1 < MaxAttempts
    /\ mp' = [mp EXCEPT ![r].pc = "fast", ![r].attempt = @ + 1]
    /\ UNCHANGED <<vars, uploads>>

\* PutObjectWithRefCount fails: CleanupUnreferencedCas follows.
CompleteFails(r) ==
    /\ mp[r].pc \in {"fast", "oselect", "oupsert"}
    /\ \/ "db" \in Faults
       \/ "abort" \in Faults /\ mp[r].attempt + 1 = MaxAttempts
    /\ MpGoto(r, "cleanup")
    /\ UNCHANGED <<vars, uploads>>

\* CleanupUnreferencedCas reads the row: absent, or with count 0 ...
CleanupCheck(r) ==
    LET c == mp[r].cas
    IN  /\ mp[r].pc = "cleanup"
        /\ IF c \notin blobs \/ refCount[c] = 0 THEN MpGoto(r, "unlink") ELSE MpFinish(r)
        /\ UNCHANGED <<vars, uploads>>

\* ... and then unlinks the file at its final path.
CleanupUnlink(r) ==
    /\ mp[r].pc = "unlink"
    /\ files' = files \ {mp[r].cas}
    /\ MpFinish(r)
    /\ UNCHANGED <<metaVars, stranded, pending, gc, req, blind, uploads>>

(***************************************************************************)
(* CompleteUpload and AbortUpload: release the parts, delete the upload.   *)
(***************************************************************************)
AbortList(r) ==
    /\ mp[r].pc = "list"
    /\ mp[r].op = "abort"
    /\ mp' = [mp EXCEPT ![r].pc = "release", ![r].list = ListParts(mp[r].up)]
    /\ UNCHANGED <<vars, uploads>>

\* DecrementRefCountAndCheckZero, its UPDATE.
ReleasePart(r) ==
    LET list == mp[r].list
    IN  /\ mp[r].pc = "release"
        /\ list # <<>>
        /\ refCount' = Decrement(refCount, Head(list))
        /\ MpGoto(r, "relcheck")
        /\ UNCHANGED <<blobs, objKey, objCas, partCas, gcVars, req, blind, uploads>>

\* DecrementRefCountAndCheckZero, its SELECT: the part is queued at once.
ReleaseCheck(r) ==
    LET c == Head(mp[r].list)
    IN  /\ mp[r].pc = "relcheck"
        /\ IF c \in blobs /\ refCount[c] = 0 THEN AddPendingDelete(c) ELSE UNCHANGED pending
        /\ mp' = [mp EXCEPT ![r].pc = "release", ![r].list = Tail(@)]
        /\ UNCHANGED <<metaVars, files, stranded, gc, req, blind, uploads>>

ReleaseDone(r) ==
    /\ mp[r].pc = "release"
    /\ mp[r].list = <<>>
    /\ MpGoto(r, "drop")
    /\ UNCHANGED <<vars, uploads>>

\* Mutant: the part rows are not deleted with the upload.
DropUploadOnly(r) ==
    /\ mp[r].pc = "drop"
    /\ uploads' = [uploads EXCEPT ![mp[r].up] = "gone"]
    /\ MpFinish(r)
    /\ UNCHANGED vars

\* DeleteMultipartUpload: the part rows are deleted by the cascade, whatever
\* they refer to by now; when the upload is gone already, nothing happens.
DropUpload(r) ==
    LET u == mp[r].up
    IN  /\ mp[r].pc = "drop"
        /\ uploads' = [uploads EXCEPT ![u] = "gone"]
        /\ partCas' = [p \in PartIds |-> IF p[1] = u THEN None ELSE partCas[p]]
        /\ MpFinish(r)
        /\ UNCHANGED <<blobs, refCount, objKey, objCas, gcVars, req, blind>>

\* A statement of the release fails: the handler goes on with the next.  The
\* UPDATE may be aborted when it waits for the content's row, the DELETE when it
\* waits for another request on the same upload.
ReleaseError(r) ==
    LET contended == \E q \in PartRequests \ {r} : Active(q) /\ mp[q].up = mp[r].up
    IN  /\ \/ "db" \in Faults
           \/ "abort" \in Faults /\ mp[r].pc = "release"
           \/ "abort" \in Faults /\ mp[r].pc = "drop" /\ contended
        /\ \/ /\ mp[r].pc \in {"release", "relcheck"}
              /\ mp[r].list # <<>>
              /\ mp' = [mp EXCEPT ![r].pc = "release", ![r].list = Tail(@)]
           \/ mp[r].pc = "drop" /\ MpFinish(r)
           \/ mp[r].pc = "list" /\ mp[r].op = "abort" /\ MpGoto(r, "drop")
        /\ UNCHANGED <<vars, uploads>>

----------------------------------------------------------------------------

MultipartInit ==
    /\ Init
    /\ uploads \in [Uploads -> {"none", "open"}]
    /\ \A p \in PartIds : partCas[p] # None => uploads[p[1]] = "open" /\ partCas[p] \in PartContent
    /\ mp = [r \in PartRequests |-> NewRequest]

UploadPartStep(r) ==
    \/ StorePart(r)
    \/ RenamePart(r)
    \/ RejectPart(r)
    \/ LookupUpload(r)
    \/ PartOverwrite(r)
    \/ PartSelectNone(r)
    \/ PartUpsert(r)
    \/ PartEnqueue(r)
    \/ PartFails(r)
    \/ PartAborted(r)

CompleteStep(r) ==
    \/ CompleteList(r)
    \/ Merge(r)
    \/ MergeFails(r)
    \/ StoreMerged(r)
    \/ RenameMerged(r)
    \/ CompleteFast(r)
    \/ CompleteDuplicate(r)
    \/ CompleteOverwrite(r)
    \/ CompleteSelectNone(r)
    \/ CompleteUpsert(r)
    \/ CompleteEnqueue(r)
    \/ CompleteAborted(r)
    \/ CompleteFails(r)
    \/ CleanupCheck(r)
    \/ CleanupUnlink(r)

ReleaseStep(r) ==
    \/ AbortList(r)
    \/ ReleasePart(r)
    \/ ReleaseCheck(r)
    \/ ReleaseDone(r)
    \/ DropUpload(r)
    \/ ReleaseError(r)

HandlerStep(r) == UploadPartStep(r) \/ CompleteStep(r) \/ ReleaseStep(r)

\* The server dies: multipart requests in progress are gone as well.
MultipartCrash ==
    /\ Crash
    /\ mp' = [r \in PartRequests |->
                IF Active(r) THEN [NewRequest EXCEPT !.pc = "done", !.op = mp[r].op, !.up = mp[r].up]
                ELSE mp[r]]
    /\ UNCHANGED uploads

MultipartNext ==
    \/ \E u \in Uploads : InitUpload(u)
    \/ \E r \in PartRequests : BeginPart(r) \/ BeginFinish(r) \/ HandlerStep(r)
    \/ (\E r \in Requests : RequestStep(r)) /\ UNCHANGED mpVars
    \/ CollectorStep /\ UNCHANGED mpVars
    \/ MultipartCrash

MultipartSpec == MultipartInit /\ [][MultipartNext]_allVars

----------------------------------------------------------------------------

MultipartTypeOK ==
    /\ TypeOK
    /\ uploads \in [Uploads -> {"none", "open", "gone"}]
    /\ mp \in [PartRequests -> PartRequest]
    /\ \A p \in PartIds : partCas[p] # None => uploads[p[1]] = "open"

CleanupUnlinks(c) ==
    \E r \in PartRequests : mp[r].pc = "unlink" /\ mp[r].cas = c /\ mp'[r] # mp[r]

\* Whatever fails, the bytes of a content that a row refers to leave the disk in
\* two ways only.  CleanupUnreferencedCas unlinks them after a failed
\* completion; or the collector unlinks a copy it had condemned before there was
\* a row: it never condemns the copy a row refers to, however the checks, the
\* rename and the commits of PUTs, parts and completions interleave.
ReferencedBytesLeaveTwoWays ==
    [][\A c \in Content : References(c) > 0 =>
          /\ OnDisk(c) => OnDisk(c)' \/ CleanupUnlinks(c) \/ Condemned(c)
          /\ Kept(c) => Kept(c)' \/ CleanupUnlinks(c)
      ]_allVars

\* Parts that no request is releasing.
LiveParts(c) ==
    {p \in PartRefs(c) : \A r \in PartRequests :
        ~(mp[r].up = p[1] /\ mp[r].pc \in {"release", "relcheck", "drop"})}

\* The count of a content covers the objects that have it and the parts that are
\* not being released: CompleteUpload and AbortUpload give back the references
\* of the parts they list, and no others.
CountsCoverLiveReferences ==
    \A c \in Content : Cardinality(ObjectRefs(c)) + Cardinality(LiveParts(c)) <= refCount[c]

=============================================================================
