-------------------------- MODULE GarbageCollector --------------------------
(***************************************************************************)
(* The CAS files of DataStore and the background thread of                 *)
(* GarbageCollector that reclaims them.  A content is stored at one path   *)
(* derived from its hash (files); a collection pass first renames that     *)
(* file to a private <path>.gc.<uuid> name, asks the tables again, and     *)
(* then unlinks or restores it.  Every call on the tables and every file   *)
(* operation is a step of its own: request threads run in between.         *)
(***************************************************************************)
EXTENDS MetaStore, Sequences

CONSTANTS
    BatchSize,  \* gc.batch_size
    Faults      \* the failures this instance allows, a subset of FaultKinds

\* "abort": InnoDB aborts a transaction or a statement that waits for a lock
\* (deadlock, lock wait timeout);
\* "db": a statement, a commit or the connection fails;
\* "io": a file operation fails;  "crash": the server process dies;
\* "header": a client that sends no body names a content in the header
\* X-Internal-CAS-Key, which the server sets for bodies it has stored.
FaultKinds == {"abort", "db", "io", "crash", "header"}

ASSUME CollectorAssumption ==
    /\ BatchSize \in Nat \ {0}
    /\ Faults \subseteq FaultKinds

VARIABLES
    files,      \* contents whose CAS file exists at its final path
    stranded,   \* contents of .gc.<uuid> files no collection pass owns any more
    pending,    \* pending_deletes_: the collector's in-memory queue
    gc          \* the collector thread: pc, the rest of its batch, whether it
                \* has moved the file of Head(batch) to quarantine

gcVars == <<files, stranded, pending, gc>>

GCPcs == {"wait", "check", "probe", "quarantine", "recheck", "restore",
          "remove", "callback", "deleteRow"}

GCWaiting == [pc |-> "wait", batch |-> <<>>, moved |-> FALSE]

\* The key the loop of ProcessBatch is at.
GCKey == Head(gc.batch)

GCGoto(pc) == gc' = [gc EXCEPT !.pc = pc]

\* Mutant: the flag of the previous key is not reset.
GCNextKeyKeepsMoved ==
    gc' = [gc EXCEPT !.pc = IF Tail(gc.batch) = <<>> THEN "wait" ELSE "check",
                     !.batch = Tail(@)]

\* `continue', or the end of the loop body: on to the next key of the batch.
GCNextKey ==
    gc' = [pc    |-> IF Tail(gc.batch) = <<>> THEN "wait" ELSE "check",
           batch |-> Tail(gc.batch),
           moved |-> FALSE]

AddPendingDelete(c) == pending' = Append(pending, c)

(***************************************************************************)
(* GCLoop and ProcessBatch.                                                *)
(***************************************************************************)

\* The wait timed out on an empty queue: ProcessBatch returns at once.
GCIdle ==
    /\ gc.pc = "wait"
    /\ pending = <<>>
    /\ UNCHANGED <<metaVars, gcVars>>

GCTakeBatch ==
    LET n == IF Len(pending) < BatchSize THEN Len(pending) ELSE BatchSize
    IN  /\ gc.pc = "wait"
        /\ pending # <<>>
        /\ gc' = [pc |-> "check", batch |-> SubSeq(pending, 1, n), moved |-> FALSE]
        /\ pending' = SubSeq(pending, n + 1, Len(pending))
        /\ UNCHANGED <<metaVars, files, stranded>>

GCCheck ==
    /\ gc.pc = "check"
    /\ IF CanDeleteCasBlob(GCKey) THEN GCGoto("probe") ELSE GCNextKey
    /\ UNCHANGED <<metaVars, files, stranded, pending>>

GCProbe ==
    /\ gc.pc = "probe"
    /\ GCGoto(IF GCKey \in files THEN "quarantine" ELSE "recheck")
    /\ UNCHANGED <<metaVars, files, stranded, pending>>

\* The rename fails, and the key is skipped, if the file has gone meanwhile.
GCQuarantine ==
    /\ gc.pc = "quarantine"
    /\ IF GCKey \in files
       THEN gc' = [gc EXCEPT !.pc = "recheck", !.moved = TRUE]
       ELSE GCNextKey
    /\ files' = files \ {GCKey}
    /\ UNCHANGED <<metaVars, stranded, pending>>

\* Mutant: the tables are not asked again after the rename.
GCRecheckSkipped ==
    /\ gc.pc = "recheck"
    /\ GCGoto("remove")
    /\ UNCHANGED <<metaVars, files, stranded, pending>>

\* The second look at the tables; a negative answer cancels the deletion.
GCRecheck ==
    /\ gc.pc = "recheck"
    /\ IF CanDeleteCasBlob(GCKey) THEN GCGoto("remove")
       ELSE IF gc.moved THEN GCGoto("restore") ELSE GCNextKey
    /\ UNCHANGED <<metaVars, files, stranded, pending>>

GCRestore ==
    /\ gc.pc = "restore"
    /\ files' = files \cup {GCKey}
    /\ GCNextKey
    /\ UNCHANGED <<metaVars, stranded, pending>>

\* Unlinks the quarantined copy, if there is one, never the final path.
GCRemove ==
    /\ gc.pc = "remove"
    /\ gc' = [gc EXCEPT !.pc = "callback", !.moved = FALSE]
    /\ UNCHANGED <<metaVars, files, stranded, pending>>

\* The server's delete callback asks a third time before it deletes the row.
GCCallback ==
    /\ gc.pc = "callback"
    /\ IF CanDeleteCasBlob(GCKey) THEN GCGoto("deleteRow") ELSE GCNextKey
    /\ UNCHANGED <<metaVars, files, stranded, pending>>

\* DeleteCasBlob; when the foreign keys refuse, the failure is only logged.
GCDeleteRow ==
    /\ gc.pc = "deleteRow"
    /\ \/ DeleteCasBlob(GCKey)
       \/ /\ ObjectRefs(GCKey) # {} \/ PartRefs(GCKey) # {}
          /\ UNCHANGED metaVars
    /\ GCNextKey
    /\ UNCHANGED <<files, stranded, pending>>

(***************************************************************************)
(* Failures.  The collector skips the key: nothing puts it back in the     *)
(* queue.                                                                  *)
(***************************************************************************)

\* A call on the tables fails.  All of them wait for row locks: the SELECT ...
\* FOR UPDATE of CanDeleteCasBlob and the DELETE may be aborted too.
GCDatabaseError ==
    /\ Faults \cap {"db", "abort"} # {}
    /\ \/ /\ gc.pc \in {"check", "callback", "deleteRow"}
          /\ GCNextKey
       \/ /\ gc.pc = "recheck"
          /\ IF gc.moved THEN GCGoto("restore") ELSE GCNextKey
    /\ UNCHANGED <<metaVars, files, stranded, pending>>

\* A file operation fails; a copy in quarantine stays there for good.  When
\* the unlink fails, the callback is told so and leaves the row alone.
GCFileError ==
    /\ "io" \in Faults
    /\ \/ gc.pc = "quarantine"
       \/ gc.pc \in {"restore", "remove"} /\ gc.moved
    /\ stranded' = IF gc.moved THEN stranded \cup {GCKey} ELSE stranded
    /\ GCNextKey
    /\ UNCHANGED <<metaVars, files, pending>>

\* What a crash does to the collector: queue, batch and the name of the
\* quarantined file are gone.
GCCrash ==
    /\ pending' = <<>>
    /\ stranded' = IF gc.moved THEN stranded \cup {GCKey} ELSE stranded
    /\ gc' = GCWaiting
    /\ UNCHANGED files

GCStep ==
    \/ GCIdle
    \/ GCTakeBatch
    \/ GCCheck
    \/ GCProbe
    \/ GCQuarantine
    \/ GCRecheck
    \/ GCRestore
    \/ GCRemove
    \/ GCCallback
    \/ GCDeleteRow
    \/ GCDatabaseError
    \/ GCFileError

\* Besides the counted contents, earlier uploads may have left files behind.
GCInit ==
    /\ files \in SUBSET Content
    /\ blobs \subseteq files
    /\ stranded = {}
    /\ pending = <<>>
    /\ gc = GCWaiting

\* The collector works on a key of its batch unless it waits, and owns a
\* quarantined file only until it has decided about it.
CollectorOK ==
    /\ gc \in [pc : GCPcs, batch : Seq(Content), moved : BOOLEAN]
    /\ (gc.pc = "wait") <=> (gc.batch = <<>>)
    /\ gc.moved => gc.pc \in {"recheck", "restore", "remove"}

GCTypeOK ==
    /\ files \subseteq Content
    /\ stranded \subseteq Content
    /\ pending \in Seq(Content)
    /\ CollectorOK

\* The bytes of c are in the .gc file of the key the collector is at, up to the
\* unlink.
InQuarantine(c) == gc.moved /\ GCKey = c

\* The collector has asked the tables a second time and is about to unlink them.
Condemned(c) == InQuarantine(c) /\ gc.pc = "remove"

=============================================================================
