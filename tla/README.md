# A TLA+ model of the MiniS3 object store

MiniS3 (`src/`) is an S3-like object store: an epoll HTTP server, metadata in
MySQL with a Redis cache in front, contents in a content-addressed store (CAS) of
files named by their SHA256, deduplicated and reference-counted, and a background
garbage collector. This directory models it in TLA+ from the event loops up to
the reference counts. TLC checks the models on small instances; TLAPS proves every
safety property that holds, for all instances.

`PROJECT.json` lists components, runs, mutants, the map from definitions to
source lines, findings, hazards and theorems. Source paths below are relative to
`src/`.

## 1. Inventory

| Component | State | Operations | Talks to |
|---|---|---|---|
| MetaStore (`src/db/meta_store.cpp`, `scripts/mysql_init.sql`) | tables `cas_blobs`, `objects`, `multipart_uploads`, `multipart_parts`, `buckets`, `idempotency_records`; process-wide `bucket_cache_` | transactions `PutObjectWithRefCount`, `DeleteObjectWithRefCount`, `PutPartWithRefCount`, `CanDeleteCasBlob`; single statements for the rest | MySQL at READ COMMITTED through `MySQLPool`, Redis |
| RedisCache (`src/util/redis_cache.cpp`) | one connection, under a mutex | `Get`, `SetEx`, `Del` | Redis |
| DataStore (`src/storage/data_store.cpp`) | CAS files, temporary files, write sessions | `BeginWrite`/`Write`/`Finish`/`Abort`, `CommitWrite`, `Merge`, `Delete`, `Read` | file system |
| GarbageCollector (`src/storage/gc.cpp`, callback in `src/server/server.cpp`) | `pending_deletes_` (memory only), its batch | `AddPendingDelete`, `GCLoop`/`ProcessBatch` on a thread of its own | MetaStore, files |
| Bucket, object and multipart handlers (`src/api/handlers`) | none of their own | create, get, list, delete; PUT, GET, HEAD, DELETE, LIST; init, part, complete, abort | MetaStore, DataStore, collector |
| MySQLPool (`src/db/mysql_pool.cpp`) | idle connections, `active_count_`, `closed_` | acquire (blocking or timed), return, close | every MetaStore call |
| EventLoop, Channel, Notifier (`src/net/epoll`) | pending functors, `quit_`, eventfd, channels | loop, queue, wakeup, quit | one per I/O thread, called across threads |
| TimerWheel (`src/net/epoll/timer_wheel.cpp`) | ring of buckets, `timer_map_` | add, refresh, cancel, tick | one per loop |
| HttpConnection, parser, buffers, `uploads_` (`src/net/http`, `src/server/server.cpp`) | connection state, buffers, one upload context per fd | read, stream a body, respond, sendfile, close | EventLoop, DataStore, router |
| Server, Acceptor (`src/server/server.cpp`, `src/net/epoll/acceptor.cpp`) | `connections_`, `io_loops_` | start, accept, assign, stop | everything |
| Router, middleware, presigned URLs, service layer, metrics, logging, config | none that matters here | | |

What is hard: requests run on several I/O threads and interleave with each other
and with the collector at every SQL statement, cache access and file operation; a
body is stored *before* its request is routed; a file and its row are changed by
separate steps; MySQL at READ COMMITTED locks only rows it finds; completing or
aborting a multipart upload is a sequence of statements with no transaction around
it; the collector's queue lives in memory; transactions are retried, clients
retry; replies of MySQL and Redis get lost or come late; threads hand work to each
other through a vector, a mutex and an eventfd; sockets deliver any split of the
bytes, errors and resets, and their numbers are used again.

What makes it correct:

1. the bytes of a committed object or part are on disk;
2. `ref_count` is never lower than the number of rows that refer to a content
   (too low: a live content is handed to the collector), and ideally equal to it;
3. a content nobody refers to is eventually reclaimed, row and file;
4. a transaction acts as one step, whatever its lock waits, and every request is
   answered;
5. the caches never answer with what was not committed, and disagree with the
   tables only after races and failures the design accepts;
6. a functor handed to a loop runs, once and in order; Stop ends;
7. no connection to the database is duplicated, leaked or left idle beside a
   waiting thread;
8. a request is handled in order, with its own body and no other's upload, and
   answered in its place; an idle client does not keep its connection;
9. a timer fires when it was last set to, once, and not after it was cancelled.

All the hazards found while reading are in `PROJECT.json`, with the properties
that cover them, or a note that says why none does.

## 2. Modules

```
MetaStore            tables, one-step transactions
  |-- GarbageCollector      files, queue, collector thread
  |     '-- ObjectStore            PUT, DELETE, failures, crash
  |           |-- ObjectStoreProofs
  |           '-- Multipart              parts, complete, abort
  |                 '-- MultipartProofs  (also uses ObjectStoreProofs)
  '-- ObjectTxn             the same transactions statement by statement
        '-- ObjectTxnProofs (ObjectTxn INSTANCEs ObjectStore: refinement)

RedisCache           one shared connection      RangeHeader   ParseRange
  '-- Metadata       buckets, objects, caches, idempotency, listing, ranges
        '-- MetadataProofs

MySQLPool            connection pool            EventLoop     loops, eventfd
  '-- MySQLPoolProofs                             '-- Server         threads, Stop
                                                        '-- ServerProofs
HttpConnection       socket to handler                  (Server INSTANCEs Executor)
  '-- HttpConnectionProofs
                                                TimerWheel    (INSTANCEs Timers)
                                                  '-- TimerWheelProofs
```

Every specification has an `MC` module that instantiates it for TLC.

**MetaStore.** `blobs`/`refCount` are `cas_blobs`; `objKey`/`objCas` the rows of
`objects`, indexed by the entries (`Slots`) of the unique index on the first 255
characters of the key; `partCas` is `multipart_parts`. `InsertObject` is the fast
path of `PutObjectWithRefCount`, `OverwriteObject` its slow path when the row is
found (and stays locked), `UpsertObject` the rest of the slow path when it is not
found: nothing is locked then, so it is a step of its own that may hit a row
inserted meanwhile. Sizes, etags, content types and timestamps are left out.

**GarbageCollector.** `files` are the contents at their final path; the collector's
position (`gc`) includes whether it holds the current file in quarantine
(`<path>.gc.<uuid>`); `stranded` are quarantined files nobody knows of any more.
One action per call on the tables or the file system in `ProcessBatch` and in the
server's delete callback, in the code's order: check, probe, rename, check again,
restore or unlink, third check, delete the row. `Faults` selects which failures an
instance allows: InnoDB aborts (of requests and of the collector's own statements,
which wait for row locks too), database errors, file errors, crashes, and clients
that name a content in `X-Internal-CAS-Key` instead of sending a body (`"header"`).
A quarantined file counts as on disk until it is unlinked (`InQuarantine`); between
the second check and the unlink it is `Condemned`.

**ObjectStore.** A request is served once, from its stored upload to its response.
`CommitWrite`/`CommitRename` are the existence test and the rename of
`DataStore::CommitWrite`; `RejectPut` stands for everything that can refuse a
request after its body was stored. A PUT with `X-Internal-CAS-Key` and no body begins
at the handler, with a content that may never have been stored. A commit whose answer is lost takes effect and
drops the freed content. `blind` is a history variable: the rows whose commit
happened while the file was *not* at its final path. Of the bytes of a content,
`OnDisk` says that they are somewhere, `Kept` that they are somewhere other than in a
condemned file.

**Multipart.** Next to the requests of ObjectStore, multipart requests on the same
tables, files and collector. `CompleteUpload` and `AbortUpload` are modelled
statement by statement: list, merge, store, put the object, and then for every part
`UPDATE`, `SELECT`, queue, and last `DELETE` of the upload with its cascade.
`CleanupUnreferencedCas`, reached when a completion fails, is a read and an unlink.
`Sequential` is an assumption about clients: an upload is finished once, after its
part uploads have ended. `Merge` reads the files of all parts in one step.
`Concat` maps a list of contents to the content of their concatenation; one part is
its own concatenation. `ListParts` puts the parts in the order of their numbers
(`Rank`), as `ORDER BY part_number` does.

**ObjectTxn.** `PutObjectWithRefCount`, `DeleteObjectWithRefCount` and
`CanDeleteCasBlob` with InnoDB's exclusive row locks (external, modelled from how
the code relies on them): a statement waits for the locks it needs, locks are kept
until commit or rollback, a row that is not found is not locked, uncommitted
writes are invisible. A waiting transaction may be aborted; PUT starts over up to
`MaxAttempts` times, DELETE fails.

**EventLoop, Server, Executor.** `EventLoop` has the loop's thread, point by point
(`check`, `wait`, `woken`, `dispatch`, `run`, ...), with `pending` (the vector under
the mutex), `running` (what `DoPendingFunctors` swapped out), `efd` (the eventfd's
counter) and `quit`; and the halves other threads execute: the push or the flag, and
`Wakeup` as a later step (`owed`). `Server` adds the main thread: `Start` waits for
the loops, `OnNewConnection` assigns them in turn, `Stop` holds `connections_mutex_`
while it queues a `ForceClose` per connection, then quits and joins the loops. A
loop may be destroyed between `quit_ = true` and the `Wakeup` of `Quit`: then the
process is `"crashed"`. A connection is only its life cycle here. `Executor` is what
callers rely on: one first-in-first-out queue per loop.

**TimerWheel, Timers.** An entry is an object on the heap: `entry` has what is at each
address, `wheel` the addresses in each bucket (its shared pointers, the marked entries
included; an entry is freed when it leaves its bucket), `timerMap` the address of each
id's live entry (the weak pointers). `Timers` is the promise:
a countdown per timer. `elapsed` counts expirations of the timerfd since a timer was
set; several that were missed are read as one.

**MySQLPool.** Connections are counted (`idle`, `active`); a thread is out, waiting on
`cv_`, woken or holding a connection. `notify_one` picks any waiter; wakeups may be
spurious; a connection may be dropped when it is handed out or comes back.

**HttpConnection.** Bytes are tokens that name their request; a client sends them in
any pieces, pipelined, closes or resets. A request is a line, the empty line and units
of body; in front of the line are `cut` pieces when it is longer than the parser
accepts without its CRLF, and a `top` (request line and good headers) when the line is
a header the parser may reject. Left out: a body that could itself be read as a request
line, and a header with a colon that is also a request line. `st`, `parser`, `input`, `output`, `file` are
the connection's members; `events`/`added` the channel's; `upload` is `uploads_[fd]`.
The callbacks of one epoll event are separate steps in the channel's order. `Dispatch`
is the router with a response chosen freely. After a close the fd may go to a new
connection (`gen`). A line the parser rejects stays in
the buffer, and after the 400 and the `Reset` it is read again: a request line that was
too long is accepted once its CRLF is there, a rejected header is taken for a request
line. `Repeats` names the requests that may be answered more than once for that reason,
`Sticks` those the parser never gets past: a bad request line or header, a chunked
body, and a rejected length in front of a body.

**RedisCache, Metadata.** A call of the cache is one step, because the mutex is held
from the connect to the reply; it may fail at the connect, without a reply, or (the
PING of `Connect`) leave a late reply on an open connection, after which replies
answer the command before theirs (`unread`). A command of a failed call may still
arrive (`delayed`). `Metadata` runs bucket and object requests on several threads with
one step per SQL statement and per cache access. The caches go by the exact spelling
of names and keys; the tables compare them under a case-insensitive collation, and the
unique index of `objects` has only the first 255 characters of a key. `Fold` gives the
class of a bucket's name, `Weight` that of a key (and its place in `ORDER BY`),
`IndexEntry` its entry in the index. So `GetBucket` may find the row of another spelling
and stores it under the row's name, `DeleteBucket` erases the name it was asked for, and
`ON DUPLICATE KEY UPDATE` gives a PUT's content to the row of another key whose Redis
entry stays as it is (`Missed`). It is assumed that keys the collation takes for equal
share their index entry; an expansion such as ß = ss across character 255 is left out.
Idempotency keys are compared by the database only: `IdemKeys` are the collation's
classes. The history variables say after which events a disagreement is excused: `torn`
(objects with a race of two requests, a failed call or COMMIT, or a change of their row
by another spelling or another key with the same index entry), `raced` (bucket names
with a race, a lost reply, or a DELETE by another spelling), `shaky`
(idempotency keys used concurrently, or whose record was not written or expired).
A listing looks its bucket up again for every page, so that `ListingIsComplete` has to
except `raced` names: a stale id in `bucket_cache_` makes a later page that of a bucket
that is no more.

**RangeHeader.** `ParseRange` as an operator on the header's two numbers, and what the
header asks for as a set of positions.

## 3. Runs

Passing runs (deadlock is checked in all of them; the collector's idle loop and
`AllAnswered` keep a finished system going):

| Run | Shows | Bounds |
|---|---|---|
| `ObjectStore_faults` | `CountsCoverReferences`: counts are never too low; `CommittedContentSurvives`: the quarantine protocol never loses bytes that were in place at commit; all failures, crashes and `X-Internal-CAS-Key` on | 2 keys, 2 contents, 1 part, 3 requests, batch of 2, 2 attempts |
| `ObjectStore_liveness` | `ZeroCountIsQueued`: dropping keys without requeueing forgets nothing as long as nothing fails or is aborted; `ZeroCountIsReclaimed` under fairness | 3 requests, no failures, no symmetry |
| `ObjectTxn` | `ImplementsObjectStore`: locked statements refine the one-step transactions; `CheckIsAtomic`; `EveryRequestAnswered` in spite of opposite lock orders | 1 key, 2 contents, 3 transactions and a checker, 2 attempts |
| `Multipart_faults` | `ReferencedBytesLeaveTwoWays`: with every failure on, the bytes of a referenced content leave the disk only through `CleanupUnreferencedCas`, or through the collector's unlink of a copy it had condemned before the reference was committed; the copy a row refers to is never condemned | 1 key, 2 contents, 1 upload of 1 part, 2 multipart requests, 1 object request |
| `Multipart_counts` | `CountsCoverLiveReferences` for sequential clients, merges of two parts | uploads of 2 parts, 2 attempts |
| `Server` | `NoLostWakeup`; `ClosedStaysClosed`: a close is never undone by a `Start` behind it; `ImplementsExecutor`; `QueuedFunctorTakesEffect` without any timer or socket; `StopEnds` unless a `Quit` was lost | 2 loops, 2 connections |
| `TimerWheel` | `ImplementsTimers`: slots, marked entries and wrap-around amount to countdowns; `NotEarly` | 3 slots, 2 timers, delays to 3, 4 addresses (symmetric) |
| `MySQLPool` | `PoolConserves`; `NoSleeperBesideIdle`; `EveryCallReturns` unless every connection has been dropped | 4 threads (1 with timeout), 2 connections, 2 calls each |
| `HttpConnection` | `UploadContextIsOwn`; `HandledInOrderWithBody`; `ResponsesPaired`; `HeldConnectionIsTimed`; `FirstRequestAnswered` without the idle timer | 13 kinds of request (long lines in up to 3 pieces), 2 pipelined per connection, 2 connections on one fd, all faults |
| `Metadata` | `ServedWasCommitted`; `StaleEntryOnlyByRace`; `StaleBucketOnlyByRace`; `ExecutedOnce`; `ListingIsComplete`; `RangesAreWhatWasAsked` | 2 threads, 3 requests, 2 spellings of the bucket's name, 2 spellings of a key, a longer key with the same index entry and a key of its own, 2 contents (one with an Idempotency-Key), pages of 1, 1 fault |

The bounds are the smallest where the cases happen: two contents so that an
overwrite moves a reference, two keys so that one content has two references,
three requests so that one can replace, one delete and one put again around the
collector; a batch of two so that the queue, the batch and a handler can hold the
same key at once; two attempts so that a retry follows an abort. Two loops, so that
one can be joined while the other runs; two connections, so that one is being
started while the other closes. A wheel of three slots and delays to three, so that a
timer is set for the bucket being left and refreshed across the end of the ring.
Twice as many threads as connections, so that waiters and newcomers compete. Uploads
of two units and two requests, so that a body ends in the middle of a read; a second
connection, so that the fd is used again. Three requests of Metadata: one to fill a
cache, one to change the table, one to be answered; one fault, which is what it takes
to leave each trace. Four keys: two that one
row answers for, a third that only collides with it in the index, and a fourth for the
second page of a listing. Not every request is made by every spelling (`Mix`), and what
is stored at the start is bounded too (`Old`): `Requested` and `Start` in `MCMetadata`
say which. The bucket's row is `foo` or `Foo`, and buckets are created and deleted by
`Foo`, so that DELETE meets its own spelling and the other; the object's row is `a` and its
entry at first that of `A`; the idempotent content goes to two paths.

Runs that exhibit a disagreement between the code and what it says of itself
(`findings` in `PROJECT.json` quotes the lines):

| Run | What TLC finds |
|---|---|
| `ObjectStore_lost` | A PUT finds the file (dedup) and drops its upload; the collector, past its first check, quarantines the file and checks again; the PUT commits, just before or after the unlink. The object has no bytes. |
| `HttpConnection_upload` | The write of an upload's last piece fails: the client is answered 500 and the connection is to be closed, but the request is handled and the shortened upload stored. |

Disagreements without a run of their own:

* `SELECT ... FOR UPDATE` finds no row, another PUT inserts one, the upsert overwrites
  it without counting its content down: the count stays one too high for good.
* A stored upload whose request is refused, or is answered from an idempotency
  record, leaves a file that nothing reclaims.
* Keys that share their first 255 characters, and spellings of one key, share an index
  entry: a PUT of one overwrites the other's row, and Redis goes on answering for the
  other with its old row until the TTL.
* `DELETE` of a bucket by another spelling of its name leaves the entry of the row's own
  name in `bucket_cache_`, which has no expiry.
* A request line over the limit is answered with 400 while its CRLF is missing and
  handled when it comes: two responses, and the client takes the second for that of its
  next request.
* A PUT without body and with `X-Internal-CAS-Key` creates an object of a content that
  need not exist.
* An error or a lock wait timeout of the collector's own check drops the key: the content
  keeps its count 0 and is forgotten.
* Two overlapping finishers of a multipart upload count its parts down twice
  (`CountsCoverLiveReferences` fails with `Sequential = FALSE`); a PUT that commits
  between the read and the unlink of `CleanupUnreferencedCas` loses its file; a part is
  queued before its row is deleted, so the collector drops its key.
* `docs/ops.md:199` says the collector scans `cas_blobs` for counts of 0, but its queue
  is in memory only: what is queued at a crash stays for ever. That is why
  `ZeroCountIsReclaimed` is checked, and `NothingForgotten` proved, without crashes.
* `Loop()` resets `quit_`: a `Quit` before it is lost and `Stop` joins for ever.
  `StopEnds` therefore assumes that the loops have been entered.
* `next_continuation_token` is the first key of the next page; given back as
  `start-after` it skips that key. `ListingIsComplete` is about clients that give back
  the last key they were sent.
* A pipelined request that is already in the input buffer when a response ends is
  parsed only when more bytes come, so only the first request of a connection is
  promised an answer.

### Fairness

* `ObjectStore!FairSpec`: weak fairness of the collector thread (`GCLoop` runs until the
  server stops) and of each request that has begun (an I/O thread runs a handler to
  its end); clients need not send anything.
* `ObjectTxn!FairSpec`: weak fairness of "next statement or abort" for each transaction:
  InnoDB ends every lock wait, by granting the lock or through deadlock detection and
  `innodb_lock_wait_timeout`. Nothing is assumed of the collector there.
* `Server!FairSpec`: threads are scheduled. A loop leaves `epoll_wait` only because of
  the eventfd: the one-second tick would hide a lost wakeup, so it is not counted on.
* `MySQLPool!FairSpec`: woken threads run, borrowed connections come back, `Close`
  goes on. No timeout and no spurious wakeup is counted on.
* `HttpConnection!FairSpec`: the loop runs and no timer need be due; a socket the loop
  wants to write to becomes writable, that is, clients read what they are sent or reset.
  They need not send anything.

## 4. Theorems

`ObjectStoreProofs` proves, for any sets of keys, contents, requests and parts (finite
index and parts), any batch size, number of attempts and set of faults:

* `TypeCorrect` — `Spec => []TypeOK`. Besides types this carries that each row has
  all its columns and sits at the index entry of its key, and that the collector
  owns a quarantined file only at certain points.
* `CountsNeverTooLow` — `Spec => []CountsCoverReferences`. Inductive relative to the
  type invariant. The lemmas say how the cardinality of the references to a content
  changes when one row is inserted, redirected or removed.
* `QuarantineIsSafe` — `Spec => []CommittedContentSurvives`. The content of a row
  whose commit saw the file stays on disk, outside of any condemned file, because the collector goes on to the
  unlink only from a re-check that found no reference *while the file is in
  quarantine*; every later reference is a commit with the file not in place.
* `NothingForgotten` — with `Faults \subseteq {"header"}` (nothing fails, nothing is
  aborted: one aborted check of the collector forgets a content),
  `Spec => []ZeroCountIsQueued`. Needs a stronger invariant (`QueueInv`): the key the
  collector is working on may be taken off its list although its count is 0 only at
  the points where it will be deleted, and when a check is negative the one who
  changed the count has queued it (`CancelledIsQueued`); a file the collector has seen
  is still there when it renames it (`ProbedIsThere`).

`ServerProofs`, for any sets of loops and connections:

* `ServerTypes` — `Spec => []ServerTypeOK`, together with: `io_loops_` is not empty once
  the server accepts (`TInv`).
* `NoWakeupIsLost` — `Spec => []NoLostWakeup`. `NoLostWakeup` speaks of a loop in
  `epoll_wait`; `WakeInv` says the same of functors at every point that leads there
  without another look at the queue, from the swap in `DoPendingFunctors` round the
  `while`. It holds because `QueueInLoop` wakes the loop when it is called from
  another thread or from a functor, and because the eventfd is read before the swap.
* `LoopsImplementExecutor` — `Spec => ImplementsExecutor`, with `running \o pending` as
  the abstract queue. `ExecInv`: the swapped-out vector is empty outside of
  `DoPendingFunctors`, and no loop ends before `Stop` comes to its `Quit`s.
* `ClosedConnectionsStayClosed` — `Spec => ClosedStaysClosed`. `OrderInv`: in the functors
  handed to a loop nothing of a connection comes before its start, and a connection
  whose start still waits is new.

`MySQLPoolProofs`, for any finite set of threads and any pool size:

* `PoolTypes`, `ConnectionsConserved`, `NobodySleepsBesideIdle` — from one inductive
  invariant, `PInv`: types, `PoolConserves`, and `EnoughWoken`: as long as anybody
  waits, there are at least as many woken threads as idle connections. That is why
  one `notify_one` per returned connection suffices although newcomers, timeouts and
  broken connections get in between.

`ObjectTxnProofs`, for any requests, contents, keys and number of attempts, from one
inductive invariant `Inv`:

* `TransactionTypes` — `Spec => []TypeOK`.
* `CheckOfCollectorIsAtomic` — `Spec => CheckIsAtomic`. `CheckInv`: between its
  statements the checker holds the blob's row, so its count stays 0, and a content
  gets a new reference only from the holder of its row (`SparesRows`).
* `RowLocksMakeTransactionsAtomic` — `Spec => ImplementsObjectStore`. `TxnInv` says what
  a transaction may rely on at each statement: the rows it has written are locked by
  it, and what it remembers of them is still true when it commits; the step that
  commits is then the one-step transaction, and every other step stutters. What is
  *not* locked (a row the `SELECT` did not find) is exactly where ObjectStore has two
  steps.

`MultipartProofs` (on top of the lemmas of `ObjectStoreProofs`), for any uploads, number
of parts and requests:

* `MultipartTypes` — `MultipartSpec => []MultipartTypeOK`, from `MpInv`, which adds what a
  request holds at each of its steps.
* `BytesLeaveTwoWays` — `MultipartSpec => ReferencedBytesLeaveTwoWays`, with every fault: a
  second check that finds a reference does not condemn, and a commit after it is the one
  window in which the collector unlinks referenced bytes.
* `CompletionsKeepCounts` — `[]CountsCoverLiveReferences` if `Sequential` and if neither
  the database fails nor the server crashes; without either hypothesis TLC finds a
  counterexample. `CountInv`: the finisher of an upload is alone with it; the list it
  works on is what the table has; and `refCount` covers the objects, the live parts
  and the references a finisher still has to give back (`Owed`). The last set is what
  makes it inductive: a release lowers the count of a content that other rows share.

`HttpConnectionProofs`, for any set of kinds of request, number of requests and
connections on one fd:

* `ConnectionTypes` — `TInv`; also at most two `ForceClose`s are ever queued.
* `HeldConnectionsAreTimed`, `UploadContextsAreOwn` — `LifeInv`: a connection that reads
  has nothing to write; an upload context belongs to the request being read, or the
  connection is `Doomed` (no callback is left in this iteration and a close is queued).
* `RequestsAreHandledInOrder`, `ResponsesArePaired` — `FlowInv`: at every moment the bytes
  not yet parsed (input buffer, socket, client) are the rest of the request being
  read followed by whole requests, the parser and the upload context have exactly
  the missing part of its body, and the answers given and under way are in order,
  with more than one only for a request whose rejected line is read again. It holds up to the moment the connection is doomed.

`MetadataProofs`, for any threads, names, contents, any finite set of keys and any page
size:

* `RangeCorrect` — for every size and header, `ParseRange` returns exactly the positions
  asked for, and none only when none are asked for; `RangesAreCorrect` is the property
  of the run.
* `MetadataTypes` — `TInv`: the foreign key and the unique indexes, what a request has at each step, and that at most the reply of
  one PING is left unread on the Redis connection.
* `ServedRowsWereCommitted` — `ServedInv`: whatever can still be served or stored (table,
  Redis, a delayed command, a thread's row) is a committed row of its own object, as the tables compare keys. A
  reply that answers the command before is a status, never another object's row.
* `EntriesAreCurrent`, `CachedBucketsAreCurrent` — `EntryInv`, `BucketInv`: without a
  race or a change by another spelling a thread about to write a cache holds the current
  row, and a cache is current or
  its writer is under way. `PutsAreExecutedOnce` — `IdemInv`, the same of records.
* `ListingsAreComplete` — `OwnerInv` (an id is never that of another bucket) and
  `ListInv`: what has been sent is increasing, up to `after`, and holds every key up to
  it that was there at the start and has not been removed.

`TimerWheelProofs`, for any size of the wheel, delays up to it, timers and entries, from
one invariant `WheelInv`:

* `WheelTypes` — a weak pointer found in `timer_map_` can always be locked.
* `TimersAreNotEarly` — `Timely`: the ticks a timer has advanced are at most the
  expirations since it was set, plus one, less one that has not been read yet.
* `WheelImplementsTimers` — an entry is in one bucket (`OneSlot`) and an unmarked entry is
  the one its id leads to (`Owned`), so a tick calls a timer back at most once. The
  arithmetic is in three lemmas: `TicksIs`, `Ahead` (the bucket d ahead is reached after
  d ticks, also for a whole turn) and `Nearer` (a tick brings every other slot one
  nearer).

The assumptions are the named `ASSUME`s of the modules: finiteness where sets are
counted, `None` and `Off` are no values of the program, positive sizes, delays no
longer than the wheel, and that merges of parts are contents. Every run evaluates
them. `CompletionsKeepCounts` and `NothingForgotten` have the hypotheses they state.

Only model-checked: the liveness properties `ZeroCountIsReclaimed`,
`EveryRequestAnswered`, `QueuedFunctorTakesEffect`, `StopEnds`, `EveryCallReturns` and
`FirstRequestAnswered` (the prover has neither fairness nor `ENABLED`). The two
properties that the code violates are refuted by TLC.

## 5. Plan

Every safety property of the passing runs has its theorem. Left: a START TRANSACTION
that fails, in ObjectTxn; readers (GET) against the collector; the safety half of the
liveness arguments (for instance, that a transaction that waits has somebody to wait
for).

### Not modelled

Routing, authentication, presigned URLs, metrics, logging and configuration (stateless
or irrelevant to the properties); the service layer, which the server does not use;
functions of MetaStore nobody calls (versions, `CleanupIdempotencyRecords`); SHA256 and
UUIDs, taken as injective; the text of HTTP, JSON and RESP; fsync and the loss of
unsynced pages. Two data races are outside the models: `SetIdleTimeout` called on the
main thread touches the wheel of an I/O thread, and the signal handler runs `Stop` on
the thread it interrupts; the models have one thread per wheel, and `Stop` between two
connections. `MYSQL_OPT_RECONNECT` may give a connection another session without READ
COMMITTED; the models assume READ COMMITTED.
