------------------------------ MODULE Metadata ------------------------------
(***************************************************************************)
(* Requests on buckets and on the metadata of objects, run concurrently by *)
(* the I/O threads (bucket_handlers.cpp, object_handlers.cpp and           *)
(* meta_store.cpp), down to the single SQL statement and the single call   *)
(* of a cache.  Each step of a request may be followed by steps of others. *)
(*                                                                         *)
(* Two caches stand before the tables: bucket_cache_, a map from a         *)
(* bucket's name to its id that has no expiry, and Redis (RedisCache), in  *)
(* which an object's row lives for ObjectMetaTtlSeconds.  The caches go by *)
(* the exact spelling of a name or key.  The tables do not: they compare   *)
(* under a collation that ignores case, and the unique index of `objects'  *)
(* has the first 255 characters of a key.  So one row may answer for       *)
(* several spellings, each with an entry of its own in a cache.            *)
(*                                                                         *)
(* The PUT and DELETE transactions on `objects' are one step each here;    *)
(* their statements, and the counts in cas_blobs, are the subject of       *)
(* ObjectTxn.                                                              *)
(*                                                                         *)
(* req[t] is the request of thread t.  Its pc names the step it is about   *)
(* to take:                                                                *)
(*   bucket, cacheBucket       GetBucket: look up; store in bucket_cache_  *)
(*   create, created           CreateBucket: INSERT; store                 *)
(*   empty, drop, uncache      DeleteBucket: check; DELETE; erase          *)
(*   listBuckets, cacheAll     ListBuckets: SELECT; store                  *)
(*   lookup, evictBad, select, fill                                        *)
(*                             GetObject: Redis; drop an undecodable       *)
(*                             entry; SELECT; store in Redis               *)
(*   serve                     GetObject, HeadObject: the reply            *)
(*   remove, evict             DeleteObject: transaction; Redis            *)
(*   check, insert, upsert, update, record                                 *)
(*                             PutObject: idempotency record; fast path;   *)
(*                             slow path; Redis; idempotency record        *)
(*   page                      ListObjects                                 *)
(***************************************************************************)
EXTENDS Naturals, Sequences, FiniteSets, RangeHeader, RedisCache

CONSTANTS
    Threads,    \* I/O threads
    Names,      \* bucket names, as they are spelled
    Fold,       \* [Names -> what the collation makes of a name]
    Keys,       \* object keys, as they are spelled
    Weight,     \* [Keys -> the place of a key in the order of the collation]
    IndexEntry, \* [Keys -> the key's entry in uk_bucket_key: its first 255
                \* characters, as the collation takes them]
    Content,    \* cas_keys, all of contents of one size
    IdemKeys,   \* values of the Idempotency-Key header
    IdemKeyOf,  \* the value each content is sent with, or None: clients send
                \* the same content under the same key, to any path
    Mix,        \* the requests that are made: op, name, key and content, of
                \* which a request takes those it has
    MaxKeys,    \* max-keys of a listing
    MaxSize,    \* bound: sizes for which Range headers are examined
    MaxBuckets, \* bound: bucket ids
    Old,        \* bound: the names of buckets, the keys of objects and the keys
                \* of entries in Redis that may be there at the start
    MaxCalls    \* bound: requests

AllOps == {"createBucket", "getBucket", "deleteBucket", "listBuckets",
           "put", "get", "delete", "list"}

Ids == 1..MaxBuckets
NoId == 0

\* An entry in Redis goes by bucket_id and key; so does a row of `objects', by
\* the key it was inserted with.
Objects == Ids \X Keys

\* What SerializeObjectInfo stores: the object and its cas_key.
Rows == [obj : Objects, cas : Content]

ASSUME MetadataAssumption ==
    /\ IsFiniteSet(Keys)
    /\ Weight \in [Keys -> Nat \ {0}]
    /\ \A j, k \in Keys : Weight[j] = Weight[k] => IndexEntry[j] = IndexEntry[k]
    /\ Mix \subseteq AllOps \X Names \X Keys \X Content
    /\ {MaxKeys, MaxBuckets} \subseteq Nat \ {0}
    /\ {MaxSize, MaxCalls, MaxFaults} \subseteq Nat
    /\ IdemKeyOf \in [Content -> IdemKeys \cup {None}]
    /\ None \notin Content \cup IdemKeys \cup Rows \cup (Names \X Keys)
    /\ Garbage \notin Rows
    /\ CacheKeys = Objects
    /\ Payloads = Rows

VARIABLES
    buckets,      \* table buckets: [Names -> id, or NoId where there is no row]
    nextId,       \* its AUTO_INCREMENT
    objects,      \* table objects: [Objects -> cas_key, or None]
    idem,         \* table idempotency_records: [IdemKeys -> request_hash, or None]
    bucketCache,  \* bucket_cache_: [Names -> id, or NoId]
    req,          \* [Threads -> the request it serves or has served]
    calls,        \* requests made

    committed,    \* history: what was ever in `objects', and what PUTs stored
                  \* under the keys they were made with
    removed,      \* history: objects whose row was deleted during a listing
    executed,     \* history: [IdemKeys -> PUTs executed under it]
    torn,         \* history: objects with a race, a failed call of Redis or a
                  \* change by another spelling since their entry last expired
    raced,        \* history: names of buckets created or deleted in a race, or
                  \* deleted by another spelling
    shaky         \* history: idempotency keys that were used concurrently,
                  \* or whose record was not written or has expired

tableVars == <<buckets, nextId, objects, idem>>
history == <<committed, removed, executed, torn, raced, shaky>>
vars == <<tableVars, bucketCache, redisVars, req, calls, history>>

Pcs == {"idle", "bucket", "cacheBucket", "create", "created", "empty", "drop",
        "uncache", "listBuckets", "cacheAll", "lookup", "evictBad", "select",
        "fill", "serve", "remove", "evict", "check", "insert", "upsert",
        "update", "record", "page", "listed"}

Requests == [op : AllOps \cup {None}, name : Names \cup {None},
             key : Keys \cup {None}, cas : Content \cup {None},
             ikey : IdemKeys \cup {None},
             pc : Pcs,
             bid : Ids \cup {NoId},        \* bucket_id
             row : Rows \cup {None},       \* the row that was found
             found : [Names -> Ids \cup {NoId}],  \* the rows of `buckets' read
             after : Nat,                  \* start-after: its place in the order
             seen : Seq(Keys),             \* keys the client has been given
             start : SUBSET Objects]       \* history: objects at first page

NoBuckets == [n \in Names |-> NoId]

Idle == [op |-> None, name |-> None, key |-> None, cas |-> None, ikey |-> None,
         pc |-> "idle", bid |-> NoId, row |-> None, found |-> NoBuckets,
         after |-> 0, seen |-> << >>, start |-> {}]

\* The rows that WHERE name = n, and WHERE object_key = k in the bucket of o,
\* can find, and those that the unique index takes for duplicates of o.
Spellings(n) == {m \in Names : Fold[m] = Fold[n]}
BucketRows(n) == {m \in Spellings(n) : buckets[m] # NoId}
Equal(o) == {p \in Objects : p[1] = o[1] /\ Weight[p[2]] = Weight[o[2]]}
ObjectRows(o) == {p \in Equal(o) : objects[p] # None}
Conflicts(o) ==
    {p \in Objects : objects[p] # None /\ p[1] = o[1] /\ IndexEntry[p[2]] = IndexEntry[o[2]]}

\* The unique indexes of the two tables.
UniqueRows ==
    /\ \A n \in Names : \A l, m \in BucketRows(n) : l = m
    /\ \A o \in Objects : \A p, q \in Conflicts(o) : p = q

MetadataTypeOK ==
    /\ buckets \in [Names -> Ids \cup {NoId}]
    /\ nextId \in Nat
    /\ objects \in [Objects -> Content \cup {None}]
    /\ idem \in [IdemKeys -> (Names \X Keys) \cup {None}]
    /\ bucketCache \in [Names -> Ids \cup {NoId}]
    /\ RedisTypeOK
    /\ req \in [Threads -> Requests]
    /\ \A t \in Threads :
          req[t].pc \in {"lookup", "fill", "update", "evict", "page"} =>
             req[t].bid # NoId
    \* The foreign key of `objects': rows belong to buckets that exist.
    /\ \A o \in Objects :
          objects[o] # None => \E n \in Names : buckets[n] = o[1]
    /\ UniqueRows

\* A server that has no request under way, has not looked the bucket up yet and
\* has closed its connection to Redis.  The objects that exist were put without
\* an idempotency key; the entries in Redis are those of the rows, or cannot be
\* decoded.
Init ==
    /\ buckets \in [Names -> {NoId, 1}]
    /\ \A m, n \in Names : m # n => buckets[m] = NoId \/ buckets[m] # buckets[n]
    /\ \A n \in Names : buckets[n] # NoId => n \in Old.names
    /\ nextId = 2
    /\ objects \in [Objects -> {c \in Content : IdemKeyOf[c] = None} \cup {None}]
    /\ \A o \in Objects :
          objects[o] # None => o[2] \in Old.keys /\ \E n \in Names : buckets[n] = o[1]
    /\ UniqueRows
    /\ idem = [i \in IdemKeys |-> None]
    /\ bucketCache = NoBuckets
    /\ committed = {r \in Rows : objects[r.obj] = r.cas}
    /\ entries \in [Objects -> committed \cup {Garbage, None}]
    /\ \A o \in Objects :
          entries[o] # None =>
             /\ o[2] \in Old.entries
             /\ ObjectRows(o) # {}
             /\ entries[o] # Garbage => entries[o].obj \in Equal(o)
    /\ connected = FALSE
    /\ unread = << >>
    /\ delayed = None
    /\ faults = 0
    /\ req = [t \in Threads |-> Idle]
    /\ calls = 0
    /\ removed = {}
    /\ executed = [i \in IdemKeys |-> 0]
    /\ torn = {}
    /\ raced = {}
    /\ shaky = {}

----------------------------------------------------------------------------
\* At "idle" the request has been answered.
Goto(t, p) ==
    req' = [req EXCEPT ![t] = IF p = "idle" THEN Idle ELSE [@ EXCEPT !.pc = p]]
End(t) == Goto(t, "idle")

Others(t) == Threads \ {t}
Object(t) == <<req[t].bid, req[t].key>>
RowOf(t, cas) == [obj |-> Object(t), cas |-> cas]

RemovedWith(gone) ==
    IF \E t \in Threads : req[t].op = "list" THEN removed \cup gone ELSE removed

\* A statement fails and the handler answers 500.
StatementFails(t) ==
    /\ Fault
    /\ End(t)
    /\ UNCHANGED <<tableVars, bucketCache, entries, connected, unread, delayed,
                   calls, history>>

\* The step a request takes when it has its bucket's id.
AfterBucket(r) ==
    CASE r.op = "getBucket" -> "idle"
      [] r.op = "deleteBucket" -> "empty"
      [] r.op \in {"get", "delete"} -> "lookup"
      [] r.op = "put" -> IF r.ikey = None THEN "insert" ELSE "check"
      [] r.op = "list" -> "page"

\* A request arrives.  A GET serves HEAD too.
Begin(t) ==
    /\ req[t].pc = "idle"
    /\ calls < MaxCalls
    /\ calls' = calls + 1
    /\ \E op \in AllOps, n \in Names, k \in Keys, c \in Content :
          LET object == op \in {"put", "get", "delete"}
              ikey == IF op = "put" THEN IdemKeyOf[c] ELSE None
              inUse == {j \in IdemKeys : \E u \in Others(t) : req[u].ikey = j}
          IN  /\ <<op, n, k, c>> \in Mix
              /\ req' = [req EXCEPT ![t] =
                    [Idle EXCEPT
                        !.op = op,
                        !.name = IF op = "listBuckets" THEN None ELSE n,
                        !.key = IF object THEN k ELSE None,
                        !.cas = IF op = "put" THEN c ELSE None,
                        !.ikey = ikey,
                        !.pc = CASE op = "createBucket" -> "create"
                                 [] op = "listBuckets" -> "listBuckets"
                                 [] OTHER -> "bucket"]]
              /\ shaky' = shaky \cup (inUse \cap {ikey})
    /\ UNCHANGED <<tableVars, bucketCache, redisVars, committed, removed,
                   executed, torn, raced>>

----------------------------------------------------------------------------
(***************************************************************************)
(* Buckets.                                                                *)
(***************************************************************************)

StoreBucket(n, id) ==
    /\ bucketCache' = [bucketCache EXCEPT ![n] = id]
    /\ UNCHANGED <<tableVars, redisVars, calls, history>>

\* The rows that were read are stored under the names they have.
StoreFound(t) ==
    /\ bucketCache' = [n \in Names |->
          IF req[t].found[n] = NoId THEN bucketCache[n] ELSE req[t].found[n]]
    /\ UNCHANGED <<tableVars, redisVars, calls, history>>

\* A thread that has read n's row, or changed it, and has yet to bring
\* bucket_cache_ up to date.
BringsBucket(t, n) ==
    \/ req[t].pc \in {"cacheBucket", "cacheAll"} /\ req[t].found[n] # NoId
    \/ req[t].pc \in {"created", "uncache"} /\ req[t].name = n

RaceOnBucket(t, n) == IF \E u \in Others(t) : BringsBucket(u, n) THEN {n} ELSE {}

\* Mutant: a row is stored under the name that was asked for.
BucketReadAsAsked(n, m) == [NoBuckets EXCEPT ![n] = buckets[m]]

\* Row m answers for n, and is known by its own name.
BucketRead(n, m) == [NoBuckets EXCEPT ![m] = buckets[m]]

\* GetBucket: bucket_cache_, then the table; 404 when there is no row.
LookUpBucket(t) ==
    LET r == req[t]
        id == bucketCache[r.name]
        rows == BucketRows(r.name)
    IN  /\ r.pc = "bucket"
        /\ \/ /\ id # NoId
              /\ req' = [req EXCEPT ![t] =
                    IF r.op = "getBucket" THEN Idle
                    ELSE [@ EXCEPT !.bid = id, !.pc = AfterBucket(r)]]
           \/ /\ id = NoId
              /\ \E m \in rows :
                    req' = [req EXCEPT ![t].bid = buckets[m],
                                       ![t].found = BucketRead(r.name, m),
                                       ![t].pc = "cacheBucket"]
           \/ id = NoId /\ rows = {} /\ End(t)
        /\ UNCHANGED <<tableVars, bucketCache, redisVars, calls, history>>

LookUpBucketFails(t) ==
    /\ req[t].pc = "bucket"
    /\ bucketCache[req[t].name] = NoId
    /\ StatementFails(t)

CacheBucket(t) ==
    /\ req[t].pc = "cacheBucket"
    /\ StoreFound(t)
    /\ Goto(t, AfterBucket(req[t]))

\* CreateBucket: 409 when the name is taken.  The reply to the INSERT may be
\* lost: the bucket exists and 500 is answered.
InsertBucket(t) ==
    LET n == req[t].name
    IN  /\ req[t].pc = "create"
        /\ IF BucketRows(n) # {}
           THEN /\ End(t)
                /\ UNCHANGED <<buckets, nextId, faults, raced>>
           ELSE /\ nextId <= MaxBuckets
                /\ buckets' = [buckets EXCEPT ![n] = nextId]
                /\ nextId' = nextId + 1
                /\ raced' = raced \cup RaceOnBucket(t, n)
                /\ \/ /\ req' = [req EXCEPT ![t].pc = "created", ![t].bid = nextId]
                      /\ UNCHANGED faults
                   \/ Fault /\ End(t)
        /\ UNCHANGED <<objects, idem, bucketCache, entries, connected, unread,
                       delayed, calls, committed, removed, executed, torn, shaky>>

InsertBucketFails(t) ==
    /\ req[t].pc = "create"
    /\ StatementFails(t)

CacheCreated(t) ==
    /\ req[t].pc = "created"
    /\ StoreBucket(req[t].name, req[t].bid)
    /\ End(t)

\* DeleteBucket: 409 when IsBucketEmpty finds a row.
CheckEmpty(t) ==
    /\ req[t].pc = "empty"
    /\ IF \E k \in Keys : objects[<<req[t].bid, k>>] # None
       THEN End(t) ELSE Goto(t, "drop")
    /\ UNCHANGED <<tableVars, bucketCache, redisVars, calls, history>>

\* Row m of `buckets' is deleted, with the objects it has by now.  UncacheBucket
\* will erase the name n the request has, and misses m when it is another.
BucketDropped(t, n, m) ==
    LET gone == {o \in Objects : o[1] = buckets[m] /\ objects[o] # None}
    IN  /\ buckets' = [buckets EXCEPT ![m] = NoId]
        /\ objects' = [o \in Objects |-> IF o \in gone THEN None ELSE objects[o]]
        /\ removed' = RemovedWith(gone)
        /\ torn' = torn \cup {o \in Objects : Equal(o) \cap gone # {}}
        /\ \/ /\ Goto(t, "uncache")
              /\ raced' = raced \cup RaceOnBucket(t, m) \cup ({m} \ {n})
              /\ UNCHANGED faults
           \/ /\ Fault
              /\ End(t)
              /\ raced' = raced \cup {m}

\* The row is deleted by its name.  Without a row 500 is answered and
\* bucket_cache_ is left alone, as it is when the reply to the DELETE is lost.
DropBucket(t) ==
    LET n == req[t].name
    IN  /\ req[t].pc = "drop"
        /\ \/ \E m \in BucketRows(n) : BucketDropped(t, n, m)
           \/ /\ BucketRows(n) = {}
              /\ End(t)
              /\ UNCHANGED <<buckets, objects, faults, removed, torn, raced>>
        /\ UNCHANGED <<nextId, idem, bucketCache, entries, connected, unread,
                       delayed, calls, committed, executed, shaky>>

BucketStatementFails(t) ==
    /\ req[t].pc \in {"empty", "drop", "listBuckets"}
    /\ StatementFails(t)

\* The entry that is erased is that of the name the request has.
UncacheBucket(t) ==
    /\ req[t].pc = "uncache"
    /\ StoreBucket(req[t].name, NoId)
    /\ End(t)

ListBuckets(t) ==
    /\ req[t].pc = "listBuckets"
    /\ req' = [req EXCEPT ![t].pc = "cacheAll", ![t].found = buckets]
    /\ UNCHANGED <<tableVars, bucketCache, redisVars, calls, history>>

CacheAll(t) ==
    /\ req[t].pc = "cacheAll"
    /\ StoreFound(t)
    /\ End(t)

----------------------------------------------------------------------------
(***************************************************************************)
(* Objects.                                                                *)
(***************************************************************************)

\* A thread that has read o's row, or changed it, and has yet to bring Redis
\* up to date.
BringsObject(t, o) == Object(t) = o /\ req[t].pc \in {"fill", "update", "evict"}

RaceOnObject(t, o) == IF \E u \in Others(t) : BringsObject(u, o) THEN {o} ELSE {}

AfterObject(r) == IF r.op = "delete" THEN "remove" ELSE "serve"

\* GetObject: a decodable entry is the answer.  Without one, and when Redis
\* fails, the table is read.
LookUpObject(t) ==
    LET o == Object(t)
    IN  /\ req[t].pc = "lookup"
        /\ \/ \E row \in Rows :
                 /\ GetReturns(o, row)
                 /\ req' = [req EXCEPT ![t].pc = AfterObject(req[t]),
                                       ![t].row = row]
           \/ GetReturns(o, Garbage) /\ Goto(t, "evictBad")
           \/ GetReturns(o, None) /\ Goto(t, "select")
           \/ GetFails(o) /\ Goto(t, "select")
        /\ UNCHANGED <<tableVars, bucketCache, calls, history>>

\* A call of Redis whose result MetaStore ignores.
EvictBad(t) ==
    LET o == Object(t)
    IN  /\ req[t].pc = "evictBad"
        /\ \/ DelOk(o) /\ UNCHANGED torn
           \/ DelFails(o) /\ torn' = torn \cup {o}
        /\ Goto(t, "select")
        /\ UNCHANGED <<tableVars, bucketCache, calls, committed, removed,
                       executed, raced, shaky>>

\* The row says how its key is spelled; 404 when there is no row.
SelectObject(t) ==
    LET rows == ObjectRows(Object(t))
    IN  /\ req[t].pc = "select"
        /\ \/ \E p \in rows :
                 req' = [req EXCEPT ![t].pc = "fill",
                                    ![t].row = [obj |-> p, cas |-> objects[p]]]
           \/ rows = {} /\ End(t)
        /\ UNCHANGED <<tableVars, bucketCache, redisVars, calls, history>>

\* SetEx, whose result is ignored, then the step next.
SetAndGoto(t, row, next) ==
    LET o == Object(t)
    IN  /\ \/ SetExOk(o, row) /\ UNCHANGED torn
           \/ SetExFails(o, row) /\ torn' = torn \cup {o}
        /\ Goto(t, next)
        /\ UNCHANGED <<tableVars, bucketCache, calls, committed, removed,
                       executed, raced, shaky>>

FillObject(t) ==
    /\ req[t].pc = "fill"
    /\ SetAndGoto(t, req[t].row, AfterObject(req[t]))

\* GET and HEAD answer from the row.
Serve(t) ==
    /\ req[t].pc = "serve"
    /\ End(t)
    /\ UNCHANGED <<tableVars, bucketCache, redisVars, calls, history>>

ObjectStatementFails(t) ==
    /\ req[t].pc \in {"select", "remove", "check", "insert", "upsert", "page"}
    /\ StatementFails(t)

(***************************************************************************)
(* DELETE.  The transaction finds no row when another request deleted it,  *)
(* or when Redis answered for a row that is gone: 500.  When the reply to  *)
(* the COMMIT is lost the entry stays in Redis, as the entries of other    *)
(* spellings of the key always do.                                         *)
(***************************************************************************)
RemoveObject(t) ==
    LET o == Object(t)
        rows == ObjectRows(o)
    IN  /\ req[t].pc = "remove"
        /\ \/ \E p \in rows :
                 /\ objects' = [objects EXCEPT ![p] = None]
                 /\ removed' = RemovedWith({p})
                 /\ \/ /\ Goto(t, "evict")
                       /\ torn' = torn \cup RaceOnObject(t, o) \cup (Equal(o) \ {o})
                       /\ UNCHANGED faults
                    \/ /\ Fault
                       /\ End(t)
                       /\ torn' = torn \cup Equal(o)
           \/ /\ rows = {}
              /\ End(t)
              /\ UNCHANGED <<objects, faults, removed, torn>>
        /\ UNCHANGED <<buckets, nextId, idem, bucketCache, entries, connected,
                       unread, delayed, calls, committed, executed, raced, shaky>>

\* Mutant: the entry of a deleted object stays in Redis.
EvictObjectKeeps(t) ==
    /\ req[t].pc = "evict"
    /\ End(t)
    /\ UNCHANGED <<tableVars, bucketCache, redisVars, calls, history>>

EvictObject(t) ==
    LET o == Object(t)
    IN  /\ req[t].pc = "evict"
        /\ \/ DelOk(o) /\ UNCHANGED torn
           \/ DelFails(o) /\ torn' = torn \cup {o}
        /\ End(t)
        /\ UNCHANGED <<tableVars, bucketCache, calls, committed, removed,
                       executed, raced, shaky>>

(***************************************************************************)
(* PUT.                                                                    *)
(***************************************************************************)

\* request_hash: method, path, size and X-Content-SHA256; not the content.
RequestHash(r) == <<r.name, r.key>>

AfterPut(r) == IF r.ikey = None THEN "idle" ELSE "record"

\* Mutant: a record is looked at only when its request_hash is the request's.
CheckIdempotencyByHash(t) ==
    /\ req[t].pc = "check"
    /\ IF idem[req[t].ikey] = RequestHash(req[t])
       THEN End(t)
       ELSE Goto(t, "insert")
    /\ UNCHANGED <<tableVars, bucketCache, redisVars, calls, history>>

\* With a record the answer is the recorded response, or 409 when the record
\* is of another request.
CheckIdempotency(t) ==
    /\ req[t].pc = "check"
    /\ IF idem[req[t].ikey] # None
       THEN End(t)
       ELSE Goto(t, "insert")
    /\ UNCHANGED <<tableVars, bucketCache, redisVars, calls, history>>

\* The PUT's transaction commits row p and `next' follows, or the reply to its
\* COMMIT is lost; no entry of `missed' will be brought up to date.
CommitPut(t, p, missed, next) ==
    LET o == Object(t)
        i == req[t].ikey
        cas == req[t].cas
    IN  /\ objects' = [objects EXCEPT ![p] = cas]
        /\ committed' = committed \cup {RowOf(t, cas), [obj |-> p, cas |-> cas]}
        /\ executed' = [j \in IdemKeys |-> executed[j] + (IF j = i THEN 1 ELSE 0)]
        /\ \/ /\ Goto(t, next)
              /\ torn' = torn \cup RaceOnObject(t, o) \cup missed
              /\ UNCHANGED <<faults, shaky>>
           \/ /\ Fault
              /\ End(t)
              /\ torn' = torn \cup {o} \cup missed
              /\ shaky' = shaky \cup ({i} \cap IdemKeys)

\* Mutant: `objects' has no foreign key to `buckets'.
BucketExistsAlways(id) == TRUE

\* The foreign key makes the INSERT fail when the bucket is gone: 500.
BucketExists(id) == \E n \in Names : buckets[n] = id

\* Fast path of PutObjectWithRefCount: a row that is new is not put in Redis.
InsertObject(t) ==
    LET o == Object(t)
    IN  /\ req[t].pc = "insert"
        /\ \/ /\ BucketExists(req[t].bid)
              /\ Conflicts(o) = {}
              /\ CommitPut(t, o, {}, AfterPut(req[t]))
           \/ /\ BucketExists(req[t].bid)
              /\ Conflicts(o) # {}
              /\ Goto(t, "upsert")
              /\ UNCHANGED <<objects, faults, committed, executed, torn, shaky>>
           \/ /\ ~BucketExists(req[t].bid)
              /\ End(t)
              /\ UNCHANGED <<objects, faults, committed, executed, torn, shaky>>
        /\ UNCHANGED <<buckets, nextId, idem, bucketCache, entries, connected,
                       unread, delayed, calls, removed, raced>>

\* Slow path: ON DUPLICATE KEY UPDATE gives the content to the row that is at
\* the key's entry in the unique index by now, whatever its key; without one the
\* row is new.
Upserted(o) == IF Conflicts(o) = {} THEN {o} ELSE Conflicts(o)

\* What Redis may hold of row p and its spellings is not brought up to date by a
\* PUT of o, but for o itself; and that is wrong when p is not what o finds.
Missed(o, p) == IF o \in Equal(p) THEN Equal(p) \ {o} ELSE Equal(p) \cup {o}

UpsertObject(t) ==
    LET o == Object(t)
    IN  /\ req[t].pc = "upsert"
        /\ \/ /\ BucketExists(req[t].bid)
              /\ \E p \in Upserted(o) : CommitPut(t, p, Missed(o, p), "update")
           \/ /\ ~BucketExists(req[t].bid)
              /\ End(t)
              /\ UNCHANGED <<objects, faults, committed, executed, torn, shaky>>
        /\ UNCHANGED <<buckets, nextId, idem, bucketCache, entries, connected,
                       unread, delayed, calls, removed, raced>>

UpdateEntry(t) ==
    /\ req[t].pc = "update"
    /\ SetAndGoto(t, RowOf(t, req[t].cas), AfterPut(req[t]))

\* RecordIdempotency; its result is ignored.
RecordIdempotency(t) ==
    LET i == req[t].ikey
    IN  /\ req[t].pc = "record"
        /\ End(t)
        /\ \/ /\ idem' = [idem EXCEPT ![i] = RequestHash(req[t])]
              /\ UNCHANGED <<faults, shaky>>
           \/ /\ Fault
              /\ shaky' = shaky \cup {i}
              /\ UNCHANGED idem
        /\ UNCHANGED <<buckets, nextId, objects, bucketCache, entries, connected,
                       unread, delayed, calls, committed, removed, executed,
                       torn, raced>>

\* expires_at passes, counted as a fault: CheckIdempotency no longer finds the
\* record.
ExpireRecord(i) ==
    /\ idem[i] # None
    /\ Fault
    /\ idem' = [idem EXCEPT ![i] = None]
    /\ shaky' = shaky \cup {i}
    /\ UNCHANGED <<buckets, nextId, objects, bucketCache, entries, connected,
                   unread, delayed, req, calls, committed, removed, executed,
                   torn, raced>>

----------------------------------------------------------------------------
(***************************************************************************)
(* A client lists a bucket page by page, each page a request of its own    *)
(* with the last key it was given as start-after.                          *)
(***************************************************************************)

KeysAfter(id, after) == {k \in Keys : Weight[k] > after /\ objects[<<id, k>>] # None}

Rank(ks, k) == Cardinality({j \in ks : Weight[j] <= Weight[k]})

\* The first n of the keys in ks, in order.
FirstKeys(ks, n) ==
    [i \in 1..(IF Cardinality(ks) < n THEN Cardinality(ks) ELSE n) |->
        CHOOSE k \in ks : Rank(ks, k) = i]

\* Mutant: LIMIT max_keys, with which no page is ever found to be truncated.
PageWithoutLookahead(ks) == [contents |-> FirstKeys(ks, MaxKeys), truncated |-> FALSE]

\* ORDER BY object_key LIMIT max_keys + 1: the first max_keys, and whether there
\* are more.
Page(ks) == [contents |-> FirstKeys(ks, MaxKeys), truncated |-> Cardinality(ks) > MaxKeys]

ListObjects(t) ==
    LET r == req[t]
        page == Page(KeysAfter(r.bid, r.after))
    IN  /\ r.pc = "page"
        /\ req' = [req EXCEPT
              ![t].seen = @ \o page.contents,
              ![t].start = IF r.after = 0
                           THEN {o \in Objects : o[1] = r.bid /\ objects[o] # None}
                           ELSE @,
              ![t].after = IF page.truncated
                           THEN Weight[page.contents[Len(page.contents)]] ELSE @,
              ![t].pc = IF page.truncated THEN "bucket" ELSE "listed"]
        /\ UNCHANGED <<tableVars, bucketCache, redisVars, calls, history>>

\* The client has every page.
Listed(t) ==
    /\ req[t].pc = "listed"
    /\ End(t)
    /\ UNCHANGED <<tableVars, bucketCache, redisVars, calls, history>>

----------------------------------------------------------------------------
\* The TTL of an entry ends; with nothing under way for o its races are over.
ExpireEntry(o) ==
    /\ Expire(o)
    /\ torn' = IF \/ \E t \in Threads : BringsObject(t, o)
                  \/ delayed # None /\ delayed.key = o
               THEN torn ELSE torn \ {o}
    /\ UNCHANGED <<tableVars, bucketCache, req, calls, committed, removed,
                   executed, raced, shaky>>

DelayedCommand ==
    /\ DelayedArrives
    /\ UNCHANGED <<tableVars, bucketCache, req, calls, history>>

BucketStep(t) ==
    \/ LookUpBucket(t) \/ LookUpBucketFails(t) \/ CacheBucket(t)
    \/ InsertBucket(t) \/ InsertBucketFails(t) \/ CacheCreated(t)
    \/ CheckEmpty(t) \/ DropBucket(t) \/ UncacheBucket(t)
    \/ ListBuckets(t) \/ CacheAll(t) \/ BucketStatementFails(t)

ObjectStep(t) ==
    \/ LookUpObject(t) \/ EvictBad(t) \/ SelectObject(t) \/ FillObject(t)
    \/ Serve(t) \/ RemoveObject(t) \/ EvictObject(t)
    \/ CheckIdempotency(t) \/ InsertObject(t) \/ UpsertObject(t)
    \/ UpdateEntry(t) \/ RecordIdempotency(t)
    \/ ListObjects(t) \/ Listed(t) \/ ObjectStatementFails(t)

\* Every request has been made and answered, or needs one more id than the
\* bound has.
AllAnswered ==
    /\ \A t \in Threads :
          \/ req[t].pc = "idle" /\ calls = MaxCalls
          \/ req[t].pc = "create" /\ nextId > MaxBuckets
    /\ UNCHANGED vars

Next ==
    \/ AllAnswered
    \/ \E t \in Threads : Begin(t) \/ BucketStep(t) \/ ObjectStep(t)
    \/ \E o \in Objects : ExpireEntry(o)
    \/ \E i \in IdemKeys : ExpireRecord(i)
    \/ DelayedCommand

Spec == Init /\ [][Next]_vars

----------------------------------------------------------------------------
(***************************************************************************)
(* Properties.                                                             *)
(***************************************************************************)

\* What GET, HEAD and DELETE act on, and what Redis holds for an object, is a
\* row of that very object, as the tables compare keys, that was once committed:
\* not the entry of another object read from a connection that is one reply
\* behind, not the row of a longer key, not one that was rolled back.
ServedWasCommitted ==
    /\ \A t \in Threads :
          req[t].row # None =>
             req[t].row.obj \in Equal(Object(t)) /\ req[t].row \in committed
    /\ \A o \in Objects :
          entries[o] \in Rows =>
             entries[o].obj \in Equal(o) /\ entries[o] \in committed

\* Redis holds an old row of an object only after a race of two requests on it,
\* a call of Redis or a COMMIT that failed, or a PUT or DELETE of the row by
\* another spelling or by another key with its first 255 characters, and not
\* beyond the TTL of the entry: in particular the fast path of PUT may leave
\* Redis alone, also the entries of other spellings.
StaleEntryOnlyByRace ==
    \A o \in Objects :
       /\ entries[o] \notin {None, Garbage}
       /\ o \notin torn
       /\ \A t \in Threads : ~BringsObject(t, o)
       => \E p \in Equal(o), q \in ObjectRows(o) : entries[o] = [obj |-> p, cas |-> objects[q]]

\* bucket_cache_ names a bucket that does not exist (any more) only after a
\* race of requests that create, delete or look up that bucket, a DELETE whose
\* reply was lost, or a DELETE by another spelling of the name.
StaleBucketOnlyByRace ==
    \A n \in Names :
       /\ n \notin raced
       /\ \A t \in Threads : ~BringsBucket(t, n)
       => bucketCache[n] \in {NoId, buckets[n]}

\* Requests with the same Idempotency-Key that are not concurrent are executed
\* once, while the record is written and has not expired.
ExecutedOnce ==
    \A i \in IdemKeys \ shaky : executed[i] <= 1

\* A client that lists a bucket page by page sees every object that was there
\* from the first page to the last exactly once, and in order, whatever is put
\* and deleted meanwhile.  Each page looks the bucket up again: once a race, or
\* a DELETE by another spelling, has left the id of a deleted bucket in
\* bucket_cache_, a page may be that of a bucket that is no more.
ListingIsComplete ==
    \A t \in Threads :
       LET r == req[t]
       IN  r.pc = "listed" /\ r.name \notin raced =>
              /\ \A i, j \in 1..Len(r.seen) : i < j => Weight[r.seen[i]] < Weight[r.seen[j]]
              /\ \A o \in r.start \ removed :
                    \E i \in 1..Len(r.seen) : r.seen[i] = o[2]

\* A GET with a Range header sends exactly the bytes the header selects, and
\* answers 416 only when it selects none, whatever the size of the object.
RangesAreWhatWasAsked ==
    (\E t \in Threads : req[t].op = "get" /\ req[t].pc = "serve") =>
       \A size \in 0..MaxSize, first, last \in {Absent} \cup 0..(MaxSize + 1) :
          RangeIsWhatWasAsked(first, last, size)
=============================================================================
