--------------------------- MODULE MetadataProofs ---------------------------
(***************************************************************************)
(* Requests on buckets and object metadata, for any number of threads,     *)
(* names, keys, contents and requests: what the two caches may hold, what  *)
(* is executed once, what a listing shows, and ParseRange for objects of   *)
(* every size.                                                             *)
(***************************************************************************)
EXTENDS Metadata, FiniteSetTheorems, SequenceTheorems, WellFoundedInduction, TLAPS

(***************************************************************************)
(* What ParseRange returns in each of the four forms of the header.        *)
(***************************************************************************)

\* "bytes=-n": the last n bytes, or the whole object.
LEMMA SuffixRange ==
    ASSUME NEW last \in Nat, NEW size \in Nat, size # 0
    PROVE  /\ ParseRange(Absent, last, size) =
                  <<IF last > size THEN 0 ELSE size - last, size - 1>>
           /\ ParseRange(Absent, last, size) # Unsatisfiable
  BY DEF ParseRange, Absent, Unsatisfiable

\* "bytes=a-" and "bytes=a-b": up to the last byte there is.
LEMMA BoundedRange ==
    ASSUME NEW first \in Nat, NEW last \in Position, NEW size \in Nat,
           first < size, last = Absent \/ first <= last
    PROVE  /\ ParseRange(first, last, size) =
                  <<first, IF last = Absent \/ last >= size THEN size - 1 ELSE last>>
           /\ ParseRange(first, last, size) # Unsatisfiable
  BY DEF ParseRange, Absent, Unsatisfiable, Position

\* Everything else is answered with 416.
LEMMA NoRange ==
    ASSUME NEW first \in Position, NEW last \in Position, NEW size \in Nat,
           \/ size = 0
           \/ first = Absent /\ last = Absent
           \/ first # Absent /\ first >= size
           \/ first # Absent /\ last # Absent /\ first > last
    PROVE  /\ ParseRange(first, last, size) = Unsatisfiable
           /\ Selected(first, last, size) = {}
  <1>1. ParseRange(first, last, size) = Unsatisfiable
    BY DEF ParseRange, Absent, Unsatisfiable, Position
  <1>2. ASSUME NEW i \in 0..(size - 1)
        PROVE  ~Selects(first, last, size, i)
    BY DEF Selects, Absent, Position
  <1> QED
    BY <1>1, <1>2 DEF Selected

\* For every object and every header ParseRange selects the bytes that were
\* asked for, all of them inside the object, and reports an unsatisfiable
\* range only when there are none.
THEOREM RangeCorrect ==
    ASSUME NEW first \in Position, NEW last \in Position, NEW size \in Nat
    PROVE  RangeIsWhatWasAsked(first, last, size)
  <1> DEFINE range == ParseRange(first, last, size)
  <1>1. CASE \/ size = 0
             \/ first = Absent /\ last = Absent
             \/ first # Absent /\ first >= size
             \/ first # Absent /\ last # Absent /\ first > last
    BY <1>1, NoRange DEF RangeIsWhatWasAsked
  <1>2. CASE size # 0 /\ first = Absent /\ last # Absent
    <2>1. last \in Nat
      BY <1>2 DEF Position
    <2>2. /\ range = <<IF last > size THEN 0 ELSE size - last, size - 1>>
          /\ range # Unsatisfiable
      BY <1>2, <2>1, SuffixRange
    <2>3. range[1]..range[2] = Selected(first, last, size)
      BY <1>2, <2>1, <2>2 DEF Selected, Selects, Absent
    <2>4. /\ RangeLength(range) \in 0..size
          /\ RangeLength(range) = 0 <=> (first = Absent /\ last = 0)
      BY <1>2, <2>1, <2>2 DEF RangeLength, Absent
    <2> QED
      BY <2>2, <2>3, <2>4 DEF RangeIsWhatWasAsked
  <1>3. CASE first \in Nat /\ first < size /\ (last = Absent \/ first <= last)
    <2>1. /\ range = <<first, IF last = Absent \/ last >= size THEN size - 1
                              ELSE last>>
          /\ range # Unsatisfiable
      BY <1>3, BoundedRange
    <2>2. range[1]..range[2] = Selected(first, last, size)
      BY <1>3, <2>1 DEF Selected, Selects, Absent, Position
    <2>3. /\ RangeLength(range) \in 0..size
          /\ RangeLength(range) = 0 <=> (first = Absent /\ last = 0)
      BY <1>3, <2>1 DEF RangeLength, Absent, Position
    <2> QED
      BY <2>1, <2>2, <2>3 DEF RangeIsWhatWasAsked
  <1> QED
    BY <1>1, <1>2, <1>3 DEF Absent, Position

----------------------------------------------------------------------------
(***************************************************************************)
(* Redis: what a call does to the connection and to the entries            *)
(***************************************************************************)

\* Besides its type, the only reply that can be left unread is that of a PING.
RedisInv == RedisTypeOK /\ unread \in {<< >>, <<StatusReply>>}

Constants ==
    /\ CacheKeys = Objects /\ Payloads = Rows
    /\ None \notin Rows /\ Garbage \notin Rows
    /\ MaxFaults \in Nat

LEMMA ConstantsOK == Constants
  BY MetadataAssumption DEF Constants

LEMMA FaultOK ==
    ASSUME RedisTypeOK, Fault
    PROVE  faults' \in 0..MaxFaults
  BY ConstantsOK DEF Constants, RedisTypeOK, Fault

LEMMA AppendToOne ==
    ASSUME NEW a, NEW b
    PROVE  Append(<<a>>, b) = <<a, b>>
  <1> DEFINE S == {a, b}
             s == Append(<<a>>, b)
             u == <<a, b>>
  <1>1. s \in Seq(S) /\ Len(s) = 2 /\ s[1] = a /\ s[2] = b
    OBVIOUS
  <1>2. u \in Seq(S) /\ Len(u) = 2 /\ u[1] = a /\ u[2] = b
    OBVIOUS
  <1> HIDE DEF s, S, u
  <1>3. \A i \in 1..Len(s) : s[i] = u[i]
    BY <1>1, <1>2
  <1>4. s = u
    BY <1>1, <1>2, <1>3, SeqEqual
  <1> QED
    BY <1>4 DEF s, u

LEMMA StreamOf ==
    ASSUME RedisInv, NEW c
    PROVE  /\ unread = << >> => Head(Stream(c)) = ReplyTo(c) /\ Tail(Stream(c)) = << >>
           /\ unread = <<StatusReply>> =>
                 Head(Stream(c)) = StatusReply /\ Tail(Stream(c)) = <<ReplyTo(c)>>
  <1> DEFINE b == ReplyTo(c)
             a == StatusReply
  <1>1. Stream(c) = Append(unread, b)
    BY DEF Stream
  <1> HIDE DEF a, b
  <1>2. unread = << >> => Head(Stream(c)) = b /\ Tail(Stream(c)) = << >>
    <2>1. Append(<< >>, b) = <<b>> /\ Head(<<b>>) = b /\ Tail(<<b>>) = << >>
      OBVIOUS
    <2> QED
      BY <1>1, <2>1
  <1>3. unread = <<a>> => Head(Stream(c)) = a /\ Tail(Stream(c)) = <<b>>
    <2>1. Head(<<a, b>>) = a /\ Tail(<<a, b>>) = <<b>>
      OBVIOUS
    <2> QED
      BY <1>1, <2>1, AppendToOne
  <1> QED
    BY <1>2, <1>3 DEF a, b

LEMMA GetReturnsOK ==
    ASSUME RedisInv, NEW k \in Objects, NEW v, GetReturns(k, v)
    PROVE  /\ RedisInv'
           /\ v = entries[k]
           /\ UNCHANGED <<entries, delayed, faults>>
  <1> DEFINE c == GetCommand(k)
  <1>1. Head(Stream(c)) = Bulk(v) /\ Answered(c)
    BY DEF GetReturns
  <1>2. ReplyTo(c) = Bulk(entries[k]) /\ Executed(c) = entries
    BY DEF ReplyTo, GetCommand, Executed
  <1>3. Bulk(v) # StatusReply
    BY DEF Bulk, StatusReply
  <1> HIDE DEF c
  <1>4. unread = << >>
    BY <1>1, <1>3, StreamOf DEF RedisInv
  <1>5. v = entries[k]
    BY <1>1, <1>2, <1>4, StreamOf DEF Bulk
  <1>6. unread' = << >> /\ connected' = TRUE /\ UNCHANGED <<entries, delayed, faults>>
    BY <1>1, <1>2, <1>4, StreamOf DEF Answered
  <1>7. RedisInv'
    BY <1>6 DEF RedisInv, RedisTypeOK
  <1> QED
    BY <1>5, <1>6, <1>7

\* A call that fails: the command has been executed, or will be, or not.
LEMMA CallFailsOK ==
    ASSUME RedisInv, NEW c \in Commands, Executed(c) \in [Objects -> Rows \cup {Garbage, None}],
           CallFails(c)
    PROVE  /\ RedisInv'
           /\ entries' = entries \/ entries' = Executed(c)
           /\ delayed' = delayed \/ delayed' = c
  <1> USE ConstantsOK DEF Constants
  <1>1. faults' \in 0..MaxFaults
    BY FaultOK DEF RedisInv, CallFails, ConnectFails, PingTimesOut, Lost
  <1>2. StatusReply \in Replies
    BY DEF StatusReply, Replies
  <1>3. CASE ConnectFails
    BY <1>1, <1>3 DEF ConnectFails, RedisInv, RedisTypeOK
  <1>4. CASE PingTimesOut
    <2>1. unread' = <<StatusReply>> /\ connected' = TRUE /\ UNCHANGED <<entries, delayed>>
      BY <1>4 DEF PingTimesOut
    <2>2. unread' \in Seq(Replies) /\ Len(unread') <= 1
      BY <1>2, <2>1
    <2> QED
      BY <1>1, <2>1, <2>2 DEF RedisInv, RedisTypeOK
  <1>5. CASE Lost(c)
    <2>1. unread' = << >> /\ connected' = FALSE
      BY <1>5 DEF Lost
    <2>2. unread' \in Seq(Replies) /\ Len(unread') <= 1
      BY <2>1
    <2>3. /\ entries' = entries \/ entries' = Executed(c)
          /\ delayed' = delayed \/ delayed' = c
      BY <1>5 DEF Lost
    <2>4. entries' \in [Objects -> Rows \cup {Garbage, None}] /\ delayed' \in Commands \cup {None}
      BY <2>3 DEF RedisInv, RedisTypeOK
    <2> QED
      BY <1>1, <2>1, <2>2, <2>3, <2>4 DEF RedisInv, RedisTypeOK
  <1> QED
    BY <1>3, <1>4, <1>5 DEF CallFails

LEMMA GetFailsOK ==
    ASSUME RedisInv, NEW k \in Objects, GetFails(k)
    PROVE  /\ RedisInv'
           /\ entries' = entries
           /\ delayed' = delayed \/ delayed' = GetCommand(k)
  <1> USE ConstantsOK DEF Constants
  <1>1. GetCommand(k) \in Commands /\ Executed(GetCommand(k)) = entries
    BY DEF GetCommand, Commands, Executed
  <1>2. entries \in [Objects -> Rows \cup {Garbage, None}]
    BY DEF RedisInv, RedisTypeOK
  <1>3. CASE CallFails(GetCommand(k))
    <2> DEFINE c == GetCommand(k)
    <2>1. c \in Commands /\ Executed(c) = entries /\ CallFails(c)
      BY <1>1, <1>3
    <2> HIDE DEF c
    <2>2. /\ RedisInv' /\ (entries' = entries \/ entries' = Executed(c))
          /\ (delayed' = delayed \/ delayed' = c)
      BY <1>2, <2>1, CallFailsOK
    <2> QED
      BY <2>1, <2>2 DEF c
  <1>4. CASE /\ connected' = FALSE /\ unread' = << >>
             /\ UNCHANGED <<entries, delayed, faults>>
    <2>1. unread' \in Seq(Replies) /\ Len(unread') <= 1
      BY <1>4
    <2> QED
      BY <1>4, <2>1 DEF RedisInv, RedisTypeOK
  <1> QED
    BY <1>3, <1>4 DEF GetFails

\* SetEx and Del.
LEMMA WriteOK ==
    ASSUME RedisInv, NEW k \in Objects, NEW v \in Rows \cup {None}, NEW c,
           c = SetCommand(k, v) \/ (c = DelCommand(k) /\ v = None)
    PROVE  /\ c \in Commands /\ c.cmd # "get" /\ c.key = k /\ c.value = v
           /\ Executed(c) = [entries EXCEPT ![k] = v]
           /\ Executed(c) \in [Objects -> Rows \cup {Garbage, None}]
  <1> USE ConstantsOK DEF Constants
  <1>1. c \in Commands /\ c.cmd # "get" /\ c.key = k /\ c.value = v
    BY DEF SetCommand, DelCommand, Commands
  <1>2. Executed(c) = [entries EXCEPT ![k] = v]
    BY <1>1 DEF Executed
  <1> QED
    BY <1>1, <1>2 DEF RedisInv, RedisTypeOK

LEMMA AnsweredOK ==
    ASSUME RedisInv, NEW c, c.cmd # "get", Answered(c),
           Executed(c) \in [Objects -> Rows \cup {Garbage, None}]
    PROVE  RedisInv' /\ entries' = Executed(c) /\ UNCHANGED <<delayed, faults>>
  <1> USE ConstantsOK DEF Constants
  <1>1. ReplyTo(c) = StatusReply
    BY DEF ReplyTo
  <1>2. unread' \in {<< >>, <<StatusReply>>}
    BY <1>1, StreamOf DEF Answered, RedisInv
  <1>3. StatusReply \in Replies
    BY DEF StatusReply, Replies
  <1>4. unread' \in Seq(Replies) /\ Len(unread') <= 1
    <2>1. << >> \in Seq(Replies) /\ Len(<< >>) <= 1
      OBVIOUS
    <2>2. <<StatusReply>> \in Seq(Replies) /\ Len(<<StatusReply>>) <= 1
      BY <1>3
    <2> QED
      BY <1>2, <2>1, <2>2
  <1>5. connected' = TRUE /\ entries' = Executed(c) /\ UNCHANGED <<delayed, faults>>
    BY DEF Answered
  <1> QED
    BY <1>2, <1>4, <1>5 DEF RedisInv, RedisTypeOK

LEMMA ExpireOK ==
    ASSUME RedisInv, NEW k \in Objects, Expire(k)
    PROVE  RedisInv' /\ entries' = [entries EXCEPT ![k] = None] /\ UNCHANGED delayed
  BY ConstantsOK DEF Constants, Expire, RedisInv, RedisTypeOK

LEMMA DelayedOK ==
    ASSUME RedisInv, DelayedArrives
    PROVE  /\ RedisInv' /\ delayed' = None /\ delayed \in Commands
           /\ entries' = IF delayed.cmd = "get" THEN entries
                         ELSE [entries EXCEPT ![delayed.key] = delayed.value]
  <1> USE ConstantsOK DEF Constants
  <1>1. delayed \in Commands
    BY DEF RedisInv, RedisTypeOK, DelayedArrives
  <1>2. entries' = IF delayed.cmd = "get" THEN entries
                   ELSE [entries EXCEPT ![delayed.key] = delayed.value]
    BY DEF DelayedArrives, Executed
  <1>3. delayed.key \in Objects /\ delayed.value \in Rows \cup {None}
    BY <1>1 DEF Commands
  <1>4. entries' \in [Objects -> Rows \cup {Garbage, None}]
    BY <1>2, <1>3 DEF RedisInv, RedisTypeOK
  <1>5. delayed' = None /\ UNCHANGED <<connected, unread, faults>>
    BY DEF DelayedArrives
  <1> QED
    BY <1>1, <1>2, <1>4, <1>5 DEF RedisInv, RedisTypeOK

----------------------------------------------------------------------------
(***************************************************************************)
(* Types, and what a request is at each step                               *)
(***************************************************************************)

ObjectPcs == {"lookup", "evictBad", "select", "fill", "serve", "remove", "evict"}
PutPcs == {"check", "insert", "upsert", "update", "record"}
BucketOps == {"getBucket", "deleteBucket", "put", "get", "delete", "list"}

\* Request r may be about to take step p.
Fits(p, r) ==
    /\ p \in {"create", "created"} => r.op = "createBucket"
    /\ p \in {"bucket", "cacheBucket"} => r.op \in BucketOps
    /\ p \in {"empty", "drop", "uncache"} => r.op = "deleteBucket"
    /\ p \in {"listBuckets", "cacheAll"} => r.op = "listBuckets"
    /\ p \in ObjectPcs => r.op \in {"get", "delete"}
    /\ p \in PutPcs => r.op = "put"
    /\ p \in {"page", "listed"} => r.op = "list"
    /\ p \in {"check", "record"} => r.ikey # None
    /\ p \notin {"bucket", "create", "listBuckets", "cacheAll"} => r.bid \in Ids
    /\ r.row # None => p \in {"fill", "serve", "remove", "evict"}
    /\ p = "fill" => r.row # None

\* What a request is about.
Parts(r) ==
    /\ r.op # "listBuckets" => r.name \in Names
    /\ r.op \in {"put", "get", "delete"} => r.key \in Keys
    /\ r.op = "put" => r.cas \in Content
    /\ r.op # "put" => r.ikey = None

Shape(r) == IF r.pc = "idle" THEN r = Idle ELSE Fits(r.pc, r) /\ Parts(r)

HistoryTypes ==
    /\ committed \subseteq Rows
    /\ removed \subseteq Objects
    /\ executed \in [IdemKeys -> Nat]
    /\ torn \subseteq Objects
    /\ raced \subseteq Names
    /\ shaky \subseteq IdemKeys

TableTypes ==
    /\ buckets \in [Names -> Ids \cup {NoId}]
    /\ nextId \in Nat \ {0}
    /\ objects \in [Objects -> Content \cup {None}]
    /\ idem \in [IdemKeys -> (Names \X Keys) \cup {None}]
    /\ bucketCache \in [Names -> Ids \cup {NoId}]
    /\ calls \in Nat

\* The foreign key of `objects' and the unique indexes.
RowRules ==
    /\ \A o \in Objects : objects[o] # None => \E n \in Names : buckets[n] = o[1]
    /\ UniqueRows

TInv ==
    /\ TableTypes /\ RowRules /\ RedisInv /\ HistoryTypes
    /\ req \in [Threads -> Requests]
    /\ \A t \in Threads : Shape(req[t])

LEMMA IdleOK == Idle \in Requests /\ Shape(Idle) /\ Idle.pc = "idle" /\ Idle.row = None
                /\ Idle.ikey = None
  <1>1. NoBuckets \in [Names -> Ids \cup {NoId}]
    BY DEF NoBuckets
  <1>2. Idle \in Requests
    BY <1>1 DEF Idle, Requests, Pcs
  <1> QED
    BY <1>2 DEF Idle, Shape

LEMMA IdsOK == Ids \subseteq Nat \ {0} /\ 1 \in Ids /\ NoId \notin Ids /\ NoId = 0
  BY MetadataAssumption DEF Ids, NoId

(***************************************************************************)
(* What a step does to its request                                         *)
(***************************************************************************)

Rest(t) ==
    /\ req' \in [Threads -> Requests]
    /\ \A q \in Threads \ {t} : req'[q] = req[q]

\* The same request.
Ident(u, r) ==
    /\ u.op = r.op /\ u.name = r.name /\ u.key = r.key /\ u.cas = r.cas /\ u.ikey = r.ikey

SameListing(u, r) == u.after = r.after /\ u.seen = r.seen /\ u.start = r.start

\* The step changes the program counter only, or ends the request.
Jump(t, p) ==
    /\ Rest(t)
    /\ p = "idle" => req'[t] = Idle
    /\ p # "idle" => /\ req'[t].pc = p /\ Ident(req'[t], req[t]) /\ SameListing(req'[t], req[t])
                     /\ req'[t].bid = req[t].bid /\ req'[t].row = req[t].row
                     /\ req'[t].found = req[t].found

LEMMA GotoJumps ==
    ASSUME req \in [Threads -> Requests], NEW t \in Threads, NEW p \in Pcs, Goto(t, p)
    PROVE  Jump(t, p)
  <1>1. CASE p = "idle"
    BY <1>1, IdleOK DEF Goto, Jump, Rest
  <1>2. CASE p # "idle"
    <2> DEFINE r == req[t]
               u == [r EXCEPT !.pc = p]
    <2>1. req' = [req EXCEPT ![t] = u] /\ r \in Requests
      BY <1>2 DEF Goto
    <2> HIDE DEF r
    <2>2. /\ u \in Requests /\ u.pc = p /\ Ident(u, r) /\ SameListing(u, r)
          /\ u.bid = r.bid /\ u.row = r.row /\ u.found = r.found
      BY <2>1 DEF Requests, Ident, SameListing
    <2> HIDE DEF u
    <2> QED
      BY <1>2, <2>1, <2>2 DEF Jump, Rest, r
  <1> QED
    BY <1>1, <1>2

LEMMA EndJumps ==
    ASSUME req \in [Threads -> Requests], NEW t \in Threads, End(t)
    PROVE  Jump(t, "idle")
  <1>1. "idle" \in Pcs
    BY DEF Pcs
  <1> QED
    BY <1>1, GotoJumps DEF End

\* A step to a request u of the right shape.
LEMMA ShapesKept ==
    ASSUME TInv, NEW t \in Threads, Rest(t), Shape(req'[t])
    PROVE  \A q \in Threads : Shape(req[q])'
  <1>1. \A q \in Threads : Shape(req'[q])
    BY DEF TInv, Rest
  <1> QED
    BY <1>1 DEF Shape, Fits, Parts, Idle, NoBuckets

\* A jump keeps the shape of the requests if the new step fits the request.
LEMMA JumpKeepsShapes ==
    ASSUME TInv, NEW t \in Threads, NEW p, Jump(t, p), req[t].pc # "idle",
           p # "idle" => Fits(p, req[t])
    PROVE  req' \in [Threads -> Requests] /\ \A q \in Threads : Shape(req[q])'
  <1>1. Shape(req'[t])
    <2>1. CASE p = "idle"
      BY <2>1, IdleOK DEF Jump
    <2>2. CASE p # "idle"
      <3> DEFINE r == req[t]
                 u == req'[t]
      <3>1. /\ Fits(p, r) /\ Parts(r) /\ u.pc = p /\ Ident(u, r) /\ u.bid = r.bid /\ u.row = r.row
        BY <2>2 DEF TInv, Jump, Shape
      <3> HIDE DEF r, u
      <3>2. Shape(u)
        BY <2>2, <3>1 DEF Shape, Fits, Parts, Ident
      <3> QED
        BY <3>2 DEF u
    <2> QED
      BY <2>1, <2>2
  <1> QED
    BY <1>1, ShapesKept DEF Jump, Rest

LEMMA EndKeepsShapes ==
    ASSUME TInv, NEW t \in Threads, End(t), req[t].pc # "idle"
    PROVE  req' \in [Threads -> Requests] /\ \A q \in Threads : Shape(req[q])'
  BY EndJumps, JumpKeepsShapes DEF TInv

\* Tables, caches and history of steps that leave them alone.
LEMMA SameTypes ==
    ASSUME TInv
    PROVE  /\ UNCHANGED <<tableVars, bucketCache, calls>> => TableTypes' /\ RowRules'
           /\ UNCHANGED redisVars => RedisInv'
           /\ UNCHANGED history => HistoryTypes'
           /\ UNCHANGED <<buckets, objects>> => RowRules'
  BY DEF TInv, TableTypes, RowRules, UniqueRows, Conflicts, BucketRows, Spellings, tableVars,
         redisVars, RedisInv, RedisTypeOK, history, HistoryTypes

\* A step that only moves its request.
LEMMA QuietTypes ==
    ASSUME TInv, UNCHANGED <<tableVars, bucketCache, redisVars, calls, history>>,
           req' \in [Threads -> Requests], \A q \in Threads : Shape(req[q])'
    PROVE  TInv'
  BY SameTypes DEF TInv

\* A step that calls Redis.
LEMMA CallTypes ==
    ASSUME TInv, UNCHANGED <<tableVars, bucketCache, calls, committed, removed,
                             executed, raced, shaky>>,
           RedisInv', torn' \subseteq Objects,
           req' \in [Threads -> Requests], \A q \in Threads : Shape(req[q])'
    PROVE  TInv'
  BY SameTypes DEF TInv, HistoryTypes

LEMMA StatementFailsTypes ==
    ASSUME TInv, NEW t \in Threads, StatementFails(t), req[t].pc # "idle"
    PROVE  TInv'
  <1>1. req' \in [Threads -> Requests] /\ \A q \in Threads : Shape(req[q])'
    BY EndKeepsShapes DEF StatementFails
  <1>2. faults' \in 0..MaxFaults
    BY FaultOK DEF TInv, RedisInv, StatementFails
  <1>3. RedisInv'
    BY <1>2 DEF TInv, RedisInv, RedisTypeOK, StatementFails
  <1> QED
    BY <1>1, <1>3, SameTypes DEF TInv, StatementFails

\* What TInv says of one request.
LEMMA RequestFacts ==
    ASSUME TInv, NEW t \in Threads, req[t].pc # "idle"
    PROVE  /\ req[t] \in Requests /\ Fits(req[t].pc, req[t]) /\ Parts(req[t])
           /\ req \in [Threads -> Requests]
  BY DEF TInv, Shape

\* The object of a request on an object.
LEMMA ObjectFacts ==
    ASSUME TInv, NEW t \in Threads, req[t].pc \in ObjectPcs \cup PutPcs
    PROVE  Object(t) \in Objects /\ req[t].bid \in Ids /\ req[t].key \in Keys
  <1>1. req[t].pc # "idle"
    BY DEF ObjectPcs, PutPcs
  <1>2. req[t].bid \in Ids /\ req[t].key \in Keys
    BY <1>1, RequestFacts DEF Fits, Parts, ObjectPcs, PutPcs
  <1> QED
    BY <1>2 DEF Object, Objects

(***************************************************************************)
(* Buckets                                                                 *)
(***************************************************************************)

\* A new request.
Begun(t) ==
    LET u == req'[t]
    IN  /\ Rest(t)
        /\ u.pc \in {"create", "listBuckets", "bucket"}
        /\ u.row = None /\ u.bid = NoId /\ u.found = NoBuckets
        /\ u.after = 0 /\ u.seen = << >> /\ u.start = {}
        /\ shaky \subseteq shaky'
        /\ \A q \in Others(t) : req[q].ikey = u.ikey /\ u.ikey \in IdemKeys => u.ikey \in shaky'

LEMMA BeginTypes ==
    ASSUME TInv, NEW t \in Threads, Begin(t)
    PROVE  TInv' /\ Begun(t)
  <1>1. PICK op \in AllOps, n \in Names, k \in Keys, c \in Content :
          LET object == op \in {"put", "get", "delete"}
              ikey == IF op = "put" THEN IdemKeyOf[c] ELSE None
              inUse == {j \in IdemKeys : \E u \in Others(t) : req[u].ikey = j}
          IN  /\ <<op, n, k, c>> \in Mix
              /\ req' = [req EXCEPT ![t] =
                    [Idle EXCEPT
                        !.op = op,
                        !.name = IF op = "listBuckets" THEN None ELSE n,
                        !.key = IF object THEN k ELSE None,
                        !.cas = IF op = "put" THEN c ELSE None,
                        !.ikey = ikey,
                        !.pc = CASE op = "createBucket" -> "create"
                                 [] op = "listBuckets" -> "listBuckets"
                                 [] OTHER -> "bucket"]]
              /\ shaky' = shaky \cup (inUse \cap {ikey})
    BY DEF Begin
  <1> DEFINE name == IF op = "listBuckets" THEN None ELSE n
             key == IF op \in {"put", "get", "delete"} THEN k ELSE None
             cas == IF op = "put" THEN c ELSE None
             ikey == IF op = "put" THEN IdemKeyOf[c] ELSE None
             pc == CASE op = "createBucket" -> "create"
                     [] op = "listBuckets" -> "listBuckets"
                     [] OTHER -> "bucket"
             u == [Idle EXCEPT !.op = op, !.name = name, !.key = key, !.cas = cas,
                               !.ikey = ikey, !.pc = pc]
  <1>2. req' = [req EXCEPT ![t] = u]
    BY <1>1
  <1>3. op \in AllOps /\ name \in Names \cup {None} /\ key \in Keys \cup {None}
        /\ cas \in Content \cup {None} /\ ikey \in IdemKeys \cup {None}
    BY MetadataAssumption
  <1>4. /\ op = "createBucket" => pc = "create"
        /\ op = "listBuckets" => pc = "listBuckets"
        /\ op \notin {"createBucket", "listBuckets"} => pc = "bucket"
        /\ op # "listBuckets" => name \in Names
        /\ op \in {"put", "get", "delete"} => key \in Keys
        /\ op = "put" => cas \in Content
        /\ op # "put" => ikey = None
    OBVIOUS
  <1>5. pc \in Pcs
    BY <1>4 DEF Pcs
  <1> HIDE DEF name, key, cas, ikey, pc
  <1>6. /\ u \in Requests /\ u.op = op /\ u.name = name /\ u.key = key /\ u.cas = cas
        /\ u.ikey = ikey /\ u.pc = pc /\ u.row = None /\ u.bid = NoId /\ u.found = NoBuckets
        /\ u.after = 0 /\ u.seen = << >> /\ u.start = {}
    <2>1. /\ Idle \in Requests /\ Idle.row = None /\ Idle.bid = NoId /\ Idle.found = NoBuckets
          /\ Idle.after = 0 /\ Idle.seen = << >> /\ Idle.start = {}
      BY IdleOK DEF Idle
    <2>2. u \in Requests
      <3> DEFINE v == [Idle EXCEPT !.op = op, !.name = name, !.key = key]
      <3>1. u = [v EXCEPT !.cas = cas, !.ikey = ikey, !.pc = pc]
        OBVIOUS
      <3>2. v \in Requests
        BY <1>3, <2>1 DEF Requests
      <3> HIDE DEF v
      <3>3. [v EXCEPT !.cas = cas, !.ikey = ikey, !.pc = pc] \in Requests
        BY <1>3, <1>5, <3>2 DEF Requests
      <3> QED
        BY <3>1, <3>3
    <2>3. /\ u.op = op /\ u.name = name /\ u.key = key /\ u.cas = cas
          /\ u.ikey = ikey /\ u.pc = pc /\ u.row = Idle.row /\ u.bid = Idle.bid
          /\ u.found = Idle.found /\ u.after = Idle.after /\ u.seen = Idle.seen
          /\ u.start = Idle.start
      BY <2>1 DEF Requests
    <2> QED
      BY <2>1, <2>2, <2>3
  <1> HIDE DEF u
  <1>7. Rest(t) /\ req'[t] = u
    BY <1>2, <1>6 DEF Rest, TInv
  <1>8. Shape(u)
    BY <1>3, <1>4, <1>6 DEF Shape, Fits, Parts, ObjectPcs, PutPcs, BucketOps, AllOps
  <1>9. shaky' \subseteq IdemKeys
    BY <1>1 DEF TInv, HistoryTypes
  <1>10. calls' \in Nat
    BY DEF Begin, TInv, TableTypes
  <1>11. TableTypes' /\ RowRules' /\ HistoryTypes' /\ RedisInv'
    <2>1. UNCHANGED <<tableVars, bucketCache, redisVars, committed, removed, executed, torn, raced>>
      BY DEF Begin
    <2>2. UNCHANGED <<buckets, nextId, objects, idem>>
      BY <2>1 DEF tableVars
    <2> QED
      BY <1>9, <1>10, <2>1, <2>2, SameTypes DEF TInv, TableTypes, HistoryTypes
  <1>12. TInv'
    BY <1>7, <1>8, <1>11, ShapesKept DEF TInv, Rest
  <1>13. /\ shaky \subseteq shaky'
         /\ \A q \in Others(t) : req[q].ikey = ikey /\ ikey \in IdemKeys => ikey \in shaky'
    BY <1>1 DEF ikey
  <1>14. pc \in {"create", "listBuckets", "bucket"}
    BY <1>4
  <1>15. Begun(t)
    BY <1>6, <1>7, <1>13, <1>14 DEF Begun
  <1> QED
    BY <1>12, <1>15

(***************************************************************************)
(* The inductive invariant                                                 *)
(***************************************************************************)

\* Whatever may still be served, or stored in Redis, is a row of the object it
\* is served or stored for, and was committed.
RowIsOwn(row, o) == row.obj \in Equal(o) /\ row \in committed

ThreadServes(t) ==
    /\ req[t].row # None => RowIsOwn(req[t].row, Object(t))
    /\ req[t].pc = "update" => RowIsOwn(RowOf(t, req[t].cas), Object(t))

RedisServes ==
    /\ \A o \in Objects : entries[o] \in Rows => RowIsOwn(entries[o], o)
    /\ delayed # None /\ delayed.value # None => RowIsOwn(delayed.value, delayed.key)

TableServes ==
    \A o \in Objects : objects[o] # None => [obj |-> o, cas |-> objects[o]] \in committed

ServedInv ==
    /\ \A t \in Threads : ThreadServes(t)
    /\ RedisServes
    /\ TableServes

\* What Redis may hold of o: what the tables have for it now.
Current(o) == {objects[q] : q \in ObjectRows(o)}
Fresh(o) ==
    {None, Garbage} \cup {[obj |-> p, cas |-> objects[q]] : p \in Equal(o), q \in ObjectRows(o)}

\* Without a race on o a thread that is about to write o's entry has o's row,
\* the entry is o's row unless a thread that changed the row is about to write
\* it, and no write of it is under way to Redis.
EntryThread(t, o) ==
    Object(t) = o =>
       /\ req[t].pc = "fill" => req[t].row.cas \in Current(o)
       /\ req[t].pc = "update" => req[t].cas \in Current(o)

EntryOK(o) ==
    /\ \A t \in Threads : EntryThread(t, o)
    /\ \/ entries[o] \in Fresh(o)
       \/ \E t \in Threads : Object(t) = o /\ req[t].pc \in {"update", "evict"}
    /\ ~(delayed # None /\ delayed.cmd # "get" /\ delayed.key = o)

EntryInv == \A o \in Objects \ torn : EntryOK(o)

\* The same for bucket_cache_.
BucketThread(t, n) ==
    /\ req[t].pc \in {"cacheBucket", "cacheAll"} =>
          (req[t].found[n] # NoId => req[t].found[n] = buckets[n])
    /\ req[t].name = n /\ req[t].pc = "created" => req[t].bid = buckets[n]
    /\ req[t].name = n /\ req[t].pc = "uncache" => buckets[n] = NoId

BucketOK(n) ==
    /\ \A t \in Threads : BucketThread(t, n)
    /\ \/ bucketCache[n] \in {NoId, buckets[n]}
       \/ \E t \in Threads : req[t].name = n /\ req[t].pc = "uncache"

BucketInv == \A n \in Names \ raced : BucketOK(n)

\* A key that is not used concurrently: it has been executed and has a record,
\* or its thread is about to write one; or it has not been executed.
IdemOK(i) ==
    /\ \A t, u \in Threads : req[t].ikey = i /\ req[u].ikey = i => t = u
    /\ \A t \in Threads : req[t].ikey = i /\ req[t].pc \in {"insert", "upsert"} => executed[i] = 0
    /\ \/ executed[i] = 0
       \/ /\ executed[i] = 1
          /\ \/ idem[i] # None
             \/ \E t \in Threads : req[t].ikey = i /\ req[t].pc \in {"update", "record"}

IdemInv == \A i \in IdemKeys \ shaky : IdemOK(i)

\* An id that was given to a bucket named n is never that of a bucket whose
\* name the collation tells from n.
IdIsOf(id, n) == id < nextId /\ \A m \in Names : buckets[m] = id => m \in Spellings(n)

OwnerThread(t) ==
    /\ \A n \in Names : req[t].found[n] # NoId => IdIsOf(req[t].found[n], n)
    /\ req[t].bid # NoId => IdIsOf(req[t].bid, req[t].name)
    /\ \A o \in req[t].start : IdIsOf(o[1], req[t].name)

OwnerInv ==
    /\ \A n \in Names : buckets[n] # NoId => IdIsOf(buckets[n], n)
    /\ \A n \in Names : bucketCache[n] # NoId => IdIsOf(bucketCache[n], n)
    /\ \A t \in Threads : OwnerThread(t)

Increasing(s) == \A i, j \in 1..Len(s) : i < j => Weight[s[i]] < Weight[s[j]]

\* bucket_cache_ has the id of n, if any.
CachedAs(n, id) == bucketCache[n] \in {NoId, id}

\* What the client of listing r has seen: every key up to `after', at the end
\* every key; and its bucket is still the one it started with, also in
\* bucket_cache_ when the row is that of another spelling.
ListOK(r) ==
    /\ r.start # {} => r.op = "list"
    /\ r.after = 0 /\ r.pc # "listed" => r.seen = << >> /\ r.start = {}
    /\ Increasing(r.seen)
    /\ r.pc # "listed" => \A i \in 1..Len(r.seen) : Weight[r.seen[i]] <= r.after
    /\ \A o \in r.start \ removed : objects[o] # None
    /\ r.name \notin raced => \A o \in r.start \ removed :
          /\ r.pc = "listed" \/ Weight[o[2]] <= r.after =>
                \E i \in 1..Len(r.seen) : r.seen[i] = o[2]
          /\ r.pc \in {"cacheBucket", "page"} => r.bid = o[1]
          /\ CachedAs(r.name, o[1])
    /\ r.op = "list" /\ r.name \notin raced /\ r.pc \in {"cacheBucket", "page"} =>
          \A m \in Names : buckets[m] = r.bid => CachedAs(r.name, r.bid)

ListInv == \A t \in Threads : ListOK(req[t])

(***************************************************************************)
(* The keys of a page                                                      *)
(***************************************************************************)

\* No two keys of ks are at one place in the order.
Distinct(ks) == \A j, k \in ks : Weight[j] = Weight[k] => j = k

LEMMA WeightOK ==
    /\ \A k \in Keys : Weight[k] \in Nat /\ Weight[k] > 0
    /\ IsFiniteSet(Keys)
  BY MetadataAssumption

LEMMA RankOK ==
    ASSUME NEW ks \in SUBSET Keys, NEW k \in ks
    PROVE  /\ Rank(ks, k) \in 1..Cardinality(ks)
           /\ \A j \in ks : Weight[j] < Weight[k] => Rank(ks, j) < Rank(ks, k)
  <1> DEFINE B(x) == {j \in ks : Weight[j] <= Weight[x]}
  <1>1. IsFiniteSet(ks) /\ \A j \in ks : Weight[j] \in Nat
    BY WeightOK, FS_Subset
  <1>2. ASSUME NEW x \in ks
        PROVE  /\ IsFiniteSet(B(x)) /\ Cardinality(B(x)) \in Nat
               /\ Cardinality(B(x)) <= Cardinality(ks) /\ x \in B(x)
    <2>1. B(x) \in SUBSET ks /\ x \in B(x)
      BY <1>1
    <2> HIDE DEF B
    <2> QED
      BY <1>1, <2>1, FS_Subset, FS_CardinalityType
  <1>3. Cardinality(B(k)) # 0
    <2> HIDE DEF B
    <2> QED
      BY <1>2, FS_EmptySet
  <1>4. ASSUME NEW j \in ks, Weight[j] < Weight[k]
        PROVE  Cardinality(B(j)) < Cardinality(B(k))
    <2>0. Weight[j] \in Nat /\ Weight[k] \in Nat
      BY <1>1
    <2>1. B(j) \in SUBSET B(k) /\ k \notin B(j) /\ k \in B(k)
      <3>1. \A x \in ks : Weight[x] <= Weight[j] => Weight[x] <= Weight[k]
        BY <1>1, <1>4, <2>0
      <3>2. ~(Weight[k] <= Weight[j]) /\ Weight[k] <= Weight[k]
        BY <1>4, <2>0
      <3> QED
        BY <3>1, <3>2
    <2> HIDE DEF B
    <2>2. B(j) # B(k)
      BY <2>1
    <2>3. Cardinality(B(j)) <= Cardinality(B(k)) /\ Cardinality(B(j)) # Cardinality(B(k))
      BY <1>2, <2>1, <2>2, FS_Subset
    <2> QED
      BY <1>2, <2>3
  <1>5. Cardinality(ks) \in Nat
    BY <1>1, FS_CardinalityType
  <1>6. \A x \in ks : Rank(ks, x) = Cardinality(B(x))
    BY DEF Rank
  <1> HIDE DEF B
  <1> QED
    BY <1>2, <1>3, <1>4, <1>5, <1>6

LEMMA KeyOfRank ==
    ASSUME NEW ks \in SUBSET Keys, Distinct(ks), NEW i \in 1..Cardinality(ks)
    PROVE  \E k \in ks : Rank(ks, k) = i
  <1> DEFINE S == 1..Cardinality(ks)
             f == [k \in ks |-> Rank(ks, k)]
  <1>1. IsFiniteSet(ks) /\ Cardinality(ks) \in Nat /\ \A k \in ks : Weight[k] \in Nat
    BY WeightOK, FS_Subset, FS_CardinalityType
  <1>2. IsFiniteSet(S) /\ Cardinality(S) = Cardinality(ks)
    BY <1>1, FS_Interval
  <1>3. f \in [ks -> S]
    BY RankOK
  <1>4. \A a, b \in ks : f[a] = f[b] => a = b
    <2> SUFFICES ASSUME NEW a \in ks, NEW b \in ks, a # b PROVE f[a] # f[b]
      OBVIOUS
    <2>1. Weight[a] < Weight[b] \/ Weight[b] < Weight[a]
      BY <1>1 DEF Distinct
    <2>2. f[a] < f[b] \/ f[b] < f[a]
      BY <2>1, RankOK
    <2> QED
      BY <1>3, <2>2
  <1> HIDE DEF f, S
  <1>5. f \in Injection(ks, S)
    BY <1>3, <1>4 DEF Injection, IsInjective
  <1>6. f \in Surjection(ks, S)
    BY <1>2, <1>5, FS_Injection
  <1>7. \E k \in ks : f[k] = i
    BY <1>6 DEF Surjection, S
  <1> QED
    BY <1>7 DEF f

LEMMA FirstKeysOK ==
    ASSUME NEW ks \in SUBSET Keys, Distinct(ks), NEW n \in Nat \ {0}
    PROVE  LET s == FirstKeys(ks, n)
           IN  /\ s \in Seq(Keys)
               /\ Increasing(s)
               /\ \A i \in 1..Len(s) : s[i] \in ks
               /\ Cardinality(ks) <= n => \A k \in ks : \E i \in 1..Len(s) : s[i] = k
               /\ Cardinality(ks) > n =>
                     /\ Len(s) = n
                     /\ \A k \in ks : Weight[k] <= Weight[s[n]] => \E i \in 1..Len(s) : s[i] = k
  <1> DEFINE c == Cardinality(ks)
             m == IF c < n THEN c ELSE n
             s == FirstKeys(ks, n)
  <1>1. c \in Nat /\ \A k \in ks : Weight[k] \in Nat
    BY WeightOK, FS_Subset, FS_CardinalityType
  <1>2. m \in Nat /\ m <= c
    BY <1>1
  <1>3. s = [i \in 1..m |-> CHOOSE k \in ks : Rank(ks, k) = i]
    BY DEF FirstKeys
  <1>4. \A i \in 1..m : i \in 1..c
    BY <1>1, <1>2
  <1>5. ASSUME NEW i \in 1..m PROVE s[i] \in ks /\ Rank(ks, s[i]) = i
    <2>1. \E k \in ks : Rank(ks, k) = i
      BY <1>4, KeyOfRank DEF c
    <2>2. s[i] = CHOOSE k \in ks : Rank(ks, k) = i
      BY <1>3
    <2> QED
      BY <2>1, <2>2
  <1>6. s \in Seq(Keys) /\ Len(s) = m
    <2>1. s \in [1..m -> Keys]
      BY <1>3, <1>5
    <2> QED
      BY <1>2, <2>1
  <1>7. \A k \in ks : Rank(ks, k) \in Nat
    BY <1>1, RankOK
  <1>8. ASSUME NEW i \in 1..m, NEW j \in 1..m, i < j PROVE Weight[s[i]] < Weight[s[j]]
    <2>1. s[i] \in ks /\ s[j] \in ks /\ Rank(ks, s[i]) = i /\ Rank(ks, s[j]) = j
      BY <1>5
    <2>2. Weight[s[j]] < Weight[s[i]] => Rank(ks, s[j]) < Rank(ks, s[i])
      BY <2>1, RankOK
    <2>3. Weight[s[i]] \in Nat /\ Weight[s[j]] \in Nat
      BY <1>1, <2>1
    <2>4. Weight[s[i]] # Weight[s[j]]
      <3>1. s[i] # s[j]
        BY <1>2, <1>8, <2>1
      <3> QED
        BY <2>1, <3>1 DEF Distinct
    <2>5. ~(Weight[s[j]] < Weight[s[i]])
      BY <1>2, <1>8, <2>1, <2>2
    <2> HIDE DEF s
    <2> QED
      BY <2>3, <2>4, <2>5
  <1>9. ASSUME NEW k \in ks, Rank(ks, k) \in 1..m PROVE \E i \in 1..m : s[i] = k
    <2> DEFINE i == Rank(ks, k)
    <2>1. s[i] \in ks /\ Rank(ks, s[i]) = Rank(ks, k)
      BY <1>5, <1>9
    <2>2. /\ Weight[s[i]] < Weight[k] => Rank(ks, s[i]) < Rank(ks, k)
          /\ Weight[k] < Weight[s[i]] => Rank(ks, k) < Rank(ks, s[i])
      BY <2>1, RankOK
    <2>3. Weight[s[i]] \in Nat /\ Weight[k] \in Nat /\ Rank(ks, k) \in Nat
      BY <1>1, <1>7, <2>1
    <2>4. ~(Weight[s[i]] < Weight[k]) /\ ~(Weight[k] < Weight[s[i]])
      BY <2>1, <2>2, <2>3
    <2>5. s[i] = k
      <3>1. Weight[s[i]] = Weight[k]
        BY <2>3, <2>4
      <3> QED
        BY <2>1, <3>1 DEF Distinct
    <2> QED
      BY <1>9, <2>5
  <1> HIDE DEF s
  <1>10. c <= n => \A k \in ks : \E i \in 1..m : s[i] = k
    <2> SUFFICES ASSUME c <= n, NEW k \in ks PROVE \E i \in 1..m : s[i] = k
      OBVIOUS
    <2>1. m = c
      BY <1>1
    <2>2. Rank(ks, k) \in 1..c
      BY RankOK
    <2> QED
      BY <1>9, <2>1, <2>2
  <1>11. c > n => m = n /\ \A k \in ks : Weight[k] <= Weight[s[n]] => \E i \in 1..m : s[i] = k
    <2> SUFFICES ASSUME c > n
                 PROVE  m = n /\ \A k \in ks : Weight[k] <= Weight[s[n]] => \E i \in 1..m : s[i] = k
      OBVIOUS
    <2>1. m = n /\ n \in 1..m
      BY <1>1
    <2>2. s[n] \in ks /\ Rank(ks, s[n]) = n
      BY <1>5, <2>1
    <2>3. ASSUME NEW k \in ks, Weight[k] <= Weight[s[n]] PROVE \E i \in 1..m : s[i] = k
      <3>1. Weight[k] < Weight[s[n]] => Rank(ks, k) < n
        BY <2>2, RankOK
      <3>2. Rank(ks, k) \in 1..c
        BY RankOK
      <3>3. Rank(ks, k) <= n
        <4>1. Weight[k] \in Nat /\ Weight[s[n]] \in Nat /\ Rank(ks, k) \in Nat
          BY <1>1, <1>7, <2>2
        <4>2. CASE Weight[k] < Weight[s[n]]
          BY <3>1, <4>1, <4>2
        <4>3. CASE Weight[k] = Weight[s[n]]
          <5>1. k = s[n]
            BY <2>2, <4>3 DEF Distinct
          <5> QED
            BY <2>2, <5>1
        <4> QED
          BY <2>3, <4>1, <4>2, <4>3
      <3>4. Rank(ks, k) \in 1..m
        BY <2>1, <3>2, <3>3
      <3> QED
        BY <1>9, <3>4
    <2> QED
      BY <2>1, <2>3
  <1> HIDE DEF m, c
  <1>12. Increasing(s) /\ \A i \in 1..Len(s) : s[i] \in ks
    BY <1>5, <1>6, <1>8 DEF Increasing
  <1> QED
    BY <1>6, <1>10, <1>11, <1>12 DEF s, c

(***************************************************************************)
(* The steps of requests on buckets: what each does to its request, and    *)
(* that it keeps the types                                                 *)
(***************************************************************************)

\* A request that moves on to another step, perhaps with a bucket's id or with
\* the row it found.
Move(t, p) ==
    /\ Rest(t) /\ p \in Pcs \ {"idle"}
    /\ req'[t].pc = p /\ Ident(req'[t], req[t])

LEMMA MoveKeepsShapes ==
    ASSUME TInv, NEW t \in Threads, NEW p, Move(t, p), req[t].pc # "idle", Fits(p, req'[t])
    PROVE  req' \in [Threads -> Requests] /\ \A q \in Threads : Shape(req[q])'
  <1>1. Shape(req'[t])
    <2> DEFINE r == req[t]
               u == req'[t]
    <2>1. Fits(p, u) /\ Parts(r) /\ u.pc = p /\ p # "idle" /\ Ident(u, r)
      BY DEF TInv, Move, Shape
    <2> HIDE DEF r, u
    <2>2. Shape(u)
      BY <2>1 DEF Shape, Parts, Ident
    <2> QED
      BY <2>2 DEF u
  <1> QED
    BY <1>1, ShapesKept DEF Move, Rest

\* Steps that no request takes just after the look-up of its bucket.
LatePcs == {"cacheBucket", "created", "uncache", "cacheAll", "fill", "update", "evict",
            "upsert", "record", "listed", "create", "bucket", "listBuckets"}

\* The step that follows the look-up of the bucket.
LEMMA AfterBucketFits ==
    ASSUME NEW r, Fits("bucket", r), Parts(r), NEW u, Ident(u, r), u.bid \in Ids, u.row = None
    PROVE  /\ AfterBucket(r) \in Pcs
           /\ AfterBucket(r) # "idle" => Fits(AfterBucket(r), u)
           /\ AfterBucket(r) = "idle" <=> r.op = "getBucket"
           /\ AfterBucket(r) \notin LatePcs
           /\ AfterBucket(r) = "insert" => r.ikey = None
  BY DEF Fits, Parts, Ident, AfterBucket, Pcs, BucketOps, ObjectPcs, PutPcs, LatePcs

\* GetBucket ends the request, or gives it an id and moves it on.
LookedUp(t) ==
    LET n == req[t].name
    IN  \/ Jump(t, "idle")
        \/ /\ bucketCache[n] # NoId
           /\ Move(t, AfterBucket(req[t])) /\ SameListing(req'[t], req[t])
           /\ req'[t].bid = bucketCache[n] /\ req'[t].row = None /\ req'[t].found = req[t].found
        \/ /\ bucketCache[n] = NoId
           /\ Move(t, "cacheBucket") /\ SameListing(req'[t], req[t])
           /\ req'[t].row = None
           /\ \E m \in BucketRows(n) :
                 req'[t].bid = buckets[m] /\ req'[t].found = BucketRead(n, m)

\* The row of a bucket that was asked for by name n.
LEMMA RowFound ==
    ASSUME TInv, NEW n \in Names, NEW m \in BucketRows(n)
    PROVE  /\ m \in Names /\ m \in Spellings(n) /\ buckets[m] \in Ids
           /\ BucketRead(n, m) \in [Names -> Ids \cup {NoId}]
           /\ BucketRead(n, m)[m] = buckets[m]
           /\ \A l \in Names : l # m => BucketRead(n, m)[l] = NoId
  <1>1. m \in Names /\ m \in Spellings(n) /\ buckets[m] # NoId
    BY DEF BucketRows, Spellings
  <1>2. buckets[m] \in Ids
    BY <1>1 DEF TInv, TableTypes
  <1> QED
    BY <1>1, <1>2 DEF BucketRead, NoBuckets

LEMMA LookUpBucketTypes ==
    ASSUME TInv, NEW t \in Threads, LookUpBucket(t)
    PROVE  /\ TInv' /\ LookedUp(t) /\ AfterBucket(req[t]) \notin LatePcs
           /\ AfterBucket(req[t]) = "insert" => req[t].ikey = None
  <1> DEFINE r == req[t]
             n == r.name
  <1>1. r.pc = "bucket" /\ UNCHANGED <<tableVars, bucketCache, redisVars, calls, history>>
    BY DEF LookUpBucket
  <1>2. r \in Requests /\ Fits("bucket", r) /\ Parts(r) /\ req \in [Threads -> Requests]
    BY <1>1, RequestFacts
  <1>3. n \in Names /\ r.row = None
    BY <1>2 DEF Fits, Parts, BucketOps
  <1>4. bucketCache[n] \in Ids \cup {NoId}
    BY <1>3 DEF TInv, TableTypes
  <1>5. /\ AfterBucket(r) \in Pcs /\ (AfterBucket(r) = "idle" <=> r.op = "getBucket")
        /\ AfterBucket(r) \notin LatePcs /\ (AfterBucket(r) = "insert" => r.ikey = None)
    <2> DEFINE w == [r EXCEPT !.bid = 1]
    <2>1. Ident(w, r) /\ w.bid \in Ids /\ w.row = None
      BY <1>2, <1>3, IdsOK DEF Requests, Ident
    <2> HIDE DEF w, r
    <2> QED
      BY <1>2, <2>1, AfterBucketFits
  <1>6. \/ End(t)
        \/ /\ bucketCache[n] # NoId /\ r.op # "getBucket"
           /\ req' = [req EXCEPT ![t] = [@ EXCEPT !.bid = bucketCache[n], !.pc = AfterBucket(r)]]
        \/ /\ bucketCache[n] = NoId
           /\ \E m \in BucketRows(n) :
                 req' = [req EXCEPT ![t].bid = buckets[m],
                                    ![t].found = BucketRead(n, m),
                                    ![t].pc = "cacheBucket"]
    BY DEF LookUpBucket, End, Goto
  <1>7. CASE End(t)
    BY <1>1, <1>2, <1>5, <1>7, EndJumps, EndKeepsShapes, QuietTypes DEF LookedUp
  <1>8. CASE /\ bucketCache[n] # NoId /\ r.op # "getBucket"
             /\ req' = [req EXCEPT ![t] = [@ EXCEPT !.bid = bucketCache[n], !.pc = AfterBucket(r)]]
    <2> DEFINE p == AfterBucket(r)
               id == bucketCache[n]
               u == [r EXCEPT !.bid = id, !.pc = p]
    <2>1. req' = [req EXCEPT ![t] = u]
      BY <1>8
    <2>2. p \in Pcs \ {"idle"} /\ id \in Ids
      BY <1>4, <1>5, <1>8
    <2>3. p = AfterBucket(r) /\ id = bucketCache[n]
      OBVIOUS
    <2> HIDE DEF p, id, n, r
    <2>4. /\ u \in Requests /\ u.pc = p /\ Ident(u, r) /\ SameListing(u, r)
          /\ u.bid = id /\ u.row = r.row /\ u.found = r.found
      BY <1>2, <2>2 DEF Requests, Ident, SameListing
    <2> HIDE DEF u
    <2>5. Rest(t) /\ req'[t] = u
      BY <1>2, <2>1, <2>4 DEF Rest
    <2>6. Move(t, p)
      BY <2>2, <2>4, <2>5 DEF Move, r
    <2>7. Fits(p, u)
      BY <1>2, <1>3, <2>2, <2>3, <2>4, AfterBucketFits
    <2>8. TInv'
      BY <1>1, <2>5, <2>6, <2>7, MoveKeepsShapes, QuietTypes DEF r
    <2>9. SameListing(req'[t], req[t]) /\ req'[t].bid = id /\ req'[t].row = None
          /\ req'[t].found = req[t].found
      BY <1>3, <2>4, <2>5 DEF r
    <2> QED
      BY <1>5, <1>8, <2>3, <2>6, <2>8, <2>9 DEF LookedUp, r, n, id
  <1>9. CASE /\ bucketCache[n] = NoId
             /\ \E m \in BucketRows(n) :
                   req' = [req EXCEPT ![t].bid = buckets[m],
                                      ![t].found = BucketRead(n, m),
                                      ![t].pc = "cacheBucket"]
    <2>0. PICK m \in BucketRows(n) :
                   req' = [req EXCEPT ![t].bid = buckets[m],
                                      ![t].found = BucketRead(n, m),
                                      ![t].pc = "cacheBucket"]
      BY <1>9
    <2> DEFINE id == buckets[m]
               f == BucketRead(n, m)
               u == [r EXCEPT !.bid = id, !.found = f, !.pc = "cacheBucket"]
    <2>1. req' = [req EXCEPT ![t] = u]
      BY <1>2, <2>0
    <2>2. id \in Ids /\ f \in [Names -> Ids \cup {NoId}] /\ "cacheBucket" \in Pcs \ {"idle"}
      BY <1>3, RowFound DEF Pcs
    <2>3. id = buckets[m] /\ f = BucketRead(n, m)
      OBVIOUS
    <2> HIDE DEF id, f, n, r
    <2>4. /\ u \in Requests /\ u.pc = "cacheBucket" /\ Ident(u, r) /\ SameListing(u, r)
          /\ u.bid = id /\ u.row = r.row /\ u.found = f
      <3>1. u.pc = "cacheBucket" /\ u.bid = id /\ u.row = r.row /\ u.found = f
        BY <1>2 DEF Requests
      <3>2. u \in Requests
        BY <1>2, <2>2 DEF Requests
      <3>3. Ident(u, r) /\ SameListing(u, r)
        BY <1>2 DEF Requests, Ident, SameListing
      <3> QED
        BY <3>1, <3>2, <3>3
    <2> HIDE DEF u
    <2>5. Rest(t) /\ req'[t] = u
      BY <1>2, <2>1, <2>4 DEF Rest
    <2>6. Move(t, "cacheBucket")
      BY <2>2, <2>4, <2>5 DEF Move, r
    <2>7. Fits("cacheBucket", u)
      BY <1>2, <1>3, <2>2, <2>4 DEF Fits, Ident, ObjectPcs, PutPcs
    <2>8. TInv'
      BY <1>1, <2>5, <2>6, <2>7, MoveKeepsShapes, QuietTypes DEF r
    <2>9. SameListing(req'[t], req[t]) /\ req'[t].bid = buckets[m] /\ req'[t].row = None
          /\ req'[t].found = BucketRead(n, m)
      BY <1>3, <2>3, <2>4, <2>5 DEF r
    <2> QED
      BY <1>5, <1>9, <2>6, <2>8, <2>9 DEF LookedUp, r, n
  <1> QED
    BY <1>6, <1>7, <1>8, <1>9

LEMMA StoreBucketTypes ==
    ASSUME TInv, NEW n \in Names, NEW id \in Ids \cup {NoId}, StoreBucket(n, id),
           req' \in [Threads -> Requests], \A q \in Threads : Shape(req[q])'
    PROVE  TInv'
  <1>1. bucketCache' \in [Names -> Ids \cup {NoId}]
        /\ UNCHANGED <<tableVars, redisVars, calls, history>>
    BY DEF StoreBucket, TInv, TableTypes
  <1>2. UNCHANGED <<buckets, nextId, objects, idem>>
    BY <1>1 DEF tableVars
  <1> QED
    BY <1>1, <1>2, SameTypes DEF TInv, TableTypes

LEMMA StoreFoundTypes ==
    ASSUME TInv, NEW t \in Threads, req[t].pc # "idle", StoreFound(t),
           req' \in [Threads -> Requests], \A q \in Threads : Shape(req[q])'
    PROVE  TInv'
  <1>1. req[t].found \in [Names -> Ids \cup {NoId}]
    BY RequestFacts DEF Requests
  <1>2. bucketCache' \in [Names -> Ids \cup {NoId}]
        /\ UNCHANGED <<tableVars, redisVars, calls, history>>
    BY <1>1 DEF StoreFound, TInv, TableTypes
  <1>3. UNCHANGED <<buckets, nextId, objects, idem>>
    BY <1>2 DEF tableVars
  <1> QED
    BY <1>2, <1>3, SameTypes DEF TInv, TableTypes

LEMMA CacheBucketTypes ==
    ASSUME TInv, NEW t \in Threads, CacheBucket(t)
    PROVE  /\ TInv' /\ Jump(t, AfterBucket(req[t]))
           /\ AfterBucket(req[t]) \notin LatePcs
           /\ AfterBucket(req[t]) = "insert" => req[t].ikey = None
           /\ AfterBucket(req[t]) = "idle" <=> req[t].op = "getBucket"
  <1> DEFINE r == req[t]
  <1>1. r.pc = "cacheBucket" /\ StoreFound(t) /\ Goto(t, AfterBucket(r))
    BY DEF CacheBucket
  <1>2. r \in Requests /\ Fits("cacheBucket", r) /\ Parts(r) /\ req \in [Threads -> Requests]
    BY <1>1, RequestFacts
  <1>3. r.name \in Names /\ r.bid \in Ids /\ r.row = None /\ Fits("bucket", r) /\ Ident(r, r)
    BY <1>2 DEF Fits, Parts, BucketOps, ObjectPcs, PutPcs, Ident
  <1>4. /\ AfterBucket(r) \in Pcs
        /\ AfterBucket(r) # "idle" => Fits(AfterBucket(r), r)
        /\ AfterBucket(r) = "idle" <=> r.op = "getBucket"
        /\ AfterBucket(r) \notin LatePcs
        /\ AfterBucket(r) = "insert" => r.ikey = None
    <2> HIDE DEF r
    <2> QED
      BY <1>2, <1>3, AfterBucketFits
  <1>5. Jump(t, AfterBucket(r))
    BY <1>1, <1>2, <1>4, GotoJumps
  <1>6. TInv'
    BY <1>1, <1>3, <1>4, <1>5, JumpKeepsShapes, StoreFoundTypes
  <1> QED
    BY <1>4, <1>5, <1>6

LEMMA CacheCreatedTypes ==
    ASSUME TInv, NEW t \in Threads, CacheCreated(t) \/ UncacheBucket(t)
    PROVE  TInv' /\ Jump(t, "idle")
  <1>1. /\ End(t) /\ req[t].pc # "idle" /\ req[t].name \in Names
        /\ req \in [Threads -> Requests]
    BY RequestFacts DEF CacheCreated, UncacheBucket, Fits, Parts
  <1>2. PICK id \in Ids \cup {NoId} : StoreBucket(req[t].name, id)
    BY RequestFacts DEF CacheCreated, UncacheBucket, Fits, Requests
  <1>3. TInv'
    BY <1>1, <1>2, EndKeepsShapes, StoreBucketTypes
  <1> QED
    BY <1>1, <1>3, EndJumps

\* CreateBucket ends the request, or gives it the new bucket's id.
Created(t) ==
    LET n == req[t].name
    IN  \/ Jump(t, "idle") /\ UNCHANGED <<buckets, nextId, faults, raced>>
        \/ /\ nextId \in Ids /\ BucketRows(n) = {} /\ buckets[n] = NoId
           /\ buckets' = [buckets EXCEPT ![n] = nextId]
           /\ nextId' = nextId + 1
           /\ raced' = raced \cup RaceOnBucket(t, n)
           /\ \/ /\ Move(t, "created") /\ SameListing(req'[t], req[t])
                 /\ req'[t].bid = nextId /\ req'[t].row = None /\ req'[t].found = req[t].found
              \/ Jump(t, "idle")

\* The unique indexes: rows that go, and a row whose name no row has.
LEMMA RowsGo ==
    ASSUME TInv, \A m \in Names : buckets'[m] # NoId => buckets[m] # NoId,
           \A o \in Objects : objects'[o] # None => objects[o] # None
    PROVE  UniqueRows'
  <1>1. \A n \in Names : BucketRows(n)' \subseteq BucketRows(n)
    BY DEF BucketRows, Spellings
  <1>2. \A o \in Objects : Conflicts(o)' \subseteq Conflicts(o)
    BY DEF Conflicts
  <1> QED
    BY <1>1, <1>2 DEF TInv, RowRules, UniqueRows

LEMMA NewBucketRow ==
    ASSUME TInv, NEW n \in Names, BucketRows(n) = {}, UNCHANGED objects,
           \A m \in Names : m # n => buckets'[m] = buckets[m]
    PROVE  UniqueRows'
  <1>1. ASSUME NEW x \in Names, NEW l \in BucketRows(x)', NEW m \in BucketRows(x)'
        PROVE  l = m
    <2>1. l \in Names /\ m \in Names /\ Fold[l] = Fold[x] /\ Fold[m] = Fold[x]
      BY DEF BucketRows, Spellings
    <2>2. CASE l = n \/ m = n
      <3>1. \A y \in {l, m} : y # n => y \in BucketRows(n)
        BY <2>1, <2>2 DEF BucketRows, Spellings
      <3> QED
        BY <2>2, <3>1
    <2>3. CASE l # n /\ m # n
      <3>1. l \in BucketRows(x) /\ m \in BucketRows(x)
        BY <2>3 DEF BucketRows, Spellings
      <3> QED
        BY <3>1 DEF TInv, RowRules, UniqueRows
    <2> QED
      BY <2>2, <2>3
  <1>2. \A o \in Objects : Conflicts(o)' = Conflicts(o)
    BY DEF Conflicts
  <1> QED
    BY <1>1, <1>2 DEF TInv, RowRules, UniqueRows

LEMMA InsertBucketTypes ==
    ASSUME TInv, NEW t \in Threads, InsertBucket(t)
    PROVE  TInv' /\ Created(t)
  <1> DEFINE r == req[t]
             n == r.name
  <1>1. /\ r.pc = "create"
        /\ UNCHANGED <<objects, idem, bucketCache, entries, connected, unread,
                       delayed, calls, committed, removed, executed, torn, shaky>>
    BY DEF InsertBucket
  <1>2. r \in Requests /\ Fits("create", r) /\ Parts(r) /\ req \in [Threads -> Requests]
    BY <1>1, RequestFacts
  <1>3. n \in Names /\ r.row = None
    BY <1>2 DEF Fits, Parts
  <1>4. CASE BucketRows(n) # {}
    <2>1. End(t) /\ UNCHANGED <<buckets, nextId, faults, raced>>
      BY <1>4 DEF InsertBucket
    <2>2. Jump(t, "idle")
      BY <1>2, <2>1, EndJumps
    <2>3. TInv'
      BY <1>1, <2>1, EndKeepsShapes, QuietTypes DEF tableVars, redisVars, history
    <2> QED
      BY <2>1, <2>2, <2>3 DEF Created
  <1>5. CASE BucketRows(n) = {}
    <2>0. buckets[n] = NoId
      BY <1>3, <1>5 DEF BucketRows, Spellings
    <2>1. /\ nextId <= MaxBuckets
          /\ buckets' = [buckets EXCEPT ![n] = nextId]
          /\ nextId' = nextId + 1
          /\ raced' = raced \cup RaceOnBucket(t, n)
          /\ \/ req' = [req EXCEPT ![t].pc = "created", ![t].bid = nextId] /\ UNCHANGED faults
             \/ Fault /\ End(t)
      BY <1>5 DEF InsertBucket
    <2>2. nextId \in Ids /\ nextId' \in Nat \ {0}
      BY <2>1, MetadataAssumption DEF Ids, TInv, TableTypes
    <2>3. buckets' \in [Names -> Ids \cup {NoId}]
      BY <1>3, <2>1, <2>2 DEF TInv, TableTypes
    <2>4. TableTypes'
      BY <1>1, <2>2, <2>3 DEF TInv, TableTypes
    <2>5. RowRules'
      <3>6. UniqueRows'
        BY <1>1, <1>3, <1>5, <2>1, NewBucketRow DEF TInv, TableTypes
      <3> SUFFICES ASSUME NEW o \in Objects, objects[o] # None
                   PROVE  \E m \in Names : buckets'[m] = o[1]
        BY <1>1, <3>6 DEF RowRules
      <3>1. PICK m \in Names : buckets[m] = o[1]
        BY DEF TInv, RowRules
      <3>2. o[1] \in Ids
        BY DEF Objects
      <3>3. m # n
        BY <2>0, <3>1, <3>2, IdsOK
      <3>4. buckets'[m] = o[1]
        BY <1>3, <2>1, <3>1, <3>3 DEF TInv, TableTypes
      <3> QED
        BY <3>4
    <2>6. HistoryTypes'
      BY <1>1, <1>3, <2>1 DEF TInv, HistoryTypes, RaceOnBucket
    <2>7. CASE req' = [req EXCEPT ![t].pc = "created", ![t].bid = nextId] /\ UNCHANGED faults
      <3> DEFINE u == [r EXCEPT !.pc = "created", !.bid = nextId]
      <3>1. req' = [req EXCEPT ![t] = u]
        BY <1>2, <2>7
      <3> HIDE DEF r
      <3>2. /\ u \in Requests /\ u.pc = "created" /\ Ident(u, r) /\ SameListing(u, r)
            /\ u.bid = nextId /\ u.row = r.row /\ u.found = r.found
        <4>1. /\ u.pc = "created"
              /\ u.bid = nextId /\ u.row = r.row /\ u.found = r.found
          BY <1>2 DEF Requests
        <4>4. "created" \in Pcs
          BY DEF Pcs
        <4>5. u \in Requests
          BY <1>2, <2>2, <4>4 DEF Requests
        <4>2. Ident(u, r)
          BY <1>2 DEF Requests, Ident
        <4>3. SameListing(u, r)
          BY <1>2 DEF Requests, SameListing
        <4> QED
          BY <4>1, <4>2, <4>3, <4>5
      <3> HIDE DEF u
      <3>3. Rest(t) /\ req'[t] = u
        BY <1>2, <3>1, <3>2 DEF Rest
      <3>4. Move(t, "created")
        BY <3>2, <3>3 DEF Move, r, Pcs
      <3>5. Fits("created", u)
        BY <1>2, <1>3, <2>2, <3>2 DEF Fits, Ident, ObjectPcs, PutPcs
      <3>6. req' \in [Threads -> Requests] /\ \A q \in Threads : Shape(req[q])'
        BY <1>1, <3>3, <3>4, <3>5, MoveKeepsShapes DEF r
      <3>7. RedisInv'
        BY <1>1, <2>7, SameTypes DEF redisVars
      <3>8. TInv'
        BY <2>4, <2>5, <2>6, <3>6, <3>7 DEF TInv
      <3> QED
        BY <1>3, <1>5, <2>0, <2>1, <2>2, <3>2, <3>3, <3>4, <3>8 DEF Created, r, n
    <2>8. CASE Fault /\ End(t)
      <3>1. RedisInv'
        <4>1. faults' \in 0..MaxFaults
          BY <2>8, FaultOK DEF TInv, RedisInv
        <4> QED
          BY <1>1, <4>1 DEF TInv, RedisInv, RedisTypeOK
      <3>2. TInv'
        BY <1>1, <2>4, <2>5, <2>6, <2>8, <3>1, EndKeepsShapes DEF TInv
      <3>3. Jump(t, "idle")
        BY <1>2, <2>8, EndJumps
      <3> QED
        BY <1>5, <2>0, <2>1, <2>2, <3>2, <3>3 DEF Created, r, n
    <2> QED
      BY <2>1, <2>7, <2>8
  <1> QED
    BY <1>4, <1>5

LEMMA CheckEmptyTypes ==
    ASSUME TInv, NEW t \in Threads, CheckEmpty(t)
    PROVE  TInv' /\ (Jump(t, "idle") \/ Jump(t, "drop"))
  <1>1. req[t].pc = "empty" /\ UNCHANGED <<tableVars, bucketCache, redisVars, calls, history>>
    BY DEF CheckEmpty
  <1>2. Fits("empty", req[t]) /\ req \in [Threads -> Requests]
    BY <1>1, RequestFacts
  <1>3. CASE End(t)
    BY <1>1, <1>2, <1>3, EndJumps, EndKeepsShapes, QuietTypes
  <1>4. CASE Goto(t, "drop")
    <2>1. Jump(t, "drop")
      BY <1>2, <1>4, GotoJumps DEF Pcs
    <2>2. Fits("drop", req[t])
      BY <1>2 DEF Fits, ObjectPcs, PutPcs
    <2> QED
      BY <1>1, <2>1, <2>2, JumpKeepsShapes, QuietTypes
  <1> QED
    BY <1>3, <1>4 DEF CheckEmpty

\* DeleteBucket's DELETE: the bucket and its objects go.
Gone(n) == {o \in Objects : o[1] = buckets[n] /\ objects[o] # None}

Untrue(gone) == {o \in Objects : Equal(o) \cap gone # {}}

DroppedRow(t, m) ==
    /\ buckets[m] # NoId
    /\ buckets' = [buckets EXCEPT ![m] = NoId]
    /\ objects' = [o \in Objects |-> IF o \in Gone(m) THEN None ELSE objects[o]]
    /\ removed' = RemovedWith(Gone(m))
    /\ torn' = torn \cup Untrue(Gone(m))
    /\ \/ /\ Jump(t, "uncache")
          /\ raced' = raced \cup RaceOnBucket(t, m) \cup ({m} \ {req[t].name})
       \/ Jump(t, "idle") /\ raced' = raced \cup {m}

Dropped(t) ==
    \/ Jump(t, "idle") /\ UNCHANGED <<buckets, objects, faults, removed, torn, raced>>
    \/ \E m \in BucketRows(req[t].name) : DroppedRow(t, m)

LEMMA DropBucketTypes ==
    ASSUME TInv, NEW t \in Threads, DropBucket(t)
    PROVE  TInv' /\ Dropped(t)
  <1> DEFINE r == req[t]
             n == r.name
  <1>1. /\ r.pc = "drop"
        /\ UNCHANGED <<nextId, idem, bucketCache, entries, connected, unread,
                       delayed, calls, committed, executed, shaky>>
    BY DEF DropBucket
  <1>2. r \in Requests /\ Fits("drop", r) /\ Parts(r) /\ req \in [Threads -> Requests]
    BY <1>1, RequestFacts
  <1>3. n \in Names
    BY <1>2 DEF Fits, Parts
  <1>4. CASE BucketRows(n) = {} /\ End(t) /\ UNCHANGED <<buckets, objects, faults, removed, torn, raced>>
    <2>1. End(t) /\ UNCHANGED <<buckets, objects, faults, removed, torn, raced>>
      BY <1>4
    <2>2. TInv'
      BY <1>1, <2>1, EndKeepsShapes, QuietTypes DEF tableVars, redisVars, history
    <2> QED
      BY <1>2, <2>1, <2>2, EndJumps DEF Dropped
  <1>5. ASSUME NEW m \in BucketRows(n), BucketDropped(t, n, m)
        PROVE  TInv' /\ DroppedRow(t, m)
    <2> DEFINE gone == Gone(m)
    <2>0. m \in Names /\ buckets[m] # NoId
      BY <1>3, <1>5 DEF BucketRows, Spellings
    <2>1. /\ buckets' = [buckets EXCEPT ![m] = NoId]
          /\ objects' = [o \in Objects |-> IF o \in gone THEN None ELSE objects[o]]
          /\ removed' = RemovedWith(gone)
          /\ torn' = torn \cup Untrue(gone)
          /\ \/ /\ Goto(t, "uncache") /\ UNCHANGED faults
                /\ raced' = raced \cup RaceOnBucket(t, m) \cup ({m} \ {n})
             \/ Fault /\ End(t) /\ raced' = raced \cup {m}
      BY <1>5 DEF BucketDropped, Gone, Untrue
    <2>2. gone \subseteq Objects /\ Untrue(gone) \subseteq Objects
      BY DEF Gone, Untrue
    <2>3. TableTypes'
      <3>1. objects' \in [Objects -> Content \cup {None}]
        BY <2>1 DEF TInv, TableTypes
      <3>2. buckets' \in [Names -> Ids \cup {NoId}]
        BY <2>0, <2>1 DEF TInv, TableTypes
      <3> QED
        BY <1>1, <3>1, <3>2 DEF TInv, TableTypes
    <2>4. RowRules'
      <3>5. UniqueRows'
        <4>1. \A l \in Names : buckets'[l] # NoId => buckets[l] # NoId
          BY <2>0, <2>1 DEF TInv, TableTypes
        <4>2. \A o \in Objects : objects'[o] # None => objects[o] # None
          BY <2>1
        <4> QED
          BY <4>1, <4>2, RowsGo
      <3> SUFFICES ASSUME NEW o \in Objects, objects'[o] # None
                   PROVE  \E l \in Names : buckets'[l] = o[1]
        BY <3>5 DEF RowRules
      <3>1. o \notin gone /\ objects[o] # None
        BY <2>1
      <3>2. PICK l \in Names : buckets[l] = o[1]
        BY <3>1 DEF TInv, RowRules
      <3>3. l # m
        BY <3>1, <3>2 DEF Gone
      <3>4. buckets'[l] = o[1]
        BY <2>0, <2>1, <3>2, <3>3 DEF TInv, TableTypes
      <3> QED
        BY <3>4
    <2>5. HistoryTypes'
      BY <1>1, <2>0, <2>1, <2>2 DEF TInv, HistoryTypes, RaceOnBucket, RemovedWith
    <2>6. CASE /\ Goto(t, "uncache") /\ UNCHANGED faults
               /\ raced' = raced \cup RaceOnBucket(t, m) \cup ({m} \ {n})
      <3>1. Jump(t, "uncache")
        BY <1>2, <2>6, GotoJumps DEF Pcs
      <3>2. Fits("uncache", req[t])
        BY <1>2 DEF Fits, ObjectPcs, PutPcs
      <3>3. req' \in [Threads -> Requests] /\ \A q \in Threads : Shape(req[q])'
        BY <1>1, <3>1, <3>2, JumpKeepsShapes
      <3>4. RedisInv'
        BY <1>1, <2>6, SameTypes DEF redisVars
      <3>5. TInv'
        BY <2>3, <2>4, <2>5, <3>3, <3>4 DEF TInv
      <3> QED
        BY <2>0, <2>1, <2>6, <3>1, <3>5 DEF DroppedRow
    <2>7. CASE Fault /\ End(t) /\ raced' = raced \cup {m}
      <3>1. faults' \in 0..MaxFaults
        BY <2>7, FaultOK DEF TInv, RedisInv
      <3>2. RedisInv'
        BY <1>1, <3>1 DEF TInv, RedisInv, RedisTypeOK
      <3>3. TInv'
        BY <1>1, <2>3, <2>4, <2>5, <2>7, <3>2, EndKeepsShapes DEF TInv
      <3> QED
        BY <1>2, <2>0, <2>1, <2>7, <3>3, EndJumps DEF DroppedRow
    <2> QED
      BY <2>1, <2>6, <2>7
  <1> QED
    BY <1>4, <1>5 DEF DropBucket, Dropped

LEMMA ListBucketsTypes ==
    ASSUME TInv, NEW t \in Threads, ListBuckets(t)
    PROVE  /\ TInv' /\ Move(t, "cacheAll") /\ SameListing(req'[t], req[t])
           /\ req'[t].found = buckets /\ req'[t].bid = req[t].bid /\ req'[t].row = req[t].row
  <1> DEFINE r == req[t]
             u == [r EXCEPT !.pc = "cacheAll", !.found = buckets]
  <1>1. r.pc = "listBuckets" /\ UNCHANGED <<tableVars, bucketCache, redisVars, calls, history>>
    BY DEF ListBuckets
  <1>2. r \in Requests /\ Fits("listBuckets", r) /\ Parts(r) /\ req \in [Threads -> Requests]
    BY <1>1, RequestFacts
  <1>3. req' = [req EXCEPT ![t] = u]
    BY <1>2 DEF ListBuckets
  <1>4. buckets \in [Names -> Ids \cup {NoId}]
    BY DEF TInv, TableTypes
  <1> HIDE DEF r
  <1>5. /\ u \in Requests /\ u.pc = "cacheAll" /\ Ident(u, r) /\ SameListing(u, r)
        /\ u.bid = r.bid /\ u.row = r.row /\ u.found = buckets
    <2>1. /\ u.pc = "cacheAll"
          /\ u.bid = r.bid /\ u.row = r.row /\ u.found = buckets
      BY <1>2 DEF Requests
    <2>4. "cacheAll" \in Pcs
      BY DEF Pcs
    <2>5. u \in Requests
      BY <1>2, <1>4, <2>4 DEF Requests
    <2>2. Ident(u, r)
      BY <1>2 DEF Requests, Ident
    <2>3. SameListing(u, r)
      BY <1>2 DEF Requests, SameListing
    <2> QED
      BY <2>1, <2>2, <2>3, <2>5
  <1> HIDE DEF u
  <1>6. Rest(t) /\ req'[t] = u
    BY <1>2, <1>3, <1>5 DEF Rest
  <1>7. Move(t, "cacheAll")
    BY <1>5, <1>6 DEF Move, r, Pcs
  <1>8. Fits("cacheAll", u)
    BY <1>2, <1>5 DEF Fits, Ident, ObjectPcs, PutPcs
  <1>9. TInv'
    BY <1>1, <1>6, <1>7, <1>8, MoveKeepsShapes, QuietTypes DEF r
  <1> QED
    BY <1>5, <1>6, <1>7, <1>9 DEF r

LEMMA CacheAllTypes ==
    ASSUME TInv, NEW t \in Threads, CacheAll(t)
    PROVE  TInv' /\ Jump(t, "idle")
  <1>1. req[t].pc = "cacheAll" /\ StoreFound(t) /\ End(t)
    BY DEF CacheAll
  <1> QED
    BY <1>1, EndKeepsShapes, EndJumps, StoreFoundTypes DEF TInv

(***************************************************************************)
(* The steps of requests on objects                                        *)
(***************************************************************************)

\* A step that ends the request, or only moves it on.
LEMMA JumpTypes ==
    ASSUME TInv, NEW t \in Threads, NEW p \in Pcs, Goto(t, p), req[t].pc # "idle",
           p # "idle" => Fits(p, req[t])
    PROVE  /\ Jump(t, p)
           /\ req' \in [Threads -> Requests] /\ \A q \in Threads : Shape(req[q])'
  BY GotoJumps, JumpKeepsShapes DEF TInv

\* A step that moves the request on with a row.
Rowed(t, p, row) ==
    /\ Move(t, p) /\ SameListing(req'[t], req[t])
    /\ req'[t].bid = req[t].bid /\ req'[t].row = row /\ req'[t].found = req[t].found

LEMMA RowedKeepsShapes ==
    ASSUME TInv, NEW t \in Threads, NEW p \in Pcs \ {"idle"}, NEW row \in Rows,
           req' = [req EXCEPT ![t].pc = p, ![t].row = row],
           req[t].pc \in {"lookup", "select"},
           p \in {"fill", "serve", "remove"}
    PROVE  /\ Rowed(t, p, row)
           /\ req' \in [Threads -> Requests] /\ \A q \in Threads : Shape(req[q])'
  <1> DEFINE r == req[t]
             u == [r EXCEPT !.pc = p, !.row = row]
  <1>1. req[t].pc # "idle" /\ r.pc \in {"lookup", "select"}
    OBVIOUS
  <1>2. r \in Requests /\ Fits(r.pc, r) /\ Parts(r) /\ req \in [Threads -> Requests]
    BY <1>1, RequestFacts
  <1>3. req' = [req EXCEPT ![t] = u]
    BY <1>2
  <1> HIDE DEF r
  <1>4. /\ u \in Requests /\ u.pc = p /\ Ident(u, r) /\ SameListing(u, r)
        /\ u.bid = r.bid /\ u.row = row /\ u.found = r.found
    BY <1>2 DEF Requests, Ident, SameListing
  <1> HIDE DEF u
  <1>5. Rest(t) /\ req'[t] = u
    BY <1>2, <1>3, <1>4 DEF Rest
  <1>6. Move(t, p)
    BY <1>4, <1>5 DEF Move, r
  <1>7. Fits(p, u)
    <2>1. row # None
      BY ConstantsOK DEF Constants
    <2> QED
      BY <1>1, <1>2, <1>4, <2>1 DEF Fits, Ident, ObjectPcs, PutPcs
  <1> QED
    BY <1>1, <1>4, <1>5, <1>6, <1>7, MoveKeepsShapes DEF r, Rowed

LEMMA AfterObjectFits ==
    ASSUME NEW r, r.op \in {"get", "delete"}
    PROVE  AfterObject(r) \in {"serve", "remove"} /\ AfterObject(r) \in Pcs \ {"idle"}
  BY DEF AfterObject, Pcs

\* GetObject's call of Redis.
Looked(t) ==
    LET o == Object(t)
    IN  /\ entries' = entries
        /\ delayed' = delayed \/ delayed' = GetCommand(o)
        /\ \/ entries[o] \in Rows /\ Rowed(t, AfterObject(req[t]), entries[o])
           \/ Jump(t, "evictBad")
           \/ Jump(t, "select")

LEMMA LookUpObjectTypes ==
    ASSUME TInv, NEW t \in Threads, LookUpObject(t)
    PROVE  TInv' /\ Looked(t)
  <1> DEFINE o == Object(t)
             Kept == req' \in [Threads -> Requests] /\ \A q \in Threads : Shape(req[q])'
  <1>1. req[t].pc = "lookup" /\ UNCHANGED <<tableVars, bucketCache, calls, history>>
    BY DEF LookUpObject
  <1>2. Fits("lookup", req[t]) /\ req \in [Threads -> Requests] /\ req[t].pc # "idle"
    BY <1>1, RequestFacts
  <1>3. o \in Objects
    BY <1>1, ObjectFacts DEF ObjectPcs
  <1>4. req[t].op \in {"get", "delete"}
    BY <1>2 DEF Fits, ObjectPcs
  <1>5. Fits("evictBad", req[t]) /\ Fits("select", req[t]) /\ {"evictBad", "select"} \subseteq Pcs
    BY <1>2 DEF Fits, ObjectPcs, PutPcs, Pcs
  <1>6. RedisInv
    BY DEF TInv
  <1>7. ASSUME RedisInv', Kept PROVE TInv'
    BY <1>1, <1>7, SameTypes DEF TInv
  <1> HIDE DEF o
  <1>8. ASSUME NEW row \in Rows, GetReturns(o, row),
               req' = [req EXCEPT ![t].pc = AfterObject(req[t]), ![t].row = row]
        PROVE  TInv' /\ Looked(t)
    <2>1. RedisInv' /\ row = entries[o] /\ UNCHANGED <<entries, delayed, faults>>
      BY <1>3, <1>6, <1>8, GetReturnsOK
    <2>2. Rowed(t, AfterObject(req[t]), row) /\ Kept
      <3> DEFINE p == AfterObject(req[t])
      <3>1. p \in Pcs \ {"idle"} /\ p \in {"fill", "serve", "remove"}
        BY <1>4, AfterObjectFits
      <3>2. req' = [req EXCEPT ![t].pc = p, ![t].row = row]
        BY <1>8
      <3> HIDE DEF p
      <3> QED
        BY <1>1, <3>1, <3>2, RowedKeepsShapes DEF p
    <2> HIDE DEF Kept
    <2> QED
      BY <1>7, <2>1, <2>2 DEF Looked, o
  <1>9. ASSUME NEW p \in {"evictBad", "select"}, Goto(t, p), RedisInv', entries' = entries,
               delayed' = delayed \/ delayed' = GetCommand(o)
        PROVE  TInv' /\ Looked(t)
    <2>1. Jump(t, p) /\ Kept
      BY <1>2, <1>5, <1>9, JumpTypes
    <2> HIDE DEF Kept
    <2> QED
      BY <1>7, <1>9, <2>1 DEF Looked, o
  <1>10. CASE GetReturns(o, Garbage) /\ Goto(t, "evictBad")
    <2>1. RedisInv' /\ UNCHANGED <<entries, delayed, faults>>
      BY <1>3, <1>6, <1>10, GetReturnsOK
    <2> QED
      BY <1>9, <1>10, <2>1
  <1>11. CASE GetReturns(o, None) /\ Goto(t, "select")
    <2>1. RedisInv' /\ UNCHANGED <<entries, delayed, faults>>
      BY <1>3, <1>6, <1>11, GetReturnsOK
    <2> QED
      BY <1>9, <1>11, <2>1
  <1>12. CASE GetFails(o) /\ Goto(t, "select")
    <2>1. RedisInv' /\ entries' = entries /\ (delayed' = delayed \/ delayed' = GetCommand(o))
      BY <1>3, <1>6, <1>12, GetFailsOK
    <2> QED
      BY <1>9, <1>12, <2>1
  <1> HIDE DEF Kept
  <1> QED
    BY <1>8, <1>10, <1>11, <1>12 DEF LookUpObject, o

\* A write of o's entry whose result is ignored: v is written, or will be, or
\* not; unless it was, o is torn.
Written(o, v) ==
    \/ /\ entries' = [entries EXCEPT ![o] = v]
       /\ UNCHANGED <<delayed, torn>>
    \/ /\ torn' = torn \cup {o}
       /\ entries' = entries \/ entries' = [entries EXCEPT ![o] = v]
       /\ delayed' = delayed \/ (delayed'.key = o /\ delayed'.value = v)

LEMMA SetTypes ==
    ASSUME TInv, NEW o \in Objects, NEW v \in Rows,
           \/ SetExOk(o, v) /\ UNCHANGED torn
           \/ SetExFails(o, v) /\ torn' = torn \cup {o}
    PROVE  RedisInv' /\ torn' \subseteq Objects /\ Written(o, v)
  <1> DEFINE c == SetCommand(o, v)
  <1>1. RedisInv /\ torn \subseteq Objects /\ c = SetCommand(o, v)
    BY DEF TInv, HistoryTypes
  <1>2. (Answered(c) /\ UNCHANGED torn) \/ (CallFails(c) /\ torn' = torn \cup {o})
    BY DEF SetExOk, SetExFails
  <1> HIDE DEF c
  <1>3. /\ c \in Commands /\ c.cmd # "get" /\ c.key = o /\ c.value = v
        /\ Executed(c) = [entries EXCEPT ![o] = v]
        /\ Executed(c) \in [Objects -> Rows \cup {Garbage, None}]
    BY <1>1, WriteOK
  <1>4. CASE Answered(c) /\ UNCHANGED torn
    BY <1>1, <1>3, <1>4, AnsweredOK DEF Written
  <1>5. CASE CallFails(c) /\ torn' = torn \cup {o}
    <2>1. /\ RedisInv' /\ (entries' = entries \/ entries' = Executed(c))
          /\ (delayed' = delayed \/ delayed' = c)
      BY <1>1, <1>3, <1>5, CallFailsOK
    <2>2. delayed' = delayed \/ (delayed'.key = o /\ delayed'.value = v)
      BY <1>3, <2>1
    <2> QED
      BY <1>1, <1>3, <1>5, <2>1, <2>2 DEF Written
  <1> QED
    BY <1>2, <1>4, <1>5

LEMMA DelTypes ==
    ASSUME TInv, NEW o \in Objects,
           \/ DelOk(o) /\ UNCHANGED torn
           \/ DelFails(o) /\ torn' = torn \cup {o}
    PROVE  RedisInv' /\ torn' \subseteq Objects /\ Written(o, None)
  <1> DEFINE c == DelCommand(o)
  <1>1. RedisInv /\ torn \subseteq Objects /\ c = DelCommand(o)
    BY DEF TInv, HistoryTypes
  <1>2. (Answered(c) /\ UNCHANGED torn) \/ (CallFails(c) /\ torn' = torn \cup {o})
    BY DEF DelOk, DelFails
  <1> HIDE DEF c
  <1>3. /\ c \in Commands /\ c.cmd # "get" /\ c.key = o /\ c.value = None
        /\ Executed(c) = [entries EXCEPT ![o] = None]
        /\ Executed(c) \in [Objects -> Rows \cup {Garbage, None}]
    BY <1>1, WriteOK
  <1>4. CASE Answered(c) /\ UNCHANGED torn
    BY <1>1, <1>3, <1>4, AnsweredOK DEF Written
  <1>5. CASE CallFails(c) /\ torn' = torn \cup {o}
    <2>1. /\ RedisInv' /\ (entries' = entries \/ entries' = Executed(c))
          /\ (delayed' = delayed \/ delayed' = c)
      BY <1>1, <1>3, <1>5, CallFailsOK
    <2> QED
      BY <1>1, <1>3, <1>5, <2>1 DEF Written
  <1> QED
    BY <1>2, <1>4, <1>5

LEMMA EvictBadTypes ==
    ASSUME TInv, NEW t \in Threads, EvictBad(t)
    PROVE  TInv' /\ Jump(t, "select") /\ Written(Object(t), None)
  <1>1. req[t].pc = "evictBad" /\ Goto(t, "select")
        /\ UNCHANGED <<tableVars, bucketCache, calls, committed, removed, executed, raced, shaky>>
    BY DEF EvictBad
  <1>2. Fits("evictBad", req[t]) /\ req[t].pc # "idle"
    BY <1>1, RequestFacts
  <1>3. Object(t) \in Objects
    BY <1>1, ObjectFacts DEF ObjectPcs
  <1>4. RedisInv' /\ torn' \subseteq Objects /\ Written(Object(t), None)
    BY <1>3, DelTypes DEF EvictBad
  <1>5. Fits("select", req[t]) /\ "select" \in Pcs
    BY <1>2 DEF Fits, ObjectPcs, PutPcs, Pcs
  <1>6. Jump(t, "select") /\ req' \in [Threads -> Requests] /\ \A q \in Threads : Shape(req[q])'
    BY <1>1, <1>2, <1>5, JumpTypes
  <1> QED
    BY <1>1, <1>4, <1>6, CallTypes

LEMMA EvictObjectTypes ==
    ASSUME TInv, NEW t \in Threads, EvictObject(t)
    PROVE  TInv' /\ Jump(t, "idle") /\ Written(Object(t), None)
  <1>1. req[t].pc = "evict" /\ End(t)
        /\ UNCHANGED <<tableVars, bucketCache, calls, committed, removed, executed, raced, shaky>>
    BY DEF EvictObject
  <1>2. req[t].pc # "idle" /\ req \in [Threads -> Requests]
    BY <1>1, RequestFacts
  <1>3. Object(t) \in Objects
    BY <1>1, ObjectFacts DEF ObjectPcs
  <1>4. RedisInv' /\ torn' \subseteq Objects /\ Written(Object(t), None)
    BY <1>3, DelTypes DEF EvictObject
  <1>6. Jump(t, "idle") /\ req' \in [Threads -> Requests] /\ \A q \in Threads : Shape(req[q])'
    BY <1>1, <1>2, EndJumps, EndKeepsShapes
  <1> QED
    BY <1>1, <1>4, <1>6, CallTypes

\* The rows that a key finds are among those its index entry excludes.
LEMMA ObjectRowsOK ==
    ASSUME TInv, NEW o \in Objects
    PROVE  /\ ObjectRows(o) \subseteq Conflicts(o)
           /\ \A p \in ObjectRows(o) :
                 /\ p \in Objects /\ p \in Equal(o) /\ objects[p] \in Content
                 /\ [obj |-> p, cas |-> objects[p]] \in Rows
  <1>1. \A p \in Objects : p[2] \in Keys
    BY DEF Objects
  <1>2. \A p \in Objects : Weight[p[2]] = Weight[o[2]] => IndexEntry[p[2]] = IndexEntry[o[2]]
    BY <1>1, MetadataAssumption
  <1>3. ObjectRows(o) \subseteq Conflicts(o)
    BY <1>2 DEF ObjectRows, Equal, Conflicts
  <1>4. \A p \in ObjectRows(o) : p \in Objects /\ p \in Equal(o) /\ objects[p] \in Content
    BY DEF ObjectRows, Equal, TInv, TableTypes
  <1> QED
    BY <1>3, <1>4 DEF Rows

LEMMA SelectObjectTypes ==
    ASSUME TInv, NEW t \in Threads, SelectObject(t)
    PROVE  /\ TInv'
           /\ \/ Jump(t, "idle")
              \/ \E p \in ObjectRows(Object(t)) :
                    Rowed(t, "fill", [obj |-> p, cas |-> objects[p]])
  <1>1. req[t].pc = "select" /\ UNCHANGED <<tableVars, bucketCache, redisVars, calls, history>>
    BY DEF SelectObject
  <1>2. req \in [Threads -> Requests]
    BY <1>1, RequestFacts
  <1>3. Object(t) \in Objects
    BY <1>1, ObjectFacts DEF ObjectPcs
  <1>4. CASE End(t)
    BY <1>1, <1>2, <1>4, EndJumps, EndKeepsShapes, QuietTypes
  <1>5. ASSUME NEW p \in ObjectRows(Object(t)),
               req' = [req EXCEPT ![t].pc = "fill",
                                  ![t].row = [obj |-> p, cas |-> objects[p]]]
        PROVE  TInv' /\ Rowed(t, "fill", [obj |-> p, cas |-> objects[p]])
    <2> DEFINE row == [obj |-> p, cas |-> objects[p]]
    <2>1. row \in Rows
      BY <1>3, ObjectRowsOK
    <2>2. req' = [req EXCEPT ![t].pc = "fill", ![t].row = row]
      BY <1>5
    <2> HIDE DEF row
    <2>3. "fill" \in Pcs \ {"idle"} /\ req[t].pc \in {"lookup", "select"}
      BY <1>1 DEF Pcs
    <2>4. /\ Rowed(t, "fill", row)
          /\ req' \in [Threads -> Requests] /\ \A q \in Threads : Shape(req[q])'
      BY <2>1, <2>2, <2>3, RowedKeepsShapes
    <2> QED
      BY <1>1, <2>4, QuietTypes DEF row
  <1> QED
    BY <1>4, <1>5 DEF SelectObject

LEMMA SetAndGotoTypes ==
    ASSUME TInv, NEW t \in Threads, NEW row \in Rows, NEW p \in Pcs, SetAndGoto(t, row, p),
           req[t].pc # "idle", Object(t) \in Objects, p # "idle" => Fits(p, req[t])
    PROVE  TInv' /\ Jump(t, p) /\ Written(Object(t), row)
  <1>1. Goto(t, p)
        /\ UNCHANGED <<tableVars, bucketCache, calls, committed, removed, executed, raced, shaky>>
    BY DEF SetAndGoto
  <1>2. RedisInv' /\ torn' \subseteq Objects /\ Written(Object(t), row)
    BY SetTypes DEF SetAndGoto
  <1>3. Jump(t, p) /\ req' \in [Threads -> Requests] /\ \A q \in Threads : Shape(req[q])'
    BY <1>1, JumpTypes
  <1> QED
    BY <1>1, <1>2, <1>3, CallTypes

LEMMA FillObjectTypes ==
    ASSUME TInv, NEW t \in Threads, FillObject(t)
    PROVE  /\ TInv' /\ Jump(t, AfterObject(req[t])) /\ Written(Object(t), req[t].row)
           /\ AfterObject(req[t]) \in {"serve", "remove"} /\ req[t].row \in Rows
  <1> DEFINE p == AfterObject(req[t])
             row == req[t].row
  <1>1. req[t].pc = "fill" /\ SetAndGoto(t, row, p)
    BY DEF FillObject
  <1>2. req[t].pc # "idle" /\ req[t] \in Requests /\ Fits("fill", req[t])
    BY <1>1, RequestFacts
  <1>3. Object(t) \in Objects
    BY <1>1, ObjectFacts DEF ObjectPcs
  <1>4. p \in {"serve", "remove"} /\ p \in Pcs
    BY <1>2, AfterObjectFits DEF Fits, ObjectPcs
  <1>5. row \in Rows
    BY <1>2 DEF Fits, Requests
  <1>6. Fits(p, req[t])
    <2> HIDE DEF p
    <2> QED
      BY <1>2, <1>4 DEF Fits, ObjectPcs, PutPcs
  <1> HIDE DEF p, row
  <1> QED
    BY <1>1, <1>2, <1>3, <1>4, <1>5, <1>6, SetAndGotoTypes DEF p, row

LEMMA AfterPutFits ==
    ASSUME NEW r, Fits("insert", r) \/ Fits("update", r)
    PROVE  /\ AfterPut(r) \in {"idle", "record"}
           /\ AfterPut(r) = "record" => r.ikey # None /\ Fits("record", r)
           /\ r.ikey # None => AfterPut(r) = "record"
  BY DEF AfterPut, Fits, ObjectPcs, PutPcs

LEMMA UpdateEntryTypes ==
    ASSUME TInv, NEW t \in Threads, UpdateEntry(t)
    PROVE  /\ TInv' /\ Jump(t, AfterPut(req[t])) /\ Written(Object(t), RowOf(t, req[t].cas))
           /\ AfterPut(req[t]) \in {"idle", "record"} /\ RowOf(t, req[t].cas) \in Rows
           /\ req[t].ikey # None => AfterPut(req[t]) = "record"
  <1> DEFINE p == AfterPut(req[t])
             row == RowOf(t, req[t].cas)
  <1>1. req[t].pc = "update" /\ SetAndGoto(t, row, p)
    BY DEF UpdateEntry
  <1>2. req[t].pc # "idle" /\ req[t] \in Requests /\ Fits("update", req[t]) /\ Parts(req[t])
    BY <1>1, RequestFacts
  <1>3. Object(t) \in Objects
    BY <1>1, ObjectFacts DEF PutPcs
  <1>4. /\ p \in {"idle", "record"} /\ (p # "idle" => Fits(p, req[t]))
        /\ req[t].ikey # None => p = "record"
    BY <1>2, AfterPutFits
  <1>5. row \in Rows
    BY <1>2, <1>3 DEF Fits, Parts, RowOf, Rows, PutPcs
  <1>6. p \in Pcs
    BY <1>4 DEF Pcs
  <1> HIDE DEF p, row
  <1> QED
    BY <1>1, <1>2, <1>3, <1>4, <1>5, <1>6, SetAndGotoTypes DEF p, row

\* The transaction of DELETE.
RemovedRow(t, p) ==
    LET o == Object(t)
    IN  /\ objects' = [objects EXCEPT ![p] = None]
        /\ removed' = RemovedWith({p})
        /\ \/ Jump(t, "evict") /\ torn' = torn \cup RaceOnObject(t, o) \cup (Equal(o) \ {o})
           \/ Jump(t, "idle") /\ torn' = torn \cup Equal(o)

Removed(t) ==
    \/ Jump(t, "idle") /\ UNCHANGED <<objects, removed, torn>>
    \/ \E p \in ObjectRows(Object(t)) : RemovedRow(t, p)

LEMMA RemoveObjectTypes ==
    ASSUME TInv, NEW t \in Threads, RemoveObject(t)
    PROVE  TInv' /\ Removed(t)
  <1> DEFINE o == Object(t)
             Kept == req' \in [Threads -> Requests] /\ \A q \in Threads : Shape(req[q])'
  <1>1. /\ req[t].pc = "remove"
        /\ UNCHANGED <<buckets, nextId, idem, bucketCache, entries, connected,
                       unread, delayed, calls, committed, executed, raced, shaky>>
    BY DEF RemoveObject
  <1>2. Fits("remove", req[t]) /\ req \in [Threads -> Requests] /\ req[t].pc # "idle"
    BY <1>1, RequestFacts
  <1>3. o \in Objects
    BY <1>1, ObjectFacts DEF ObjectPcs
  <1>4. CASE End(t) /\ UNCHANGED <<objects, faults, removed, torn>>
    <2>1. End(t) /\ UNCHANGED <<objects, faults, removed, torn>>
      BY <1>4
    <2>2. Kept /\ Jump(t, "idle")
      BY <1>2, <2>1, EndKeepsShapes, EndJumps
    <2>3. TInv'
      BY <1>1, <2>1, <2>2, QuietTypes DEF tableVars, redisVars, history
    <2> QED
      BY <2>1, <2>2, <2>3 DEF Removed
  <1>5. ASSUME NEW p \in ObjectRows(o),
               objects' = [objects EXCEPT ![p] = None],
               removed' = RemovedWith({p}),
               \/ /\ Goto(t, "evict") /\ UNCHANGED faults
                  /\ torn' = torn \cup RaceOnObject(t, o) \cup (Equal(o) \ {o})
               \/ Fault /\ End(t) /\ torn' = torn \cup Equal(o)
        PROVE  TInv' /\ RemovedRow(t, p)
    <2>1. p \in Objects /\ Equal(o) \subseteq Objects
      BY <1>3, ObjectRowsOK DEF Equal
    <2> HIDE DEF o
    <2>2. TableTypes'
      BY <1>1, <1>5, <2>1 DEF TInv, TableTypes
    <2>3. RowRules'
      <3>1. \A x \in Objects : objects'[x] # None => objects[x] # None
        BY <1>5, <2>1 DEF TInv, TableTypes
      <3>2. UniqueRows'
        BY <1>1, <3>1, RowsGo
      <3> QED
        BY <1>1, <3>1, <3>2 DEF TInv, RowRules
    <2>4. HistoryTypes'
      BY <1>1, <1>3, <1>5, <2>1 DEF TInv, HistoryTypes, RaceOnObject, RemovedWith
    <2>5. CASE /\ Goto(t, "evict") /\ UNCHANGED faults
               /\ torn' = torn \cup RaceOnObject(t, o) \cup (Equal(o) \ {o})
      <3>1. Fits("evict", req[t]) /\ "evict" \in Pcs
        BY <1>2 DEF Fits, ObjectPcs, PutPcs, Pcs
      <3>2. Jump(t, "evict") /\ Kept
        BY <1>2, <2>5, <3>1, JumpTypes
      <3>3. RedisInv'
        BY <1>1, <2>5, SameTypes DEF redisVars
      <3>4. TInv'
        BY <2>2, <2>3, <2>4, <3>2, <3>3 DEF TInv
      <3> QED
        BY <1>5, <2>5, <3>2, <3>4 DEF RemovedRow, o
    <2>6. CASE Fault /\ End(t) /\ torn' = torn \cup Equal(o)
      <3>1. faults' \in 0..MaxFaults
        BY <2>6, FaultOK DEF TInv, RedisInv
      <3>2. RedisInv'
        BY <1>1, <3>1 DEF TInv, RedisInv, RedisTypeOK
      <3>3. Jump(t, "idle") /\ Kept
        BY <1>2, <2>6, EndJumps, EndKeepsShapes
      <3>4. TInv'
        BY <2>2, <2>3, <2>4, <3>2, <3>3 DEF TInv
      <3> QED
        BY <1>5, <2>6, <3>3, <3>4 DEF RemovedRow, o
    <2> QED
      BY <1>5, <2>5, <2>6
  <1> QED
    BY <1>4, <1>5 DEF RemoveObject, Removed

LEMMA CheckIdempotencyTypes ==
    ASSUME TInv, NEW t \in Threads, CheckIdempotency(t)
    PROVE  /\ TInv' /\ req[t].ikey \in IdemKeys
           /\ \/ Jump(t, "idle")
              \/ Jump(t, "insert") /\ idem[req[t].ikey] = None
  <1>1. req[t].pc = "check" /\ UNCHANGED <<tableVars, bucketCache, redisVars, calls, history>>
    BY DEF CheckIdempotency
  <1>2. /\ Fits("check", req[t]) /\ req \in [Threads -> Requests] /\ req[t].pc # "idle"
        /\ req[t] \in Requests
    BY <1>1, RequestFacts
  <1>3. req[t].ikey \in IdemKeys /\ Fits("insert", req[t]) /\ "insert" \in Pcs
    BY <1>2 DEF Fits, Requests, ObjectPcs, PutPcs, Pcs
  <1>4. CASE End(t)
    BY <1>1, <1>2, <1>3, <1>4, EndJumps, EndKeepsShapes, QuietTypes
  <1>5. CASE Goto(t, "insert") /\ idem[req[t].ikey] = None
    BY <1>1, <1>2, <1>3, <1>5, JumpTypes, QuietTypes
  <1> QED
    BY <1>4, <1>5 DEF CheckIdempotency

\* The transaction of PUT commits row p, and the request moves on to `next'.
Committed(t, p, missed, next) ==
    LET o == Object(t)
        i == req[t].ikey
        cas == req[t].cas
    IN  /\ objects' = [objects EXCEPT ![p] = cas]
        /\ committed' = committed \cup {RowOf(t, cas), [obj |-> p, cas |-> cas]}
        /\ executed' = [j \in IdemKeys |-> executed[j] + (IF j = i THEN 1 ELSE 0)]
        /\ \/ /\ Jump(t, next) /\ UNCHANGED shaky
              /\ torn' = torn \cup RaceOnObject(t, o) \cup missed
           \/ /\ Jump(t, "idle") /\ torn' = torn \cup {o} \cup missed
              /\ shaky' = shaky \cup ({i} \cap IdemKeys)

\* The rows of `objects' a PUT may write: one that is there, or one that no
\* row excludes.
Writable(p) == p \in Objects /\ (objects[p] # None \/ Conflicts(p) = {})

LEMMA RowWritten ==
    ASSUME TInv, NEW p, Writable(p), NEW cas, objects' = [objects EXCEPT ![p] = cas],
           UNCHANGED buckets
    PROVE  UniqueRows'
  <1>0. \A q \in Objects : q # p => objects'[q] = objects[q]
    BY DEF TInv, TableTypes, Writable
  <1>1. ASSUME NEW x \in Objects, NEW l \in Conflicts(x)', NEW m \in Conflicts(x)'
        PROVE  l = m
    <2>1. /\ l \in Objects /\ m \in Objects /\ l[1] = x[1] /\ m[1] = x[1]
          /\ IndexEntry[l[2]] = IndexEntry[x[2]] /\ IndexEntry[m[2]] = IndexEntry[x[2]]
      BY DEF Conflicts
    <2>2. CASE Conflicts(p) = {} /\ (l = p \/ m = p)
      <3>1. \A y \in {l, m} : y # p => y \in Conflicts(p)
        BY <1>0, <2>1, <2>2 DEF Conflicts
      <3> QED
        BY <2>2, <3>1
    <2>3. CASE objects[p] # None \/ (l # p /\ m # p)
      <3>1. l \in Conflicts(x) /\ m \in Conflicts(x)
        BY <1>0, <2>3 DEF Conflicts
      <3> QED
        BY <3>1 DEF TInv, RowRules, UniqueRows
    <2> QED
      BY <2>2, <2>3 DEF Writable
  <1>2. \A n \in Names : BucketRows(n)' = BucketRows(n)
    BY DEF BucketRows, Spellings
  <1> QED
    BY <1>1, <1>2 DEF TInv, RowRules, UniqueRows

LEMMA UpsertedOK ==
    ASSUME TInv, NEW o \in Objects, NEW p \in Upserted(o)
    PROVE  Writable(p) /\ p[1] = o[1] /\ Missed(o, p) \subseteq Objects
  BY DEF Upserted, Writable, Conflicts, Missed, Equal

LEMMA CommitPutTypes ==
    ASSUME TInv, NEW t \in Threads, NEW p, NEW missed, NEW next \in Pcs,
           CommitPut(t, p, missed, next), BucketExists(req[t].bid),
           Writable(p), p[1] = req[t].bid, missed \subseteq Objects,
           req[t].pc \in {"insert", "upsert"}, next # "idle" => Fits(next, req[t]),
           UNCHANGED <<buckets, nextId, idem, bucketCache, entries, connected,
                       unread, delayed, calls, removed, raced>>
    PROVE  TInv' /\ Committed(t, p, missed, next)
  <1> DEFINE o == Object(t)
             i == req[t].ikey
             cas == req[t].cas
             row == RowOf(t, cas)
             wrow == [obj |-> p, cas |-> cas]
             Kept == req' \in [Threads -> Requests] /\ \A q \in Threads : Shape(req[q])'
  <1>1. req[t].pc # "idle" /\ req[t].pc \in PutPcs
    BY DEF PutPcs
  <1>2. /\ Fits(req[t].pc, req[t]) /\ Parts(req[t]) /\ req[t] \in Requests
        /\ req \in [Threads -> Requests]
    BY <1>1, RequestFacts
  <1>3. o \in Objects
    BY <1>1, ObjectFacts
  <1>4. cas \in Content /\ p \in Objects
    BY <1>1, <1>2 DEF Fits, Parts, Writable
  <1>5. row \in Rows /\ wrow \in Rows
    BY <1>3, <1>4 DEF RowOf, Rows
  <1>6. /\ objects' = [objects EXCEPT ![p] = cas]
        /\ committed' = committed \cup {row, wrow}
        /\ executed' = [j \in IdemKeys |-> executed[j] + (IF j = i THEN 1 ELSE 0)]
        /\ \/ /\ Goto(t, next) /\ UNCHANGED <<faults, shaky>>
              /\ torn' = torn \cup RaceOnObject(t, o) \cup missed
           \/ /\ Fault /\ End(t) /\ torn' = torn \cup {o} \cup missed
              /\ shaky' = shaky \cup ({i} \cap IdemKeys)
    BY DEF CommitPut
  <1>7. TableTypes'
    <2> HIDE DEF o
    <2> QED
      BY <1>3, <1>4, <1>6 DEF TInv, TableTypes
  <1>8. RowRules'
    <2>3. UniqueRows'
      BY <1>6, RowWritten
    <2> SUFFICES ASSUME NEW x \in Objects, objects'[x] # None
                 PROVE  \E m \in Names : buckets[m] = x[1]
      BY <2>3 DEF RowRules
    <2>1. CASE x = p
      BY <2>1 DEF BucketExists
    <2>2. CASE x # p
      <3>1. objects'[x] = objects[x]
        BY <1>6, <2>2 DEF TInv, TableTypes
      <3> QED
        BY <3>1 DEF TInv, RowRules
    <2> QED
      BY <2>1, <2>2
  <1>9. executed' \in [IdemKeys -> Nat]
    BY <1>6 DEF TInv, HistoryTypes
  <1>10. HistoryTypes'
    <2> HIDE DEF o, row, wrow
    <2> QED
      BY <1>3, <1>5, <1>6, <1>9 DEF TInv, HistoryTypes, RaceOnObject
  <1>11. CASE /\ Goto(t, next) /\ UNCHANGED <<faults, shaky>>
              /\ torn' = torn \cup RaceOnObject(t, o) \cup missed
    <2>1. Jump(t, next) /\ Kept
      BY <1>1, <1>11, JumpTypes
    <2>2. RedisInv'
      BY <1>11, SameTypes DEF redisVars
    <2>3. TInv'
      BY <1>7, <1>8, <1>10, <2>1, <2>2 DEF TInv
    <2> QED
      BY <1>6, <1>11, <2>1, <2>3 DEF Committed
  <1>12. CASE /\ Fault /\ End(t) /\ torn' = torn \cup {o} \cup missed
              /\ shaky' = shaky \cup ({i} \cap IdemKeys)
    <2>1. faults' \in 0..MaxFaults
      BY <1>12, FaultOK DEF TInv, RedisInv
    <2>2. RedisInv'
      BY <2>1 DEF TInv, RedisInv, RedisTypeOK
    <2>3. Jump(t, "idle") /\ Kept
      BY <1>1, <1>2, <1>12, EndJumps, EndKeepsShapes
    <2>4. TInv'
      BY <1>7, <1>8, <1>10, <2>2, <2>3 DEF TInv
    <2> QED
      BY <1>6, <1>12, <2>3, <2>4 DEF Committed
  <1> QED
    BY <1>6, <1>11, <1>12

NothingPut == UNCHANGED <<objects, committed, executed, torn, shaky>>

LEMMA InsertObjectTypes ==
    ASSUME TInv, NEW t \in Threads, InsertObject(t)
    PROVE  /\ TInv'
           /\ \/ /\ Conflicts(Object(t)) = {}
                 /\ Committed(t, Object(t), {}, AfterPut(req[t]))
                 /\ AfterPut(req[t]) \in {"idle", "record"}
                 /\ req[t].ikey # None => AfterPut(req[t]) = "record"
              \/ Jump(t, "upsert") /\ NothingPut
              \/ Jump(t, "idle") /\ NothingPut
  <1>1. /\ req[t].pc = "insert"
        /\ UNCHANGED <<buckets, nextId, idem, bucketCache, entries, connected,
                       unread, delayed, calls, removed, raced>>
    BY DEF InsertObject
  <1>2. /\ Fits("insert", req[t]) /\ req[t] \in Requests /\ req \in [Threads -> Requests]
        /\ req[t].pc # "idle"
    BY <1>1, RequestFacts
  <1>3. /\ AfterPut(req[t]) \in {"idle", "record"}
        /\ AfterPut(req[t]) # "idle" => Fits(AfterPut(req[t]), req[t])
        /\ req[t].ikey # None => AfterPut(req[t]) = "record"
    BY <1>2, AfterPutFits
  <1>4. AfterPut(req[t]) \in Pcs
    BY <1>3 DEF Pcs
  <1>5. CASE /\ BucketExists(req[t].bid) /\ Conflicts(Object(t)) = {}
             /\ CommitPut(t, Object(t), {}, AfterPut(req[t]))
    <2> DEFINE next == AfterPut(req[t])
               o == Object(t)
    <2>1. next \in Pcs /\ CommitPut(t, o, {}, next) /\ (next # "idle" => Fits(next, req[t]))
      BY <1>3, <1>4, <1>5
    <2>2. req[t].pc \in {"insert", "upsert"}
      BY <1>1
    <2>3. Writable(o) /\ o[1] = req[t].bid
      <3>1. o \in Objects
        BY <1>1, ObjectFacts DEF PutPcs
      <3> QED
        BY <1>5, <3>1 DEF Writable, Object
    <2> HIDE DEF next, o
    <2>4. TInv' /\ Committed(t, o, {}, next)
      BY <1>1, <1>5, <2>1, <2>2, <2>3, CommitPutTypes
    <2> QED
      BY <1>3, <1>5, <2>4 DEF next, o
  <1>6. CASE /\ Goto(t, "upsert")
             /\ UNCHANGED <<objects, faults, committed, executed, torn, shaky>>
    <2>1. Fits("upsert", req[t]) /\ "upsert" \in Pcs
      BY <1>2 DEF Fits, ObjectPcs, PutPcs, Pcs
    <2>2. /\ Jump(t, "upsert")
          /\ req' \in [Threads -> Requests] /\ \A q \in Threads : Shape(req[q])'
      BY <1>2, <1>6, <2>1, JumpTypes
    <2>3. TInv'
      BY <1>1, <1>6, <2>2, QuietTypes DEF tableVars, redisVars, history
    <2> QED
      BY <1>6, <2>2, <2>3 DEF NothingPut
  <1>7. CASE /\ End(t)
             /\ UNCHANGED <<objects, faults, committed, executed, torn, shaky>>
    <2>1. TInv'
      BY <1>1, <1>2, <1>7, EndKeepsShapes, QuietTypes DEF tableVars, redisVars, history
    <2> QED
      BY <1>2, <1>7, <2>1, EndJumps DEF NothingPut
  <1> QED
    BY <1>5, <1>6, <1>7 DEF InsertObject

LEMMA UpsertObjectTypes ==
    ASSUME TInv, NEW t \in Threads, UpsertObject(t)
    PROVE  /\ TInv'
           /\ \/ \E p \in Upserted(Object(t)) :
                    Committed(t, p, Missed(Object(t), p), "update")
              \/ Jump(t, "idle") /\ NothingPut
  <1>1. /\ req[t].pc = "upsert"
        /\ UNCHANGED <<buckets, nextId, idem, bucketCache, entries, connected,
                       unread, delayed, calls, removed, raced>>
    BY DEF UpsertObject
  <1>2. /\ Fits("upsert", req[t]) /\ req[t] \in Requests /\ req \in [Threads -> Requests]
        /\ req[t].pc # "idle"
    BY <1>1, RequestFacts
  <1>3. CASE BucketExists(req[t].bid)
    <2> DEFINE o == Object(t)
    <2>1. PICK p \in Upserted(o) : CommitPut(t, p, Missed(o, p), "update")
      BY <1>3 DEF UpsertObject
    <2>2. Fits("update", req[t]) /\ "update" \in Pcs
      BY <1>2 DEF Fits, ObjectPcs, PutPcs, Pcs
    <2>3. req[t].pc \in {"insert", "upsert"}
      BY <1>1
    <2>4. Writable(p) /\ p[1] = req[t].bid /\ Missed(o, p) \subseteq Objects
      <3>1. o \in Objects /\ o[1] = req[t].bid
        BY <1>1, ObjectFacts DEF PutPcs, Object
      <3> QED
        BY <3>1, UpsertedOK
    <2> DEFINE missed == Missed(o, p)
    <2>5. CommitPut(t, p, missed, "update") /\ missed \subseteq Objects
      BY <2>1, <2>4
    <2> HIDE DEF o, missed
    <2>6. TInv' /\ Committed(t, p, missed, "update")
      BY <1>1, <1>3, <2>2, <2>3, <2>4, <2>5, CommitPutTypes
    <2> QED
      BY <2>6 DEF missed, o
  <1>4. CASE ~BucketExists(req[t].bid)
    <2>1. End(t) /\ UNCHANGED <<objects, faults, committed, executed, torn, shaky>>
      BY <1>4 DEF UpsertObject
    <2>2. TInv'
      BY <1>1, <1>2, <2>1, EndKeepsShapes, QuietTypes DEF tableVars, redisVars, history
    <2> QED
      BY <1>2, <2>1, <2>2, EndJumps DEF NothingPut
  <1> QED
    BY <1>3, <1>4

LEMMA RecordIdempotencyTypes ==
    ASSUME TInv, NEW t \in Threads, RecordIdempotency(t)
    PROVE  /\ TInv' /\ Jump(t, "idle") /\ req[t].ikey \in IdemKeys
           /\ \/ idem'[req[t].ikey] # None /\ UNCHANGED shaky
              \/ shaky' = shaky \cup {req[t].ikey}
           /\ \A j \in IdemKeys \ {req[t].ikey} : idem'[j] = idem[j]
  <1> DEFINE r == req[t]
             i == r.ikey
             h == RequestHash(r)
  <1>1. /\ r.pc = "record" /\ End(t)
        /\ UNCHANGED <<buckets, nextId, objects, bucketCache, entries, connected,
                       unread, delayed, calls, committed, removed, executed, torn, raced>>
    BY DEF RecordIdempotency
  <1>2. Fits("record", r) /\ Parts(r) /\ r \in Requests /\ req \in [Threads -> Requests]
    BY <1>1, RequestFacts
  <1>3. i \in IdemKeys /\ h \in Names \X Keys
    BY <1>2 DEF Fits, Parts, Requests, PutPcs, RequestHash
  <1>4. Jump(t, "idle") /\ req' \in [Threads -> Requests] /\ \A q \in Threads : Shape(req[q])'
    BY <1>1, <1>2, EndJumps, EndKeepsShapes
  <1>5. \/ idem' = [idem EXCEPT ![i] = h] /\ UNCHANGED <<faults, shaky>>
        \/ Fault /\ shaky' = shaky \cup {i} /\ UNCHANGED idem
    BY DEF RecordIdempotency
  <1>6. /\ idem' \in [IdemKeys -> (Names \X Keys) \cup {None}]
        /\ \A j \in IdemKeys \ {i} : idem'[j] = idem[j]
    <2> HIDE DEF h, i
    <2> QED
      BY <1>3, <1>5 DEF TInv, TableTypes
  <1>7. TableTypes' /\ RowRules'
    BY <1>1, <1>6, SameTypes DEF TInv, TableTypes
  <1>8. HistoryTypes'
    BY <1>1, <1>3, <1>5 DEF TInv, HistoryTypes
  <1>9. RedisInv'
    <2>1. faults' \in 0..MaxFaults
      BY <1>5, FaultOK DEF TInv, RedisInv, RedisTypeOK
    <2> QED
      BY <1>1, <2>1 DEF TInv, RedisInv, RedisTypeOK
  <1>10. TInv'
    BY <1>4, <1>7, <1>8, <1>9 DEF TInv
  <1>11. idem' = [idem EXCEPT ![i] = h] => idem'[i] # None
    <2>1. h # None
      BY <1>3, MetadataAssumption
    <2> QED
      BY <1>3, <2>1 DEF TInv, TableTypes
  <1> QED
    BY <1>3, <1>4, <1>5, <1>6, <1>10, <1>11

\* A page of a listing.
Paged(t) ==
    LET r == req[t]
        u == req'[t]
        ks == KeysAfter(r.bid, r.after)
        page == FirstKeys(ks, MaxKeys)
    IN  /\ Rest(t) /\ Ident(u, r) /\ u.bid = r.bid /\ u.row = r.row /\ u.found = r.found
        /\ u.seen = r.seen \o page
        /\ u.start = IF r.after = 0 THEN {o \in Objects : o[1] = r.bid /\ objects[o] # None}
                     ELSE r.start
        /\ \/ Cardinality(ks) > MaxKeys /\ u.after = Weight[page[MaxKeys]] /\ u.pc = "bucket"
           \/ Cardinality(ks) <= MaxKeys /\ u.after = r.after /\ u.pc = "listed"

LEMMA PageDistinct ==
    ASSUME TInv, NEW id \in Ids, NEW after
    PROVE  Distinct(KeysAfter(id, after)) /\ KeysAfter(id, after) \in SUBSET Keys
  <1> SUFFICES ASSUME NEW j \in KeysAfter(id, after), NEW k \in KeysAfter(id, after),
                      Weight[j] = Weight[k]
               PROVE  j = k
    BY DEF Distinct, KeysAfter
  <1>1. <<id, j>> \in Objects /\ <<id, k>> \in Objects /\ j \in Keys /\ k \in Keys
    BY DEF KeysAfter, Objects
  <1>2. IndexEntry[j] = IndexEntry[k]
    BY <1>1, MetadataAssumption
  <1>3. <<id, j>> \in Conflicts(<<id, j>>) /\ <<id, k>> \in Conflicts(<<id, j>>)
    BY <1>1, <1>2 DEF KeysAfter, Conflicts
  <1>4. <<id, j>> = <<id, k>>
    BY <1>1, <1>3 DEF TInv, RowRules, UniqueRows
  <1> QED
    BY <1>4

LEMMA ListObjectsTypes ==
    ASSUME TInv, NEW t \in Threads, ListObjects(t)
    PROVE  TInv' /\ Paged(t)
  <1> DEFINE r == req[t]
             ks == KeysAfter(r.bid, r.after)
             page == FirstKeys(ks, MaxKeys)
             more == Cardinality(ks) > MaxKeys
             seen == r.seen \o page
             start == IF r.after = 0 THEN {o \in Objects : o[1] = r.bid /\ objects[o] # None}
                      ELSE r.start
             after == IF more THEN Weight[page[MaxKeys]] ELSE r.after
             p == IF more THEN "bucket" ELSE "listed"
             u == [r EXCEPT !.seen = seen, !.start = start, !.after = after, !.pc = p]
  <1>1. r.pc = "page" /\ UNCHANGED <<tableVars, bucketCache, redisVars, calls, history>>
    BY DEF ListObjects
  <1>2. r \in Requests /\ Fits("page", r) /\ Parts(r) /\ req \in [Threads -> Requests]
    BY <1>1, RequestFacts
  <1>3. ks \in SUBSET Keys /\ MaxKeys \in Nat \ {0} /\ Cardinality(ks) \in Nat
    <2>1. ks \in SUBSET Keys
      BY DEF KeysAfter
    <2>2. IsFiniteSet(Keys)
      BY MetadataAssumption
    <2> HIDE DEF ks
    <2>3. IsFiniteSet(ks)
      BY <2>1, <2>2, FS_Subset
    <2> QED
      BY <2>1, <2>3, FS_CardinalityType, MetadataAssumption
  <1>4. /\ page \in Seq(Keys)
        /\ \A i \in 1..Len(page) : page[i] \in ks
        /\ more => Len(page) = MaxKeys
    <2>1. Distinct(ks)
      <3>1. r.bid \in Ids
        BY <1>2 DEF Fits
      <3> QED
        BY <3>1, PageDistinct
    <2> QED
      BY <1>3, <2>1, FirstKeysOK
  <1>5. req' = [req EXCEPT ![t] = u]
    <2>1. /\ Page(ks).contents = page /\ Page(ks).truncated = more
      BY DEF Page
    <2>2. more => Page(ks).contents[Len(Page(ks).contents)] = page[MaxKeys]
      BY <1>4, <2>1
    <2>3. req' = [req EXCEPT
              ![t].seen = @ \o Page(ks).contents,
              ![t].start = IF r.after = 0
                           THEN {o \in Objects : o[1] = r.bid /\ objects[o] # None}
                           ELSE @,
              ![t].after = IF Page(ks).truncated
                           THEN Weight[Page(ks).contents[Len(Page(ks).contents)]] ELSE @,
              ![t].pc = IF Page(ks).truncated THEN "bucket" ELSE "listed"]
      BY DEF ListObjects
    <2> HIDE DEF page, ks
    <2> QED
      BY <1>2, <2>1, <2>2, <2>3 DEF Requests
  <1>6. /\ seen \in Seq(Keys) /\ start \in SUBSET Objects /\ after \in Nat /\ p \in Pcs
    <2>1. r.seen \in Seq(Keys) /\ r.start \in SUBSET Objects /\ r.after \in Nat
      BY <1>2 DEF Requests
    <2>2. more => page[MaxKeys] \in Keys
      BY <1>3, <1>4
    <2>3. \A k \in Keys : Weight[k] \in Nat
      BY WeightOK
    <2> HIDE DEF page, more
    <2>4. seen \in Seq(Keys)
      BY <1>4, <2>1
    <2>5. start \in SUBSET Objects
      BY <2>1
    <2>6. after \in Nat
      BY <2>1, <2>2, <2>3
    <2>7. p \in Pcs
      BY DEF Pcs
    <2> QED
      BY <2>4, <2>5, <2>6, <2>7
  <1>7. (more => p = "bucket" /\ after = Weight[page[MaxKeys]])
        /\ (~more => p = "listed" /\ after = r.after)
    OBVIOUS
  <1> HIDE DEF seen, start, after, p, r
  <1>8. /\ u \in Requests /\ Ident(u, r) /\ u.seen = seen /\ u.start = start
        /\ u.after = after /\ u.pc = p /\ u.bid = r.bid /\ u.row = r.row /\ u.found = r.found
    BY <1>2, <1>6 DEF Requests, Ident
  <1> HIDE DEF u
  <1>9. Rest(t) /\ req'[t] = u
    BY <1>2, <1>5, <1>8 DEF Rest
  <1>10. p \in {"bucket", "listed"}
    BY <1>7
  <1>11. Move(t, p) /\ Fits(p, u)
    <2>1. Move(t, p)
      BY <1>8, <1>9, <1>10 DEF Move, Pcs, r
    <2>2. Fits(p, u)
      BY <1>2, <1>8, <1>10 DEF Fits, Ident, ObjectPcs, PutPcs, BucketOps
    <2> QED
      BY <2>1, <2>2
  <1>12. TInv'
    BY <1>1, <1>9, <1>11, MoveKeepsShapes, QuietTypes DEF r
  <1>13. Cardinality(ks) > MaxKeys \/ Cardinality(ks) <= MaxKeys
    BY <1>3
  <1>14. Paged(t)
    <2> HIDE DEF ks, page
    <2> QED
      BY <1>7, <1>8, <1>9, <1>13 DEF Paged, r, seen, start, page, ks
  <1> QED
    BY <1>12, <1>14

\* The steps that only answer.
LEMMA AnswerTypes ==
    ASSUME TInv, NEW t \in Threads, Serve(t) \/ Listed(t)
    PROVE  TInv' /\ Jump(t, "idle") /\ UNCHANGED <<tableVars, bucketCache, redisVars, calls, history>>
  <1>1. /\ req[t].pc # "idle" /\ End(t)
        /\ UNCHANGED <<tableVars, bucketCache, redisVars, calls, history>>
    BY DEF Serve, Listed
  <1>2. req \in [Threads -> Requests]
    BY DEF TInv
  <1> QED
    BY <1>1, <1>2, EndJumps, EndKeepsShapes, QuietTypes

\* The statements that fail.
Failed(t) ==
    \/ LookUpBucketFails(t) \/ InsertBucketFails(t) \/ BucketStatementFails(t)
    \/ ObjectStatementFails(t)

LEMMA FailedTypes ==
    ASSUME TInv, NEW t \in Threads, Failed(t)
    PROVE  /\ TInv' /\ Jump(t, "idle")
           /\ UNCHANGED <<tableVars, bucketCache, entries, connected, unread, delayed,
                          calls, history>>
  <1>1. req[t].pc # "idle" /\ StatementFails(t)
    BY DEF Failed, LookUpBucketFails, InsertBucketFails, BucketStatementFails,
           ObjectStatementFails
  <1>2. req \in [Threads -> Requests]
    BY DEF TInv
  <1> QED
    BY <1>1, <1>2, EndJumps, StatementFailsTypes DEF StatementFails

LEMMA SameShapes ==
    ASSUME TInv, UNCHANGED req
    PROVE  req' \in [Threads -> Requests] /\ \A q \in Threads : Shape(req[q])'
  BY DEF TInv, Shape, Fits, Parts, Idle, NoBuckets

LEMMA ExpireEntryTypes ==
    ASSUME TInv, NEW o \in Objects, ExpireEntry(o)
    PROVE  TInv' /\ entries' = [entries EXCEPT ![o] = None] /\ UNCHANGED delayed
  <1>1. RedisInv' /\ entries' = [entries EXCEPT ![o] = None] /\ UNCHANGED delayed
    BY ExpireOK DEF TInv, ExpireEntry
  <1>2. torn' \subseteq Objects
    BY DEF ExpireEntry, TInv, HistoryTypes
  <1>3. UNCHANGED <<tableVars, bucketCache, req, calls, committed, removed, executed, raced, shaky>>
    BY DEF ExpireEntry
  <1> QED
    BY <1>1, <1>2, <1>3, SameShapes, CallTypes

LEMMA ExpireRecordTypes ==
    ASSUME TInv, NEW i \in IdemKeys, ExpireRecord(i)
    PROVE  TInv' /\ \A j \in IdemKeys \ {i} : idem'[j] = idem[j]
  <1>1. /\ Fault /\ idem' = [idem EXCEPT ![i] = None] /\ shaky' = shaky \cup {i}
        /\ UNCHANGED <<buckets, nextId, objects, bucketCache, entries, connected,
                   unread, delayed, req, calls, committed, removed, executed, torn, raced>>
    BY DEF ExpireRecord
  <1>2. TableTypes' /\ RowRules'
    BY <1>1, SameTypes DEF TInv, TableTypes
  <1>3. HistoryTypes'
    BY <1>1 DEF TInv, HistoryTypes
  <1>4. faults' \in 0..MaxFaults
    BY <1>1, FaultOK DEF TInv, RedisInv
  <1>5. RedisInv'
    BY <1>1, <1>4 DEF TInv, RedisInv, RedisTypeOK
  <1>6. \A j \in IdemKeys \ {i} : idem'[j] = idem[j]
    BY <1>1 DEF TInv, TableTypes
  <1> QED
    BY <1>1, <1>2, <1>3, <1>5, <1>6, SameShapes DEF TInv

LEMMA DelayedCommandTypes ==
    ASSUME TInv, DelayedCommand
    PROVE  /\ TInv' /\ delayed' = None /\ delayed # None /\ delayed \in Commands
           /\ entries' = IF delayed.cmd = "get" THEN entries
                         ELSE [entries EXCEPT ![delayed.key] = delayed.value]
           /\ UNCHANGED <<tableVars, bucketCache, req, calls, history>>
  <1>1. DelayedArrives /\ UNCHANGED <<tableVars, bucketCache, req, calls, history>>
    BY DEF DelayedCommand
  <1>2. /\ RedisInv' /\ delayed' = None /\ delayed \in Commands
        /\ entries' = IF delayed.cmd = "get" THEN entries
                      ELSE [entries EXCEPT ![delayed.key] = delayed.value]
    BY <1>1, DelayedOK DEF TInv
  <1>3. delayed # None
    BY <1>1 DEF DelayedArrives
  <1> QED
    BY <1>1, <1>2, <1>3, SameShapes, SameTypes DEF TInv

----------------------------------------------------------------------------
(***************************************************************************)
(* Type correctness                                                        *)
(***************************************************************************)

LEMMA InitTypes ==
    ASSUME Init
    PROVE  TInv
  <1> USE DEF Init
  <1>1. NoBuckets \in [Names -> Ids \cup {NoId}] /\ {NoId, 1} \subseteq Ids \cup {NoId}
    BY IdsOK DEF NoBuckets
  <1>2. TableTypes
    BY <1>1 DEF TableTypes
  <1>3. RowRules
    BY DEF RowRules
  <1>4. RedisInv
    <2>1. unread \in Seq(Replies) /\ Len(unread) <= 1
      OBVIOUS
    <2>2. faults \in 0..MaxFaults
      BY ConstantsOK DEF Constants
    <2> QED
      BY <2>1, <2>2, ConstantsOK DEF Constants, RedisInv, RedisTypeOK
  <1>5. HistoryTypes
    BY DEF HistoryTypes
  <1>6. req \in [Threads -> Requests] /\ \A t \in Threads : req[t] = Idle
    BY IdleOK
  <1>7. \A t \in Threads : Shape(req[t])
    BY <1>6, IdleOK
  <1> QED
    BY <1>2, <1>3, <1>4, <1>5, <1>6, <1>7 DEF TInv

LEMMA BucketStepTypes ==
    ASSUME TInv, NEW t \in Threads, BucketStep(t)
    PROVE  TInv'
  <1>1. CASE LookUpBucket(t)
    BY <1>1, LookUpBucketTypes
  <1>2. CASE LookUpBucketFails(t) \/ InsertBucketFails(t) \/ BucketStatementFails(t)
    BY <1>2, FailedTypes DEF Failed
  <1>3. CASE CacheBucket(t)
    BY <1>3, CacheBucketTypes
  <1>4. CASE InsertBucket(t)
    BY <1>4, InsertBucketTypes
  <1>5. CASE CacheCreated(t) \/ UncacheBucket(t)
    BY <1>5, CacheCreatedTypes
  <1>6. CASE CheckEmpty(t)
    BY <1>6, CheckEmptyTypes
  <1>7. CASE DropBucket(t)
    BY <1>7, DropBucketTypes
  <1>8. CASE ListBuckets(t)
    BY <1>8, ListBucketsTypes
  <1>9. CASE CacheAll(t)
    BY <1>9, CacheAllTypes
  <1> QED
    BY <1>1, <1>2, <1>3, <1>4, <1>5, <1>6, <1>7, <1>8, <1>9 DEF BucketStep

LEMMA ObjectStepTypes ==
    ASSUME TInv, NEW t \in Threads, ObjectStep(t)
    PROVE  TInv'
  <1>1. CASE LookUpObject(t)
    BY <1>1, LookUpObjectTypes
  <1>2. CASE EvictBad(t)
    BY <1>2, EvictBadTypes
  <1>3. CASE SelectObject(t)
    BY <1>3, SelectObjectTypes
  <1>4. CASE FillObject(t)
    BY <1>4, FillObjectTypes
  <1>5. CASE Serve(t) \/ Listed(t)
    BY <1>5, AnswerTypes
  <1>6. CASE RemoveObject(t)
    BY <1>6, RemoveObjectTypes
  <1>7. CASE EvictObject(t)
    BY <1>7, EvictObjectTypes
  <1>8. CASE CheckIdempotency(t)
    BY <1>8, CheckIdempotencyTypes
  <1>9. CASE InsertObject(t)
    BY <1>9, InsertObjectTypes
  <1>10. CASE UpsertObject(t)
    BY <1>10, UpsertObjectTypes
  <1>11. CASE UpdateEntry(t)
    BY <1>11, UpdateEntryTypes
  <1>12. CASE RecordIdempotency(t)
    BY <1>12, RecordIdempotencyTypes
  <1>13. CASE ListObjects(t)
    BY <1>13, ListObjectsTypes
  <1>14. CASE ObjectStatementFails(t)
    BY <1>14, FailedTypes DEF Failed
  <1> QED
    BY <1>1, <1>2, <1>3, <1>4, <1>5, <1>6, <1>7, <1>8, <1>9, <1>10, <1>11, <1>12, <1>13, <1>14
       DEF ObjectStep

LEMMA StutterTypes ==
    ASSUME TInv, UNCHANGED vars
    PROVE  TInv'
  <1>1. UNCHANGED <<tableVars, bucketCache, redisVars, req, calls, history>>
    BY DEF vars
  <1> QED
    BY <1>1, SameShapes, QuietTypes

LEMMA NextTypes ==
    ASSUME TInv, [Next]_vars
    PROVE  TInv'
  <1>1. CASE UNCHANGED vars
    BY <1>1, StutterTypes
  <1>2. CASE AllAnswered
    BY <1>2, StutterTypes DEF AllAnswered
  <1>3. ASSUME NEW t \in Threads, Begin(t) \/ BucketStep(t) \/ ObjectStep(t)
        PROVE  TInv'
    BY <1>3, BeginTypes, BucketStepTypes, ObjectStepTypes
  <1>4. ASSUME NEW o \in Objects, ExpireEntry(o)
        PROVE  TInv'
    BY <1>4, ExpireEntryTypes
  <1>5. ASSUME NEW i \in IdemKeys, ExpireRecord(i)
        PROVE  TInv'
    BY <1>5, ExpireRecordTypes
  <1>6. CASE DelayedCommand
    BY <1>6, DelayedCommandTypes
  <1> QED
    BY <1>1, <1>2, <1>3, <1>4, <1>5, <1>6 DEF Next

LEMMA TypesSuffice ==
    ASSUME TInv
    PROVE  MetadataTypeOK
  <1>1. \A t \in Threads :
          req[t].pc \in {"lookup", "fill", "update", "evict", "page"} => req[t].bid # NoId
    <2> SUFFICES ASSUME NEW t \in Threads,
                        req[t].pc \in {"lookup", "fill", "update", "evict", "page"}
                 PROVE  req[t].bid # NoId
      OBVIOUS
    <2>1. req[t].pc # "idle" /\ Fits(req[t].pc, req[t])
      BY RequestFacts
    <2> QED
      BY <2>1, IdsOK DEF Fits
  <1> QED
    BY <1>1 DEF TInv, TableTypes, RowRules, RedisInv, MetadataTypeOK

\* Requests, tables and caches keep their types: a request on an object or a
\* bucket always has the id it needs, the connection to Redis is never more
\* than one reply behind, and no row of `objects' outlives its bucket.
THEOREM MetadataTypes == Spec => []MetadataTypeOK
  <1>1. Init => TInv
    BY InitTypes
  <1>2. TInv /\ [Next]_vars => TInv'
    BY NextTypes
  <1>3. TInv => MetadataTypeOK
    BY TypesSuffice
  <1> QED
    BY <1>1, <1>2, <1>3, PTL DEF Spec

----------------------------------------------------------------------------
(***************************************************************************)
(* What is served was committed                                            *)
(***************************************************************************)

LEMMA ThreadsServe ==
    ASSUME ServedInv, NEW t \in Threads, Rest(t), committed \subseteq committed',
           ThreadServes(t)'
    PROVE  \A q \in Threads : ThreadServes(q)'
  <1> SUFFICES ASSUME NEW q \in Threads, q # t PROVE ThreadServes(q)'
    OBVIOUS
  <1>1. req'[q] = req[q] /\ ThreadServes(q)
    BY DEF Rest, ServedInv
  <1> QED
    BY <1>1 DEF ThreadServes, RowIsOwn, Object, RowOf

\* A request that goes on with the row it has, or ends.
LEMMA JumpServes ==
    ASSUME ServedInv, NEW t \in Threads, NEW p, Jump(t, p), committed \subseteq committed',
           p = "update" => RowOf(t, req[t].cas) \in committed' /\ Object(t) \in Objects
    PROVE  \A q \in Threads : ThreadServes(q)'
  <1>1. CASE p = "idle"
    <2>1. req'[t].row = None /\ req'[t].pc = "idle"
      BY <1>1, IdleOK DEF Jump
    <2>2. ThreadServes(t)'
      BY <2>1 DEF ThreadServes
    <2> QED
      BY <2>2, ThreadsServe DEF Jump
  <1>2. CASE p # "idle"
    <2>1. /\ req'[t].pc = p /\ req'[t].row = req[t].row /\ Object(t)' = Object(t)
          /\ req'[t].cas = req[t].cas
      BY <1>2 DEF Jump, Object, Ident
    <2>2. ThreadServes(t)
      BY DEF ServedInv
    <2>3. ThreadServes(t)'
      BY <2>1, <2>2 DEF ThreadServes, RowIsOwn, RowOf, Equal
    <2> QED
      BY <2>3, ThreadsServe DEF Jump
  <1> QED
    BY <1>1, <1>2

LEMMA EmptyServes ==
    ASSUME ServedInv, NEW t \in Threads, Rest(t), committed \subseteq committed',
           req'[t].row = None, req'[t].pc # "update"
    PROVE  \A q \in Threads : ThreadServes(q)'
  <1>1. ThreadServes(t)'
    BY DEF ThreadServes
  <1> QED
    BY <1>1, ThreadsServe

\* A step that leaves Redis and the table alone, or removes rows from it.
LEMMA QuietServes ==
    ASSUME ServedInv, UNCHANGED committed,
           UNCHANGED <<entries, delayed>>,
           \A o \in Objects : objects'[o] \in {objects[o], None}
    PROVE  RedisServes' /\ TableServes'
  <1>1. RedisServes'
    BY DEF ServedInv, RedisServes, RowIsOwn
  <1>2. TableServes'
    BY DEF ServedInv, TableServes
  <1> QED
    BY <1>1, <1>2

LEMMA WriteServes ==
    ASSUME TInv, ServedInv, NEW o \in Objects, NEW v, v # None => RowIsOwn(v, o), Written(o, v),
           UNCHANGED <<tableVars, committed>>
    PROVE  RedisServes' /\ TableServes'
  <1>1. TableServes'
    BY DEF ServedInv, TableServes, tableVars
  <1>2. ASSUME NEW x \in Objects, entries'[x] \in Rows
        PROVE  RowIsOwn(entries'[x], x)
    <2>1. entries'[x] = entries[x] \/ (x = o /\ entries'[x] = v)
      BY ConstantsOK DEF Constants, Written, TInv, RedisInv, RedisTypeOK
    <2>2. v \in Rows => v # None
      BY ConstantsOK DEF Constants
    <2> QED
      BY <1>2, <2>1, <2>2 DEF ServedInv, RedisServes
  <1>3. delayed' # None /\ delayed'.value # None => RowIsOwn(delayed'.value, delayed'.key)
    BY DEF Written, ServedInv, RedisServes
  <1>4. RedisServes'
    BY <1>2, <1>3 DEF RedisServes, RowIsOwn
  <1> QED
    BY <1>1, <1>4

LEMMA BucketStepServes ==
    ASSUME TInv, ServedInv, NEW t \in Threads, BucketStep(t) \/ Begin(t)
    PROVE  ServedInv'
  <1>1. CASE Begin(t)
    <2>1. Begun(t) /\ UNCHANGED <<tableVars, redisVars, committed>>
      BY <1>1, BeginTypes DEF Begin
    <2>2. \A q \in Threads : ThreadServes(q)'
      BY <2>1, EmptyServes DEF Begun
    <2> QED
      BY <2>1, <2>2, QuietServes DEF ServedInv, tableVars, redisVars
  <1>2. CASE LookUpBucket(t)
    <2>1. LookedUp(t) /\ UNCHANGED <<tableVars, redisVars, history>>
      BY <1>2, LookUpBucketTypes DEF LookUpBucket
    <2>2. AfterBucket(req[t]) # "update"
      BY <1>2, LookUpBucketTypes DEF LatePcs
    <2>3. \A q \in Threads : ThreadServes(q)'
      BY <2>1, <2>2, JumpServes, EmptyServes DEF LookedUp, Move, history
    <2> QED
      BY <2>1, <2>3, QuietServes DEF ServedInv, tableVars, redisVars, history
  <1>3. CASE CacheBucket(t)
    <2>1. /\ Jump(t, AfterBucket(req[t])) /\ AfterBucket(req[t]) # "update"
          /\ UNCHANGED <<tableVars, redisVars, history>>
      BY <1>3, CacheBucketTypes DEF CacheBucket, StoreFound, LatePcs
    <2> DEFINE p == AfterBucket(req[t])
    <2>2. Jump(t, p) /\ p # "update"
      BY <2>1
    <2> HIDE DEF p
    <2>3. \A q \in Threads : ThreadServes(q)'
      BY <2>1, <2>2, JumpServes DEF history
    <2> QED
      BY <2>1, <2>3, QuietServes DEF ServedInv, tableVars, redisVars, history
  <1>4. CASE InsertBucket(t)
    <2>1. Created(t) /\ UNCHANGED <<objects, entries, delayed, committed>>
      BY <1>4, InsertBucketTypes DEF InsertBucket
    <2>2. \A q \in Threads : ThreadServes(q)'
      BY <2>1, JumpServes, EmptyServes DEF Created, Move
    <2> QED
      BY <2>1, <2>2, QuietServes DEF ServedInv
  <1>5. CASE DropBucket(t)
    <2>1. Dropped(t) /\ UNCHANGED <<entries, delayed, committed>>
      BY <1>5, DropBucketTypes DEF DropBucket
    <2>2. \A q \in Threads : ThreadServes(q)'
      BY <2>1, JumpServes DEF Dropped, DroppedRow
    <2>3. \A o \in Objects : objects'[o] \in {objects[o], None}
      BY <2>1 DEF Dropped, DroppedRow
    <2> QED
      BY <2>1, <2>2, <2>3, QuietServes DEF ServedInv
  <1>6. CASE ListBuckets(t)
    <2>1. /\ Rest(t) /\ req'[t].row = req[t].row /\ req'[t].pc # "update" /\ req[t].pc = "listBuckets"
          /\ UNCHANGED <<tableVars, redisVars, history>>
      BY <1>6, ListBucketsTypes DEF ListBuckets, Move
    <2>2. req[t].row = None
      BY <2>1, RequestFacts DEF Fits
    <2>3. \A q \in Threads : ThreadServes(q)'
      BY <2>1, <2>2, EmptyServes DEF history
    <2> QED
      BY <2>1, <2>3, QuietServes DEF ServedInv, tableVars, redisVars, history
  <1>7. CASE Failed(t)
    <2>1. Jump(t, "idle") /\ UNCHANGED <<tableVars, entries, delayed, history>>
      BY <1>7, FailedTypes
    <2>2. \A q \in Threads : ThreadServes(q)'
      BY <2>1, JumpServes DEF history
    <2> QED
      BY <2>1, <2>2, QuietServes DEF ServedInv, tableVars, history
  <1>8. CASE CacheCreated(t) \/ UncacheBucket(t) \/ CheckEmpty(t) \/ CacheAll(t)
    <2>1. /\ Jump(t, "idle") \/ Jump(t, "drop")
          /\ UNCHANGED <<tableVars, redisVars, history>>
      BY <1>8, CacheCreatedTypes, CheckEmptyTypes, CacheAllTypes
         DEF CacheCreated, UncacheBucket, StoreBucket, StoreFound, CheckEmpty, CacheAll
    <2>2. \A q \in Threads : ThreadServes(q)'
      BY <2>1, JumpServes DEF history
    <2> QED
      BY <2>1, <2>2, QuietServes DEF ServedInv, tableVars, redisVars, history
  <1> QED
    BY <1>1, <1>2, <1>3, <1>4, <1>5, <1>6, <1>7, <1>8 DEF BucketStep, Failed

LEMMA CommitServes ==
    ASSUME TInv, ServedInv, NEW t \in Threads, NEW p \in Objects, NEW missed, NEW next,
           Committed(t, p, missed, next), Object(t) \in Objects, UNCHANGED <<entries, delayed>>
    PROVE  ServedInv'
  <1> DEFINE row == [obj |-> p, cas |-> req[t].cas]
  <1>1. /\ objects' = [objects EXCEPT ![p] = req[t].cas]
        /\ committed' = committed \cup {RowOf(t, req[t].cas), row}
        /\ Jump(t, next) \/ Jump(t, "idle")
    BY DEF Committed
  <1>2. \A q \in Threads : ThreadServes(q)'
    BY <1>1, JumpServes
  <1>3. RedisServes'
    BY <1>1 DEF ServedInv, RedisServes, RowIsOwn
  <1>4. row = [obj |-> p, cas |-> req[t].cas]
    OBVIOUS
  <1>5. TableServes'
    <2> HIDE DEF row
    <2> SUFFICES ASSUME NEW x \in Objects, objects'[x] # None
                 PROVE  [obj |-> x, cas |-> objects'[x]] \in committed'
      BY DEF TableServes
    <2>1. CASE x = p
      BY <1>1, <1>4, <2>1 DEF TInv, TableTypes
    <2>2. CASE x # p
      BY <1>1, <2>2 DEF TInv, TableTypes, ServedInv, TableServes
    <2> QED
      BY <2>1, <2>2
  <1> QED
    BY <1>2, <1>3, <1>5 DEF ServedInv

LEMMA RowedServes ==
    ASSUME ServedInv, NEW t \in Threads, NEW p, NEW row, Rowed(t, p, row), p # "update",
           RowIsOwn(row, Object(t)), UNCHANGED committed
    PROVE  \A q \in Threads : ThreadServes(q)'
  <1>1. Rest(t) /\ req'[t].row = row /\ req'[t].pc # "update" /\ Object(t)' = Object(t)
    BY DEF Rowed, Move, Ident, Object
  <1>2. ThreadServes(t)'
    BY <1>1 DEF ThreadServes, RowIsOwn
  <1> QED
    BY <1>1, <1>2, ThreadsServe

LEMMA ObjectStepServes ==
    ASSUME TInv, ServedInv, NEW t \in Threads, ObjectStep(t)
    PROVE  ServedInv'
  <1> DEFINE o == Object(t)
  <1>1. CASE LookUpObject(t)
    <2>1. Looked(t) /\ UNCHANGED <<tableVars, history>> /\ req[t].pc = "lookup"
      BY <1>1, LookUpObjectTypes DEF LookUpObject
    <2>2. o \in Objects
      BY <2>1, ObjectFacts DEF ObjectPcs
    <2>3. UNCHANGED <<committed, objects>>
      BY <2>1 DEF tableVars, history
    <2>4. \A q \in Threads : ThreadServes(q)'
      <3>1. CASE entries[o] \in Rows /\ Rowed(t, AfterObject(req[t]), entries[o])
        <4> DEFINE p == AfterObject(req[t])
                   row == entries[o]
        <4>1. p # "update" /\ RowIsOwn(row, o) /\ Rowed(t, p, row)
          BY <2>2, <3>1 DEF AfterObject, ServedInv, RedisServes
        <4> HIDE DEF p, row
        <4> QED
          BY <2>3, <4>1, RowedServes
      <3>2. CASE Jump(t, "evictBad")
        BY <2>3, <3>2, JumpServes
      <3>3. CASE Jump(t, "select")
        BY <2>3, <3>3, JumpServes
      <3> QED
        BY <2>1, <3>1, <3>2, <3>3 DEF Looked
    <2>5. RedisServes'
      <3>1. delayed' = GetCommand(o) => delayed'.value = None
        BY DEF GetCommand
      <3>2. entries' = entries /\ (delayed' = delayed \/ delayed' = GetCommand(o))
        BY <2>1 DEF Looked
      <3> HIDE DEF o
      <3> QED
        BY <2>3, <3>1, <3>2 DEF ServedInv, RedisServes, RowIsOwn
    <2>6. TableServes'
      BY <2>3 DEF ServedInv, TableServes
    <2> QED
      BY <2>4, <2>5, <2>6 DEF ServedInv
  <1>2. CASE EvictBad(t) \/ EvictObject(t)
    <2>1. /\ Jump(t, "select") \/ Jump(t, "idle")
          /\ Written(o, None) /\ UNCHANGED <<tableVars, committed>>
          /\ req[t].pc \in {"evictBad", "evict"}
      BY <1>2, EvictBadTypes, EvictObjectTypes DEF EvictBad, EvictObject
    <2>2. o \in Objects
      BY <2>1, ObjectFacts DEF ObjectPcs
    <2>3. \A q \in Threads : ThreadServes(q)'
      BY <2>1, JumpServes
    <2> HIDE DEF o
    <2> QED
      BY <2>1, <2>2, <2>3, WriteServes DEF ServedInv
  <1>3. CASE SelectObject(t)
    <2>1. UNCHANGED <<tableVars, redisVars, history>> /\ req[t].pc = "select"
      BY <1>3 DEF SelectObject
    <2>2. o \in Objects
      BY <2>1, ObjectFacts DEF ObjectPcs
    <2>3. UNCHANGED <<committed, objects, entries, delayed>>
      BY <2>1 DEF tableVars, history, redisVars
    <2>4. \A q \in Threads : ThreadServes(q)'
      <3>1. CASE Jump(t, "idle")
        BY <2>3, <3>1, JumpServes
      <3>2. ASSUME NEW p \in ObjectRows(o), Rowed(t, "fill", [obj |-> p, cas |-> objects[p]])
            PROVE  \A q \in Threads : ThreadServes(q)'
        <4> DEFINE row == [obj |-> p, cas |-> objects[p]]
        <4>1. RowIsOwn(row, o) /\ Rowed(t, "fill", row)
          BY <2>2, <3>2 DEF ServedInv, TableServes, RowIsOwn, ObjectRows, Equal
        <4> HIDE DEF row
        <4> QED
          BY <2>3, <4>1, RowedServes
      <3> QED
        BY <1>3, <3>1, <3>2, SelectObjectTypes
    <2> QED
      BY <2>3, <2>4, QuietServes DEF ServedInv
  <1>4. CASE FillObject(t)
    <2> DEFINE p == AfterObject(req[t])
               row == req[t].row
    <2>1. /\ Jump(t, p) /\ Written(o, row) /\ p # "update" /\ row \in Rows
          /\ req[t].pc = "fill" /\ UNCHANGED <<tableVars, committed>>
      BY <1>4, FillObjectTypes DEF FillObject, SetAndGoto
    <2>2. o \in Objects
      BY <2>1, ObjectFacts DEF ObjectPcs
    <2>3. row # None => RowIsOwn(row, o)
      BY DEF ServedInv, ThreadServes
    <2> HIDE DEF p, row, o
    <2>4. \A q \in Threads : ThreadServes(q)'
      BY <2>1, JumpServes
    <2> QED
      BY <2>1, <2>2, <2>3, <2>4, WriteServes DEF ServedInv
  <1>5. CASE UpdateEntry(t)
    <2> DEFINE p == AfterPut(req[t])
               row == RowOf(t, req[t].cas)
    <2>1. /\ Jump(t, p) /\ Written(o, row) /\ p # "update"
          /\ req[t].pc = "update" /\ UNCHANGED <<tableVars, committed>>
      BY <1>5, UpdateEntryTypes DEF UpdateEntry, SetAndGoto
    <2>2. o \in Objects
      BY <2>1, ObjectFacts DEF PutPcs
    <2>3. RowIsOwn(row, o)
      BY <2>1 DEF ServedInv, ThreadServes
    <2> HIDE DEF p, row, o
    <2>4. \A q \in Threads : ThreadServes(q)'
      BY <2>1, JumpServes
    <2> QED
      BY <2>1, <2>2, <2>3, <2>4, WriteServes DEF ServedInv
  <1>6. CASE Serve(t) \/ Listed(t) \/ ObjectStatementFails(t)
    <2>1. Jump(t, "idle") /\ UNCHANGED <<tableVars, entries, delayed, history>>
      BY <1>6, AnswerTypes, FailedTypes DEF Failed, redisVars
    <2>2. \A q \in Threads : ThreadServes(q)'
      BY <2>1, JumpServes DEF history
    <2> QED
      BY <2>1, <2>2, QuietServes DEF ServedInv, tableVars, history
  <1>7. CASE RemoveObject(t)
    <2>1. Removed(t) /\ UNCHANGED <<entries, delayed, committed>> /\ req[t].pc = "remove"
      BY <1>7, RemoveObjectTypes DEF RemoveObject
    <2>2. \A q \in Threads : ThreadServes(q)'
      BY <2>1, JumpServes DEF Removed, RemovedRow
    <2>3. \A x \in Objects : objects'[x] \in {objects[x], None}
      BY <2>1 DEF Removed, RemovedRow, TInv, TableTypes
    <2> QED
      BY <2>1, <2>2, <2>3, QuietServes DEF ServedInv
  <1>8. CASE CheckIdempotency(t)
    <2>1. /\ Jump(t, "idle") \/ Jump(t, "insert")
          /\ UNCHANGED <<tableVars, redisVars, history>>
      BY <1>8, CheckIdempotencyTypes DEF CheckIdempotency
    <2>2. \A q \in Threads : ThreadServes(q)'
      BY <2>1, JumpServes DEF history
    <2> QED
      BY <2>1, <2>2, QuietServes DEF ServedInv, tableVars, redisVars, history
  <1>9. CASE InsertObject(t) \/ UpsertObject(t)
    <2>1. UNCHANGED <<entries, delayed>> /\ req[t].pc \in {"insert", "upsert"}
      BY <1>9 DEF InsertObject, UpsertObject
    <2>2. o \in Objects
      BY <2>1, ObjectFacts DEF PutPcs
    <2>3. ASSUME NEW p \in Objects, NEW missed, NEW next, Committed(t, p, missed, next)
          PROVE  ServedInv'
      BY <2>1, <2>2, <2>3, CommitServes
    <2>5. \A p \in Upserted(o) : p \in Objects
      BY <2>2, UpsertedOK DEF Writable
    <2>4. ASSUME NEW p \in {"upsert", "idle"}, Jump(t, p), NothingPut PROVE ServedInv'
      <3>1. UNCHANGED <<objects, committed>>
        BY <2>4 DEF NothingPut
      <3>2. \A q \in Threads : ThreadServes(q)'
        BY <2>4, <3>1, JumpServes
      <3> QED
        BY <2>1, <3>1, <3>2, QuietServes DEF ServedInv
    <2> QED
      <3>1. CASE InsertObject(t)
        BY <2>2, <2>3, <2>4, <3>1, InsertObjectTypes
      <3>2. CASE UpsertObject(t)
        BY <2>3, <2>4, <2>5, <3>2, UpsertObjectTypes
      <3> QED
        BY <1>9, <3>1, <3>2
  <1>10. CASE RecordIdempotency(t)
    <2>1. Jump(t, "idle") /\ UNCHANGED <<objects, entries, delayed, committed>>
      BY <1>10, RecordIdempotencyTypes DEF RecordIdempotency
    <2>2. \A q \in Threads : ThreadServes(q)'
      BY <2>1, JumpServes
    <2> QED
      BY <2>1, <2>2, QuietServes DEF ServedInv
  <1>11. CASE ListObjects(t)
    <2>1. Paged(t) /\ UNCHANGED <<tableVars, redisVars, history>> /\ req[t].pc = "page"
      BY <1>11, ListObjectsTypes DEF ListObjects
    <2>2. req[t].row = None
      BY <2>1, RequestFacts DEF Fits
    <2>3. \A q \in Threads : ThreadServes(q)'
      BY <2>1, <2>2, EmptyServes DEF Paged, history
    <2> QED
      BY <2>1, <2>3, QuietServes DEF ServedInv, tableVars, redisVars, history
  <1> QED
    BY <1>1, <1>2, <1>3, <1>4, <1>5, <1>6, <1>7, <1>8, <1>9, <1>10, <1>11 DEF ObjectStep

LEMMA NextServes ==
    ASSUME TInv, ServedInv, [Next]_vars
    PROVE  ServedInv'
  <1> DEFINE Same == UNCHANGED <<objects, req, committed>>
  <1>1. ASSUME Same PROVE (\A q \in Threads : ThreadServes(q)') /\ TableServes'
    BY <1>1 DEF ServedInv, ThreadServes, TableServes, RowIsOwn, Object, RowOf
  <1>2. CASE UNCHANGED vars \/ AllAnswered
    <2>1. Same /\ UNCHANGED <<entries, delayed>>
      BY <1>2 DEF AllAnswered, vars, tableVars, redisVars, history
    <2> QED
      BY <1>1, <2>1, QuietServes DEF ServedInv
  <1>3. ASSUME NEW t \in Threads, Begin(t) \/ BucketStep(t) \/ ObjectStep(t)
        PROVE  ServedInv'
    BY <1>3, BucketStepServes, ObjectStepServes
  <1>4. ASSUME NEW o \in Objects, ExpireEntry(o)
        PROVE  ServedInv'
    <2>1. Same
      BY <1>4 DEF ExpireEntry, tableVars
    <2>2. entries' = [entries EXCEPT ![o] = None] /\ UNCHANGED delayed
      BY <1>4, ExpireEntryTypes
    <2>3. None \notin Rows
      BY ConstantsOK DEF Constants
    <2>4. RedisServes'
      BY <2>1, <2>2, <2>3, ConstantsOK
         DEF Constants, ServedInv, RedisServes, RowIsOwn, TInv, RedisInv, RedisTypeOK
    <2> QED
      BY <1>1, <2>1, <2>4 DEF ServedInv
  <1>5. ASSUME NEW i \in IdemKeys, ExpireRecord(i)
        PROVE  ServedInv'
    <2>1. Same /\ UNCHANGED <<entries, delayed>>
      BY <1>5 DEF ExpireRecord
    <2> QED
      BY <1>1, <2>1, QuietServes DEF ServedInv
  <1>6. CASE DelayedCommand
    <2>1. /\ delayed' = None /\ delayed # None /\ delayed \in Commands
          /\ entries' = IF delayed.cmd = "get" THEN entries
                        ELSE [entries EXCEPT ![delayed.key] = delayed.value]
      BY <1>6, DelayedCommandTypes
    <2>2. Same
      BY <1>6 DEF DelayedCommand, tableVars, history
    <2>3. ASSUME NEW x \in Objects, entries'[x] \in Rows
          PROVE  RowIsOwn(entries'[x], x)
      <3>1. entries'[x] = entries[x] \/ (x = delayed.key /\ entries'[x] = delayed.value)
        BY <2>1, ConstantsOK DEF Constants, TInv, RedisInv, RedisTypeOK
      <3>2. entries'[x] # None
        BY <2>3, ConstantsOK DEF Constants
      <3> QED
        BY <2>1, <2>3, <3>1, <3>2 DEF ServedInv, RedisServes
    <2>4. RedisServes'
      BY <2>1, <2>2, <2>3 DEF RedisServes, RowIsOwn
    <2> QED
      BY <1>1, <2>2, <2>4 DEF ServedInv
  <1> QED
    BY <1>2, <1>3, <1>4, <1>5, <1>6 DEF Next

LEMMA InitServes ==
    ASSUME Init
    PROVE  ServedInv
  <1> USE DEF Init
  <1>1. \A t \in Threads : ThreadServes(t)
    BY IdleOK DEF ThreadServes
  <1>2. ASSUME NEW o \in Objects, objects[o] # None
        PROVE  [obj |-> o, cas |-> objects[o]] \in committed
    <2> DEFINE row == [obj |-> o, cas |-> objects[o]]
    <2>1. row \in Rows /\ row.obj = o /\ row.cas = objects[o]
      BY <1>2 DEF Rows
    <2> QED
      BY <2>1
  <1>3. RedisServes
    <2> SUFFICES ASSUME NEW o \in Objects, entries[o] \in Rows
                 PROVE  RowIsOwn(entries[o], o)
      BY DEF RedisServes
    <2>1. entries[o] # None /\ entries[o] # Garbage
      BY ConstantsOK DEF Constants
    <2>2. entries[o] \in committed /\ entries[o].obj \in Equal(o)
      BY <2>1
    <2> QED
      BY <2>2 DEF RowIsOwn
  <1> QED
    BY <1>1, <1>2, <1>3 DEF ServedInv, TableServes

\* What GET, HEAD and DELETE act on, and what Redis holds for an object, is a
\* row of that very object, as the tables compare keys, that was once
\* committed, with calls of Redis that
\* fail or are executed late, and with replies read from a connection that is
\* one reply behind.
THEOREM ServedRowsWereCommitted == Spec => []ServedWasCommitted
  <1>1. Init => TInv /\ ServedInv
    BY InitTypes, InitServes
  <1>2. TInv /\ ServedInv /\ [Next]_vars => (TInv /\ ServedInv)'
    BY NextTypes, NextServes
  <1>3. TInv /\ ServedInv => ServedWasCommitted
    BY DEF ServedInv, ThreadServes, RedisServes, RowIsOwn, ServedWasCommitted
  <1> QED
    BY <1>1, <1>2, <1>3, PTL DEF Spec

----------------------------------------------------------------------------
(***************************************************************************)
(* A stale entry of Redis comes from a race, a failed call or a change by  *)
(* another spelling                                                        *)
(***************************************************************************)

LEMMA JumpPc ==
    ASSUME NEW t \in Threads, NEW p, Jump(t, p)
    PROVE  Rest(t) /\ req'[t].pc = p
  BY IdleOK DEF Jump

\* The rows that o finds are as they were.
RowsSame(o) == \A q \in Equal(o) : objects'[q] = objects[q]

LEMMA SameRows ==
    ASSUME NEW o, RowsSame(o)
    PROVE  Current(o)' = Current(o) /\ Fresh(o)' = Fresh(o)
  <1>1. ObjectRows(o)' = ObjectRows(o) /\ Equal(o)' = Equal(o)
    BY DEF RowsSame, ObjectRows, Equal
  <1>2. \A q \in ObjectRows(o) : objects'[q] = objects[q]
    BY DEF RowsSame, ObjectRows
  <1>3. Current(o)' = Current(o)
    BY <1>1, <1>2 DEF Current
  <1>4. Fresh(o)' = Fresh(o)
    BY <1>1, <1>2 DEF Fresh
  <1> QED
    BY <1>3, <1>4

LEMMA EqualOK ==
    ASSUME NEW o \in Objects, NEW p \in Objects
    PROVE  /\ Equal(o) \subseteq Objects /\ o \in Equal(o)
           /\ p \in Equal(o) <=> o \in Equal(p)
           /\ p \in Equal(o) => Equal(p) = Equal(o)
  BY DEF Equal

\* The entry of o after a step that leaves it alone, and o's rows.
LEMMA EntryQuiet ==
    ASSUME NEW o \in Objects, EntryOK(o), NEW t \in Threads, Rest(t),
           RowsSame(o), entries'[o] = entries[o],
           delayed' = delayed \/ delayed'.cmd = "get" \/ delayed'.key # o,
           Object(t) = o => req[t].pc \notin {"update", "evict"},
           EntryThread(t, o)'
    PROVE  EntryOK(o)'
  <1>0. Current(o)' = Current(o) /\ Fresh(o)' = Fresh(o)
    BY SameRows
  <1>1. \A q \in Threads \ {t} : req'[q] = req[q] /\ Object(q)' = Object(q)
    BY DEF Rest, Object
  <1>2. ASSUME NEW q \in Threads PROVE EntryThread(q, o)'
    BY <1>0, <1>1 DEF EntryOK, EntryThread
  <1>3. \/ entries'[o] \in Fresh(o)'
        \/ \E q \in Threads : Object(q)' = o /\ req'[q].pc \in {"update", "evict"}
    BY <1>0, <1>1 DEF EntryOK
  <1>4. ~(delayed' # None /\ delayed'.cmd # "get" /\ delayed'.key = o)
    BY DEF EntryOK
  <1> QED
    BY <1>2, <1>3, <1>4 DEF EntryOK

LEMMA NotBringing ==
    ASSUME NEW t \in Threads, NEW o, req'[t].pc \notin {"fill", "update", "evict"}
    PROVE  EntryThread(t, o)'
  BY DEF EntryThread

\* The write of the entry of the request's object.
LEMMA EntryWritten ==
    ASSUME TInv, NEW o \in Objects, EntryOK(o), NEW t \in Threads, Rest(t),
           req'[t].pc \notin {"fill", "update", "evict"}, UNCHANGED objects,
           NEW v, Written(Object(t), v), Object(t) \in Objects,
           Object(t) = o => v \in Fresh(o),
           o \notin torn'
    PROVE  EntryOK(o)'
  <1> DEFINE x == Object(t)
  <1>0. RowsSame(o) /\ Current(o)' = Current(o) /\ Fresh(o)' = Fresh(o)
    <2>1. RowsSame(o)
      BY DEF RowsSame
    <2> QED
      BY <2>1, SameRows
  <1>1. EntryThread(t, o)'
    BY NotBringing
  <1>2. entries \in [Objects -> Rows \cup {Garbage, None}]
    BY ConstantsOK DEF Constants, TInv, RedisInv, RedisTypeOK
  <1>3. CASE x # o
    <2>1. entries'[o] = entries[o] /\ (delayed' = delayed \/ delayed'.key # o)
      <3> HIDE DEF x
      <3>1. Written(x, v) /\ x \in Objects
        BY DEF x
      <3> QED
        BY <1>2, <1>3, <3>1 DEF Written
    <2> QED
      BY <1>0, <1>1, <1>3, <2>1, EntryQuiet
  <1>4. CASE x = o
    <2>1. entries' = [entries EXCEPT ![o] = v] /\ UNCHANGED delayed
      BY <1>4 DEF Written
    <2>2. entries'[o] \in Fresh(o)'
      BY <1>0, <1>2, <1>4, <2>1
    <2>3. \A q \in Threads \ {t} : req'[q] = req[q] /\ Object(q)' = Object(q)
      BY DEF Rest, Object
    <2>4. ASSUME NEW q \in Threads PROVE EntryThread(q, o)'
      BY <1>0, <1>1, <2>3 DEF EntryOK, EntryThread
    <2> QED
      BY <2>1, <2>2, <2>4 DEF EntryOK
  <1> QED
    BY <1>3, <1>4

\* A transaction that changes row w, which is none of o's.
LEMMA EntryApart ==
    ASSUME TInv, NEW o \in Objects, EntryOK(o), NEW t \in Threads, NEW next, Jump(t, next),
           NEW w \in Objects, NEW c, objects' = [objects EXCEPT ![w] = c],
           UNCHANGED <<entries, delayed>>, o \notin Equal(w),
           req[t].pc \notin {"fill", "update", "evict"}, next # "fill",
           Object(t) = o => next # "update"
    PROVE  EntryOK(o)'
  <1>1. Rest(t) /\ req'[t].pc = next
    BY JumpPc
  <1>2. next # "idle" => Object(t)' = Object(t)
    BY DEF Jump, Ident, Object
  <1>3. RowsSame(o)
    <2>1. w \notin Equal(o) /\ Equal(o) \subseteq Objects
      BY EqualOK
    <2> QED
      BY <2>1 DEF RowsSame, TInv, TableTypes
  <1>4. EntryThread(t, o)'
    BY <1>1, <1>2 DEF EntryThread
  <1> QED
    BY <1>1, <1>3, <1>4, EntryQuiet

\* A transaction of o's request that replaces a row of o or deletes it, when
\* nobody else is about to write o's entry.
LEMMA EntryReplaced ==
    ASSUME TInv, NEW o \in Objects, EntryOK(o), NEW t \in Threads, NEW next, Jump(t, next),
           NEW w \in Objects, NEW c, objects' = [objects EXCEPT ![w] = c],
           UNCHANGED <<entries, delayed>>, o \in Equal(w), Object(t) = o,
           next \in {"update", "evict"},
           next = "update" => c = req[t].cas /\ c # None,
           RaceOnObject(t, o) = {}
    PROVE  EntryOK(o)'
  <1>1. Rest(t) /\ req'[t].pc = next
    BY JumpPc
  <1>2. \A q \in Threads \ {t} : req'[q] = req[q] /\ Object(q)' = Object(q)
    BY <1>1 DEF Rest, Object
  <1>3. Object(t)' = o /\ req'[t].cas = req[t].cas
    BY DEF Jump, Ident, Object
  <1>4. \A q \in Threads \ {t} : Object(q) = o => req[q].pc \notin {"fill", "update", "evict"}
    BY DEF RaceOnObject, Others, BringsObject
  <1>5. next = "update" => c \in Current(o)'
    <2> SUFFICES ASSUME next = "update" PROVE c \in Current(o)'
      OBVIOUS
    <2>1. objects'[w] = c /\ w \in Equal(o)
      BY EqualOK DEF TInv, TableTypes
    <2>2. w \in ObjectRows(o)'
      BY <2>1 DEF ObjectRows, Equal
    <2> QED
      BY <2>1, <2>2 DEF Current
  <1>6. ASSUME NEW q \in Threads PROVE EntryThread(q, o)'
    <2>1. CASE q = t
      BY <1>1, <1>3, <1>5, <2>1 DEF EntryThread
    <2>2. CASE q # t
      BY <1>2, <1>4, <2>2 DEF EntryThread
    <2> QED
      BY <2>1, <2>2
  <1>7. \E q \in Threads : Object(q)' = o /\ req'[q].pc \in {"update", "evict"}
    BY <1>1, <1>3
  <1>8. ~(delayed' # None /\ delayed'.cmd # "get" /\ delayed'.key = o)
    BY DEF EntryOK
  <1> QED
    BY <1>6, <1>7, <1>8 DEF EntryOK

\* A new row, where o had none: what Redis holds of o is nothing, or a DELETE
\* is about to evict it.
LEMMA EntryInserted ==
    ASSUME TInv, NEW o \in Objects, EntryOK(o), NEW t \in Threads, Rest(t),
           req[t].pc \notin {"fill", "update", "evict"},
           req'[t].pc \notin {"fill", "update", "evict"},
           UNCHANGED <<entries, delayed>>, ObjectRows(o) = {}
    PROVE  EntryOK(o)'
  <1>1. \A q \in Threads \ {t} : req'[q] = req[q] /\ Object(q)' = Object(q)
    BY DEF Rest, Object
  <1>2. Current(o) = {} /\ Fresh(o) = {None, Garbage} /\ {None, Garbage} \subseteq Fresh(o)'
    BY DEF Current, Fresh
  <1>3. \A q \in Threads : Object(q) = o => req[q].pc \notin {"fill", "update"}
    BY <1>2 DEF EntryOK, EntryThread
  <1>4. ASSUME NEW q \in Threads PROVE EntryThread(q, o)'
    BY <1>1, <1>3 DEF EntryThread
  <1>5. \/ entries'[o] \in Fresh(o)'
        \/ \E q \in Threads : Object(q)' = o /\ req'[q].pc \in {"update", "evict"}
    BY <1>1, <1>2 DEF EntryOK
  <1>6. ~(delayed' # None /\ delayed'.cmd # "get" /\ delayed'.key = o)
    BY DEF EntryOK
  <1> QED
    BY <1>4, <1>5, <1>6 DEF EntryOK

LEMMA BucketStepEntries ==
    ASSUME TInv, EntryInv, NEW t \in Threads, BucketStep(t) \/ Begin(t)
    PROVE  EntryInv'
  <1> SUFFICES ASSUME NEW o \in Objects, o \notin torn' PROVE EntryOK(o)'
    BY DEF EntryInv
  <1>1. ASSUME torn \subseteq torn', Rest(t), UNCHANGED objects \/ RowsSame(o),
               UNCHANGED <<entries, delayed>>,
               req[t].pc \notin {"update", "evict"},
               req'[t].pc \notin {"fill", "update", "evict"}
        PROVE  EntryOK(o)'
    <2>1. EntryOK(o)
      BY <1>1 DEF EntryInv
    <2>2. EntryThread(t, o)'
      BY <1>1, NotBringing
    <2>3. RowsSame(o)
      BY <1>1 DEF RowsSame
    <2> QED
      BY <1>1, <2>1, <2>2, <2>3, EntryQuiet
  <1>2. CASE Begin(t)
    <2>1. Begun(t) /\ UNCHANGED <<tableVars, redisVars, torn>> /\ req[t].pc = "idle"
      BY <1>2, BeginTypes DEF Begin
    <2> QED
      BY <1>1, <2>1 DEF Begun, tableVars, redisVars
  <1>3. CASE LookUpBucket(t)
    <2>1. /\ LookedUp(t) /\ UNCHANGED <<tableVars, redisVars, history>> /\ req[t].pc = "bucket"
          /\ AfterBucket(req[t]) \notin LatePcs
      BY <1>3, LookUpBucketTypes DEF LookUpBucket
    <2>2. Rest(t) /\ req'[t].pc \notin {"fill", "update", "evict"}
      BY <2>1, JumpPc DEF LookedUp, Move, LatePcs
    <2> QED
      BY <1>1, <2>1, <2>2 DEF tableVars, redisVars, history
  <1>4. CASE CacheBucket(t)
    <2> DEFINE p == AfterBucket(req[t])
    <2>1. /\ Jump(t, p) /\ p \notin LatePcs /\ req[t].pc = "cacheBucket"
          /\ UNCHANGED <<tableVars, redisVars, history>>
      BY <1>4, CacheBucketTypes DEF CacheBucket, StoreFound
    <2> HIDE DEF p
    <2>2. Rest(t) /\ req'[t].pc \notin {"fill", "update", "evict"}
      BY <2>1, JumpPc DEF LatePcs
    <2> QED
      BY <1>1, <2>1, <2>2 DEF tableVars, redisVars, history
  <1>5. CASE InsertBucket(t)
    <2>1. /\ Created(t) /\ UNCHANGED <<objects, entries, delayed, torn>> /\ req[t].pc = "create"
      BY <1>5, InsertBucketTypes DEF InsertBucket
    <2>2. Rest(t) /\ req'[t].pc \notin {"fill", "update", "evict"}
      BY <2>1, JumpPc DEF Created, Move
    <2> QED
      BY <1>1, <2>1, <2>2
  <1>6. CASE DropBucket(t)
    <2>1. Dropped(t) /\ UNCHANGED <<entries, delayed>> /\ req[t].pc = "drop"
      BY <1>6, DropBucketTypes DEF DropBucket
    <2>2. Rest(t) /\ req'[t].pc \notin {"fill", "update", "evict"}
      BY <2>1, JumpPc DEF Dropped, DroppedRow
    <2>3. torn \subseteq torn' /\ RowsSame(o)
      <3>1. CASE UNCHANGED <<objects, torn>>
        BY <3>1 DEF RowsSame
      <3>2. ASSUME NEW m, DroppedRow(t, m) PROVE torn \subseteq torn' /\ RowsSame(o)
        <4>1. o \notin Untrue(Gone(m)) /\ torn \subseteq torn'
          BY <3>2 DEF DroppedRow
        <4>2. \A q \in Equal(o) : q \in Objects /\ q \notin Gone(m)
          BY <4>1 DEF Untrue, Equal
        <4> QED
          BY <3>2, <4>1, <4>2 DEF DroppedRow, RowsSame
      <3> QED
        BY <2>1, <3>1, <3>2 DEF Dropped
    <2> QED
      BY <1>1, <2>1, <2>2, <2>3
  <1>7. CASE ListBuckets(t)
    <2>1. /\ Move(t, "cacheAll") /\ UNCHANGED <<tableVars, redisVars, history>>
          /\ req[t].pc = "listBuckets"
      BY <1>7, ListBucketsTypes DEF ListBuckets
    <2> QED
      BY <1>1, <2>1 DEF Move, tableVars, redisVars, history
  <1>8. CASE LookUpBucketFails(t) \/ InsertBucketFails(t) \/ BucketStatementFails(t)
    <2>1. Jump(t, "idle") /\ UNCHANGED <<tableVars, entries, delayed, history>>
      BY <1>8, FailedTypes DEF Failed
    <2>2. req[t].pc \notin {"update", "evict"}
      BY <1>8 DEF LookUpBucketFails, InsertBucketFails, BucketStatementFails
    <2>3. Rest(t) /\ req'[t].pc = "idle"
      BY <2>1, JumpPc
    <2> QED
      BY <1>1, <2>1, <2>2, <2>3 DEF tableVars, history
  <1>9. CASE CacheCreated(t) \/ UncacheBucket(t) \/ CheckEmpty(t) \/ CacheAll(t)
    <2>1. /\ Jump(t, "idle") \/ Jump(t, "drop")
          /\ UNCHANGED <<tableVars, redisVars, history>>
          /\ req[t].pc \notin {"update", "evict"}
      BY <1>9, CacheCreatedTypes, CheckEmptyTypes, CacheAllTypes
         DEF CacheCreated, UncacheBucket, StoreBucket, StoreFound, CheckEmpty, CacheAll
    <2>2. Rest(t) /\ req'[t].pc \notin {"fill", "update", "evict"}
      BY <2>1, JumpPc
    <2> QED
      BY <1>1, <2>1, <2>2 DEF tableVars, redisVars, history
  <1> QED
    BY <1>2, <1>3, <1>4, <1>5, <1>6, <1>7, <1>8, <1>9 DEF BucketStep

\* The fast path of PUT.
LEMMA InsertEntries ==
    ASSUME TInv, EntryInv, NEW t \in Threads, NEW next \in {"idle", "record"},
           Object(t) \in Objects, Conflicts(Object(t)) = {},
           Committed(t, Object(t), {}, next),
           UNCHANGED <<entries, delayed>>, req[t].pc \in {"insert", "upsert"}
    PROVE  EntryInv'
  <1> SUFFICES ASSUME NEW o \in Objects, o \notin torn' PROVE EntryOK(o)'
    BY DEF EntryInv
  <1> DEFINE x == Object(t)
             c == req[t].cas
  <1>1. objects' = [objects EXCEPT ![x] = c] /\ torn \subseteq torn'
    BY DEF Committed
  <1>2. EntryOK(o)
    BY <1>1 DEF EntryInv
  <1>3. PICK p \in {"idle", "record"} : Jump(t, p)
    BY DEF Committed
  <1>4. req[t].pc \notin {"fill", "update", "evict"} /\ p \notin {"fill", "update", "evict"}
    OBVIOUS
  <1>5. CASE o \in Equal(x)
    <2>1. ObjectRows(o) = {}
      <3>1. ObjectRows(x) = {}
        BY ObjectRowsOK
      <3>2. Equal(o) = Equal(x)
        BY <1>5, EqualOK
      <3> QED
        BY <3>1, <3>2 DEF ObjectRows
    <2>2. Rest(t) /\ req'[t].pc = p
      BY <1>3, JumpPc
    <2> QED
      BY <1>2, <1>4, <2>1, <2>2, EntryInserted
  <1>6. CASE o \notin Equal(x)
    <2> HIDE DEF x, c
    <2>1. x \in Objects
      BY DEF x
    <2> QED
      BY <1>1, <1>2, <1>3, <1>4, <1>6, <2>1, EntryApart
  <1> QED
    BY <1>5, <1>6

\* Its slow path: the entries that are not brought up to date are in torn.
LEMMA UpsertEntries ==
    ASSUME TInv, EntryInv, NEW t \in Threads, Object(t) \in Objects,
           NEW w \in Upserted(Object(t)), Committed(t, w, Missed(Object(t), w), "update"),
           UNCHANGED <<entries, delayed>>, req[t].pc = "upsert"
    PROVE  EntryInv'
  <1> SUFFICES ASSUME NEW o \in Objects, o \notin torn' PROVE EntryOK(o)'
    BY DEF EntryInv
  <1> DEFINE x == Object(t)
             c == req[t].cas
  <1>1. /\ objects' = [objects EXCEPT ![w] = c]
        /\ torn \subseteq torn' /\ Missed(x, w) \subseteq torn'
        /\ \/ Jump(t, "update") /\ RaceOnObject(t, x) \subseteq torn'
           \/ Jump(t, "idle") /\ x \in torn'
    BY DEF Committed
  <1>2. EntryOK(o) /\ o \notin Missed(x, w)
    BY <1>1 DEF EntryInv
  <1>3. w \in Objects /\ x \in Objects
    BY UpsertedOK DEF Writable
  <1>4. c # None
    <2>1. req[t].cas \in Content
      BY RequestFacts DEF Fits, Parts, PutPcs
    <2> QED
      BY <2>1, MetadataAssumption
  <1>5. req[t].pc \notin {"fill", "update", "evict"}
    OBVIOUS
  <1>6. CASE o \in Equal(w)
    <2>1. x = o
      BY <1>2, <1>6 DEF Missed
    <2>2. Jump(t, "update") /\ RaceOnObject(t, o) = {}
      BY <1>1, <2>1 DEF RaceOnObject
    <2> QED
      BY <1>1, <1>2, <1>3, <1>4, <1>6, <2>1, <2>2, EntryReplaced
  <1>7. CASE o \notin Equal(w)
    <2>1. x # o
      BY <1>2, <1>7 DEF Missed
    <2>2. PICK next \in {"update", "idle"} : Jump(t, next)
      BY <1>1
    <2> HIDE DEF c
    <2> QED
      BY <1>1, <1>2, <1>3, <1>5, <1>7, <2>1, <2>2, EntryApart
  <1> QED
    BY <1>6, <1>7

LEMMA FreshRow ==
    ASSUME NEW o, NEW row \in Rows, row.obj \in Equal(o), row.cas \in Current(o)
    PROVE  row \in Fresh(o)
  <1>1. row = [obj |-> row.obj, cas |-> row.cas]
    BY DEF Rows
  <1>2. PICK q \in ObjectRows(o) : row.cas = objects[q]
    BY DEF Current
  <1> QED
    BY <1>1, <1>2 DEF Fresh

LEMMA ObjectStepEntries ==
    ASSUME TInv, ServedInv, EntryInv, NEW t \in Threads, ObjectStep(t)
    PROVE  EntryInv'
  <1> SUFFICES ASSUME NEW o \in Objects, o \notin torn' PROVE EntryOK(o)'
    BY DEF EntryInv
  <1> DEFINE x == Object(t)
  <1>1. ASSUME UNCHANGED torn, Rest(t), UNCHANGED objects,
               UNCHANGED <<entries, delayed>>,
               req[t].pc \notin {"update", "evict"},
               req'[t].pc \notin {"fill", "update", "evict"}
        PROVE  EntryOK(o)'
    <2>1. EntryOK(o)
      BY <1>1 DEF EntryInv
    <2>2. EntryThread(t, o)'
      BY <1>1, NotBringing
    <2>3. RowsSame(o)
      BY <1>1 DEF RowsSame
    <2> QED
      BY <1>1, <2>1, <2>2, <2>3, EntryQuiet
  <1>2. CASE LookUpObject(t)
    <2>1. Looked(t) /\ UNCHANGED <<tableVars, history>> /\ req[t].pc = "lookup"
      BY <1>2, LookUpObjectTypes DEF LookUpObject
    <2>2. Rest(t) /\ req'[t].pc \notin {"fill", "update", "evict"}
      BY <2>1, JumpPc DEF Looked, Rowed, Move, AfterObject
    <2>3. EntryOK(o)
      BY <2>1 DEF EntryInv, history
    <2>4. EntryThread(t, o)'
      BY <2>2, NotBringing
    <2>5. UNCHANGED entries /\ (delayed' = delayed \/ delayed'.cmd = "get")
      BY <2>1 DEF Looked, GetCommand
    <2> QED
      BY <2>1, <2>2, <2>3, <2>4, <2>5, EntryQuiet DEF tableVars, RowsSame
  <1>3. CASE EvictBad(t) \/ EvictObject(t)
    <2>1. /\ Jump(t, "select") \/ Jump(t, "idle")
          /\ Written(x, None) /\ UNCHANGED <<tableVars, committed>>
          /\ req[t].pc \in {"evictBad", "evict"}
      BY <1>3, EvictBadTypes, EvictObjectTypes DEF EvictBad, EvictObject
    <2>2. x \in Objects
      BY <2>1, ObjectFacts DEF ObjectPcs
    <2>3. Rest(t) /\ req'[t].pc \notin {"fill", "update", "evict"}
      BY <2>1, JumpPc
    <2>4. EntryOK(o)
      BY <2>1 DEF EntryInv, Written
    <2> QED
      BY <2>1, <2>2, <2>3, <2>4, EntryWritten DEF tableVars, Fresh
  <1>4. CASE SelectObject(t)
    <2>1. UNCHANGED <<tableVars, redisVars, history>> /\ req[t].pc = "select"
      BY <1>4 DEF SelectObject
    <2>2. UNCHANGED <<torn, objects, entries, delayed>>
      BY <2>1 DEF tableVars, history, redisVars
    <2>3. CASE Jump(t, "idle")
      BY <1>1, <2>1, <2>2, <2>3, JumpPc
    <2>4. ASSUME NEW p \in ObjectRows(x), Rowed(t, "fill", [obj |-> p, cas |-> objects[p]])
          PROVE  EntryOK(o)'
      <3>1. /\ Rest(t) /\ req'[t].pc = "fill" /\ Object(t)' = x
            /\ req'[t].row = [obj |-> p, cas |-> objects[p]]
        BY <2>4 DEF Rowed, Move, Ident, Object
      <3>2. req'[t].row.cas \in Current(x)
        BY <3>1 DEF Current
      <3>5. RowsSame(o) /\ Current(o)' = Current(o)
        BY <2>2, SameRows DEF RowsSame
      <3>3. EntryThread(t, o)'
        BY <3>1, <3>2, <3>5 DEF EntryThread
      <3>4. EntryOK(o)
        BY <2>2 DEF EntryInv
      <3> QED
        BY <2>1, <2>2, <3>1, <3>3, <3>4, <3>5, EntryQuiet
    <2> QED
      BY <1>4, <2>3, <2>4, SelectObjectTypes
  <1>5. CASE FillObject(t)
    <2> DEFINE p == AfterObject(req[t])
               row == req[t].row
    <2>1. /\ Jump(t, p) /\ Written(x, row) /\ p \in {"serve", "remove"} /\ row \in Rows
          /\ req[t].pc = "fill" /\ UNCHANGED <<tableVars, committed>>
      BY <1>5, FillObjectTypes DEF FillObject, SetAndGoto
    <2>2. x \in Objects
      BY <2>1, ObjectFacts DEF ObjectPcs
    <2>3. EntryOK(o)
      BY <2>1 DEF EntryInv, Written
    <2>4. x = o => row \in Fresh(o)
      <3> SUFFICES ASSUME x = o PROVE row \in Fresh(o)
        OBVIOUS
      <3>1. row # None
        BY <2>1, ConstantsOK DEF Constants
      <3>2. row.obj \in Equal(o)
        BY <3>1 DEF ServedInv, ThreadServes, RowIsOwn
      <3>3. row.cas \in Current(o)
        BY <2>1, <2>3 DEF EntryOK, EntryThread
      <3> HIDE DEF row
      <3> QED
        BY <2>1, <3>2, <3>3, FreshRow
    <2> HIDE DEF p, row
    <2>5. Rest(t) /\ req'[t].pc \notin {"fill", "update", "evict"}
      BY <2>1, JumpPc
    <2> QED
      BY <2>1, <2>2, <2>3, <2>4, <2>5, EntryWritten DEF tableVars
  <1>6. CASE UpdateEntry(t)
    <2> DEFINE p == AfterPut(req[t])
               row == RowOf(t, req[t].cas)
    <2>1. /\ Jump(t, p) /\ Written(x, row) /\ p \in {"idle", "record"}
          /\ req[t].pc = "update" /\ UNCHANGED <<tableVars, committed>>
      BY <1>6, UpdateEntryTypes DEF UpdateEntry, SetAndGoto
    <2>2. x \in Objects
      BY <2>1, ObjectFacts DEF PutPcs
    <2>3. EntryOK(o)
      BY <2>1 DEF EntryInv, Written
    <2>4. x = o => row \in Fresh(o)
      <3> SUFFICES ASSUME x = o PROVE row \in Fresh(o)
        OBVIOUS
      <3>1. row.obj \in Equal(o) /\ row.cas = req[t].cas /\ row \in Rows
        BY <2>1, <2>2, EqualOK, RequestFacts DEF RowOf, Rows, Fits, Parts, PutPcs
      <3>2. row.cas \in Current(o)
        BY <2>1, <2>3, <3>1 DEF EntryOK, EntryThread
      <3> HIDE DEF row
      <3> QED
        BY <3>1, <3>2, FreshRow
    <2> HIDE DEF p, row
    <2>5. Rest(t) /\ req'[t].pc \notin {"fill", "update", "evict"}
      BY <2>1, JumpPc
    <2> QED
      BY <2>1, <2>2, <2>3, <2>4, <2>5, EntryWritten DEF tableVars
  <1>7. CASE Serve(t) \/ Listed(t) \/ ObjectStatementFails(t)
    <2>1. Jump(t, "idle") /\ UNCHANGED <<tableVars, entries, delayed, history>>
      BY <1>7, AnswerTypes, FailedTypes DEF Failed, redisVars
    <2>2. req[t].pc \notin {"update", "evict"}
      BY <1>7 DEF Serve, Listed, ObjectStatementFails
    <2> QED
      BY <1>1, <2>1, <2>2, JumpPc DEF tableVars, history
  <1>8. CASE RemoveObject(t)
    <2>1. Removed(t) /\ UNCHANGED <<entries, delayed>> /\ req[t].pc = "remove"
      BY <1>8, RemoveObjectTypes DEF RemoveObject
    <2>2. x \in Objects
      BY <2>1, ObjectFacts DEF ObjectPcs
    <2>3. CASE Jump(t, "idle") /\ UNCHANGED <<objects, removed, torn>>
      BY <1>1, <2>1, <2>3, JumpPc
    <2>4. ASSUME NEW w \in ObjectRows(x), RemovedRow(t, w) PROVE EntryOK(o)'
      <3>1. /\ objects' = [objects EXCEPT ![w] = None]
            /\ torn \subseteq torn' /\ (Equal(x) \ {x}) \subseteq torn'
            /\ \/ Jump(t, "evict") /\ RaceOnObject(t, x) \subseteq torn'
               \/ Jump(t, "idle") /\ Equal(x) \subseteq torn'
        BY <2>4 DEF RemovedRow
      <3>2. w \in Objects /\ w \in Equal(x) /\ x \in Equal(x)
        BY <2>2, ObjectRowsOK, EqualOK
      <3>3. EntryOK(o)
        BY <3>1 DEF EntryInv
      <3>4. CASE o \in Equal(w)
        <4>1. x = o
          BY <2>2, <3>1, <3>2, <3>4, EqualOK
        <4>2. Jump(t, "evict") /\ RaceOnObject(t, o) = {}
          BY <3>1, <3>2, <4>1 DEF RaceOnObject
        <4> QED
          BY <2>1, <3>1, <3>2, <3>3, <3>4, <4>1, <4>2, EntryReplaced
      <3>5. CASE o \notin Equal(w)
        <4>1. PICK next \in {"evict", "idle"} : Jump(t, next)
          BY <3>1
        <4>2. req[t].pc \notin {"fill", "update", "evict"} /\ next \notin {"fill", "update"}
          BY <2>1
        <4> QED
          BY <2>1, <3>1, <3>2, <3>3, <3>5, <4>1, <4>2, EntryApart
      <3> QED
        BY <3>4, <3>5
    <2> QED
      BY <2>1, <2>3, <2>4 DEF Removed
  <1>9. CASE CheckIdempotency(t)
    <2>1. /\ Jump(t, "idle") \/ Jump(t, "insert")
          /\ UNCHANGED <<tableVars, redisVars, history>> /\ req[t].pc = "check"
      BY <1>9, CheckIdempotencyTypes DEF CheckIdempotency
    <2> QED
      BY <1>1, <2>1, JumpPc DEF tableVars, redisVars, history
  <1>10. CASE InsertObject(t) \/ UpsertObject(t)
    <2>1. UNCHANGED <<entries, delayed>> /\ req[t].pc \in {"insert", "upsert"}
      BY <1>10 DEF InsertObject, UpsertObject
    <2>2. x \in Objects
      BY <2>1, ObjectFacts DEF PutPcs
    <2>4. ASSUME NEW p \in {"upsert", "idle"}, Jump(t, p), NothingPut PROVE EntryOK(o)'
      BY <1>1, <2>1, <2>4, JumpPc DEF NothingPut
    <2>5. CASE InsertObject(t)
      <3> DEFINE next == AfterPut(req[t])
      <3>1. CASE Committed(t, x, {}, next) /\ next \in {"idle", "record"} /\ Conflicts(x) = {}
        <4> HIDE DEF next
        <4> QED
          BY <2>1, <2>2, <3>1, InsertEntries DEF EntryInv
      <3> QED
        BY <2>4, <2>5, <3>1, InsertObjectTypes
    <2>6. CASE UpsertObject(t)
      <3>1. req[t].pc = "upsert"
        BY <2>6 DEF UpsertObject
      <3>2. ASSUME NEW w \in Upserted(x), Committed(t, w, Missed(x, w), "update")
            PROVE  EntryOK(o)'
        BY <2>1, <2>2, <3>1, <3>2, UpsertEntries DEF EntryInv
      <3> QED
        BY <2>4, <2>6, <3>2, UpsertObjectTypes
    <2> QED
      BY <1>10, <2>5, <2>6
  <1>11. CASE RecordIdempotency(t)
    <2>1. Jump(t, "idle") /\ UNCHANGED <<objects, entries, delayed, torn>> /\ req[t].pc = "record"
      BY <1>11, RecordIdempotencyTypes DEF RecordIdempotency
    <2> QED
      BY <1>1, <2>1, JumpPc
  <1>12. CASE ListObjects(t)
    <2>1. Paged(t) /\ UNCHANGED <<tableVars, redisVars, history>> /\ req[t].pc = "page"
      BY <1>12, ListObjectsTypes DEF ListObjects
    <2>2. Rest(t) /\ req'[t].pc \in {"bucket", "listed"}
      BY <2>1 DEF Paged
    <2> QED
      BY <1>1, <2>1, <2>2 DEF tableVars, redisVars, history
  <1> QED
    BY <1>2, <1>3, <1>4, <1>5, <1>6, <1>7, <1>8, <1>9, <1>10, <1>11, <1>12 DEF ObjectStep

LEMMA NextEntries ==
    ASSUME TInv, ServedInv, EntryInv, [Next]_vars
    PROVE  EntryInv'
  <1> DEFINE Same == UNCHANGED <<objects, req>>
  <1>1. ASSUME Same, UNCHANGED <<entries, delayed, torn>> PROVE EntryInv'
    <2>1. \A o \in Objects : Current(o)' = Current(o) /\ Fresh(o)' = Fresh(o)
      BY <1>1, SameRows DEF RowsSame
    <2> QED
      BY <1>1, <2>1 DEF EntryInv, EntryOK, EntryThread, Object
  <1>2. CASE UNCHANGED vars \/ AllAnswered
    BY <1>1, <1>2 DEF AllAnswered, vars, tableVars, redisVars, history
  <1>3. ASSUME NEW t \in Threads, Begin(t) \/ BucketStep(t) \/ ObjectStep(t)
        PROVE  EntryInv'
    BY <1>3, BucketStepEntries, ObjectStepEntries
  <1>4. ASSUME NEW x \in Objects, ExpireEntry(x)
        PROVE  EntryInv'
    <2> SUFFICES ASSUME NEW o \in Objects, o \notin torn' PROVE EntryOK(o)'
      BY DEF EntryInv
    <2>1. UNCHANGED <<objects, req>>
      BY <1>4 DEF ExpireEntry, tableVars
    <2>2. entries' = [entries EXCEPT ![x] = None] /\ UNCHANGED delayed
      BY <1>4, ExpireEntryTypes
    <2>6. Current(o)' = Current(o) /\ Fresh(o)' = Fresh(o) /\ None \in Fresh(o)
      BY <2>1, SameRows DEF RowsSame, Fresh
    <2>3. entries \in [Objects -> Rows \cup {Garbage, None}]
      BY ConstantsOK DEF Constants, TInv, RedisInv, RedisTypeOK
    <2>4. CASE o \notin torn
      <3>1. EntryOK(o)
        BY <2>4 DEF EntryInv
      <3>2. entries'[o] = entries[o] \/ entries'[o] = None
        BY <2>2, <2>3
      <3> QED
        BY <2>1, <2>2, <2>6, <3>1, <3>2 DEF EntryOK, EntryThread, Object
    <2>5. CASE o \in torn
      <3>1. /\ o = x /\ \A t \in Threads : ~BringsObject(t, o)
            /\ ~(delayed # None /\ delayed.key = o)
        BY <1>4, <2>5 DEF ExpireEntry
      <3>2. entries'[o] = None
        BY <2>2, <2>3, <3>1
      <3> QED
        BY <2>1, <2>2, <2>6, <3>1, <3>2 DEF EntryOK, EntryThread, Object, BringsObject
    <2> QED
      BY <2>4, <2>5
  <1>5. ASSUME NEW i \in IdemKeys, ExpireRecord(i)
        PROVE  EntryInv'
    BY <1>1, <1>5 DEF ExpireRecord
  <1>6. CASE DelayedCommand
    <2> SUFFICES ASSUME NEW o \in Objects, o \notin torn' PROVE EntryOK(o)'
      BY DEF EntryInv
    <2>1. /\ delayed' = None /\ delayed # None /\ delayed \in Commands
          /\ entries' = IF delayed.cmd = "get" THEN entries
                        ELSE [entries EXCEPT ![delayed.key] = delayed.value]
      BY <1>6, DelayedCommandTypes
    <2>2. UNCHANGED <<objects, req, torn>>
      BY <1>6 DEF DelayedCommand, tableVars, history
    <2>3. EntryOK(o)
      BY <2>2 DEF EntryInv
    <2>4. entries'[o] = entries[o]
      <3>1. delayed.cmd = "get" \/ delayed.key # o
        BY <2>1, <2>3 DEF EntryOK
      <3> QED
        BY <2>1, <3>1, ConstantsOK DEF Constants, TInv, RedisInv, RedisTypeOK
    <2>5. Current(o)' = Current(o) /\ Fresh(o)' = Fresh(o)
      BY <2>2, SameRows DEF RowsSame
    <2> QED
      BY <2>1, <2>2, <2>3, <2>4, <2>5 DEF EntryOK, EntryThread, Object
  <1> QED
    BY <1>2, <1>3, <1>4, <1>5, <1>6 DEF Next

LEMMA InitEntries ==
    ASSUME Init
    PROVE  EntryInv
  <1> SUFFICES ASSUME NEW o \in Objects PROVE EntryOK(o)
    BY DEF EntryInv
  <1>1. \A t \in Threads : req[t].pc = "idle"
    BY IdleOK DEF Init
  <1>2. entries[o] \in Fresh(o)
    <2> SUFFICES ASSUME entries[o] \notin {None, Garbage} PROVE entries[o] \in Fresh(o)
      BY DEF Fresh
    <2>1. entries[o] \in committed /\ entries[o].obj \in Equal(o)
      BY DEF Init
    <2> DEFINE row == entries[o]
    <2>2. row \in Rows /\ objects[row.obj] = row.cas /\ row.obj \in Equal(o)
      BY <2>1 DEF Init
    <2>3. row.cas \in Content /\ row.cas # None
      BY <2>2, MetadataAssumption DEF Rows
    <2>4. row.obj \in ObjectRows(o)
      BY <2>2, <2>3 DEF ObjectRows
    <2>5. row.cas \in Current(o)
      BY <2>2, <2>4 DEF Current
    <2> HIDE DEF row
    <2>6. row \in Fresh(o)
      BY <2>2, <2>5, FreshRow
    <2> QED
      BY <2>6 DEF row
  <1> QED
    BY <1>1, <1>2 DEF Init, EntryOK, EntryThread

\* Redis holds an old row of an object only after a race of two requests on the
\* object, after a call of Redis or a COMMIT that failed, or after a PUT or
\* DELETE of the row by another spelling or by another key with its first 255
\* characters, and not beyond the TTL of the entry: the fast path of PUT may
\* leave Redis alone, also the entries of other spellings.
THEOREM EntriesAreCurrent == Spec => []StaleEntryOnlyByRace
  <1> DEFINE I == TInv /\ ServedInv /\ EntryInv
  <1>1. Init => I
    BY InitTypes, InitServes, InitEntries
  <1>2. I /\ [Next]_vars => I'
    BY NextTypes, NextServes, NextEntries
  <1>3. I => StaleEntryOnlyByRace
    BY DEF EntryInv, EntryOK, Fresh, StaleEntryOnlyByRace, BringsObject
  <1> QED
    BY <1>1, <1>2, <1>3, PTL DEF Spec

----------------------------------------------------------------------------
(***************************************************************************)
(* A stale entry of bucket_cache_: a race, a lost reply, another spelling  *)
(***************************************************************************)

\* A step of a request on an object leaves the buckets alone, and what its
\* request knows of them.
ObjectMove(t) ==
    /\ Rest(t)
    /\ req[t].pc \in ObjectPcs \cup PutPcs \cup {"page", "listed"}
    /\ UNCHANGED <<buckets, nextId, bucketCache, raced>>
    /\ \/ req'[t] = Idle
       \/ /\ Ident(req'[t], req[t]) /\ req'[t].bid = req[t].bid /\ req'[t].found = req[t].found
          /\ req'[t].pc \in ObjectPcs \cup PutPcs \cup {"bucket", "listed"}
          /\ ListObjects(t) \/ (SameListing(req'[t], req[t]) /\ req'[t].pc \notin {"bucket", "listed"})

LEMMA ObjectStepMoves ==
    ASSUME TInv, NEW t \in Threads, ObjectStep(t)
    PROVE  ObjectMove(t)
  <1> USE DEF ObjectPcs, PutPcs
  <1>1. ASSUME NEW p \in {"idle", "evictBad", "select", "serve", "remove", "evict", "insert",
                          "upsert", "update", "record"},
               Jump(t, p),
               req[t].pc \in ObjectPcs \cup PutPcs \cup {"page", "listed"},
               UNCHANGED <<buckets, nextId, bucketCache, raced>>
        PROVE  ObjectMove(t)
    BY <1>1 DEF Jump, ObjectMove
  <1>2. ASSUME NEW p \in {"fill", "serve", "remove"}, NEW row, Rowed(t, p, row),
               req[t].pc \in ObjectPcs \cup PutPcs \cup {"page", "listed"},
               UNCHANGED <<buckets, nextId, bucketCache, raced>>
        PROVE  ObjectMove(t)
    BY <1>2 DEF Rowed, Move, ObjectMove
  <1>3. CASE LookUpObject(t)
    <2>1. /\ Looked(t) /\ req[t].pc = "lookup" /\ UNCHANGED <<buckets, nextId, bucketCache, raced>>
      BY <1>3, LookUpObjectTypes DEF LookUpObject, tableVars, history
    <2> DEFINE p == AfterObject(req[t])
               row == entries[Object(t)]
    <2>2. p \in {"serve", "remove"}
      BY DEF AfterObject
    <2>3. Rowed(t, p, row) \/ Jump(t, "evictBad") \/ Jump(t, "select")
      BY <2>1 DEF Looked
    <2> HIDE DEF p, row
    <2> QED
      BY <1>1, <1>2, <2>1, <2>2, <2>3
  <1>4. CASE EvictBad(t) \/ EvictObject(t)
    <2>1. /\ Jump(t, "select") \/ Jump(t, "idle")
          /\ UNCHANGED <<buckets, nextId, bucketCache, raced>>
          /\ req[t].pc \in ObjectPcs
      BY <1>4, EvictBadTypes, EvictObjectTypes DEF EvictBad, EvictObject, tableVars
    <2> QED
      BY <1>1, <2>1
  <1>5. CASE SelectObject(t)
    <2>1. req[t].pc = "select" /\ UNCHANGED <<buckets, nextId, bucketCache, raced>>
      BY <1>5 DEF SelectObject, tableVars, history
    <2>2. Jump(t, "idle") \/ \E row : Rowed(t, "fill", row)
      BY <1>5, SelectObjectTypes
    <2> QED
      BY <1>1, <1>2, <2>1, <2>2
  <1>6. CASE FillObject(t)
    <2> DEFINE p == AfterObject(req[t])
    <2>1. /\ Jump(t, p) /\ p \in {"serve", "remove"} /\ req[t].pc = "fill"
          /\ UNCHANGED <<buckets, nextId, bucketCache, raced>>
      BY <1>6, FillObjectTypes DEF FillObject, SetAndGoto, tableVars
    <2> HIDE DEF p
    <2> QED
      BY <1>1, <2>1
  <1>7. CASE UpdateEntry(t)
    <2> DEFINE p == AfterPut(req[t])
    <2>1. /\ Jump(t, p) /\ p \in {"idle", "record"} /\ req[t].pc = "update"
          /\ UNCHANGED <<buckets, nextId, bucketCache, raced>>
      BY <1>7, UpdateEntryTypes DEF UpdateEntry, SetAndGoto, tableVars
    <2> HIDE DEF p
    <2> QED
      BY <1>1, <2>1
  <1>8. CASE Serve(t) \/ Listed(t) \/ ObjectStatementFails(t)
    <2>1. Jump(t, "idle") /\ UNCHANGED <<tableVars, bucketCache, history>>
      BY <1>8, AnswerTypes, FailedTypes DEF Failed
    <2>2. req[t].pc \in ObjectPcs \cup PutPcs \cup {"page", "listed"}
      BY <1>8 DEF Serve, Listed, ObjectStatementFails
    <2> QED
      BY <1>1, <2>1, <2>2 DEF tableVars, history
  <1>9. CASE RemoveObject(t)
    <2>1. /\ Removed(t) /\ req[t].pc = "remove" /\ UNCHANGED <<buckets, nextId, bucketCache, raced>>
      BY <1>9, RemoveObjectTypes DEF RemoveObject
    <2>2. Jump(t, "idle") \/ Jump(t, "evict")
      BY <2>1 DEF Removed, RemovedRow
    <2> QED
      BY <1>1, <2>1, <2>2
  <1>10. CASE CheckIdempotency(t)
    <2>1. /\ Jump(t, "idle") \/ Jump(t, "insert")
          /\ req[t].pc = "check" /\ UNCHANGED <<buckets, nextId, bucketCache, raced>>
      BY <1>10, CheckIdempotencyTypes DEF CheckIdempotency, tableVars, history
    <2> QED
      BY <1>1, <2>1
  <1>11. CASE InsertObject(t)
    <2> DEFINE p == AfterPut(req[t])
    <2>1. /\ req[t].pc = "insert" /\ UNCHANGED <<buckets, nextId, bucketCache, raced>>
      BY <1>11 DEF InsertObject
    <2>2. \/ (Jump(t, p) /\ p \in {"idle", "record"})
          \/ Jump(t, "upsert") \/ Jump(t, "idle")
      BY <1>11, InsertObjectTypes DEF Committed
    <2> HIDE DEF p
    <2> QED
      BY <1>1, <2>1, <2>2
  <1>12. CASE UpsertObject(t)
    <2>1. /\ req[t].pc = "upsert" /\ UNCHANGED <<buckets, nextId, bucketCache, raced>>
      BY <1>12 DEF UpsertObject
    <2>2. Jump(t, "update") \/ Jump(t, "idle")
      BY <1>12, UpsertObjectTypes DEF Committed
    <2> QED
      BY <1>1, <2>1, <2>2
  <1>13. CASE RecordIdempotency(t)
    <2>1. /\ Jump(t, "idle") /\ req[t].pc = "record"
          /\ UNCHANGED <<buckets, nextId, bucketCache, raced>>
      BY <1>13, RecordIdempotencyTypes DEF RecordIdempotency
    <2> QED
      BY <1>1, <2>1
  <1>14. CASE ListObjects(t)
    <2>1. Paged(t) /\ req[t].pc = "page" /\ UNCHANGED <<buckets, nextId, bucketCache, raced>>
      BY <1>14, ListObjectsTypes DEF ListObjects, tableVars, history
    <2> QED
      BY <1>14, <2>1 DEF Paged, ObjectMove
  <1> QED
    BY <1>3, <1>4, <1>5, <1>6, <1>7, <1>8, <1>9, <1>10, <1>11, <1>12, <1>13, <1>14 DEF ObjectStep

LEMMA BucketQuiet ==
    ASSUME NEW n \in Names, BucketOK(n), NEW t \in Threads, Rest(t),
           buckets'[n] = buckets[n], BucketThread(t, n)',
           \/ bucketCache'[n] \in {NoId, buckets[n]}
           \/ bucketCache'[n] = bucketCache[n] /\ ~(req[t].name = n /\ req[t].pc = "uncache")
    PROVE  BucketOK(n)'
  <1>1. \A q \in Threads \ {t} : req'[q] = req[q]
    BY DEF Rest
  <1>2. ASSUME NEW q \in Threads PROVE BucketThread(q, n)'
    BY <1>1 DEF BucketOK, BucketThread
  <1>3. \/ bucketCache'[n] \in {NoId, buckets'[n]}
        \/ \E q \in Threads : req'[q].name = n /\ req'[q].pc = "uncache"
    BY <1>1 DEF BucketOK
  <1> QED
    BY <1>2, <1>3 DEF BucketOK

LEMMA NotBringingBucket ==
    ASSUME NEW t \in Threads, NEW n,
           req'[t].pc \notin {"cacheBucket", "created", "uncache", "cacheAll"}
    PROVE  BucketThread(t, n)'
  BY DEF BucketThread

LEMMA ObjectStepBuckets ==
    ASSUME TInv, BucketInv, NEW t \in Threads, ObjectStep(t)
    PROVE  BucketInv'
  <1>1. ObjectMove(t)
    BY ObjectStepMoves
  <1> SUFFICES ASSUME NEW n \in Names, n \notin raced' PROVE BucketOK(n)'
    BY DEF BucketInv
  <1>2. /\ Rest(t) /\ UNCHANGED <<buckets, bucketCache, raced>>
        /\ req[t].pc # "uncache"
        /\ req'[t].pc \notin {"cacheBucket", "created", "uncache", "cacheAll"}
    BY <1>1, IdleOK DEF ObjectMove, ObjectPcs, PutPcs
  <1>3. BucketOK(n) /\ BucketThread(t, n)'
    BY <1>2, NotBringingBucket DEF BucketInv
  <1> QED
    BY <1>2, <1>3, BucketQuiet

\* A statement that changes row m.
LEMMA BucketChanged ==
    ASSUME TInv, NEW n \in Names, BucketOK(n), NEW t \in Threads, Rest(t),
           NEW m \in Names, NEW id, buckets' = [buckets EXCEPT ![m] = id],
           UNCHANGED bucketCache, req[t].pc \in {"create", "drop"},
           BucketThread(t, n)',
           m = n => /\ RaceOnBucket(t, n) = {}
                    /\ \/ buckets[n] = NoId
                       \/ req'[t].name = n /\ req'[t].pc = "uncache"
    PROVE  BucketOK(n)'
  <1>1. CASE m # n
    <2>1. buckets'[n] = buckets[n]
      BY <1>1 DEF TInv, TableTypes
    <2> QED
      BY <2>1, BucketQuiet
  <1>2. CASE m = n
    <2>1. \A q \in Threads \ {t} : req'[q] = req[q] /\ ~BringsBucket(q, n)
      BY <1>2 DEF Rest, RaceOnBucket, Others
    <2>2. ASSUME NEW q \in Threads PROVE BucketThread(q, n)'
      BY <2>1 DEF BringsBucket, BucketThread
    <2>3. \/ bucketCache'[n] \in {NoId, buckets'[n]}
          \/ \E q \in Threads : req'[q].name = n /\ req'[q].pc = "uncache"
      <3>1. CASE buckets[n] = NoId
        BY <2>1, <3>1 DEF BucketOK, BringsBucket
      <3> QED
        BY <1>2, <3>1
    <2> QED
      BY <2>2, <2>3 DEF BucketOK
  <1> QED
    BY <1>1, <1>2

\* The rows that were read are stored: they are as they were.
LEMMA FoundStored ==
    ASSUME TInv, NEW n \in Names, BucketOK(n), NEW t \in Threads, Rest(t),
           StoreFound(t), req[t].pc \in {"cacheBucket", "cacheAll"}, BucketThread(t, n)'
    PROVE  BucketOK(n)'
  <1>1. UNCHANGED buckets
    BY DEF StoreFound, tableVars
  <1>2. bucketCache'[n] = IF req[t].found[n] = NoId THEN bucketCache[n] ELSE req[t].found[n]
    BY DEF StoreFound
  <1>3. req[t].found[n] # NoId => req[t].found[n] = buckets[n]
    BY DEF BucketOK, BucketThread
  <1> QED
    BY <1>1, <1>2, <1>3, BucketQuiet

LEMMA BucketStepBuckets ==
    ASSUME TInv, BucketInv, NEW t \in Threads, BucketStep(t) \/ Begin(t)
    PROVE  BucketInv'
  <1> SUFFICES ASSUME NEW n \in Names, n \notin raced' PROVE BucketOK(n)'
    BY DEF BucketInv
  <1> DEFINE m == req[t].name
  <1>1. ASSUME UNCHANGED <<buckets, bucketCache, raced>>, Rest(t), req[t].pc # "uncache",
               req'[t].pc \notin {"cacheBucket", "created", "uncache", "cacheAll"}
        PROVE  BucketOK(n)'
    <2>1. BucketOK(n) /\ BucketThread(t, n)'
      BY <1>1, NotBringingBucket DEF BucketInv
    <2> QED
      BY <1>1, <2>1, BucketQuiet
  <1>2. CASE Begin(t)
    <2>1. Begun(t) /\ UNCHANGED <<tableVars, bucketCache, raced>> /\ req[t].pc = "idle"
      BY <1>2, BeginTypes DEF Begin
    <2>2. req'[t].pc \notin {"cacheBucket", "created", "uncache", "cacheAll"}
      BY <2>1 DEF Begun
    <2> QED
      BY <1>1, <2>1, <2>2 DEF Begun, tableVars
  <1>3. CASE LookUpBucket(t)
    <2>1. /\ LookedUp(t) /\ UNCHANGED <<tableVars, bucketCache, history>> /\ req[t].pc = "bucket"
          /\ AfterBucket(req[t]) \notin LatePcs
      BY <1>3, LookUpBucketTypes DEF LookUpBucket
    <2>2. UNCHANGED <<buckets, bucketCache, raced>>
      BY <2>1 DEF tableVars, history
    <2>3. CASE req'[t].pc # "cacheBucket"
      <3>1. Rest(t) /\ req'[t].pc \notin {"cacheBucket", "created", "uncache", "cacheAll"}
        BY <2>1, <2>3, JumpPc DEF LookedUp, Move, LatePcs
      <3> QED
        BY <1>1, <2>1, <2>2, <3>1
    <2>4. CASE req'[t].pc = "cacheBucket"
      <3>1. PICK l \in BucketRows(m) :
              Rest(t) /\ req'[t].name = m /\ req'[t].found = BucketRead(m, l)
        BY <2>1, <2>4, JumpPc DEF LookedUp, Move, LatePcs, Ident
      <3>4. m \in Names
        BY <2>1, RequestFacts DEF Fits, Parts, BucketOps
      <3>5. \A k \in Names : req'[t].found[k] # NoId => req'[t].found[k] = buckets[k]
        BY <3>1, <3>4, RowFound
      <3>2. BucketThread(t, n)'
        BY <2>2, <2>4, <3>5 DEF BucketThread
      <3>3. BucketOK(n)
        BY <2>2 DEF BucketInv
      <3> QED
        BY <2>1, <2>2, <3>1, <3>2, <3>3, BucketQuiet
    <2> QED
      BY <2>3, <2>4
  <1>4. CASE CacheBucket(t)
    <2> DEFINE p == AfterBucket(req[t])
    <2>1. /\ Jump(t, p) /\ p \notin LatePcs /\ req[t].pc = "cacheBucket"
          /\ StoreFound(t) /\ UNCHANGED raced
      BY <1>4, CacheBucketTypes DEF CacheBucket, StoreFound, history
    <2>2. Rest(t) /\ req'[t].pc \notin {"cacheBucket", "created", "uncache", "cacheAll"}
      <3> HIDE DEF p
      <3> QED
        BY <2>1, JumpPc DEF LatePcs
    <2>3. BucketOK(n) /\ BucketThread(t, n)'
      BY <2>1, <2>2, NotBringingBucket DEF BucketInv
    <2> QED
      BY <2>1, <2>2, <2>3, FoundStored
  <1>5. CASE InsertBucket(t)
    <2>1. Created(t) /\ UNCHANGED bucketCache /\ req[t].pc = "create"
      BY <1>5, InsertBucketTypes DEF InsertBucket
    <2>2. m \in Names
      BY <2>1, RequestFacts DEF Fits, Parts
    <2>3. CASE Jump(t, "idle") /\ UNCHANGED <<buckets, nextId, faults, raced>>
      BY <1>1, <2>1, <2>3, JumpPc
    <2>4. CASE /\ buckets[m] = NoId /\ buckets' = [buckets EXCEPT ![m] = nextId]
               /\ raced' = raced \cup RaceOnBucket(t, m)
      <3>1. BucketOK(n)
        BY <2>4 DEF BucketInv
      <3>2. m = n => RaceOnBucket(t, n) = {} /\ buckets[n] = NoId
        BY <2>4 DEF RaceOnBucket
      <3>3. CASE Jump(t, "idle")
        <4>1. Rest(t) /\ BucketThread(t, n)'
          BY <3>3, JumpPc, NotBringingBucket
        <4> HIDE DEF m
        <4> QED
          BY <2>1, <2>2, <2>4, <3>1, <3>2, <4>1, BucketChanged
      <3>4. CASE Move(t, "created") /\ req'[t].bid = nextId
        <4>1. Rest(t) /\ req'[t].pc = "created" /\ req'[t].name = m
          BY <3>4 DEF Move, Ident
        <4>2. BucketThread(t, n)'
          BY <2>2, <2>4, <3>4, <4>1 DEF BucketThread, TInv, TableTypes
        <4> HIDE DEF m
        <4> QED
          BY <2>1, <2>2, <2>4, <3>1, <3>2, <4>1, <4>2, BucketChanged
      <3> QED
        BY <2>1, <2>3, <3>3, <3>4 DEF Created
    <2> QED
      BY <2>1, <2>3, <2>4 DEF Created
  <1>6. CASE DropBucket(t)
    <2>1. Dropped(t) /\ UNCHANGED bucketCache /\ req[t].pc = "drop"
      BY <1>6, DropBucketTypes DEF DropBucket
    <2>2. m \in Names
      BY <2>1, RequestFacts DEF Fits, Parts
    <2>3. CASE Jump(t, "idle") /\ UNCHANGED <<buckets, objects, faults, removed, torn, raced>>
      BY <1>1, <2>1, <2>3, JumpPc
    <2>4. ASSUME NEW l \in BucketRows(m), DroppedRow(t, l)
          PROVE  BucketOK(n)'
      <3>1. /\ l \in Names /\ buckets' = [buckets EXCEPT ![l] = NoId]
            /\ m # l => buckets[m] = NoId
        <4>1. l \in Names /\ buckets' = [buckets EXCEPT ![l] = NoId]
          BY <2>4 DEF BucketRows, Spellings, DroppedRow
        <4>2. buckets[m] # NoId => m \in BucketRows(m)
          BY <2>2 DEF BucketRows, Spellings
        <4>3. \A k \in BucketRows(m) : k = l
          BY <2>2, <2>4 DEF TInv, RowRules, UniqueRows
        <4> QED
          BY <4>1, <4>2, <4>3
      <3>2. CASE Jump(t, "uncache") /\ raced' = raced \cup RaceOnBucket(t, l) \cup ({l} \ {m})
        <4>1. BucketOK(n)
          BY <3>2 DEF BucketInv
        <4>2. Rest(t) /\ req'[t].pc = "uncache" /\ req'[t].name = m
          BY <3>2, JumpPc DEF Jump, Ident
        <4>3. l = n => RaceOnBucket(t, n) = {} /\ req'[t].name = n /\ req'[t].pc = "uncache"
          BY <3>2, <4>2 DEF RaceOnBucket
        <4>4. BucketThread(t, n)'
          BY <2>2, <3>1, <4>2 DEF BucketThread, TInv, TableTypes
        <4> QED
          BY <2>1, <3>1, <4>1, <4>2, <4>3, <4>4, BucketChanged
      <3>3. CASE Jump(t, "idle") /\ raced' = raced \cup {l}
        <4>1. BucketOK(n) /\ l # n
          BY <3>3 DEF BucketInv
        <4>2. Rest(t) /\ BucketThread(t, n)'
          BY <3>3, JumpPc, NotBringingBucket
        <4>3. buckets'[n] = buckets[n]
          BY <3>1, <4>1 DEF TInv, TableTypes
        <4> QED
          BY <2>1, <4>1, <4>2, <4>3, BucketQuiet
      <3> QED
        BY <2>4, <3>2, <3>3 DEF DroppedRow
    <2> QED
      BY <2>1, <2>3, <2>4 DEF Dropped
  <1>7. CASE ListBuckets(t)
    <2>1. /\ Move(t, "cacheAll") /\ req'[t].found = buckets /\ req[t].pc = "listBuckets"
          /\ UNCHANGED <<buckets, bucketCache, raced>>
      BY <1>7, ListBucketsTypes DEF ListBuckets, tableVars, history
    <2>2. Rest(t) /\ BucketThread(t, n)'
      BY <2>1 DEF Move, BucketThread
    <2>3. BucketOK(n)
      BY <2>1 DEF BucketInv
    <2> QED
      BY <2>1, <2>2, <2>3, BucketQuiet
  <1>8. CASE LookUpBucketFails(t) \/ InsertBucketFails(t) \/ BucketStatementFails(t)
    <2>1. Jump(t, "idle") /\ UNCHANGED <<tableVars, bucketCache, history>>
      BY <1>8, FailedTypes DEF Failed
    <2>2. req[t].pc # "uncache"
      BY <1>8 DEF LookUpBucketFails, InsertBucketFails, BucketStatementFails
    <2> QED
      BY <1>1, <2>1, <2>2, JumpPc DEF tableVars, history
  <1>9. CASE CacheCreated(t) \/ UncacheBucket(t)
    <2>1. Jump(t, "idle")
      BY <1>9, CacheCreatedTypes
    <2>2. Rest(t) /\ BucketThread(t, n)'
      BY <2>1, JumpPc, NotBringingBucket
    <2>3. PICK id : /\ StoreBucket(m, id)
                    /\ \/ req[t].pc = "created" /\ id = req[t].bid
                       \/ req[t].pc = "uncache" /\ id = NoId
      BY <1>9 DEF CacheCreated, UncacheBucket
    <2>4. /\ bucketCache' = [bucketCache EXCEPT ![m] = id]
          /\ UNCHANGED <<buckets, raced>>
      BY <2>3 DEF StoreBucket, tableVars, history
    <2>5. BucketOK(n)
      BY <2>4 DEF BucketInv
    <2>6. \/ bucketCache'[n] \in {NoId, buckets[n]}
          \/ bucketCache'[n] = bucketCache[n] /\ m # n
      BY <2>3, <2>4, <2>5 DEF BucketOK, BucketThread, TInv, TableTypes
    <2> QED
      BY <2>2, <2>4, <2>5, <2>6, BucketQuiet
  <1>10. CASE CheckEmpty(t)
    <2>1. /\ Jump(t, "idle") \/ Jump(t, "drop")
          /\ UNCHANGED <<tableVars, bucketCache, history>>
          /\ req[t].pc = "empty"
      BY <1>10, CheckEmptyTypes DEF CheckEmpty
    <2>2. Rest(t) /\ req'[t].pc \in {"idle", "drop"}
      BY <2>1, JumpPc
    <2> QED
      BY <1>1, <2>1, <2>2 DEF tableVars, history
  <1>11. CASE CacheAll(t)
    <2>1. Jump(t, "idle") /\ req[t].pc = "cacheAll" /\ StoreFound(t) /\ UNCHANGED raced
      BY <1>11, CacheAllTypes DEF CacheAll, StoreFound, history
    <2>2. Rest(t) /\ BucketThread(t, n)'
      BY <2>1, JumpPc, NotBringingBucket
    <2>3. BucketOK(n)
      BY <2>1 DEF BucketInv
    <2> QED
      BY <2>1, <2>2, <2>3, FoundStored
  <1> QED
    BY <1>2, <1>3, <1>4, <1>5, <1>6, <1>7, <1>8, <1>9, <1>10, <1>11 DEF BucketStep

LEMMA NextBuckets ==
    ASSUME TInv, BucketInv, [Next]_vars
    PROVE  BucketInv'
  <1>1. ASSUME UNCHANGED <<buckets, bucketCache, req, raced>> PROVE BucketInv'
    BY <1>1 DEF BucketInv, BucketOK, BucketThread
  <1>2. CASE UNCHANGED vars \/ AllAnswered
    BY <1>1, <1>2 DEF AllAnswered, vars, tableVars, history
  <1>3. ASSUME NEW t \in Threads, Begin(t) \/ BucketStep(t) \/ ObjectStep(t)
        PROVE  BucketInv'
    BY <1>3, BucketStepBuckets, ObjectStepBuckets
  <1>4. ASSUME NEW x \in Objects, ExpireEntry(x)
        PROVE  BucketInv'
    BY <1>1, <1>4 DEF ExpireEntry, tableVars
  <1>5. ASSUME NEW i \in IdemKeys, ExpireRecord(i)
        PROVE  BucketInv'
    BY <1>1, <1>5 DEF ExpireRecord
  <1>6. CASE DelayedCommand
    BY <1>1, <1>6 DEF DelayedCommand, tableVars, history
  <1> QED
    BY <1>2, <1>3, <1>4, <1>5, <1>6 DEF Next

LEMMA InitBuckets ==
    ASSUME Init
    PROVE  BucketInv
  <1>1. \A t \in Threads : req[t].pc = "idle"
    BY IdleOK DEF Init
  <1>2. \A n \in Names : bucketCache[n] = NoId
    BY DEF Init, NoBuckets
  <1> QED
    BY <1>1, <1>2 DEF BucketInv, BucketOK, BucketThread

\* bucket_cache_ names a bucket that does not exist (any more) only after a race
\* of requests that create, delete or look up that bucket, a DELETE whose reply
\* was lost, or a DELETE by another spelling of the name.
THEOREM CachedBucketsAreCurrent == Spec => []StaleBucketOnlyByRace
  <1> DEFINE I == TInv /\ BucketInv
  <1>1. Init => I
    BY InitTypes, InitBuckets
  <1>2. I /\ [Next]_vars => I'
    BY NextTypes, NextBuckets
  <1>3. I => StaleBucketOnlyByRace
    BY DEF BucketInv, BucketOK, StaleBucketOnlyByRace, BringsBucket
  <1> QED
    BY <1>1, <1>2, <1>3, PTL DEF Spec

----------------------------------------------------------------------------
(***************************************************************************)
(* A PUT under an idempotency key is executed once                         *)
(***************************************************************************)

BucketPcs == {"bucket", "cacheBucket", "create", "created", "empty", "drop", "uncache",
              "listBuckets", "cacheAll"}

\* A step of a request on a bucket, or to find the bucket, leaves the
\* idempotency records and the listings alone.
BucketMove(t) ==
    /\ Rest(t)
    /\ req[t].pc \in BucketPcs
    /\ UNCHANGED <<idem, executed, shaky>>
    /\ \/ req'[t] = Idle
       \/ /\ Ident(req'[t], req[t]) /\ SameListing(req'[t], req[t])
          /\ req'[t].pc \notin {"upsert", "update", "record", "listed"}
          /\ req'[t].pc = "insert" => req[t].ikey = None
          /\ req'[t].pc # "idle"

LEMMA BucketStepMoves ==
    ASSUME TInv, NEW t \in Threads, BucketStep(t)
    PROVE  BucketMove(t)
  <1> USE DEF BucketPcs
  <1>1. ASSUME NEW p \in {"idle", "drop", "uncache"}, Jump(t, p), req[t].pc \in BucketPcs,
               UNCHANGED <<idem, executed, shaky>>
        PROVE  BucketMove(t)
    BY <1>1 DEF Jump, BucketMove
  <1>2. CASE LookUpBucket(t)
    <2>1. /\ LookedUp(t) /\ UNCHANGED <<idem, executed, shaky>> /\ req[t].pc = "bucket"
          /\ AfterBucket(req[t]) \notin LatePcs
          /\ AfterBucket(req[t]) = "insert" => req[t].ikey = None
      BY <1>2, LookUpBucketTypes DEF LookUpBucket, tableVars, history
    <2>2. CASE Jump(t, "idle")
      BY <1>1, <2>1, <2>2
    <2>3. CASE \/ Move(t, AfterBucket(req[t])) /\ SameListing(req'[t], req[t])
               \/ Move(t, "cacheBucket") /\ SameListing(req'[t], req[t])
      BY <2>1, <2>3 DEF Move, BucketMove, LatePcs
    <2> QED
      BY <2>1, <2>2, <2>3 DEF LookedUp
  <1>3. CASE CacheBucket(t)
    <2> DEFINE p == AfterBucket(req[t])
    <2>1. /\ Jump(t, p) /\ p \notin LatePcs /\ req[t].pc = "cacheBucket"
          /\ UNCHANGED <<idem, executed, shaky>>
          /\ p = "insert" => req[t].ikey = None
      BY <1>3, CacheBucketTypes DEF CacheBucket, StoreFound, tableVars, history
    <2> HIDE DEF p
    <2> QED
      BY <2>1 DEF Jump, BucketMove, LatePcs
  <1>4. CASE InsertBucket(t)
    <2>1. Created(t) /\ UNCHANGED <<idem, executed, shaky>> /\ req[t].pc = "create"
      BY <1>4, InsertBucketTypes DEF InsertBucket
    <2>2. CASE Jump(t, "idle")
      BY <1>1, <2>1, <2>2
    <2>3. CASE Move(t, "created") /\ SameListing(req'[t], req[t])
      BY <2>1, <2>3 DEF Move, BucketMove
    <2> QED
      BY <2>1, <2>2, <2>3 DEF Created
  <1>5. CASE DropBucket(t)
    <2>1. Dropped(t) /\ UNCHANGED <<idem, executed, shaky>> /\ req[t].pc = "drop"
      BY <1>5, DropBucketTypes DEF DropBucket
    <2>2. Jump(t, "idle") \/ Jump(t, "uncache")
      BY <2>1 DEF Dropped, DroppedRow
    <2> QED
      BY <1>1, <2>1, <2>2
  <1>6. CASE ListBuckets(t)
    <2>1. /\ Move(t, "cacheAll") /\ SameListing(req'[t], req[t])
          /\ UNCHANGED <<idem, executed, shaky>> /\ req[t].pc = "listBuckets"
      BY <1>6, ListBucketsTypes DEF ListBuckets, tableVars, history
    <2> QED
      BY <2>1 DEF Move, BucketMove
  <1>7. CASE LookUpBucketFails(t) \/ InsertBucketFails(t) \/ BucketStatementFails(t)
    <2>1. Jump(t, "idle") /\ UNCHANGED <<idem, executed, shaky>>
      BY <1>7, FailedTypes DEF Failed, tableVars, history
    <2>2. req[t].pc \in BucketPcs
      BY <1>7 DEF LookUpBucketFails, InsertBucketFails, BucketStatementFails
    <2> QED
      BY <1>1, <2>1, <2>2
  <1>8. CASE CacheCreated(t) \/ UncacheBucket(t) \/ CheckEmpty(t) \/ CacheAll(t)
    <2>1. /\ Jump(t, "idle") \/ Jump(t, "drop")
          /\ UNCHANGED <<idem, executed, shaky>>
          /\ req[t].pc \in BucketPcs
      BY <1>8, CacheCreatedTypes, CheckEmptyTypes, CacheAllTypes
         DEF CacheCreated, UncacheBucket, StoreBucket, StoreFound, CheckEmpty, CacheAll,
             tableVars, history
    <2> QED
      BY <1>1, <2>1
  <1> QED
    BY <1>2, <1>3, <1>4, <1>5, <1>6, <1>7, <1>8 DEF BucketStep

\* A step of a request that does not use i, or that ends without executing it,
\* or moves to a step at which IdemOK allows it to be.
LEMMA IdemQuiet ==
    ASSUME NEW i \in IdemKeys, IdemOK(i), NEW t \in Threads, Rest(t),
           executed'[i] = executed[i],
           req'[t].ikey = i =>
              /\ \A q \in Threads \ {t} : req[q].ikey # i
              /\ req'[t].pc \in {"insert", "upsert"} => executed[i] = 0,
           \/ idem'[i] = idem[i] /\ ~(req[t].ikey = i /\ req[t].pc \in {"update", "record"})
           \/ req'[t].ikey = i /\ req'[t].pc \in {"update", "record"}
           \/ idem'[i] # None
    PROVE  IdemOK(i)'
  <1>1. \A q \in Threads \ {t} : req'[q] = req[q]
    BY DEF Rest
  <1>2. \A q, u \in Threads : req'[q].ikey = i /\ req'[u].ikey = i => q = u
    BY <1>1 DEF IdemOK
  <1>3. \A q \in Threads : req'[q].ikey = i /\ req'[q].pc \in {"insert", "upsert"} => executed'[i] = 0
    BY <1>1 DEF IdemOK
  <1>4. \/ executed'[i] = 0
        \/ /\ executed'[i] = 1
           /\ \/ idem'[i] # None
              \/ \E q \in Threads : req'[q].ikey = i /\ req'[q].pc \in {"update", "record"}
    BY <1>1 DEF IdemOK
  <1> QED
    BY <1>2, <1>3, <1>4 DEF IdemOK

LEMMA BucketStepIdem ==
    ASSUME TInv, IdemInv, NEW t \in Threads, BucketStep(t) \/ Begin(t)
    PROVE  IdemInv'
  <1> SUFFICES ASSUME NEW i \in IdemKeys, i \notin shaky' PROVE IdemOK(i)'
    BY DEF IdemInv
  <1>0. None \notin IdemKeys
    BY MetadataAssumption
  <1>1. CASE Begin(t)
    <2>1. Begun(t) /\ UNCHANGED <<idem, executed>> /\ req[t].pc = "idle"
      BY <1>1, BeginTypes DEF Begin, tableVars
    <2>2. IdemOK(i)
      BY <2>1 DEF IdemInv, Begun
    <2>3. req'[t].ikey = i => /\ \A q \in Threads \ {t} : req[q].ikey # i
                              /\ req'[t].pc \notin {"insert", "upsert"}
      BY <2>1 DEF Begun, Others
    <2>4. Rest(t)
      BY <2>1 DEF Begun
    <2> QED
      BY <2>1, <2>2, <2>3, <2>4, IdemQuiet
  <1>2. CASE BucketStep(t)
    <2>1. BucketMove(t)
      BY <1>2, BucketStepMoves
    <2>2. IdemOK(i)
      BY <2>1 DEF IdemInv, BucketMove
    <2>3. req'[t].ikey = i => /\ \A q \in Threads \ {t} : req[q].ikey # i
                              /\ req'[t].pc \notin {"insert", "upsert"}
      BY <1>0, <2>1, <2>2, IdleOK DEF BucketMove, IdemOK, Ident
    <2>4. Rest(t) /\ UNCHANGED <<idem, executed>> /\ req[t].pc \notin {"update", "record"}
      BY <2>1 DEF BucketMove, BucketPcs
    <2> QED
      BY <2>2, <2>3, <2>4, IdemQuiet
  <1> QED
    BY <1>1, <1>2

LEMMA CommitIdem ==
    ASSUME TInv, IdemInv, NEW t \in Threads, NEW o, NEW missed, NEW p,
           Committed(t, o, missed, p), req[t].pc \in {"insert", "upsert"}, UNCHANGED idem,
           p \in {"idle", "update", "record"},
           req[t].ikey # None => p \in {"update", "record"}
    PROVE  IdemInv'
  <1> SUFFICES ASSUME NEW i \in IdemKeys, i \notin shaky' PROVE IdemOK(i)'
    BY DEF IdemInv
  <1> DEFINE k == req[t].ikey
  <1>0. None \notin IdemKeys
    BY MetadataAssumption
  <1>1. executed' = [j \in IdemKeys |-> executed[j] + (IF j = k THEN 1 ELSE 0)]
    BY DEF Committed
  <1>2. executed[i] \in Nat
    BY DEF TInv, HistoryTypes
  <1>3. IdemOK(i)
    BY DEF IdemInv, Committed
  <1>4. PICK w \in {p, "idle"} : Jump(t, w) /\ (w = "idle" /\ w # p => k # i)
    BY DEF Committed
  <1>5. Rest(t) /\ req'[t].pc = w /\ (w # "idle" => req'[t].ikey = k)
        /\ (w = "idle" => req'[t].ikey = None)
    BY <1>4, JumpPc, IdleOK DEF Jump, Ident
  <1>6. CASE k # i
    <2>1. executed'[i] = executed[i]
      BY <1>1, <1>2, <1>6
    <2>2. req'[t].ikey # i
      BY <1>0, <1>5, <1>6
    <2> QED
      BY <1>3, <1>5, <1>6, <2>1, <2>2, IdemQuiet
  <1>7. CASE k = i
    <2>1. executed[i] = 0
      BY <1>3, <1>7 DEF IdemOK
    <2>2. executed'[i] = 1
      BY <1>1, <1>7, <2>1
    <2>3. w = p /\ p \in {"update", "record"}
      BY <1>0, <1>4, <1>7
    <2>4. \A q \in Threads \ {t} : req'[q] = req[q] /\ req[q].ikey # i
      BY <1>3, <1>5, <1>7 DEF Rest, IdemOK
    <2>5. req'[t].ikey = i /\ req'[t].pc \in {"update", "record"}
      BY <1>5, <1>7, <2>3
    <2>6. \A q, u \in Threads : req'[q].ikey = i /\ req'[u].ikey = i => q = u
      BY <2>4
    <2>7. \A q \in Threads : req'[q].ikey = i => req'[q].pc \notin {"insert", "upsert"}
      BY <2>4, <2>5
    <2> QED
      BY <2>2, <2>5, <2>6, <2>7 DEF IdemOK
  <1> QED
    BY <1>6, <1>7

LEMMA ObjectStepIdem ==
    ASSUME TInv, IdemInv, NEW t \in Threads, ObjectStep(t)
    PROVE  IdemInv'
  <1> DEFINE k == req[t].ikey
  <1>0. None \notin IdemKeys
    BY MetadataAssumption
  <1>1. ASSUME Rest(t), UNCHANGED <<idem, executed, shaky>>, req'[t].ikey \in {k, None},
               req'[t].pc \notin {"insert"},
               req'[t].pc = "upsert" => req[t].pc = "insert",
               \/ req[t].pc \notin {"update", "record"}
               \/ k = None
               \/ req'[t].pc = "record" /\ req'[t].ikey = k
        PROVE  IdemInv'
    <2> SUFFICES ASSUME NEW i \in IdemKeys, i \notin shaky PROVE IdemOK(i)'
      BY <1>1 DEF IdemInv
    <2>1. IdemOK(i)
      BY DEF IdemInv
    <2>2. req'[t].ikey = i =>
             /\ \A q \in Threads \ {t} : req[q].ikey # i
             /\ req'[t].pc \in {"insert", "upsert"} => executed[i] = 0
      BY <1>0, <1>1, <2>1 DEF IdemOK
    <2>3. \/ ~(req[t].ikey = i /\ req[t].pc \in {"update", "record"})
          \/ req'[t].ikey = i /\ req'[t].pc \in {"update", "record"}
      BY <1>0, <1>1
    <2> QED
      BY <1>1, <2>1, <2>2, <2>3, IdemQuiet
  <1>2. ObjectMove(t)
    BY ObjectStepMoves
  <1>3. Rest(t) /\ req'[t].ikey \in {k, None}
    BY <1>2, IdleOK DEF ObjectMove, Ident
  <1>4. CASE \/ LookUpObject(t) \/ EvictBad(t) \/ SelectObject(t) \/ FillObject(t) \/ Serve(t)
             \/ RemoveObject(t) \/ EvictObject(t) \/ ListObjects(t) \/ Listed(t)
    <2>1. UNCHANGED <<idem, executed, shaky>>
      BY <1>4 DEF LookUpObject, EvictBad, SelectObject, FillObject, SetAndGoto, Serve,
                  RemoveObject, EvictObject, ListObjects, Listed, tableVars, history
    <2>2. req[t].pc \in ObjectPcs \cup {"page", "listed"}
      BY <1>4 DEF LookUpObject, EvictBad, SelectObject, FillObject, Serve,
                  RemoveObject, EvictObject, ListObjects, Listed, ObjectPcs
    <2>3. req[t].op # "put" /\ k = None
      BY <2>2, RequestFacts DEF Fits, Parts, ObjectPcs
    <2>4. req'[t].pc \notin {"insert", "upsert"}
      <3>1. req'[t].op = req[t].op \/ req'[t] = Idle
        BY <1>2 DEF ObjectMove, Ident
      <3>2. Shape(req'[t])
        <4>1. TInv'
          BY ObjectStepTypes
        <4>2. Shape(req[t])'
          BY <4>1 DEF TInv
        <4> QED
          BY <4>2 DEF Shape, Fits, Parts, Idle, NoBuckets
      <3> QED
        BY <2>3, <3>1, <3>2, IdleOK DEF Shape, Fits, PutPcs
    <2> QED
      BY <1>1, <1>3, <2>1, <2>3, <2>4
  <1>5. CASE ObjectStatementFails(t)
    <2>1. Jump(t, "idle") /\ UNCHANGED <<idem, executed, shaky>>
      BY <1>5, FailedTypes DEF Failed, tableVars, history
    <2>2. req[t].pc \notin {"update", "record"}
      BY <1>5 DEF ObjectStatementFails
    <2>3. req'[t].pc = "idle"
      BY <2>1, JumpPc
    <2> QED
      BY <1>1, <1>3, <2>1, <2>2, <2>3
  <1>6. CASE CheckIdempotency(t)
    <2>1. /\ k \in IdemKeys /\ UNCHANGED <<idem, executed, shaky>> /\ req[t].pc = "check"
          /\ Jump(t, "idle") \/ (Jump(t, "insert") /\ idem[k] = None)
      BY <1>6, CheckIdempotencyTypes DEF CheckIdempotency, tableVars, history
    <2> SUFFICES ASSUME NEW i \in IdemKeys, i \notin shaky PROVE IdemOK(i)'
      BY <2>1 DEF IdemInv
    <2>2. IdemOK(i)
      BY DEF IdemInv
    <2>3. req'[t].ikey = i =>
             /\ \A q \in Threads \ {t} : req[q].ikey # i
             /\ req'[t].pc \in {"insert", "upsert"} => executed[i] = 0
      <3> SUFFICES ASSUME req'[t].ikey = i
                   PROVE  /\ \A q \in Threads \ {t} : req[q].ikey # i
                          /\ req'[t].pc \in {"insert", "upsert"} => executed[i] = 0
        OBVIOUS
      <3>1. k = i /\ \A q \in Threads \ {t} : req[q].ikey # i
        BY <1>0, <1>3, <2>2 DEF IdemOK
      <3>2. req'[t].pc \in {"insert", "upsert"} => idem[i] = None
        BY <2>1, <3>1, JumpPc
      <3> QED
        BY <2>1, <2>2, <3>1, <3>2 DEF IdemOK
    <2> QED
      BY <1>3, <2>1, <2>2, <2>3, IdemQuiet
  <1>7. CASE InsertObject(t)
    <2>1. req[t].pc = "insert" /\ UNCHANGED idem
      BY <1>7 DEF InsertObject
    <2>2. ASSUME NEW p \in {"upsert", "idle"}, Jump(t, p), NothingPut PROVE IdemInv'
      BY <1>1, <1>3, <2>1, <2>2, JumpPc DEF NothingPut
    <2> DEFINE p == AfterPut(req[t])
    <2>3. CASE /\ Committed(t, Object(t), {}, p) /\ p \in {"idle", "record"}
               /\ k # None => p = "record"
      <3> HIDE DEF p
      <3> QED
        BY <2>1, <2>3, CommitIdem
    <2> QED
      BY <1>7, <2>2, <2>3, InsertObjectTypes
  <1>8. CASE UpsertObject(t)
    <2>1. req[t].pc = "upsert" /\ UNCHANGED idem
      BY <1>8 DEF UpsertObject
    <2>2. CASE Jump(t, "idle") /\ NothingPut
      BY <1>1, <1>3, <2>1, <2>2, JumpPc DEF NothingPut
    <2>3. CASE \E o : Committed(t, o, Missed(Object(t), o), "update")
      BY <2>1, <2>3, CommitIdem
    <2> QED
      BY <1>8, <2>2, <2>3, UpsertObjectTypes
  <1>9. CASE UpdateEntry(t)
    <2> DEFINE p == AfterPut(req[t])
    <2>1. /\ Jump(t, p) /\ p \in {"idle", "record"} /\ (k # None => p = "record")
          /\ UNCHANGED <<idem, executed, shaky>>
      BY <1>9, UpdateEntryTypes DEF UpdateEntry, SetAndGoto, tableVars
    <2> HIDE DEF p
    <2>2. req'[t].pc = p /\ (p = "record" => req'[t].ikey = k)
      BY <2>1, JumpPc DEF Jump, Ident
    <2> QED
      BY <1>1, <1>3, <2>1, <2>2
  <1>10. CASE RecordIdempotency(t)
    <2>1. /\ Jump(t, "idle") /\ k \in IdemKeys /\ UNCHANGED executed
          /\ \/ idem'[k] # None /\ UNCHANGED shaky
             \/ shaky' = shaky \cup {k}
          /\ \A j \in IdemKeys \ {k} : idem'[j] = idem[j]
      BY <1>10, RecordIdempotencyTypes DEF RecordIdempotency
    <2> SUFFICES ASSUME NEW i \in IdemKeys, i \notin shaky' PROVE IdemOK(i)'
      BY DEF IdemInv
    <2>2. IdemOK(i)
      BY <2>1 DEF IdemInv
    <2>3. req'[t].ikey # i
      BY <1>0, <2>1, IdleOK DEF Jump
    <2>4. idem'[i] # None \/ (idem'[i] = idem[i] /\ k # i)
      BY <2>1
    <2> QED
      BY <1>3, <2>1, <2>2, <2>3, <2>4, IdemQuiet
  <1> QED
    BY <1>4, <1>5, <1>6, <1>7, <1>8, <1>9, <1>10 DEF ObjectStep

LEMMA NextIdem ==
    ASSUME TInv, IdemInv, [Next]_vars
    PROVE  IdemInv'
  <1>1. ASSUME UNCHANGED <<idem, executed, req, shaky>> PROVE IdemInv'
    BY <1>1 DEF IdemInv, IdemOK
  <1>2. CASE UNCHANGED vars \/ AllAnswered
    BY <1>1, <1>2 DEF AllAnswered, vars, tableVars, history
  <1>3. ASSUME NEW t \in Threads, Begin(t) \/ BucketStep(t) \/ ObjectStep(t)
        PROVE  IdemInv'
    BY <1>3, BucketStepIdem, ObjectStepIdem
  <1>4. ASSUME NEW x \in Objects, ExpireEntry(x)
        PROVE  IdemInv'
    BY <1>1, <1>4 DEF ExpireEntry, tableVars
  <1>5. ASSUME NEW j \in IdemKeys, ExpireRecord(j)
        PROVE  IdemInv'
    <2>1. /\ shaky' = shaky \cup {j} /\ UNCHANGED <<req, executed>>
          /\ \A i \in IdemKeys \ {j} : idem'[i] = idem[i]
      BY <1>5, ExpireRecordTypes DEF ExpireRecord
    <2> QED
      BY <2>1 DEF IdemInv, IdemOK
  <1>6. CASE DelayedCommand
    BY <1>1, <1>6 DEF DelayedCommand, tableVars, history
  <1> QED
    BY <1>2, <1>3, <1>4, <1>5, <1>6 DEF Next

\* Requests with the same Idempotency-Key that are not concurrent are executed
\* once, while the record is written and has not expired: whichever of the two
\* paths of PUT they take and whatever happens to their calls of Redis.
THEOREM PutsAreExecutedOnce == Spec => []ExecutedOnce
  <1> DEFINE I == TInv /\ IdemInv
  <1>1. Init => I
    <2> SUFFICES ASSUME Init PROVE IdemInv
      BY InitTypes
    <2>1. \A t \in Threads : req[t].ikey = None
      BY IdleOK DEF Init
    <2>2. \A i \in IdemKeys : i # None /\ executed[i] = 0
      BY MetadataAssumption DEF Init
    <2> QED
      BY <2>1, <2>2 DEF IdemInv, IdemOK
  <1>2. I /\ [Next]_vars => I'
    BY NextTypes, NextIdem
  <1>3. I => ExecutedOnce
    BY DEF IdemInv, IdemOK, ExecutedOnce
  <1> QED
    BY <1>1, <1>2, <1>3, PTL DEF Spec

\* A GET with a Range header sends exactly the bytes the header selects, and
\* answers 416 only when it selects none, whatever the bound on sizes.
THEOREM RangesAreCorrect == Spec => []RangesAreWhatWasAsked
  <1>1. RangesAreWhatWasAsked
    <2> SUFFICES ASSUME NEW size \in 0..MaxSize,
                        NEW first \in {Absent} \cup 0..(MaxSize + 1),
                        NEW last \in {Absent} \cup 0..(MaxSize + 1)
                 PROVE  RangeIsWhatWasAsked(first, last, size)
      BY DEF RangesAreWhatWasAsked
    <2>1. MaxSize \in Nat
      BY MetadataAssumption
    <2>2. size \in Nat /\ first \in Position /\ last \in Position
      BY <2>1 DEF Position, Absent
    <2> QED
      BY <2>2, RangeCorrect
  <1> QED
    BY <1>1, PTL DEF Spec

----------------------------------------------------------------------------
(***************************************************************************)
(* A listing is complete                                                   *)
(***************************************************************************)

\* The three things a step may do to the table of buckets.
BucketsKept == UNCHANGED <<buckets, nextId>>
BucketAdded(n) ==
    /\ n \in Names /\ nextId \in Ids /\ buckets[n] = NoId
    /\ buckets' = [buckets EXCEPT ![n] = nextId] /\ nextId' = nextId + 1
BucketGone(n) ==
    n \in Names /\ buckets' = [buckets EXCEPT ![n] = NoId] /\ nextId' = nextId

LEMMA OwnersStay ==
    ASSUME TInv, NEW id \in Ids, NEW n, IdIsOf(id, n),
           BucketsKept \/ (\E m : BucketAdded(m) \/ BucketGone(m))
    PROVE  id < nextId' /\ \A m \in Names : buckets'[m] = id => m \in Spellings(n)
  <1>1. id \in Nat \ {0} /\ nextId \in Nat /\ buckets \in [Names -> Ids \cup {NoId}]
    BY IdsOK DEF TInv, TableTypes
  <1>2. CASE BucketsKept
    BY <1>2 DEF BucketsKept, IdIsOf
  <1>3. ASSUME NEW k, BucketAdded(k)
        PROVE  id < nextId' /\ \A m \in Names : buckets'[m] = id => m \in Spellings(n)
    <2>1. id < nextId' /\ id # nextId
      BY <1>1, <1>3 DEF BucketAdded, IdIsOf
    <2>2. \A m \in Names : buckets'[m] = id => buckets[m] = id
      BY <1>1, <1>3, <2>1 DEF BucketAdded
    <2> QED
      BY <2>1, <2>2 DEF IdIsOf
  <1>4. ASSUME NEW k, BucketGone(k)
        PROVE  id < nextId' /\ \A m \in Names : buckets'[m] = id => m \in Spellings(n)
    <2>1. \A m \in Names : buckets'[m] = id => buckets[m] = id
      BY <1>1, <1>4, IdsOK DEF BucketGone
    <2> QED
      BY <1>4, <2>1 DEF IdIsOf, BucketGone
  <1> QED
    BY <1>2, <1>3, <1>4

\* A step of thread t after which the ids it has stored or remembered, and those
\* in bucket_cache_, are still of their buckets.
LEMMA OwnerStep ==
    ASSUME TInv, TInv', OwnerInv, NEW t \in Threads, Rest(t), OwnerThread(t)',
           BucketsKept \/ (\E m : BucketAdded(m) \/ BucketGone(m)),
           \A n \in Names : \/ bucketCache'[n] \in {bucketCache[n], NoId}
                            \/ IdIsOf(bucketCache'[n], n)
    PROVE  OwnerInv'
  <1>1. ASSUME NEW id \in Ids, NEW n, IdIsOf(id, n)
        PROVE  id < nextId' /\ \A m \in Names : buckets'[m] = id => m \in Spellings(n)
    BY <1>1, OwnersStay
  <1>2. buckets \in [Names -> Ids \cup {NoId}] /\ nextId \in Nat
        /\ bucketCache \in [Names -> Ids \cup {NoId}]
    BY DEF TInv, TableTypes
  <1>3. ASSUME NEW n \in Names, buckets'[n] # NoId
        PROVE  buckets'[n] < nextId' /\ \A m \in Names : buckets'[m] = buckets'[n] => m \in Spellings(n)
    <2>1. CASE buckets'[n] = buckets[n]
      <3>1. IdIsOf(buckets[n], n) /\ buckets[n] \in Ids
        BY <1>2, <1>3, <2>1 DEF OwnerInv
      <3> QED
        BY <1>1, <2>1, <3>1
    <2>2. CASE buckets'[n] # buckets[n]
      <3>1. BucketAdded(n)
        BY <1>2, <1>3, <2>2 DEF BucketsKept, BucketAdded, BucketGone
      <3>2. buckets'[n] = nextId /\ nextId' = nextId + 1
        BY <1>2, <3>1 DEF BucketAdded
      <3>3. \A m \in Names \ {n} : buckets'[m] = buckets[m] /\ buckets[m] # nextId
        <4> SUFFICES ASSUME NEW m \in Names \ {n} PROVE buckets'[m] = buckets[m] /\ buckets[m] # nextId
          OBVIOUS
        <4>1. buckets'[m] = buckets[m]
          BY <1>2, <3>1 DEF BucketAdded
        <4>2. buckets[m] = NoId \/ buckets[m] < nextId
          BY DEF OwnerInv, IdIsOf
        <4>3. nextId # NoId
          BY <3>1, IdsOK DEF BucketAdded
        <4> QED
          BY <1>2, <4>1, <4>2, <4>3
      <3> QED
        BY <1>2, <3>2, <3>3 DEF Spellings
    <2> QED
      BY <2>1, <2>2
  <1>4. ASSUME NEW n \in Names, bucketCache'[n] # NoId, bucketCache'[n] \in Ids
        PROVE  /\ bucketCache'[n] < nextId'
               /\ \A m \in Names : buckets'[m] = bucketCache'[n] => m \in Spellings(n)
    <2>1. IdIsOf(bucketCache'[n], n)
      BY <1>4 DEF OwnerInv
    <2> QED
      BY <1>1, <1>4, <2>1
  <1>5. ASSUME NEW q \in Threads, q # t PROVE OwnerThread(q)'
    <2>1. req'[q] = req[q] /\ OwnerThread(q) /\ req[q] \in Requests
      BY <1>5 DEF Rest, OwnerInv, TInv
    <2>2. /\ req[q].found \in [Names -> Ids \cup {NoId}] /\ req[q].bid \in Ids \cup {NoId}
          /\ \A o \in req[q].start : o[1] \in Ids
      BY <2>1 DEF Requests, Objects
    <2>3. /\ \A n \in Names : req[q].found[n] # NoId =>
                /\ req[q].found[n] < nextId'
                /\ \A m \in Names : buckets'[m] = req[q].found[n] => m \in Spellings(n)
          /\ req[q].bid # NoId =>
                /\ req[q].bid < nextId'
                /\ \A m \in Names : buckets'[m] = req[q].bid => m \in Spellings(req[q].name)
          /\ \A o \in req[q].start :
                /\ o[1] < nextId'
                /\ \A m \in Names : buckets'[m] = o[1] => m \in Spellings(req[q].name)
      BY <1>1, <2>1, <2>2 DEF OwnerThread
    <2> QED
      BY <2>1, <2>3 DEF OwnerThread, IdIsOf
  <1>6. \A n \in Names : bucketCache'[n] # NoId => bucketCache'[n] \in Ids
    BY DEF TInv, TableTypes
  <1> QED
    BY <1>3, <1>4, <1>5, <1>6 DEF OwnerInv, IdIsOf

\* A request that keeps what it knows of buckets, or knows nothing of them.
LEMMA SameOwners ==
    ASSUME TInv, OwnerInv, NEW t \in Threads,
           BucketsKept \/ (\E m : BucketAdded(m) \/ BucketGone(m)),
           \/ /\ req'[t].bid = NoId /\ req'[t].found = NoBuckets /\ req'[t].start = {}
           \/ /\ req'[t].bid = req[t].bid /\ req'[t].found = req[t].found
              /\ req'[t].start = req[t].start /\ req'[t].name = req[t].name
    PROVE  OwnerThread(t)'
  <1>1. CASE req'[t].bid = NoId /\ req'[t].found = NoBuckets /\ req'[t].start = {}
    BY <1>1 DEF OwnerThread, NoBuckets
  <1>2. CASE /\ req'[t].bid = req[t].bid /\ req'[t].found = req[t].found
             /\ req'[t].start = req[t].start /\ req'[t].name = req[t].name
    <2>1. OwnerThread(t) /\ req[t] \in Requests
      BY DEF OwnerInv, TInv
    <2>2. /\ req[t].found \in [Names -> Ids \cup {NoId}] /\ req[t].bid \in Ids \cup {NoId}
          /\ \A o \in req[t].start : o[1] \in Ids
      BY <2>1 DEF Requests, Objects
    <2>3. /\ \A n \in Names : req[t].found[n] # NoId =>
                /\ req[t].found[n] < nextId'
                /\ \A m \in Names : buckets'[m] = req[t].found[n] => m \in Spellings(n)
          /\ req[t].bid # NoId =>
                /\ req[t].bid < nextId'
                /\ \A m \in Names : buckets'[m] = req[t].bid => m \in Spellings(req[t].name)
          /\ \A o \in req[t].start :
                /\ o[1] < nextId'
                /\ \A m \in Names : buckets'[m] = o[1] => m \in Spellings(req[t].name)
      BY <2>1, <2>2, OwnersStay DEF OwnerThread
    <2> QED
      BY <1>2, <2>3 DEF OwnerThread, IdIsOf
  <1> QED
    BY <1>1, <1>2

LEMMA IdleOwners ==
    Idle.bid = NoId /\ Idle.found = NoBuckets /\ Idle.start = {} /\ Idle.seen = << >>
    /\ Idle.after = 0
  BY DEF Idle

LEMMA JumpOwners ==
    ASSUME TInv, OwnerInv, NEW t \in Threads, NEW p, Jump(t, p),
           BucketsKept \/ (\E m : BucketAdded(m) \/ BucketGone(m))
    PROVE  OwnerThread(t)'
  <1>1. \/ req'[t].bid = NoId /\ req'[t].found = NoBuckets /\ req'[t].start = {}
        \/ /\ req'[t].bid = req[t].bid /\ req'[t].found = req[t].found
           /\ req'[t].start = req[t].start /\ req'[t].name = req[t].name
    BY IdleOwners DEF Jump, Ident, SameListing
  <1> QED
    BY <1>1, SameOwners

LEMMA ObjectStepOwners ==
    ASSUME TInv, OwnerInv, NEW t \in Threads, ObjectStep(t)
    PROVE  OwnerInv'
  <1>1. ObjectMove(t) /\ TInv'
    BY ObjectStepMoves, ObjectStepTypes
  <1>2. Rest(t) /\ BucketsKept /\ UNCHANGED bucketCache
    BY <1>1 DEF ObjectMove, BucketsKept
  <1>3. OwnerThread(t)'
    <2>1. CASE req'[t] = Idle
      BY <1>2, <2>1, IdleOwners, SameOwners
    <2>2. CASE /\ Ident(req'[t], req[t]) /\ req'[t].bid = req[t].bid /\ req'[t].found = req[t].found
               /\ SameListing(req'[t], req[t])
      BY <1>2, <2>2, SameOwners DEF Ident, SameListing
    <2>3. CASE ListObjects(t)
      <3>1. Paged(t) /\ req[t].pc = "page"
        BY <2>3, ListObjectsTypes DEF ListObjects
      <3>2. req[t].bid \in Ids
        BY <3>1, RequestFacts DEF Fits
      <3>3. /\ req'[t].name = req[t].name /\ req'[t].bid = req[t].bid /\ req'[t].found = req[t].found
            /\ \A o \in req'[t].start : o \in req[t].start \/ o[1] = req[t].bid
        BY <3>1 DEF Paged, Ident
      <3>4. OwnerThread(t)
        BY DEF OwnerInv
      <3>5. req[t].bid # NoId
        BY <3>2, IdsOK
      <3> QED
        BY <1>2, <3>3, <3>4, <3>5 DEF OwnerThread, IdIsOf, BucketsKept
    <2> QED
      BY <1>1, <2>1, <2>2, <2>3 DEF ObjectMove
  <1> QED
    BY <1>1, <1>2, <1>3, OwnerStep

LEMMA BucketStepOwners ==
    ASSUME TInv, OwnerInv, NEW t \in Threads, BucketStep(t) \/ Begin(t)
    PROVE  OwnerInv'
  <1> DEFINE n == req[t].name
  <1>0. TInv'
    BY BeginTypes, BucketStepTypes
  <1>1. ASSUME BucketsKept, UNCHANGED bucketCache, NEW p, Jump(t, p) PROVE OwnerInv'
    BY <1>0, <1>1, JumpOwners, JumpPc, OwnerStep
  <1>2. CASE Begin(t)
    <2>1. Begun(t) /\ BucketsKept /\ UNCHANGED bucketCache
      BY <1>2, BeginTypes DEF Begin, tableVars, BucketsKept
    <2>2. OwnerThread(t)' /\ Rest(t)
      BY <2>1, SameOwners DEF Begun
    <2> QED
      BY <1>0, <2>1, <2>2, OwnerStep
  <1>3. CASE LookUpBucket(t)
    <2>1. LookedUp(t) /\ BucketsKept /\ UNCHANGED bucketCache /\ req[t].pc = "bucket"
      BY <1>3, LookUpBucketTypes DEF LookUpBucket, tableVars, BucketsKept
    <2>2. n \in Names
      BY <2>1, RequestFacts DEF Fits, Parts, BucketOps
    <2>3. CASE Jump(t, "idle")
      BY <1>1, <2>1, <2>3
    <2>4. ASSUME /\ Rest(t) /\ req'[t].name = n /\ req'[t].start = req[t].start,
                 IdIsOf(req'[t].bid, n),
                 \A m \in Names : req'[t].found[m] # NoId => IdIsOf(req'[t].found[m], m)
          PROVE  OwnerInv'
      <3>1. OwnerThread(t)
        BY DEF OwnerInv
      <3>2. OwnerThread(t)'
        BY <2>1, <2>4, <3>1 DEF OwnerThread, IdIsOf, BucketsKept
      <3> QED
        BY <1>0, <2>1, <2>4, <3>2, OwnerStep
    <2>5. CASE /\ bucketCache[n] # NoId /\ Move(t, AfterBucket(req[t]))
               /\ SameListing(req'[t], req[t])
               /\ req'[t].bid = bucketCache[n] /\ req'[t].found = req[t].found
      <3>1. Rest(t) /\ req'[t].name = n /\ req'[t].start = req[t].start
        BY <2>5 DEF Move, Ident, SameListing
      <3>2. /\ IdIsOf(bucketCache[n], n)
            /\ \A m \in Names : req[t].found[m] # NoId => IdIsOf(req[t].found[m], m)
        BY <2>2, <2>5 DEF OwnerInv, OwnerThread
      <3> QED
        BY <2>4, <2>5, <3>1, <3>2
    <2>6. ASSUME NEW l \in BucketRows(n), Move(t, "cacheBucket"), SameListing(req'[t], req[t]),
                 req'[t].bid = buckets[l], req'[t].found = BucketRead(n, l)
          PROVE  OwnerInv'
      <3>1. Rest(t) /\ req'[t].name = n /\ req'[t].start = req[t].start
        BY <2>6 DEF Move, Ident, SameListing
      <3>2. /\ l \in Names /\ l \in Spellings(n) /\ buckets[l] # NoId
            /\ BucketRead(n, l)[l] = buckets[l]
            /\ \A m \in Names : m # l => BucketRead(n, l)[m] = NoId
        BY <2>2, <2>6, RowFound, IdsOK
      <3>3. IdIsOf(buckets[l], l)
        BY <3>2 DEF OwnerInv
      <3>4. IdIsOf(buckets[l], n)
        BY <3>2, <3>3 DEF IdIsOf, Spellings
      <3>5. \A m \in Names : req'[t].found[m] # NoId => IdIsOf(req'[t].found[m], m)
        BY <2>6, <3>2, <3>3
      <3> QED
        BY <2>4, <2>6, <3>1, <3>4, <3>5
    <2> QED
      BY <2>1, <2>3, <2>5, <2>6 DEF LookedUp
  <1>4. CASE CacheCreated(t) \/ UncacheBucket(t)
    <2>1. Jump(t, "idle")
      BY <1>4, CacheCreatedTypes
    <2>2. PICK id : /\ StoreBucket(n, id)
                    /\ (id = req[t].bid /\ req[t].pc = "created") \/ id = NoId
      BY <1>4 DEF CacheCreated, UncacheBucket
    <2>3. BucketsKept /\ bucketCache' = [bucketCache EXCEPT ![n] = id]
      BY <2>2 DEF StoreBucket, BucketsKept, tableVars
    <2>4. ASSUME NEW m \in Names
          PROVE  bucketCache'[m] \in {bucketCache[m], NoId} \/ IdIsOf(bucketCache'[m], m)
      <3>1. bucketCache'[m] = bucketCache[m] \/ (m = n /\ bucketCache'[m] = id)
        BY <2>3 DEF TInv, TableTypes
      <3>2. CASE m = n /\ bucketCache'[m] = id /\ id # NoId
        <4>1. OwnerThread(t)
          BY DEF OwnerInv
        <4> QED
          BY <2>2, <3>2, <4>1 DEF OwnerThread
      <3> QED
        BY <3>1, <3>2
    <2>5. Rest(t) /\ OwnerThread(t)'
      BY <2>1, <2>3, JumpOwners, JumpPc
    <2> QED
      BY <1>0, <2>3, <2>4, <2>5, OwnerStep
  <1>5. CASE InsertBucket(t)
    <2>1. Created(t) /\ UNCHANGED bucketCache /\ req[t].pc = "create"
      BY <1>5, InsertBucketTypes DEF InsertBucket
    <2>2. n \in Names
      BY <2>1, RequestFacts DEF Fits, Parts
    <2>3. CASE Jump(t, "idle") /\ UNCHANGED <<buckets, nextId, faults, raced>>
      BY <1>1, <2>1, <2>3 DEF BucketsKept
    <2>4. CASE /\ nextId \in Ids /\ buckets[n] = NoId
               /\ buckets' = [buckets EXCEPT ![n] = nextId] /\ nextId' = nextId + 1
      <3>1. BucketAdded(n)
        BY <2>2, <2>4 DEF BucketAdded
      <3>2. CASE Jump(t, "idle")
        <4>1. Rest(t) /\ OwnerThread(t)'
          BY <3>1, <3>2, JumpOwners, JumpPc
        <4> QED
          BY <1>0, <2>1, <3>1, <4>1, OwnerStep
      <3>3. CASE /\ Move(t, "created") /\ SameListing(req'[t], req[t])
                 /\ req'[t].bid = nextId /\ req'[t].found = req[t].found
        <4>1. /\ Rest(t) /\ req'[t].name = n /\ req'[t].start = req[t].start
              /\ req'[t].found = req[t].found
          BY <3>3 DEF Move, Ident, SameListing
        <4>2. OwnerThread(t) /\ req[t] \in Requests
          BY DEF OwnerInv, TInv
        <4>3. req[t].found \in [Names -> Ids \cup {NoId}] /\ \A o \in req[t].start : o[1] \in Ids
          BY <4>2 DEF Requests, Objects
        <4>4. nextId < nextId' /\ \A m \in Names : buckets'[m] = nextId => m \in Spellings(n)
          <5>1. nextId \in Nat \ {0} /\ buckets \in [Names -> Ids \cup {NoId}]
            BY DEF TInv, TableTypes
          <5>2. \A m \in Names : buckets[m] # nextId
            BY <5>1, IdsOK DEF OwnerInv, IdIsOf
          <5> QED
            BY <2>2, <2>4, <5>1, <5>2 DEF Spellings
        <4>5. /\ \A k \in Names : req[t].found[k] # NoId =>
                    /\ req[t].found[k] < nextId'
                    /\ \A m \in Names : buckets'[m] = req[t].found[k] => m \in Spellings(k)
              /\ \A o \in req[t].start :
                    /\ o[1] < nextId'
                    /\ \A m \in Names : buckets'[m] = o[1] => m \in Spellings(n)
          BY <3>1, <4>2, <4>3, OwnersStay DEF OwnerThread
        <4>6. OwnerThread(t)'
          BY <3>3, <4>1, <4>4, <4>5 DEF OwnerThread, IdIsOf
        <4> QED
          BY <1>0, <2>1, <3>1, <4>1, <4>6, OwnerStep
      <3> QED
        BY <2>1, <2>3, <3>2, <3>3 DEF Created
    <2> QED
      BY <2>1, <2>3, <2>4 DEF Created
  <1>6. CASE DropBucket(t)
    <2>1. Dropped(t) /\ UNCHANGED <<nextId, bucketCache>> /\ req[t].pc = "drop"
      BY <1>6, DropBucketTypes DEF DropBucket
    <2>2. n \in Names
      BY <2>1, RequestFacts DEF Fits, Parts
    <2>3. BucketsKept \/ (\E l : BucketGone(l))
      BY <2>1, <2>2 DEF Dropped, DroppedRow, BucketsKept, BucketGone, BucketRows, Spellings
    <2>4. PICK p : Jump(t, p)
      BY <2>1 DEF Dropped, DroppedRow
    <2>5. Rest(t) /\ OwnerThread(t)'
      BY <2>3, <2>4, JumpOwners, JumpPc
    <2> QED
      BY <1>0, <2>1, <2>3, <2>5, OwnerStep
  <1>7. CASE ListBuckets(t)
    <2>1. /\ Move(t, "cacheAll") /\ SameListing(req'[t], req[t])
          /\ req'[t].found = buckets /\ req'[t].bid = req[t].bid
          /\ BucketsKept /\ UNCHANGED bucketCache
      BY <1>7, ListBucketsTypes DEF ListBuckets, tableVars, BucketsKept
    <2>2. /\ Rest(t) /\ req'[t].name = n /\ req'[t].start = req[t].start
      BY <2>1 DEF Move, Ident, SameListing
    <2>3. OwnerThread(t) /\ \A m \in Names : buckets[m] # NoId => IdIsOf(buckets[m], m)
      BY DEF OwnerInv
    <2>4. OwnerThread(t)'
      BY <2>1, <2>2, <2>3 DEF OwnerThread, IdIsOf, BucketsKept
    <2> QED
      BY <1>0, <2>1, <2>2, <2>4, OwnerStep
  <1>8. CASE LookUpBucketFails(t) \/ InsertBucketFails(t) \/ BucketStatementFails(t)
    <2>1. Jump(t, "idle") /\ UNCHANGED <<tableVars, bucketCache>>
      BY <1>8, FailedTypes DEF Failed
    <2> QED
      BY <1>1, <2>1 DEF tableVars, BucketsKept
  <1>9. CASE CheckEmpty(t)
    <2>1. /\ Jump(t, "idle") \/ Jump(t, "drop")
          /\ UNCHANGED <<tableVars, bucketCache>>
      BY <1>9, CheckEmptyTypes DEF CheckEmpty
    <2> QED
      BY <1>1, <2>1 DEF tableVars, BucketsKept
  <1>10. CASE CacheBucket(t) \/ CacheAll(t)
    <2>1. PICK p : Jump(t, p)
      BY <1>10, CacheBucketTypes, CacheAllTypes
    <2>2. /\ BucketsKept
          /\ bucketCache' = [m \in Names |->
               IF req[t].found[m] = NoId THEN bucketCache[m] ELSE req[t].found[m]]
      BY <1>10 DEF CacheBucket, CacheAll, StoreFound, tableVars, BucketsKept
    <2>3. OwnerThread(t)
      BY DEF OwnerInv
    <2>4. ASSUME NEW m \in Names
          PROVE  bucketCache'[m] \in {bucketCache[m], NoId} \/ IdIsOf(bucketCache'[m], m)
      BY <2>2, <2>3 DEF OwnerThread
    <2>5. Rest(t) /\ OwnerThread(t)'
      BY <2>1, <2>2, JumpOwners, JumpPc
    <2> QED
      BY <1>0, <2>2, <2>4, <2>5, OwnerStep
  <1> QED
    BY <1>2, <1>3, <1>4, <1>5, <1>6, <1>7, <1>8, <1>9, <1>10 DEF BucketStep

LEMMA NextOwners ==
    ASSUME TInv, OwnerInv, [Next]_vars
    PROVE  OwnerInv'
  <1>1. ASSUME UNCHANGED <<buckets, nextId, bucketCache, req>> PROVE OwnerInv'
    BY <1>1 DEF OwnerInv, OwnerThread, IdIsOf
  <1>2. CASE UNCHANGED vars \/ AllAnswered
    BY <1>1, <1>2 DEF AllAnswered, vars, tableVars
  <1>3. ASSUME NEW t \in Threads, Begin(t) \/ BucketStep(t) \/ ObjectStep(t)
        PROVE  OwnerInv'
    BY <1>3, BucketStepOwners, ObjectStepOwners
  <1>4. ASSUME NEW x \in Objects, ExpireEntry(x)
        PROVE  OwnerInv'
    BY <1>1, <1>4 DEF ExpireEntry, tableVars
  <1>5. ASSUME NEW i \in IdemKeys, ExpireRecord(i)
        PROVE  OwnerInv'
    BY <1>1, <1>5 DEF ExpireRecord
  <1>6. CASE DelayedCommand
    BY <1>1, <1>6 DEF DelayedCommand, tableVars
  <1> QED
    BY <1>2, <1>3, <1>4, <1>5, <1>6 DEF Next

LEMMA InitOwners ==
    ASSUME Init
    PROVE  OwnerInv
  <1>1. nextId = 2 /\ NoId = 0
    BY IdsOK DEF Init
  <1>2. \A n \in Names : buckets[n] # NoId => IdIsOf(buckets[n], n)
    <2>1. \A n \in Names : buckets[n] \in {NoId, 1}
      BY DEF Init
    <2>2. \A m, n \in Names : m # n => buckets[m] = NoId \/ buckets[m] # buckets[n]
      BY DEF Init
    <2> QED
      BY <1>1, <2>1, <2>2 DEF IdIsOf, Spellings
  <1>3. \A n \in Names : bucketCache[n] = NoId
    BY DEF Init, NoBuckets
  <1>4. \A t \in Threads : OwnerThread(t)
    <2>1. \A t \in Threads : req[t] = Idle
      BY DEF Init
    <2> QED
      BY <2>1, IdleOwners DEF OwnerThread, NoBuckets
  <1> QED
    BY <1>2, <1>3, <1>4 DEF OwnerInv

\* A row that goes while a bucket is listed goes into `removed'.
RowsKept ==
    /\ removed \subseteq removed' /\ raced \subseteq raced'
    /\ \A o \in Objects :
          objects[o] # None /\ (\E q \in Threads : req[q].op = "list") =>
             objects'[o] # None \/ o \in removed'

LEMMA BucketStepKeepsRows ==
    ASSUME TInv, NEW t \in Threads, BucketStep(t) \/ Begin(t)
    PROVE  RowsKept
  <1>1. CASE UNCHANGED <<objects, removed, raced>>
    BY <1>1 DEF RowsKept
  <1>2. CASE InsertBucket(t)
    <2>1. Created(t) /\ UNCHANGED <<objects, removed>>
      BY <1>2, InsertBucketTypes DEF InsertBucket
    <2>2. raced \subseteq raced'
      BY <2>1 DEF Created
    <2> QED
      BY <2>1, <2>2 DEF RowsKept
  <1>3. CASE DropBucket(t)
    <2>1. Dropped(t)
      BY <1>3, DropBucketTypes
    <2>2. CASE UNCHANGED <<objects, removed, raced>>
      BY <1>1, <2>2
    <2>3. ASSUME NEW m, DroppedRow(t, m) PROVE RowsKept
      <3>1. /\ objects' = [o \in Objects |-> IF o \in Gone(m) THEN None ELSE objects[o]]
            /\ removed' = RemovedWith(Gone(m)) /\ raced \subseteq raced'
        BY <2>3 DEF DroppedRow
      <3> QED
        BY <3>1 DEF RowsKept, RemovedWith
    <2> QED
      BY <2>1, <2>2, <2>3 DEF Dropped
  <1>4. CASE \/ LookUpBucket(t) \/ CacheBucket(t) \/ CacheCreated(t) \/ CheckEmpty(t)
             \/ UncacheBucket(t) \/ ListBuckets(t) \/ CacheAll(t) \/ Begin(t)
    BY <1>1, <1>4 DEF LookUpBucket, CacheBucket, CacheCreated, CheckEmpty, UncacheBucket,
                      ListBuckets, CacheAll, Begin, StoreBucket, StoreFound, tableVars,
                      history
  <1>5. CASE LookUpBucketFails(t) \/ InsertBucketFails(t) \/ BucketStatementFails(t)
    <2>1. UNCHANGED <<tableVars, history>>
      BY <1>5, FailedTypes DEF Failed
    <2> QED
      BY <1>1, <2>1 DEF tableVars, history
  <1> QED
    BY <1>2, <1>3, <1>4, <1>5 DEF BucketStep

LEMMA ObjectStepKeepsRows ==
    ASSUME TInv, NEW t \in Threads, ObjectStep(t)
    PROVE  RowsKept
  <1>1. CASE UNCHANGED <<objects, removed, raced>>
    BY <1>1 DEF RowsKept
  <1>2. CASE RemoveObject(t)
    <2>1. Removed(t) /\ raced' = raced
      BY <1>2, RemoveObjectTypes DEF RemoveObject
    <2>2. CASE UNCHANGED <<objects, removed>>
      BY <1>1, <2>1, <2>2
    <2>3. ASSUME NEW p, objects' = [objects EXCEPT ![p] = None], removed' = RemovedWith({p})
          PROVE  RowsKept
      BY <2>1, <2>3 DEF RowsKept, RemovedWith, TInv, TableTypes
    <2> QED
      BY <2>1, <2>2, <2>3 DEF Removed, RemovedRow
  <1>3. CASE InsertObject(t) \/ UpsertObject(t)
    <2>1. /\ req[t].pc \in {"insert", "upsert"} /\ UNCHANGED <<removed, raced>>
          /\ \/ objects' = objects
             \/ \E p : objects' = [objects EXCEPT ![p] = req[t].cas]
      BY <1>3 DEF InsertObject, UpsertObject, CommitPut
    <2>2. req[t].cas # None
      BY <2>1, RequestFacts, MetadataAssumption DEF Fits, Parts, PutPcs
    <2> QED
      BY <2>1, <2>2 DEF RowsKept, TInv, TableTypes
  <1>4. CASE \/ LookUpObject(t) \/ EvictBad(t) \/ SelectObject(t) \/ FillObject(t)
             \/ Serve(t) \/ EvictObject(t) \/ CheckIdempotency(t) \/ UpdateEntry(t)
             \/ RecordIdempotency(t) \/ ListObjects(t) \/ Listed(t)
    BY <1>1, <1>4 DEF LookUpObject, EvictBad, SelectObject, FillObject, Serve, EvictObject,
                      CheckIdempotency, UpdateEntry, RecordIdempotency, ListObjects, Listed,
                      SetAndGoto, tableVars, history
  <1>5. CASE ObjectStatementFails(t)
    <2>1. UNCHANGED <<tableVars, history>>
      BY <1>5, FailedTypes DEF Failed
    <2> QED
      BY <1>1, <2>1 DEF tableVars, history
  <1> QED
    BY <1>2, <1>3, <1>4, <1>5 DEF ObjectStep

\* An entry of bucket_cache_ that is not stale by a race changes only to what
\* the table has, and a bucket that is created has a new id.
CacheKept ==
    /\ \A n \in Names \ raced :
          \/ bucketCache'[n] \in {bucketCache[n], NoId}
          \/ bucketCache'[n] = buckets[n] /\ buckets[n] # NoId
    /\ \A m \in Names : buckets'[m] \in {buckets[m], NoId, nextId}

LEMMA StepKeepsCache ==
    ASSUME TInv, BucketInv, NEW t \in Threads, Begin(t) \/ BucketStep(t) \/ ObjectStep(t)
    PROVE  CacheKept
  <1>1. CASE UNCHANGED <<buckets, bucketCache>>
    BY <1>1 DEF CacheKept
  <1>2. CASE ObjectStep(t)
    BY <1>1, <1>2, ObjectStepMoves DEF ObjectMove
  <1>3. CASE InsertBucket(t)
    <2>1. Created(t) /\ UNCHANGED bucketCache
      BY <1>3, InsertBucketTypes DEF InsertBucket
    <2> QED
      BY <2>1 DEF Created, CacheKept, TInv, TableTypes
  <1>4. CASE DropBucket(t)
    <2>1. Dropped(t) /\ UNCHANGED bucketCache
      BY <1>4, DropBucketTypes DEF DropBucket
    <2> QED
      BY <2>1 DEF Dropped, DroppedRow, CacheKept, TInv, TableTypes
  <1>5. CASE CacheBucket(t) \/ CacheAll(t)
    <2>1. StoreFound(t) /\ req[t].pc \in {"cacheBucket", "cacheAll"}
      BY <1>5 DEF CacheBucket, CacheAll
    <2>2. /\ UNCHANGED buckets
          /\ \A n \in Names : bucketCache'[n] =
                IF req[t].found[n] = NoId THEN bucketCache[n] ELSE req[t].found[n]
      BY <2>1 DEF StoreFound, tableVars
    <2>3. \A n \in Names \ raced : req[t].found[n] # NoId => req[t].found[n] = buckets[n]
      BY <2>1 DEF BucketInv, BucketOK, BucketThread
    <2> QED
      BY <2>2, <2>3 DEF CacheKept
  <1>6. CASE CacheCreated(t) \/ UncacheBucket(t)
    <2>1. PICK id : /\ StoreBucket(req[t].name, id)
                    /\ (id = req[t].bid /\ req[t].pc = "created") \/ id = NoId
      BY <1>6 DEF CacheCreated, UncacheBucket
    <2>2. UNCHANGED buckets /\ bucketCache' = [bucketCache EXCEPT ![req[t].name] = id]
      BY <2>1 DEF StoreBucket, tableVars
    <2> SUFFICES ASSUME NEW n \in Names \ raced
                 PROVE  \/ bucketCache'[n] \in {bucketCache[n], NoId}
                        \/ bucketCache'[n] = buckets[n] /\ buckets[n] # NoId
      BY <2>2 DEF CacheKept
    <2>3. bucketCache'[n] = bucketCache[n] \/ (req[t].name = n /\ bucketCache'[n] = id)
      BY <2>2 DEF TInv, TableTypes
    <2>4. BucketThread(t, n)
      BY DEF BucketInv, BucketOK
    <2> QED
      BY <2>1, <2>3, <2>4 DEF BucketThread
  <1>7. CASE Begin(t) \/ LookUpBucket(t) \/ CheckEmpty(t) \/ ListBuckets(t)
    BY <1>1, <1>7 DEF Begin, LookUpBucket, CheckEmpty, ListBuckets, tableVars
  <1>8. CASE LookUpBucketFails(t) \/ InsertBucketFails(t) \/ BucketStatementFails(t)
    BY <1>1, <1>8, FailedTypes DEF Failed, tableVars
  <1> QED
    BY <1>2, <1>3, <1>4, <1>5, <1>6, <1>7, <1>8 DEF BucketStep

\* What bucket_cache_ has for a listing stays the id of its bucket, also when
\* the row is that of another spelling.
LEMMA CachedStays ==
    ASSUME TInv, CacheKept, NEW n \in Names, n \notin raced, NEW id \in Ids, IdIsOf(id, n),
           NEW m \in Names, buckets[m] = id, CachedAs(n, id)
    PROVE  bucketCache'[n] \in {NoId, id}
  <1>1. m \in Spellings(n) /\ id # NoId
    BY IdsOK DEF IdIsOf
  <1>2. m \in BucketRows(n)
    BY <1>1 DEF BucketRows
  <1>3. buckets[n] # NoId => n \in BucketRows(n)
    BY DEF BucketRows, Spellings
  <1>4. buckets[n] # NoId => n = m
    BY <1>2, <1>3 DEF TInv, RowRules, UniqueRows
  <1> QED
    BY <1>4 DEF CacheKept, CachedAs

\* A listing that is not at the end of a page.
LEMMA ListStays ==
    ASSUME TInv, OwnerInv, RowsKept, CacheKept, NEW q \in Threads, ListOK(req[q]),
           req[q].pc # "idle", Ident(req'[q], req[q]), SameListing(req'[q], req[q]),
           req'[q].pc = "listed" <=> req[q].pc = "listed",
           req[q].name \notin raced =>
              \A o \in req[q].start \ removed :
                 req'[q].pc \in {"cacheBucket", "page"} => req'[q].bid = o[1],
           req[q].op = "list" /\ req[q].name \notin raced
              /\ req'[q].pc \in {"cacheBucket", "page"} =>
              /\ req'[q].bid \in Ids /\ IdIsOf(req'[q].bid, req[q].name)
              /\ \A m \in Names : buckets[m] = req'[q].bid => CachedAs(req[q].name, req'[q].bid)
    PROVE  ListOK(req[q])'
  <1> DEFINE r == req[q]
             u == req'[q]
  <1>1. r \in Requests /\ (r.op = "list" => r.name \in Names)
    BY RequestFacts DEF Parts
  <1>2. r.start \subseteq Objects
    BY <1>1 DEF Requests
  <1>3. /\ u.op = r.op /\ u.name = r.name /\ u.after = r.after /\ u.seen = r.seen
        /\ u.start = r.start /\ (u.pc = "listed" <=> r.pc = "listed")
    BY DEF Ident, SameListing
  <1>4. /\ r.start # {} => r.op = "list"
        /\ r.after = 0 /\ r.pc # "listed" => r.seen = << >> /\ r.start = {}
        /\ Increasing(r.seen)
        /\ r.pc # "listed" => \A i \in 1..Len(r.seen) : Weight[r.seen[i]] <= r.after
        /\ \A o \in r.start \ removed : objects[o] # None
        /\ r.name \notin raced => \A o \in r.start \ removed :
              /\ r.pc = "listed" \/ Weight[o[2]] <= r.after =>
                    \E i \in 1..Len(r.seen) : r.seen[i] = o[2]
              /\ CachedAs(r.name, o[1])
    BY DEF ListOK
  <1>5. r.name \notin raced => \A o \in r.start \ removed :
           u.pc \in {"cacheBucket", "page"} => u.bid = o[1]
    OBVIOUS
  <1>6. removed \subseteq removed' /\ raced \subseteq raced'
    BY DEF RowsKept
  <1>7. \A o \in r.start : IdIsOf(o[1], r.name)
    BY DEF OwnerInv, OwnerThread
  <1>8. r.op = "list" /\ r.name \notin raced /\ u.pc \in {"cacheBucket", "page"} =>
           /\ u.bid \in Ids /\ IdIsOf(u.bid, r.name)
           /\ \A m \in Names : buckets[m] = u.bid => CachedAs(r.name, u.bid)
    OBVIOUS
  <1>9. \E x \in Threads : req[x].op = r.op
    OBVIOUS
  <1> HIDE DEF u, r
  <1>10. \A o \in r.start \ removed' : objects'[o] # None
    <2> SUFFICES ASSUME NEW o \in r.start \ removed' PROVE objects'[o] # None
      OBVIOUS
    <2>1. o \in Objects /\ objects[o] # None /\ r.op = "list"
      BY <1>2, <1>4, <1>6
    <2> QED
      BY <1>9, <2>1 DEF RowsKept
  <1>11. Increasing(u.seen)
    BY <1>3, <1>4
  <1>12. /\ u.start # {} => u.op = "list"
         /\ u.after = 0 /\ u.pc # "listed" => u.seen = << >> /\ u.start = {}
         /\ u.pc # "listed" => \A i \in 1..Len(u.seen) : Weight[u.seen[i]] <= u.after
    BY <1>3, <1>4
  <1>13. u.name \notin raced' => \A o \in u.start \ removed' :
          /\ u.pc = "listed" \/ Weight[o[2]] <= u.after =>
                \E i \in 1..Len(u.seen) : u.seen[i] = o[2]
          /\ u.pc \in {"cacheBucket", "page"} => u.bid = o[1]
    BY <1>3, <1>4, <1>5, <1>6
  <1>14. ASSUME r.name \notin raced, NEW o \in r.start \ removed
         PROVE  bucketCache'[r.name] \in {NoId, o[1]}
    <2>1. o \in Objects /\ o[1] \in Ids /\ objects[o] # None /\ r.name \in Names
      BY <1>1, <1>2, <1>4, <1>14 DEF Objects
    <2>2. PICK m \in Names : buckets[m] = o[1]
      BY <2>1 DEF TInv, RowRules
    <2>3. IdIsOf(o[1], r.name) /\ CachedAs(r.name, o[1])
      BY <1>4, <1>7, <1>14
    <2> QED
      BY <1>14, <2>1, <2>2, <2>3, CachedStays
  <1>15. ASSUME r.op = "list", r.name \notin raced, u.pc \in {"cacheBucket", "page"},
                NEW m \in Names, buckets'[m] = u.bid
         PROVE  bucketCache'[r.name] \in {NoId, u.bid}
    <2>1. u.bid \in Ids /\ IdIsOf(u.bid, r.name) /\ r.name \in Names
      BY <1>1, <1>8, <1>15
    <2>2. u.bid < nextId /\ u.bid \in Nat \ {0} /\ nextId \in Nat
      BY <2>1, IdsOK DEF IdIsOf, TInv, TableTypes
    <2>3. u.bid # nextId /\ u.bid # NoId
      BY <2>2, IdsOK
    <2>4. buckets[m] = u.bid
      BY <1>15, <2>3 DEF CacheKept
    <2> QED
      BY <1>8, <1>15, <2>1, <2>4, CachedStays
  <1>16. \A o \in u.start \ removed' : objects'[o] # None
    BY <1>3, <1>10
  <1>17. /\ u.name \notin raced' => \A o \in u.start \ removed' :
               bucketCache'[u.name] \in {NoId, o[1]}
         /\ u.op = "list" /\ u.name \notin raced' /\ u.pc \in {"cacheBucket", "page"} =>
               \A m \in Names : buckets'[m] = u.bid => bucketCache'[u.name] \in {NoId, u.bid}
    BY <1>3, <1>6, <1>14, <1>15
  <1> QED
    BY <1>11, <1>12, <1>13, <1>16, <1>17 DEF ListOK, u, Increasing, CachedAs

\* A request that lists nothing (yet).
LEMMA ListEmpty ==
    ASSUME NEW q \in Threads, req'[q].start = {}, req'[q].seen = << >>,
           req'[q].pc \notin {"cacheBucket", "page"}
    PROVE  ListOK(req[q])'
  <1>1. 1..Len(<< >>) = {}
    OBVIOUS
  <1> QED
    BY <1>1 DEF ListOK, Increasing

\* A page continues what was seen.
LEMMA ListPaged ==
    ASSUME TInv, NEW t \in Threads, ListOK(req[t]), ListObjects(t)
    PROVE  ListOK(req[t])'
  <1> DEFINE r == req[t]
             u == req'[t]
             ks == KeysAfter(r.bid, r.after)
             page == FirstKeys(ks, MaxKeys)
             n == Len(r.seen)
  <1>1. r.pc = "page" /\ Paged(t) /\ UNCHANGED <<buckets, bucketCache, objects, removed, raced>>
    BY ListObjectsTypes DEF ListObjects, tableVars, history
  <1>2. r \in Requests /\ Fits("page", r)
    BY <1>1, RequestFacts
  <1>3. /\ r.after \in Nat /\ r.seen \in Seq(Keys) /\ r.start \subseteq Objects
        /\ r.bid \in Ids /\ r.op = "list" /\ MaxKeys \in Nat \ {0}
        /\ \A k \in Keys : Weight[k] \in Nat /\ Weight[k] > 0
    BY <1>2, MetadataAssumption, WeightOK DEF Requests, Fits
  <1>4. /\ r.after = 0 => r.seen = << >> /\ r.start = {}
        /\ Increasing(r.seen)
        /\ \A i \in 1..n : Weight[r.seen[i]] <= r.after
        /\ \A o \in r.start \ removed : objects[o] # None
        /\ r.name \notin raced => \A o \in r.start \ removed :
              /\ Weight[o[2]] <= r.after => \E i \in 1..n : r.seen[i] = o[2]
              /\ r.bid = o[1]
              /\ CachedAs(r.name, o[1])
        /\ r.name \notin raced => \A m \in Names : buckets[m] = r.bid => CachedAs(r.name, r.bid)
    BY <1>1, <1>3 DEF ListOK
  <1>5. ks \subseteq Keys /\ Distinct(ks) /\ \A k \in ks : Weight[k] > r.after
    <2>1. ks \subseteq Keys /\ Distinct(ks)
      BY <1>3, PageDistinct
    <2> QED
      BY <2>1 DEF KeysAfter
  <1>6. \A k \in Keys : Weight[k] > r.after /\ objects[<<r.bid, k>>] # None => k \in ks
    BY DEF KeysAfter
  <1>7. /\ page \in Seq(Keys) /\ Increasing(page) /\ \A i \in 1..Len(page) : page[i] \in ks
        /\ Cardinality(ks) <= MaxKeys => \A k \in ks : \E i \in 1..Len(page) : page[i] = k
        /\ Cardinality(ks) > MaxKeys =>
              /\ Len(page) = MaxKeys
              /\ \A k \in ks : Weight[k] <= Weight[page[MaxKeys]] => \E i \in 1..Len(page) : page[i] = k
    <2> HIDE DEF ks
    <2> QED
      BY <1>3, <1>5, FirstKeysOK
  <1>8. /\ u.op = r.op /\ u.name = r.name /\ u.bid = r.bid
        /\ u.seen = r.seen \o page
        /\ u.start = IF r.after = 0 THEN {o \in Objects : o[1] = r.bid /\ objects[o] # None}
                     ELSE r.start
        /\ \/ Cardinality(ks) > MaxKeys /\ u.after = Weight[page[MaxKeys]] /\ u.pc = "bucket"
           \/ Cardinality(ks) <= MaxKeys /\ u.after = r.after /\ u.pc = "listed"
    BY <1>1 DEF Paged, Ident
  <1> DEFINE more == Cardinality(ks) > MaxKeys
             full == Cardinality(ks) <= MaxKeys
  <1>9. /\ more => /\ Len(page) = MaxKeys
                   /\ \A k \in ks : Weight[k] <= Weight[page[MaxKeys]] =>
                         \E i \in 1..Len(page) : page[i] = k
        /\ full => \A k \in ks : \E i \in 1..Len(page) : page[i] = k
        /\ \/ more /\ u.after = Weight[page[MaxKeys]] /\ u.pc = "bucket"
           \/ full /\ u.after = r.after /\ u.pc = "listed"
        /\ ~(more /\ full)
    <2>1. Cardinality(ks) \in Nat
      BY <1>5, MetadataAssumption, FS_Subset, FS_CardinalityType
    <2> HIDE DEF ks, page, u
    <2> QED
      BY <1>3, <1>7, <1>8, <2>1
  <1> HIDE DEF more, full, u, r, ks, page
  <1>10. /\ n \in Nat /\ Len(u.seen) = n + Len(page) /\ Len(page) \in Nat
         /\ \A i \in 1..n : u.seen[i] = r.seen[i] /\ r.seen[i] \in Keys
         /\ \A i \in 1..Len(page) : u.seen[n + i] = page[i]
         /\ \A i \in 1..Len(u.seen) : i \in 1..n \/ (i - n) \in 1..Len(page)
         /\ \A i \in 1..Len(u.seen) : (i - n) \in 1..Len(page) => u.seen[i] = page[i - n]
    BY <1>3, <1>7, <1>8
  <1>11. \A i \in 1..Len(page) : Weight[page[i]] \in Nat /\ Weight[page[i]] > r.after
    BY <1>3, <1>5, <1>7
  <1>12. Increasing(u.seen)
    <2> SUFFICES ASSUME NEW i \in 1..Len(u.seen), NEW j \in 1..Len(u.seen), i < j
                 PROVE  Weight[u.seen[i]] < Weight[u.seen[j]]
      BY DEF Increasing
    <2>1. CASE i \in 1..n /\ j \in 1..n
      BY <1>4, <1>10, <2>1 DEF Increasing
    <2>2. CASE i \in 1..n /\ (j - n) \in 1..Len(page)
      <3>1. Weight[r.seen[i]] <= r.after /\ u.seen[i] = r.seen[i] /\ Weight[r.seen[i]] \in Nat
        BY <1>3, <1>4, <1>10, <2>2
      <3>2. /\ u.seen[j] = page[j - n] /\ Weight[page[j - n]] > r.after
            /\ Weight[page[j - n]] \in Nat
        BY <1>10, <1>11, <2>2
      <3> QED
        BY <1>3, <3>1, <3>2
    <2>3. CASE (i - n) \in 1..Len(page) /\ (j - n) \in 1..Len(page)
      <3>1. u.seen[i] = page[i - n] /\ u.seen[j] = page[j - n]
        BY <1>10, <2>3
      <3>2. i - n < j - n
        <4> HIDE DEF n
        <4> QED
          BY <1>10
      <3> QED
        BY <1>7, <2>3, <3>1, <3>2 DEF Increasing
    <2>4. ~(j \in 1..n /\ (i - n) \in 1..Len(page))
      BY <1>10
    <2> QED
      BY <1>10, <2>1, <2>2, <2>3, <2>4
  <1>13. \A o \in u.start : o \in Objects /\ o[2] \in Keys /\ o = <<o[1], o[2]>>
    BY <1>3, <1>8 DEF Objects
  <1>14. \A o \in u.start \ removed : objects[o] # None
    BY <1>4, <1>8
  <1>15. ASSUME more
         PROVE  /\ u.after \in Nat /\ u.after > r.after
                /\ \A i \in 1..Len(u.seen) : Weight[u.seen[i]] <= u.after
    <2>1. /\ Len(page) = MaxKeys /\ u.after = Weight[page[MaxKeys]] /\ MaxKeys \in 1..Len(page)
      BY <1>3, <1>9, <1>15
    <2>2. u.after \in Nat /\ u.after > r.after
      BY <1>11, <2>1
    <2>3. ASSUME NEW i \in 1..n PROVE Weight[u.seen[i]] <= u.after
      <3>1. Weight[r.seen[i]] <= r.after /\ u.seen[i] = r.seen[i] /\ Weight[r.seen[i]] \in Nat
        BY <1>3, <1>4, <1>10, <2>3
      <3> QED
        BY <1>3, <2>2, <3>1
    <2>4. ASSUME NEW i \in 1..Len(page) PROVE Weight[page[i]] <= u.after
      BY <1>7, <1>11, <2>1, <2>4 DEF Increasing
    <2> QED
      BY <1>10, <2>2, <2>3, <2>4
  <1>16. ASSUME u.name \notin raced, NEW o \in u.start \ removed
         PROVE  \/ \E i \in 1..n : r.seen[i] = o[2]
                \/ o[2] \in ks
    <2>1. CASE r.after = 0
      <3>1. o[1] = r.bid /\ objects[o] # None
        BY <1>8, <1>16, <2>1
      <3>2. o = <<r.bid, o[2]>> /\ o[2] \in Keys
        BY <1>13, <1>16, <3>1
      <3>3. Weight[o[2]] > r.after
        <4>1. \A k \in Keys : Weight[k] > r.after
          BY <1>3, <2>1
        <4> QED
          BY <3>2, <4>1
      <3> QED
        BY <1>6, <3>1, <3>2, <3>3
    <2>2. CASE r.after # 0
      <3>1. /\ o \in r.start \ removed /\ r.bid = o[1] /\ objects[o] # None
            /\ Weight[o[2]] \in Nat
            /\ Weight[o[2]] <= r.after => \E i \in 1..n : r.seen[i] = o[2]
        BY <1>3, <1>4, <1>8, <1>13, <1>16, <2>2
      <3>2. CASE Weight[o[2]] <= r.after
        BY <3>1, <3>2
      <3>3. CASE Weight[o[2]] > r.after
        BY <1>6, <1>13, <1>16, <3>1, <3>3
      <3> QED
        BY <1>3, <3>1, <3>2, <3>3
    <2> QED
      BY <2>1, <2>2
  <1>17. ASSUME u.name \notin raced, NEW o \in u.start \ removed,
                u.pc = "listed" \/ Weight[o[2]] <= u.after
         PROVE  \E i \in 1..Len(u.seen) : u.seen[i] = o[2]
    <2>1. CASE \E i \in 1..n : r.seen[i] = o[2]
      BY <1>10, <2>1
    <2>2. CASE o[2] \in ks
      <3>1. PICK i \in 1..Len(page) : page[i] = o[2]
        BY <1>9, <1>17, <2>2
      <3>2. n + i \in 1..Len(u.seen) /\ u.seen[n + i] = page[i]
        BY <1>10
      <3> QED
        BY <3>1, <3>2
    <2> QED
      BY <1>16, <1>17, <2>1, <2>2
  <1>18. u.pc \notin {"cacheBucket", "page"} /\ (u.pc # "listed" => more)
    BY <1>9
  <1>19. /\ u.start # {} => u.op = "list"
         /\ u.after = 0 /\ u.pc # "listed" => u.seen = << >> /\ u.start = {}
         /\ u.pc # "listed" => \A i \in 1..Len(u.seen) : Weight[u.seen[i]] <= u.after
    BY <1>3, <1>8, <1>15, <1>18
  <1>20. UNCHANGED <<buckets, bucketCache, objects, removed, raced>>
    BY <1>1
  <1>21. ASSUME u.name \notin raced, NEW o \in u.start \ removed
         PROVE  CachedAs(u.name, o[1])
    <2>1. CASE r.after = 0
      <3>1. o \in Objects /\ o[1] = r.bid /\ objects[o] # None
        BY <1>8, <1>13, <1>21, <2>1
      <3>2. \E m \in Names : buckets[m] = r.bid
        BY <3>1 DEF TInv, RowRules
      <3> QED
        BY <1>4, <1>8, <1>21, <3>1, <3>2
    <2>2. CASE r.after # 0
      BY <1>4, <1>8, <1>21, <2>2
    <2> QED
      BY <2>1, <2>2
  <1>22. \A o \in u.start \ removed : u.name \notin raced => bucketCache'[u.name] \in {NoId, o[1]}
    BY <1>20, <1>21 DEF CachedAs
  <1> QED
    BY <1>12, <1>14, <1>17, <1>18, <1>19, <1>20, <1>22 DEF ListOK, u, Increasing, CachedAs

\* The id a listing gets is that of the bucket it started with.
LEMMA ListLookedUp ==
    ASSUME TInv, BucketInv, OwnerInv, NEW t \in Threads, ListOK(req[t]), LookUpBucket(t),
           req'[t] # Idle, req[t].name \notin raced, NEW o \in req[t].start \ removed
    PROVE  req'[t].bid = o[1]
  <1> DEFINE n == req[t].name
  <1>1. LookedUp(t) /\ req[t].pc = "bucket"
    BY LookUpBucketTypes DEF LookUpBucket
  <1>2. n \in Names /\ req[t] \in Requests
    BY <1>1, RequestFacts DEF Fits, Parts, BucketOps
  <1>3. o \in Objects /\ o[1] \in Ids /\ objects[o] # None
    BY <1>2 DEF Requests, ListOK, Objects
  <1>4. PICK m \in Names : buckets[m] = o[1]
    BY <1>3 DEF TInv, RowRules
  <1>5. m \in BucketRows(n)
    <2>1. IdIsOf(o[1], n)
      BY DEF OwnerInv, OwnerThread
    <2> QED
      BY <1>3, <1>4, <2>1, IdsOK DEF IdIsOf, BucketRows
  <1>6. CASE req'[t].bid = bucketCache[n] /\ bucketCache[n] # NoId
    BY <1>6 DEF ListOK, CachedAs
  <1>7. ASSUME NEW l \in BucketRows(n), req'[t].bid = buckets[l] PROVE req'[t].bid = o[1]
    BY <1>2, <1>4, <1>5, <1>7 DEF TInv, RowRules, UniqueRows
  <1> QED
    BY <1>1, <1>6, <1>7 DEF LookedUp, Jump

LEMMA StepLists ==
    ASSUME TInv, BucketInv, OwnerInv, ListInv, NEW t \in Threads,
           Begin(t) \/ BucketStep(t) \/ ObjectStep(t)
    PROVE  ListInv'
  <1>1. RowsKept /\ CacheKept /\ TInv'
    BY BucketStepKeepsRows, ObjectStepKeepsRows, StepKeepsCache, BeginTypes, BucketStepTypes,
       ObjectStepTypes
  <1>2. Rest(t)
    BY BeginTypes, BucketStepMoves, ObjectStepMoves DEF Begun, BucketMove, ObjectMove
  <1>3. ASSUME NEW q \in Threads, q # t PROVE ListOK(req[q])'
    <2>1. req'[q] = req[q] /\ ListOK(req[q])
      BY <1>2, <1>3 DEF Rest, ListInv
    <2>2. Ident(req'[q], req[q]) /\ SameListing(req'[q], req[q])
      BY <2>1 DEF Ident, SameListing
    <2>4. CASE req[q].pc = "idle"
      <3>1. req'[q] = Idle
        BY <2>1, <2>4 DEF TInv, Shape
      <3> QED
        BY <3>1, IdleOK, IdleOwners, ListEmpty
    <2>5. req[q].pc \in {"cacheBucket", "page"} =>
             req[q].bid \in Ids /\ IdIsOf(req[q].bid, req[q].name)
      BY RequestFacts, IdsOK DEF Fits, OwnerInv, OwnerThread
    <2>6. req[q].op = "list" /\ req[q].name \notin raced
             /\ req[q].pc \in {"cacheBucket", "page"} =>
             \A m \in Names : buckets[m] = req[q].bid => CachedAs(req[q].name, req[q].bid)
      BY <2>1 DEF ListOK
    <2>3. req[q].name \notin raced =>
              \A o \in req[q].start \ removed :
                 req'[q].pc \in {"cacheBucket", "page"} => req'[q].bid = o[1]
      BY <2>1 DEF ListOK
    <2> QED
      BY <1>1, <2>1, <2>2, <2>3, <2>4, <2>5, <2>6, ListStays
  <1> SUFFICES ListOK(req[t])'
    BY <1>3 DEF ListInv
  <1>4. ListOK(req[t])
    BY DEF ListInv
  <1>5. CASE req'[t] = Idle
    BY <1>5, IdleOK, IdleOwners, ListEmpty
  <1>6. CASE Begin(t)
    BY <1>6, BeginTypes, ListEmpty DEF Begun
  <1>7. CASE ListObjects(t)
    BY <1>4, <1>7, ListPaged
  <1>8. ASSUME Ident(req'[t], req[t]), SameListing(req'[t], req[t]),
               req'[t].pc # "listed", req[t].pc \notin {"idle", "listed"}, req[t].op # "list"
        PROVE  ListOK(req[t])'
    <2>1. req[t].start = {}
      BY <1>4, <1>8 DEF ListOK
    <2> QED
      BY <1>1, <1>4, <1>8, <2>1, ListStays
  <1>9. CASE LookUpBucket(t) /\ req'[t] # Idle
    <2>1. BucketMove(t) /\ req[t].pc = "bucket"
      BY <1>9, BucketStepMoves DEF BucketStep, LookUpBucket
    <2>2. req[t].name \notin raced => \A o \in req[t].start \ removed : req'[t].bid = o[1]
      BY <1>4, <1>9, ListLookedUp
    <2>3. Ident(req'[t], req[t]) /\ SameListing(req'[t], req[t]) /\ req'[t].pc # "listed"
      BY <1>9, <2>1 DEF BucketMove
    <2>4. /\ LookedUp(t) /\ AfterBucket(req[t]) \notin LatePcs
          /\ UNCHANGED <<buckets, nextId, bucketCache>>
      BY <1>9, LookUpBucketTypes DEF LookUpBucket, tableVars
    <2>5. req'[t].pc \in {"cacheBucket", "page"} =>
             req'[t].bid \in Ids /\ IdIsOf(req'[t].bid, req[t].name)
      <3> SUFFICES ASSUME req'[t].pc \in {"cacheBucket", "page"}
                   PROVE  req'[t].bid \in Ids /\ IdIsOf(req'[t].bid, req[t].name)
        OBVIOUS
      <3>1. req'[t].bid \in Ids /\ req'[t].bid # NoId
        <4>1. Shape(req'[t])
          BY <1>1 DEF TInv
        <4> QED
          BY <4>1, IdsOK DEF Shape, Fits
      <3>2. OwnerThread(t)'
        BY <1>9, BucketStepOwners DEF BucketStep, OwnerInv
      <3>3. req'[t].name = req[t].name
        BY <2>3 DEF Ident
      <3> QED
        BY <2>4, <3>1, <3>2, <3>3 DEF OwnerThread, IdIsOf
    <2>6. bucketCache[req[t].name] \in {NoId, req'[t].bid}
      BY <1>9, <2>4 DEF LookedUp, Jump
    <2> QED
      BY <1>1, <1>4, <2>1, <2>2, <2>3, <2>5, <2>6, ListStays DEF CachedAs
  <1>10. CASE CacheBucket(t) /\ req'[t] # Idle
    <2>1. /\ BucketMove(t) /\ req[t].pc = "cacheBucket"
          /\ Jump(t, AfterBucket(req[t]))
      BY <1>10, BucketStepMoves, CacheBucketTypes DEF BucketStep, CacheBucket
    <2>2. req'[t].bid = req[t].bid
      BY <1>10, <2>1 DEF Jump
    <2>3. Ident(req'[t], req[t]) /\ SameListing(req'[t], req[t]) /\ req'[t].pc # "listed"
      BY <1>10, <2>1 DEF BucketMove
    <2>4. req[t].name \notin raced => \A o \in req[t].start \ removed : req'[t].bid = o[1]
      BY <1>4, <2>1, <2>2 DEF ListOK
    <2>5. req[t].bid \in Ids /\ IdIsOf(req[t].bid, req[t].name)
      BY <2>1, RequestFacts, IdsOK DEF Fits, OwnerInv, OwnerThread
    <2>6. req[t].op = "list" /\ req[t].name \notin raced =>
             \A m \in Names : buckets[m] = req[t].bid => CachedAs(req[t].name, req[t].bid)
      BY <1>4, <2>1 DEF ListOK
    <2> QED
      BY <1>1, <1>4, <2>1, <2>2, <2>3, <2>4, <2>5, <2>6, ListStays
  <1>11. CASE BucketStep(t) /\ req[t].pc \notin {"bucket", "cacheBucket"} /\ req'[t] # Idle
    <2>1. BucketMove(t) /\ req[t].pc \in BucketPcs
      BY <1>11, BucketStepMoves DEF BucketMove
    <2>2. req[t].op # "list" /\ req[t].pc \notin {"idle", "listed"}
      BY <1>11, <2>1, RequestFacts DEF Fits, BucketPcs
    <2>3. Ident(req'[t], req[t]) /\ SameListing(req'[t], req[t]) /\ req'[t].pc # "listed"
      BY <1>11, <2>1 DEF BucketMove
    <2> QED
      BY <1>8, <2>2, <2>3
  <1>12. CASE ObjectStep(t) /\ ~ListObjects(t) /\ req'[t] # Idle
    <2>1. /\ Ident(req'[t], req[t]) /\ SameListing(req'[t], req[t])
          /\ req'[t].pc \in ObjectPcs \cup PutPcs
          /\ req[t].pc \in ObjectPcs \cup PutPcs \cup {"page", "listed"}
      BY <1>12, ObjectStepMoves DEF ObjectMove
    <2>2. req'[t].op # "list"
      <3>1. Shape(req'[t])
        BY <1>1 DEF TInv
      <3> QED
        BY <2>1, <3>1 DEF Shape, Fits, ObjectPcs, PutPcs
    <2>3. req[t].op # "list" /\ req[t].pc \notin {"idle", "listed"} /\ req'[t].pc # "listed"
      BY <2>1, <2>2, RequestFacts DEF Ident, Fits, ObjectPcs, PutPcs
    <2> QED
      BY <1>8, <2>1, <2>3
  <1>13. CASE LookUpBucketFails(t) /\ req'[t] # Idle
    BY <1>13, FailedTypes DEF Failed, Jump
  <1>14. BucketStep(t) => \/ LookUpBucket(t) \/ CacheBucket(t) \/ LookUpBucketFails(t)
                          \/ req[t].pc \notin {"bucket", "cacheBucket"}
    BY DEF BucketStep, InsertBucket, InsertBucketFails, CacheCreated, CheckEmpty, DropBucket,
           UncacheBucket, ListBuckets, CacheAll, BucketStatementFails
  <1> QED
    BY <1>5, <1>6, <1>7, <1>9, <1>10, <1>11, <1>12, <1>13, <1>14

LEMMA NextLists ==
    ASSUME TInv, BucketInv, OwnerInv, ListInv, [Next]_vars
    PROVE  ListInv'
  <1>1. ASSUME UNCHANGED <<buckets, bucketCache, objects, removed, raced, req>> PROVE ListInv'
    BY <1>1 DEF ListInv, ListOK, Increasing, CachedAs
  <1>2. CASE UNCHANGED vars \/ AllAnswered
    BY <1>1, <1>2 DEF AllAnswered, vars, tableVars, history
  <1>3. ASSUME NEW t \in Threads, Begin(t) \/ BucketStep(t) \/ ObjectStep(t)
        PROVE  ListInv'
    BY <1>3, StepLists
  <1>4. ASSUME NEW x \in Objects, ExpireEntry(x)
        PROVE  ListInv'
    BY <1>1, <1>4 DEF ExpireEntry, tableVars
  <1>5. ASSUME NEW i \in IdemKeys, ExpireRecord(i)
        PROVE  ListInv'
    BY <1>1, <1>5 DEF ExpireRecord
  <1>6. CASE DelayedCommand
    BY <1>1, <1>6 DEF DelayedCommand, tableVars, history
  <1> QED
    BY <1>2, <1>3, <1>4, <1>5, <1>6 DEF Next

LEMMA InitLists ==
    ASSUME Init
    PROVE  ListInv
  <1>1. \A t \in Threads : req[t] = Idle
    BY DEF Init
  <1>2. 1..Len(<< >>) = {}
    OBVIOUS
  <1> QED
    BY <1>1, <1>2, IdleOK, IdleOwners DEF ListInv, ListOK, Increasing

\* A client that lists a bucket page by page sees every object that was there
\* from the first page to the last, each once and in order, whatever is put and
\* deleted meanwhile, unless a race, or a DELETE by another spelling, has left a
\* stale id of that bucket in bucket_cache_.
THEOREM ListingsAreComplete == Spec => []ListingIsComplete
  <1> DEFINE I == TInv /\ BucketInv /\ OwnerInv /\ ListInv
  <1>1. Init => I
    BY InitTypes, InitBuckets, InitOwners, InitLists
  <1>2. I /\ [Next]_vars => I'
    BY NextTypes, NextBuckets, NextOwners, NextLists
  <1>3. I => ListingIsComplete
    BY DEF ListInv, ListOK, ListingIsComplete, Increasing
  <1> QED
    BY <1>1, <1>2, <1>3, PTL DEF Spec

=============================================================================
