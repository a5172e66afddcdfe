----------------------------- MODULE RedisCache -----------------------------
(***************************************************************************)
(* The object metadata cache (src/src/util/redis_cache.cpp): one           *)
(* connection to Redis that all threads share under mutex_, opened on the  *)
(* first call that needs it and closed when a command fails.  A call is    *)
(* one step: mutex_ is held from the connect to the reply.                 *)
(*                                                                         *)
(* Replies carry no name of the command they answer; the only thing that   *)
(* keeps them apart is that a call that does not get its reply closes the  *)
(* connection.  Connect() does not do so when its PING fails, so a reply   *)
(* that comes late stays unread on an open connection and the next calls   *)
(* read the reply of the call before them.                                 *)
(***************************************************************************)
EXTENDS Naturals, Sequences

CONSTANTS
    CacheKeys,  \* what entries are stored under: one per object
    Payloads,   \* what MetaStore stores: serialised rows
    Garbage,    \* an entry that DeserializeObjectInfo rejects
    None,       \* no value
    MaxFaults   \* bound: calls, and statements of the database, that fail

VARIABLES
    entries,    \* Redis: [CacheKeys -> Payloads \cup {Garbage, None}]
    connected,  \* sockfd_ >= 0
    unread,     \* replies sent on the connection and not yet read
    delayed,    \* a command of a closed connection that Redis still has to
                \* execute, or None
    faults      \* how many have failed

redisVars == <<entries, connected, unread, delayed, faults>>

\* What GET answers when it is a value or nil, as against "+OK", ":1", "+PONG".
Bulk(v) == [type |-> "bulk", value |-> v]
StatusReply == [type |-> "status", value |-> None]
Replies == [type : {"bulk", "status"}, value : Payloads \cup {Garbage, None}]

GetCommand(k) == [cmd |-> "get", key |-> k, value |-> None]
SetCommand(k, v) == [cmd |-> "set", key |-> k, value |-> v]
DelCommand(k) == [cmd |-> "del", key |-> k, value |-> None]
Commands ==
    [cmd : {"get", "set", "del"}, key : CacheKeys, value : Payloads \cup {None}]

RedisTypeOK ==
    /\ entries \in [CacheKeys -> Payloads \cup {Garbage, None}]
    /\ connected \in BOOLEAN
    /\ unread \in Seq(Replies)
    /\ Len(unread) <= 1
    /\ ~connected => unread = << >>
    /\ delayed \in Commands \cup {None}
    /\ faults \in 0..MaxFaults

\* Redis executes a command; a SET or DEL leaves value, or None, as the entry.
Executed(c) ==
    IF c.cmd = "get" THEN entries ELSE [entries EXCEPT ![c.key] = c.value]

ReplyTo(c) == IF c.cmd = "get" THEN Bulk(entries[c.key]) ELSE StatusReply

\* The replies the connection will deliver once c has been executed.
Stream(c) == Append(unread, ReplyTo(c))

Fault == faults < MaxFaults /\ faults' = faults + 1

(***************************************************************************)
(* The ways a call can go.                                                 *)
(***************************************************************************)

\* Connect() fails before its PING, and closes the socket.
ConnectFails ==
    /\ Fault
    /\ ~connected
    /\ UNCHANGED <<entries, connected, unread, delayed>>

\* The PING is answered too late: the call fails, the socket stays open.
PingTimesOut ==
    /\ Fault
    /\ ~connected
    /\ connected' = TRUE
    /\ unread' = <<StatusReply>>
    /\ UNCHANGED <<entries, delayed>>

\* The reply does not come.  Redis executed the command, or does so later, or
\* never got it.
Lost(c) ==
    /\ Fault
    /\ connected' = FALSE
    /\ unread' = << >>
    /\ \/ UNCHANGED <<entries, delayed>>
       \/ entries' = Executed(c) /\ UNCHANGED delayed
       \/ delayed = None /\ delayed' = c /\ UNCHANGED entries

CallFails(c) == ConnectFails \/ PingTimesOut \/ Lost(c)

\* The reply that is read is the first one unread.
Answered(c) ==
    /\ connected' = TRUE
    /\ unread' = Tail(Stream(c))
    /\ entries' = Executed(c)
    /\ UNCHANGED <<delayed, faults>>

(***************************************************************************)
(* Get, SetEx, Del.  SetEx and Del take any reply for success.             *)
(***************************************************************************)

\* Get returns a bulk reply.
GetReturns(k, v) ==
    /\ Head(Stream(GetCommand(k))) = Bulk(v)
    /\ Answered(GetCommand(k))

\* A failed call that leaves the connection open, its reply to come.
LostKeepsOpen(c) ==
    /\ Fault
    /\ connected' = TRUE
    /\ unread' = IF unread = << >> THEN Stream(c) ELSE unread
    /\ UNCHANGED <<entries, delayed>>

\* Mutant: Get does not close the connection when it fails.
GetFailsOpen(k) ==
    \/ LostKeepsOpen(GetCommand(k))
    \/ ConnectFails

\* Get fails, also when the reply it reads is not a bulk reply.
GetFails(k) ==
    \/ CallFails(GetCommand(k))
    \/ /\ Head(Stream(GetCommand(k))).type # "bulk"
       /\ connected' = FALSE
       /\ unread' = << >>
       /\ UNCHANGED <<entries, delayed, faults>>

SetExOk(k, v) == Answered(SetCommand(k, v))
SetExFails(k, v) == CallFails(SetCommand(k, v))

DelOk(k) == Answered(DelCommand(k))
DelFails(k) == CallFails(DelCommand(k))

(***************************************************************************)
(* Redis on its own: the TTL of an entry ends, a delayed command arrives.  *)
(***************************************************************************)

Expire(k) ==
    /\ entries[k] # None
    /\ entries' = [entries EXCEPT ![k] = None]
    /\ UNCHANGED <<connected, unread, delayed, faults>>

DelayedArrives ==
    /\ delayed # None
    /\ entries' = Executed(delayed)
    /\ delayed' = None
    /\ UNCHANGED <<connected, unread, faults>>
=============================================================================
