----------------------------- MODULE TimerWheel -----------------------------
(***************************************************************************)
(* The timer wheel of an event loop (src/src/net/epoll/timer_wheel.cpp)    *)
(* and the timerfd that drives it (event_loop.cpp, HandleTimerTick).       *)
(*                                                                         *)
(* wheel_ is a ring of buckets of entries; Tick advances by one bucket,    *)
(* calls the callbacks of the entries that are not cancelled and empties   *)
(* the bucket.  The entries are objects on the heap: a bucket holds them   *)
(* by shared pointers, and they are freed with the last one; timer_map_    *)
(* has a weak pointer per timer id.  A timer that is cancelled or          *)
(* refreshed leaves its entry, marked, in the wheel.  The order of the     *)
(* entries in a bucket, which only orders the callbacks of one tick, is    *)
(* left out.                                                               *)
(*                                                                         *)
(* Callbacks do not call the wheel: the only one the server sets queues a  *)
(* ForceClose.  The wheel is used by one thread at a time.                 *)
(***************************************************************************)
EXTENDS Integers, FiniteSets

CONSTANTS
    WheelSize,  \* wheel_size_
    MaxDelay,   \* the longest delay passed to AddTimer and RefreshTimer
    MaxTimers,  \* bound: how many timers are added
    Pointers,   \* bound: the addresses of entries, the cancelled ones included
    Off         \* no timer, no entry

Ids == 1 .. MaxTimers
Slots == 0 .. WheelSize - 1
Entries == [id : Ids, repeat : BOOLEAN, interval : 1 .. MaxDelay, cancelled : BOOLEAN]

\* What Timers says of a timer that is set.
Countdowns == [left : 1 .. WheelSize, period : 1 .. MaxDelay, repeat : BOOLEAN]

\* A timer may be set for a whole turn of the wheel, not for longer.
ASSUME WheelAssumption ==
    /\ WheelSize \in Nat \ {0}
    /\ MaxDelay \in 1 .. WheelSize
    /\ MaxTimers \in Nat
    /\ Off \notin Pointers \cup Entries \cup Countdowns

VARIABLES
    current,        \* current_slot_
    wheel,          \* wheel_: the entries in each bucket
    entry,          \* the entry at each address, Off where there is none
    timerMap,       \* timer_map_: the entry of each id, Off where there is none
    nextId,         \* next_timer_id_
    fired,          \* [ids -> Nat]: callbacks made in the last step
    expirations,    \* whether the timerfd has expired since it was last read
    elapsed         \* [ids -> 0 .. MaxDelay]: expirations since the timer was set

vars == <<current, wheel, entry, timerMap, nextId, fired, expirations, elapsed>>

Init ==
    /\ current = 0
    /\ wheel = [s \in Slots |-> {}]
    /\ entry = [p \in Pointers |-> Off]
    /\ timerMap = [i \in Ids |-> Off]
    /\ nextId = 1
    /\ fired = [i \in Ids |-> 0]
    /\ expirations = FALSE
    /\ elapsed = [i \in Ids |-> 0]

----------------------------------------------------------------------------

\* Mutant: one slot short.
TargetShort(d) == (current + d - 1) % WheelSize

Target(d) == (current + d) % WheelSize

\* The weak pointer of timer i can be locked: its entry has not been freed.
Locked(i) == timerMap[i] # Off /\ entry[timerMap[i]] # Off

\* The entries after the one of timer i has been marked.
MarkCancelled(i) == [entry EXCEPT ![timerMap[i]].cancelled = TRUE]

\* A new entry e, at a free address, goes to the bucket d slots ahead and takes
\* its id over; `others' are the entries there are besides.
Insert(others, e, d) ==
    /\ \E p \in Pointers :
          /\ entry[p] = Off
          /\ entry' = [others EXCEPT ![p] = e]
          /\ wheel' = [wheel EXCEPT ![Target(d)] = @ \cup {p}]
          /\ timerMap' = [timerMap EXCEPT ![e.id] = p]
    /\ elapsed' = [elapsed EXCEPT ![e.id] = 0]

Silent == fired' = [i \in Ids |-> 0]

\* AddTimer: a delay of zero or less counts as one second.
AddTimer(delay, repeat) ==
    LET d == IF delay <= 0 THEN 1 ELSE delay IN
    /\ nextId <= MaxTimers
    /\ Insert(entry, [id |-> nextId, repeat |-> repeat, interval |-> d,
                      cancelled |-> FALSE], d)
    /\ nextId' = nextId + 1
    /\ Silent
    /\ UNCHANGED <<current, expirations>>

\* Mutant: the id stays in timer_map_.
CancelTimerKeepsMap(i) ==
    /\ timerMap[i] # Off
    /\ entry' = IF Locked(i) THEN MarkCancelled(i) ELSE entry
    /\ Silent
    /\ UNCHANGED <<current, wheel, timerMap, nextId, expirations, elapsed>>

CancelTimer(i) ==
    /\ timerMap[i] # Off
    /\ entry' = IF Locked(i) THEN MarkCancelled(i) ELSE entry
    /\ timerMap' = [timerMap EXCEPT ![i] = Off]
    /\ elapsed' = [elapsed EXCEPT ![i] = 0]
    /\ Silent
    /\ UNCHANGED <<current, wheel, nextId, expirations>>

\* Mutant: the old entry is not marked.
RefreshTimerTwice(i, delay) ==
    LET e == entry[timerMap[i]]
        d == IF delay > 0 THEN delay ELSE e.interval
    IN  /\ Locked(i)
        /\ ~e.cancelled
        /\ Insert(entry, [e EXCEPT !.interval = d], d)
        /\ Silent
        /\ UNCHANGED <<current, nextId, expirations>>

\* RefreshTimer: a new entry takes the id over, with the old interval when
\* the delay is zero or less.
RefreshTimer(i, delay) ==
    LET e == entry[timerMap[i]]
        d == IF delay > 0 THEN delay ELSE e.interval
    IN  /\ Locked(i)
        /\ ~e.cancelled
        /\ Insert(MarkCancelled(i), [e EXCEPT !.interval = d], d)
        /\ Silent
        /\ UNCHANGED <<current, nextId, expirations>>

\* The timerfd's second is over.
Expire ==
    /\ expirations' = TRUE
    /\ elapsed' = [i \in Ids |->
                     IF timerMap[i] # Off /\ elapsed[i] < MaxDelay
                     THEN elapsed[i] + 1 ELSE elapsed[i]]
    /\ Silent
    /\ UNCHANGED <<current, wheel, entry, timerMap, nextId>>

\* HandleTimerTick: the timerfd is read, which resets its count, and the
\* wheel advances by one, however many seconds have passed.
Tick ==
    LET now == (current + 1) % WheelSize
        due == {p \in wheel[now] : ~entry[p].cancelled}
        again == {p \in due : entry[p].repeat}
        ahead(p) == (now + entry[p].interval) % WheelSize
        gone == {entry[p].id : p \in due \ again}
        restarted == {entry[p].id : p \in again}
    IN
    /\ expirations
    /\ expirations' = FALSE
    /\ current' = now
    /\ wheel' = [s \in Slots |-> (IF s = now THEN {} ELSE wheel[s]) \cup {p \in again : ahead(p) = s}]
    /\ entry' = [p \in Pointers |-> IF p \in wheel[now] \ again THEN Off ELSE entry[p]]
    /\ timerMap' = [i \in Ids |-> IF i \in gone THEN Off ELSE timerMap[i]]
    /\ fired' = [i \in Ids |-> Cardinality({p \in due : entry[p].id = i})]
    /\ elapsed' = [i \in Ids |-> IF i \in gone \cup restarted THEN 0 ELSE elapsed[i]]
    /\ UNCHANGED nextId

Next ==
    \/ \E delay \in 0 .. MaxDelay, repeat \in BOOLEAN : AddTimer(delay, repeat)
    \/ \E i \in Ids : CancelTimer(i)
    \/ \E i \in Ids, delay \in 0 .. MaxDelay : RefreshTimer(i, delay)
    \/ Expire
    \/ Tick

Spec == Init /\ [][Next]_vars

----------------------------------------------------------------------------
(***************************************************************************)
(* Properties                                                              *)
(***************************************************************************)

\* Types; the entries are those in the wheel; timer_map_'s pointers lead to
\* entries with their id that are in the wheel and not cancelled, so that the
\* lock of a weak pointer never fails.
WheelTypeOK ==
    /\ current \in Slots
    /\ wheel \in [Slots -> SUBSET Pointers]
    /\ entry \in [Pointers -> Entries \cup {Off}]
    /\ timerMap \in [Ids -> Pointers \cup {Off}]
    /\ \A p \in Pointers : entry[p] # Off <=> \E s \in Slots : p \in wheel[s]
    /\ \A i \in Ids : timerMap[i] # Off =>
         i < nextId /\ Locked(i) /\ entry[timerMap[i]].id = i /\ ~entry[timerMap[i]].cancelled
    /\ nextId \in 1 .. MaxTimers + 1
    /\ fired \in [Ids -> Nat]
    /\ expirations \in BOOLEAN
    /\ elapsed \in [Ids -> 0 .. MaxDelay]

\* The bucket of the entry at p.
SlotOf(p) == CHOOSE s \in Slots : p \in wheel[s]

\* Ticks until the wheel reaches slot s.
TicksTo(s) == ((s - current - 1) % WheelSize) + 1

TimerOf(i) ==
    IF timerMap[i] # Off
    THEN LET e == entry[timerMap[i]] IN
         [left |-> TicksTo(SlotOf(timerMap[i])), period |-> e.interval, repeat |-> e.repeat]
    ELSE Off

Abstract == INSTANCE Timers WITH
    Delays <- 1 .. MaxDelay,
    timer <- [i \in Ids |-> TimerOf(i)]

\* The ring of buckets, with the marked entries it carries along, behaves as
\* one countdown per timer: a refreshed connection is not closed at its old
\* deadline, a cancelled one never, none twice, and all of this across the
\* end of the ring and for a delay of a whole turn.
ImplementsTimers == Abstract!Spec

\* A timer set for d seconds calls back after at least d - 1 expirations of
\* the timerfd (one may have been waiting to be read when it was set), although
\* HandleTimerTick counts several missed expirations as one tick.
NotEarly ==
    [][\A i \in Ids :
          fired'[i] > 0 /\ timerMap[i] # Off
              => elapsed[i] >= entry[timerMap[i]].interval - 1]_vars

=============================================================================
