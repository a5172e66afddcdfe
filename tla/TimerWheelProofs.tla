-------------------------- MODULE TimerWheelProofs --------------------------
(***************************************************************************)
(* Proofs about the timer wheel: that it behaves as one countdown per      *)
(* timer, and that no timer calls back early, for every size of the wheel  *)
(* and every number of timers and entries.                                 *)
(***************************************************************************)
EXTENDS TimerWheel, FiniteSetTheorems, TLAPS

\* An entry is in one bucket.
OneSlot ==
    \A p \in Pointers : \A s, t \in Slots : p \in wheel[s] /\ p \in wheel[t] => s = t

\* An entry that is not marked is the one its id leads to: a timer has no
\* second entry that could call back.
Owned ==
    \A p \in Pointers :
        entry[p] # Off /\ ~entry[p].cancelled => timerMap[entry[p].id] = p

\* Ticks until a wheel at slot c reaches slot s.
Ticks(c, s) == ((s - c - 1) % WheelSize) + 1

\* The ticks a timer has advanced are no more than the expirations since it was
\* set and the one that may have been waiting then; one that waits to be read
\* has not been used yet.
Timely ==
    \A i \in Ids : timerMap[i] # Off =>
        \A s \in Slots : timerMap[i] \in wheel[s] =>
            elapsed[i] + 1 >= entry[timerMap[i]].interval - Ticks(current, s)
                                + (IF expirations THEN 1 ELSE 0)

WheelInv == WheelTypeOK /\ OneSlot /\ Owned /\ Timely

----------------------------------------------------------------------------
(***************************************************************************)
(* Slots: the arithmetic of the ring.                                      *)
(***************************************************************************)

LEMMA Ring ==
    ASSUME NEW n \in Int, -WheelSize <= n, n < 2 * WheelSize
    PROVE  n % WheelSize = IF n < 0 THEN n + WheelSize
                           ELSE IF n < WheelSize THEN n ELSE n - WheelSize
BY WheelAssumption

\* The ticks to a slot, without the modulus.
LEMMA TicksIs ==
    ASSUME NEW c \in Slots, NEW s \in Slots
    PROVE  /\ Ticks(c, s) = IF s > c THEN s - c ELSE s - c + WheelSize
           /\ Ticks(c, s) \in 1 .. WheelSize
<1>1. /\ s - c - 1 \in Int
      /\ -WheelSize <= s - c - 1
      /\ s - c - 1 < WheelSize
    BY WheelAssumption DEF Slots
<1>2. (s - c - 1) % WheelSize = IF s - c - 1 < 0 THEN s - c - 1 + WheelSize ELSE s - c - 1
    BY <1>1, Ring, WheelAssumption
<1> QED BY <1>1, <1>2, WheelAssumption DEF Ticks, Slots

\* The slot d ahead is reached after d ticks, a whole turn included.
LEMMA Ahead ==
    ASSUME NEW c \in Slots, NEW d \in 1 .. MaxDelay
    PROVE  (c + d) % WheelSize \in Slots /\ Ticks(c, (c + d) % WheelSize) = d
<1>1. c + d \in Int /\ -WheelSize <= c + d /\ 0 <= c + d /\ c + d < 2 * WheelSize
    BY WheelAssumption DEF Slots
<1>2. (c + d) % WheelSize = IF c + d < WheelSize THEN c + d ELSE c + d - WheelSize
    BY <1>1, Ring, WheelAssumption DEF Slots
<1>3. (c + d) % WheelSize \in Slots
    BY <1>1, <1>2, WheelAssumption DEF Slots
<1>4. Ticks(c, (c + d) % WheelSize) = d
    BY <1>2, <1>3, TicksIs, WheelAssumption DEF Slots
<1> QED BY <1>3, <1>4

\* A tick brings every slot one nearer, but the one it reaches.
LEMMA Nearer ==
    ASSUME NEW c \in Slots, NEW n, n = (c + 1) % WheelSize
    PROVE  /\ n \in Slots
           /\ Ticks(c, n) = 1
           /\ \A s \in Slots : s # n => Ticks(c, s) > 1 /\ Ticks(n, s) = Ticks(c, s) - 1
<1>0. 1 \in 1 .. MaxDelay
    BY WheelAssumption
<1>1. n \in Slots /\ Ticks(c, n) = 1
    BY <1>0, Ahead
<1>2. c + 1 \in Int /\ -WheelSize <= c + 1 /\ 0 <= c + 1 /\ c + 1 < 2 * WheelSize
    BY WheelAssumption DEF Slots
<1>3. n = IF c + 1 < WheelSize THEN c + 1 ELSE c + 1 - WheelSize
    BY <1>2, Ring, WheelAssumption DEF Slots
<1>4. ASSUME NEW s \in Slots, s # n
      PROVE  Ticks(c, s) > 1 /\ Ticks(n, s) = Ticks(c, s) - 1
    BY <1>1, <1>3, <1>4, TicksIs, WheelAssumption DEF Slots
<1> QED BY <1>1, <1>4

----------------------------------------------------------------------------
(***************************************************************************)
(* A new entry: what AddTimer and RefreshTimer have in common.             *)
(***************************************************************************)

\* `others' are the entries there were, but for a mark on the one of timer i.
Superseded(others, i) ==
    /\ others \in [Pointers -> Entries \cup {Off}]
    /\ \A p \in Pointers : p # timerMap[i] => others[p] = entry[p]
    /\ timerMap[i] # Off => others[timerMap[i]] # Off /\ others[timerMap[i]].cancelled

\* The step inserts e, due d ticks ahead, and does nothing else.
Inserting(others, e, d) ==
    /\ e \in Entries /\ ~e.cancelled /\ e.interval = d
    /\ Superseded(others, e.id)
    /\ Insert(others, e, d)
    /\ nextId' \in nextId .. MaxTimers + 1 /\ e.id < nextId'
    /\ Silent
    /\ UNCHANGED <<current, expirations>>

\* The new entry is at an address no other timer uses.
LEMMA InsertedAt ==
    ASSUME WheelInv, NEW others, NEW e, NEW d, Inserting(others, e, d)
    PROVE  \E p \in Pointers :
              /\ \A s \in Slots : p \notin wheel[s]
              /\ \A i \in Ids : timerMap[i] # p
              /\ entry' = [others EXCEPT ![p] = e]
              /\ wheel' = [wheel EXCEPT ![Target(d)] = @ \cup {p}]
              /\ timerMap' = [timerMap EXCEPT ![e.id] = p]
              /\ elapsed' = [elapsed EXCEPT ![e.id] = 0]
              /\ entry[p] = Off
<1>1. PICK p \in Pointers :
         /\ entry[p] = Off
         /\ entry' = [others EXCEPT ![p] = e]
         /\ wheel' = [wheel EXCEPT ![Target(d)] = @ \cup {p}]
         /\ timerMap' = [timerMap EXCEPT ![e.id] = p]
    BY DEF Inserting, Insert
<1>2. elapsed' = [elapsed EXCEPT ![e.id] = 0]
    BY DEF Inserting, Insert
<1>3. /\ \A s \in Slots : p \notin wheel[s]
      /\ \A i \in Ids : timerMap[i] # p
    BY <1>1, WheelAssumption DEF WheelInv, WheelTypeOK, Locked
<1> QED BY <1>1, <1>2, <1>3

LEMMA InsertTypes ==
    ASSUME WheelInv, NEW others, NEW e, NEW d, Inserting(others, e, d)
    PROVE  WheelTypeOK'
<1>1. PICK p \in Pointers :
              /\ \A s \in Slots : p \notin wheel[s]
              /\ \A i \in Ids : timerMap[i] # p
              /\ entry' = [others EXCEPT ![p] = e]
              /\ wheel' = [wheel EXCEPT ![Target(d)] = @ \cup {p}]
              /\ timerMap' = [timerMap EXCEPT ![e.id] = p]
              /\ elapsed' = [elapsed EXCEPT ![e.id] = 0]
              /\ entry[p] = Off
    BY InsertedAt
<1>2. /\ e \in Entries /\ e # Off /\ e.id \in Ids /\ d \in 1 .. MaxDelay /\ ~e.cancelled
      /\ p # Off
    BY WheelAssumption DEF Inserting, Entries
<1>3. Target(d) \in Slots
    BY <1>2, Ahead DEF Target, WheelInv, WheelTypeOK
<1>4. /\ wheel' \in [Slots -> SUBSET Pointers]
      /\ entry' \in [Pointers -> Entries \cup {Off}]
      /\ timerMap' \in [Ids -> Pointers \cup {Off}]
      /\ elapsed' \in [Ids -> 0 .. MaxDelay]
    BY <1>1, <1>2, <1>3, WheelAssumption DEF Inserting, Superseded, WheelInv, WheelTypeOK
<1>5. ASSUME NEW q \in Pointers
      PROVE  entry'[q] # Off <=> \E s \in Slots : q \in wheel'[s]
  <2>1. CASE q = p
      BY <1>1, <1>2, <1>3, <2>1 DEF Inserting, Superseded, WheelInv, WheelTypeOK
  <2>2. CASE q # p
    <3>1. entry'[q] = others[q] /\ (\E s \in Slots : q \in wheel'[s]) <=> (\E s \in Slots : q \in wheel[s])
        BY <1>1, <1>3, <2>2 DEF Inserting, Superseded, WheelInv, WheelTypeOK
    <3>2. others[q] # Off <=> entry[q] # Off
      <4>1. CASE q = timerMap[e.id]
          BY <1>2, <4>1, WheelAssumption DEF Inserting, Superseded, WheelInv, WheelTypeOK, Locked
      <4>2. CASE q # timerMap[e.id]
          BY <4>2 DEF Inserting, Superseded
      <4> QED BY <4>1, <4>2
    <3> QED BY <1>1, <2>2, <3>1, <3>2 DEF Inserting, Superseded, WheelInv, WheelTypeOK
  <2> QED BY <2>1, <2>2
<1>6. ASSUME NEW i \in Ids, timerMap'[i] # Off
      PROVE  /\ i < nextId' /\ entry'[timerMap'[i]] # Off
             /\ entry'[timerMap'[i]].id = i /\ ~entry'[timerMap'[i]].cancelled
  <2>1. CASE i = e.id
      BY <1>1, <1>2, <2>1 DEF Inserting, Superseded, WheelInv, WheelTypeOK
  <2>2. CASE i # e.id
    <3>1. timerMap'[i] = timerMap[i] /\ timerMap[i] \in Pointers /\ timerMap[i] # p
        BY <1>1, <1>4, <1>6, <2>2 DEF WheelInv, WheelTypeOK
    <3>2. /\ i < nextId /\ entry[timerMap[i]] # Off
          /\ entry[timerMap[i]].id = i /\ ~entry[timerMap[i]].cancelled
        BY <1>6, <3>1 DEF WheelInv, WheelTypeOK, Locked
    <3>3. timerMap[i] # timerMap[e.id]
        BY <1>2, <1>6, <2>2, <3>1, <3>2 DEF WheelInv, WheelTypeOK, Locked
    <3>4. entry'[timerMap'[i]] = entry[timerMap[i]]
        BY <1>1, <3>1, <3>3 DEF Inserting, Superseded
    <3>5. i < nextId'
        BY <3>2 DEF Ids, Inserting, WheelInv, WheelTypeOK
    <3> QED BY <3>2, <3>4, <3>5
  <2> QED BY <2>1, <2>2
<1>7. /\ current' \in Slots /\ expirations' \in BOOLEAN
      /\ nextId' \in 1 .. MaxTimers + 1 /\ fired' \in [Ids -> Nat]
    BY WheelAssumption DEF Inserting, Silent, WheelInv, WheelTypeOK
<1> QED BY <1>4, <1>5, <1>6, <1>7 DEF WheelTypeOK, Locked

LEMMA InsertInv ==
    ASSUME WheelInv, NEW others, NEW e, NEW d, Inserting(others, e, d)
    PROVE  WheelInv'
<1>1. PICK p \in Pointers :
              /\ \A s \in Slots : p \notin wheel[s]
              /\ \A i \in Ids : timerMap[i] # p
              /\ entry' = [others EXCEPT ![p] = e]
              /\ wheel' = [wheel EXCEPT ![Target(d)] = @ \cup {p}]
              /\ timerMap' = [timerMap EXCEPT ![e.id] = p]
              /\ elapsed' = [elapsed EXCEPT ![e.id] = 0]
              /\ entry[p] = Off
    BY InsertedAt
<1>2. /\ e \in Entries /\ e # Off /\ e.id \in Ids /\ d \in 1 .. MaxDelay /\ ~e.cancelled
      /\ e.interval = d /\ p # Off
    BY WheelAssumption DEF Inserting, Entries
<1>3. Target(d) \in Slots /\ Ticks(current, Target(d)) = d
    BY <1>2, Ahead DEF Target, WheelInv, WheelTypeOK
<1>4. WheelTypeOK'
    BY InsertTypes
<1>5. ASSUME NEW q \in Pointers, NEW s \in Slots, q \in wheel'[s]
      PROVE  (q = p /\ s = Target(d)) \/ (q # p /\ q \in wheel[s])
    BY <1>1, <1>3, <1>5 DEF WheelInv, WheelTypeOK
<1>6. OneSlot'
    BY <1>5 DEF OneSlot, WheelInv
<1>7. Owned'
  <2> SUFFICES ASSUME NEW q \in Pointers, entry'[q] # Off, ~entry'[q].cancelled
               PROVE  timerMap'[entry'[q].id] = q
      BY DEF Owned
  <2>1. CASE q = p
      BY <1>1, <1>2, <2>1 DEF Inserting, Superseded, WheelInv, WheelTypeOK
  <2>2. CASE q # p
    <3>1. entry'[q] = others[q]
        BY <1>1, <2>2 DEF Inserting, Superseded
    <3>2. q # timerMap[e.id]
        BY <1>2, <3>1, WheelAssumption DEF Inserting, Superseded
    <3>3. entry'[q] = entry[q] /\ entry[q] \in Entries
        BY <3>1, <3>2 DEF Inserting, Superseded, WheelInv, WheelTypeOK
    <3>4. timerMap[entry[q].id] = q /\ entry[q].id \in Ids
        BY <3>3 DEF Owned, WheelInv, Entries
    <3> QED BY <1>1, <3>2, <3>3, <3>4 DEF WheelInv, WheelTypeOK
  <2> QED BY <2>1, <2>2
<1>8. Timely'
  <2> SUFFICES ASSUME NEW i \in Ids, timerMap'[i] # Off,
                      NEW s \in Slots, timerMap'[i] \in wheel'[s]
               PROVE  elapsed'[i] + 1 >= entry'[timerMap'[i]].interval - Ticks(current, s)
                                           + (IF expirations THEN 1 ELSE 0)
      BY DEF Timely, Ticks, Inserting
  <2>1. CASE i = e.id
    <3>1. timerMap'[i] = p /\ elapsed'[i] = 0 /\ entry'[p] = e
        BY <1>1, <1>2, <2>1 DEF Inserting, Superseded, WheelInv, WheelTypeOK
    <3>2. s = Target(d)
        BY <1>5, <3>1
    <3> QED BY <1>2, <1>3, <3>1, <3>2, WheelAssumption DEF WheelInv, WheelTypeOK
  <2>2. CASE i # e.id
    <3>1. timerMap'[i] = timerMap[i] /\ timerMap[i] \in Pointers /\ timerMap[i] # p
          /\ elapsed'[i] = elapsed[i]
        BY <1>1, <2>2 DEF WheelInv, WheelTypeOK
    <3>2. timerMap[i] # timerMap[e.id]
        BY <1>2, <2>2, <3>1 DEF WheelInv, WheelTypeOK
    <3>3. entry'[timerMap[i]] = entry[timerMap[i]]
        BY <1>1, <3>1, <3>2 DEF Inserting, Superseded
    <3>4. timerMap[i] \in wheel[s]
        BY <1>5, <3>1
    <3> QED BY <3>1, <3>3, <3>4 DEF Timely, WheelInv
  <2> QED BY <2>1, <2>2
<1> QED BY <1>4, <1>6, <1>7, <1>8 DEF WheelInv

----------------------------------------------------------------------------
(***************************************************************************)
(* What the refinement mapping says of a timer.                            *)
(***************************************************************************)

LEMMA UniqueSlot ==
    ASSUME NEW w, NEW p, NEW s \in Slots, p \in w[s],
           \A t \in Slots : p \in w[t] => t = s
    PROVE  (CHOOSE t \in Slots : p \in w[t]) = s
OBVIOUS

LEMMA TimerOfIs ==
    ASSUME WheelInv, NEW i \in Ids, timerMap[i] # Off,
           NEW s \in Slots, timerMap[i] \in wheel[s]
    PROVE  TimerOf(i) = [left   |-> Ticks(current, s),
                         period |-> entry[timerMap[i]].interval,
                         repeat |-> entry[timerMap[i]].repeat]
<1>1. timerMap[i] \in Pointers
    BY DEF WheelInv, WheelTypeOK
<1>2. SlotOf(timerMap[i]) = s
    BY <1>1, UniqueSlot DEF SlotOf, WheelInv, OneSlot
<1> QED BY <1>2 DEF TimerOf, TicksTo, Ticks

\* The same after a step.
LEMMA TimerOfWillBe ==
    ASSUME WheelInv', NEW i \in Ids, timerMap'[i] # Off,
           NEW s \in Slots, timerMap'[i] \in wheel'[s]
    PROVE  TimerOf(i)' = [left   |-> Ticks(current', s),
                          period |-> entry'[timerMap'[i]].interval,
                          repeat |-> entry'[timerMap'[i]].repeat]
<1>1. timerMap'[i] \in Pointers
    BY DEF WheelInv, WheelTypeOK
<1>2. SlotOf(timerMap[i])' = s
    BY <1>1, UniqueSlot DEF SlotOf, WheelInv, OneSlot
<1> QED BY <1>2 DEF TimerOf, TicksTo, Ticks

\* A timer that is set is in a bucket, and its countdown is one.
LEMMA TimerOfSlot ==
    ASSUME WheelInv, NEW i \in Ids, timerMap[i] # Off
    PROVE  /\ TimerOf(i) \in Countdowns /\ TimerOf(i) # Off
           /\ \E s \in Slots : timerMap[i] \in wheel[s]
<1>1. timerMap[i] \in Pointers /\ entry[timerMap[i]] \in Entries
    BY DEF WheelInv, WheelTypeOK, Locked
<1>2. PICK s \in Slots : timerMap[i] \in wheel[s]
    BY <1>1 DEF WheelInv, WheelTypeOK, Locked
<1>3. /\ Ticks(current, s) \in 1 .. WheelSize
      /\ entry[timerMap[i]].interval \in 1 .. MaxDelay
      /\ entry[timerMap[i]].repeat \in BOOLEAN
    BY <1>1, TicksIs DEF WheelInv, WheelTypeOK, Entries
<1>4. TimerOf(i) = [left |-> Ticks(current, s), period |-> entry[timerMap[i]].interval,
                    repeat |-> entry[timerMap[i]].repeat]
    BY <1>2, TimerOfIs
<1>5. TimerOf(i) \in Countdowns
    BY <1>3, <1>4 DEF Countdowns
<1> QED BY <1>2, <1>5, WheelAssumption

\* A new entry is a countdown from d; the other timers go on as they were.
LEMMA InsertTimers ==
    ASSUME WheelInv, NEW others, NEW e, NEW d, Inserting(others, e, d)
    PROVE  \A i \in Ids : TimerOf(i)' = IF i = e.id THEN Abstract!Armed(d, e.repeat)
                                        ELSE TimerOf(i)
<1>1. PICK p \in Pointers :
              /\ \A s \in Slots : p \notin wheel[s]
              /\ \A i \in Ids : timerMap[i] # p
              /\ entry' = [others EXCEPT ![p] = e]
              /\ wheel' = [wheel EXCEPT ![Target(d)] = @ \cup {p}]
              /\ timerMap' = [timerMap EXCEPT ![e.id] = p]
              /\ elapsed' = [elapsed EXCEPT ![e.id] = 0]
              /\ entry[p] = Off
    BY InsertedAt
<1>2. /\ e \in Entries /\ e # Off /\ e.id \in Ids /\ d \in 1 .. MaxDelay
      /\ e.interval = d /\ p # Off
    BY WheelAssumption DEF Inserting, Entries
<1>3. Target(d) \in Slots /\ Ticks(current, Target(d)) = d
    BY <1>2, Ahead DEF Target, WheelInv, WheelTypeOK
<1>4. WheelInv' /\ current' = current
    BY InsertInv DEF Inserting
<1>5. ASSUME NEW i \in Ids
      PROVE  TimerOf(i)' = IF i = e.id THEN Abstract!Armed(d, e.repeat) ELSE TimerOf(i)
  <2>1. CASE i = e.id
    <3>1. timerMap'[i] = p /\ entry'[p] = e /\ p \in wheel'[Target(d)]
        BY <1>1, <1>2, <1>3, <2>1 DEF Inserting, Superseded, WheelInv, WheelTypeOK
    <3> QED BY <1>2, <1>3, <1>4, <2>1, <3>1, TimerOfWillBe DEF Abstract!Armed
  <2>2. CASE i # e.id /\ timerMap[i] = Off
      BY <1>1, <2>2 DEF TimerOf, WheelInv, WheelTypeOK
  <2>3. CASE i # e.id /\ timerMap[i] # Off
    <3>1. timerMap'[i] = timerMap[i] /\ timerMap[i] \in Pointers /\ timerMap[i] # p
        BY <1>1, <2>3 DEF WheelInv, WheelTypeOK
    <3>2. timerMap[i] # timerMap[e.id]
        BY <1>2, <2>3, <3>1 DEF WheelInv, WheelTypeOK
    <3>3. entry'[timerMap[i]] = entry[timerMap[i]]
        BY <1>1, <3>1, <3>2 DEF Inserting, Superseded
    <3>4. PICK s \in Slots : timerMap[i] \in wheel[s]
        BY <2>3, TimerOfSlot
    <3>5. timerMap'[i] \in wheel'[s]
        BY <1>1, <1>3, <3>1, <3>4 DEF WheelInv, WheelTypeOK
    <3>6. TimerOf(i) = [left |-> Ticks(current, s), period |-> entry[timerMap[i]].interval,
                        repeat |-> entry[timerMap[i]].repeat]
        BY <2>3, <3>4, TimerOfIs
    <3>7. TimerOf(i)' = [left |-> Ticks(current', s), period |-> entry'[timerMap'[i]].interval,
                        repeat |-> entry'[timerMap'[i]].repeat]
        BY <1>4, <2>3, <3>1, <3>5, TimerOfWillBe
    <3> QED BY <1>4, <2>3, <3>1, <3>3, <3>6, <3>7
  <2> QED BY <2>1, <2>2, <2>3
<1> QED BY <1>5

----------------------------------------------------------------------------
(***************************************************************************)
(* The operations.                                                         *)
(***************************************************************************)

LEMMA Added ==
    ASSUME WheelInv, NEW delay \in 0 .. MaxDelay, NEW repeat \in BOOLEAN,
           AddTimer(delay, repeat)
    PROVE  \E e \in Entries, d \in 1 .. MaxDelay :
              Inserting(entry, e, d) /\ e.id = nextId /\ timerMap[nextId] = Off
<1> DEFINE d == IF delay <= 0 THEN 1 ELSE delay
           e == [id |-> nextId, repeat |-> repeat, interval |-> d, cancelled |-> FALSE]
<1>1. d \in 1 .. MaxDelay
    BY WheelAssumption
<1>2. nextId \in Ids /\ nextId' = nextId + 1
    BY DEF AddTimer, WheelInv, WheelTypeOK, Ids
<1>3. e \in Entries /\ ~e.cancelled /\ e.interval = d /\ e.id = nextId
    BY <1>1, <1>2 DEF Entries
<1>4. Insert(entry, e, d) /\ Silent /\ UNCHANGED <<current, expirations>>
    BY DEF AddTimer
<1>5. timerMap[nextId] = Off
    BY <1>2, WheelAssumption DEF WheelInv, WheelTypeOK, Ids
<1>6. /\ nextId' \in nextId .. MaxTimers + 1 /\ nextId < nextId'
    BY <1>2, WheelAssumption DEF Ids
<1> HIDE DEF d, e
<1>7. Superseded(entry, e.id)
    BY <1>3, <1>5 DEF Superseded, WheelInv, WheelTypeOK
<1> QED BY <1>1, <1>3, <1>4, <1>5, <1>6, <1>7 DEF Inserting

LEMMA Marked ==
    ASSUME WheelInv, NEW i \in Ids, timerMap[i] # Off
    PROVE  /\ timerMap[i] \in Pointers /\ Locked(i)
           /\ MarkCancelled(i) \in [Pointers -> Entries \cup {Off}]
           /\ \A p \in Pointers : p # timerMap[i] => MarkCancelled(i)[p] = entry[p]
           /\ MarkCancelled(i)[timerMap[i]] \in Entries
           /\ MarkCancelled(i)[timerMap[i]] # Off
           /\ MarkCancelled(i)[timerMap[i]].cancelled
<1>1. timerMap[i] \in Pointers /\ Locked(i) /\ entry[timerMap[i]] \in Entries
    BY DEF WheelInv, WheelTypeOK, Locked
<1> DEFINE m == [entry[timerMap[i]] EXCEPT !.cancelled = TRUE]
<1>2. m \in Entries /\ m.cancelled
    BY <1>1 DEF Entries
<1>3. MarkCancelled(i) = [entry EXCEPT ![timerMap[i]] = m]
    BY DEF MarkCancelled
<1> HIDE DEF m
<1> QED BY <1>1, <1>2, <1>3, WheelAssumption DEF WheelInv, WheelTypeOK

LEMMA Refreshed ==
    ASSUME WheelInv, NEW i \in Ids, NEW delay \in 0 .. MaxDelay, RefreshTimer(i, delay)
    PROVE  \E e \in Entries, d \in 1 .. MaxDelay :
              /\ Inserting(MarkCancelled(i), e, d) /\ e.id = i /\ timerMap[i] # Off
              /\ e.repeat = entry[timerMap[i]].repeat
<1> DEFINE old == entry[timerMap[i]]
           d == IF delay > 0 THEN delay ELSE old.interval
           e == [old EXCEPT !.interval = d]
<1>1. /\ timerMap[i] # Off /\ ~old.cancelled /\ old.id = i
      /\ old \in Entries
    BY DEF RefreshTimer, WheelInv, WheelTypeOK, Locked
<1>2. d \in 1 .. MaxDelay
    BY <1>1 DEF Entries
<1>3. Insert(MarkCancelled(i), e, d) /\ Silent /\ UNCHANGED <<current, nextId, expirations>>
    BY DEF RefreshTimer
<1> HIDE DEF old, d
<1>4. e \in Entries /\ ~e.cancelled /\ e.interval = d /\ e.id = i /\ e.repeat = old.repeat
    BY <1>1, <1>2 DEF Entries
<1> HIDE DEF e
<1>5. Superseded(MarkCancelled(i), e.id)
    BY <1>1, <1>4, Marked DEF Superseded
<1>6. nextId' \in nextId .. MaxTimers + 1 /\ i < nextId'
    BY <1>1, <1>3, WheelAssumption DEF WheelInv, WheelTypeOK
<1>7. Inserting(MarkCancelled(i), e, d)
    BY <1>3, <1>4, <1>5, <1>6 DEF Inserting
<1> QED BY <1>1, <1>2, <1>4, <1>7 DEF old

LEMMA CancelInv ==
    ASSUME WheelInv, NEW i \in Ids, CancelTimer(i)
    PROVE  WheelInv'
<1>1. /\ timerMap[i] # Off
      /\ entry' = MarkCancelled(i)
      /\ timerMap' = [timerMap EXCEPT ![i] = Off]
      /\ elapsed' = [elapsed EXCEPT ![i] = 0]
      /\ fired' = [j \in Ids |-> 0]
      /\ UNCHANGED <<current, wheel, nextId, expirations>>
    BY Marked DEF CancelTimer, Silent
<1>2. /\ timerMap[i] \in Pointers /\ entry[timerMap[i]] # Off
      /\ entry' \in [Pointers -> Entries \cup {Off}]
      /\ \A p \in Pointers : p # timerMap[i] => entry'[p] = entry[p]
      /\ entry'[timerMap[i]] # Off
      /\ entry'[timerMap[i]].cancelled
    BY <1>1, Marked DEF Locked
<1>3. /\ timerMap' \in [Ids -> Pointers \cup {Off}]
      /\ elapsed' \in [Ids -> 0 .. MaxDelay]
      /\ fired' \in [Ids -> Nat]
    BY <1>1, WheelAssumption DEF WheelInv, WheelTypeOK
<1>4. ASSUME NEW j \in Ids, timerMap'[j] # Off
      PROVE  /\ timerMap'[j] = timerMap[j] /\ timerMap[j] \in Pointers
             /\ timerMap[j] # Off /\ elapsed'[j] = elapsed[j]
             /\ entry'[timerMap[j]] = entry[timerMap[j]]
  <2>1. j # i /\ timerMap'[j] = timerMap[j] /\ timerMap[j] \in Pointers
        /\ elapsed'[j] = elapsed[j]
      BY <1>1, <1>4 DEF WheelInv, WheelTypeOK
  <2>2. timerMap[j] # timerMap[i]
      BY <1>1, <1>4, <2>1 DEF WheelInv, WheelTypeOK
  <2> QED BY <1>2, <1>4, <2>1, <2>2
<1>5. WheelTypeOK'
  <2>1. \A p \in Pointers : entry'[p] # Off <=> \E s \in Slots : p \in wheel'[s]
      BY <1>1, <1>2 DEF WheelInv, WheelTypeOK
  <2>2. \A j \in Ids : timerMap'[j] # Off =>
          /\ j < nextId' /\ entry'[timerMap'[j]] # Off
          /\ entry'[timerMap'[j]].id = j /\ ~entry'[timerMap'[j]].cancelled
      BY <1>1, <1>4 DEF WheelInv, WheelTypeOK, Locked
  <2> QED BY <1>1, <1>2, <1>3, <2>1, <2>2 DEF WheelInv, WheelTypeOK, Locked
<1>6. OneSlot'
    BY <1>1 DEF WheelInv, OneSlot
<1>7. Owned'
  <2> SUFFICES ASSUME NEW q \in Pointers, entry'[q] # Off, ~entry'[q].cancelled
               PROVE  timerMap'[entry'[q].id] = q
      BY DEF Owned
  <2>1. q # timerMap[i] /\ entry'[q] = entry[q] /\ entry[q] \in Entries
      BY <1>2 DEF WheelInv, WheelTypeOK
  <2>2. timerMap[entry[q].id] = q /\ entry[q].id \in Ids
      BY <2>1 DEF Owned, WheelInv, Entries
  <2> QED BY <1>1, <2>1, <2>2 DEF WheelInv, WheelTypeOK
<1>8. Timely'
    BY <1>1, <1>4 DEF WheelInv, Timely, Ticks
<1> QED BY <1>5, <1>6, <1>7, <1>8 DEF WheelInv

LEMMA ExpireInv ==
    ASSUME WheelInv, Expire
    PROVE  WheelInv'
<1>1. elapsed' \in [Ids -> 0 .. MaxDelay] /\ fired' \in [Ids -> Nat]
    BY WheelAssumption DEF Expire, Silent, WheelInv, WheelTypeOK
<1>2. WheelTypeOK' /\ OneSlot' /\ Owned'
    BY <1>1 DEF Expire, WheelInv, WheelTypeOK, Locked, OneSlot, Owned
<1>3. Timely'
  <2> SUFFICES ASSUME NEW i \in Ids, timerMap[i] # Off,
                      NEW s \in Slots, timerMap[i] \in wheel[s]
               PROVE  elapsed'[i] + 1 >= entry[timerMap[i]].interval - Ticks(current, s) + 1
      BY DEF Timely, Ticks, Expire
  <2>1. Ticks(current, s) \in 1 .. WheelSize
      BY TicksIs DEF WheelInv, WheelTypeOK
  <2>2. entry[timerMap[i]].interval \in 1 .. MaxDelay
      BY DEF WheelInv, WheelTypeOK, Locked, Entries
  <2>3. elapsed[i] + 1 >= entry[timerMap[i]].interval - Ticks(current, s)
                            + (IF expirations THEN 1 ELSE 0)
      BY DEF WheelInv, Timely
  <2>4. /\ elapsed[i] \in 0 .. MaxDelay
        /\ elapsed'[i] = IF elapsed[i] < MaxDelay THEN elapsed[i] + 1 ELSE elapsed[i]
      BY DEF Expire, WheelInv, WheelTypeOK
  <2>5. elapsed[i] + 1 >= entry[timerMap[i]].interval - Ticks(current, s)
      BY <2>1, <2>2, <2>3, <2>4, WheelAssumption
  <2> QED BY <2>1, <2>2, <2>4, <2>5, WheelAssumption
<1> QED BY <1>2, <1>3 DEF WheelInv

\* The slot the next tick reaches, the entries it calls and those it re-inserts.
Now == (current + 1) % WheelSize
Due == {p \in wheel[Now] : ~entry[p].cancelled}
Again == {p \in Due : entry[p].repeat}
NextSlot(p) == (Now + entry[p].interval) % WheelSize

\* The entries that are due are those their ids lead to.
LEMMA DueFacts ==
    ASSUME WheelInv
    PROVE  /\ Now \in Slots /\ Due \subseteq Pointers /\ Again \subseteq Due
           /\ \A p \in Due : /\ entry[p] \in Entries /\ entry[p] # Off
                             /\ entry[p].id \in Ids /\ timerMap[entry[p].id] = p
                             /\ p # Off
           /\ \A i \in Ids : timerMap[i] \in Due => entry[timerMap[i]].id = i
<1>1. Now \in Slots
    BY Nearer DEF Now, WheelInv, WheelTypeOK
<1>2. Due \subseteq Pointers /\ Again \subseteq Due
    BY <1>1 DEF Due, Again, WheelInv, WheelTypeOK
<1>3. ASSUME NEW p \in Due
      PROVE  /\ entry[p] \in Entries /\ entry[p] # Off
             /\ entry[p].id \in Ids /\ timerMap[entry[p].id] = p
             /\ p # Off
  <2>1. p \in Pointers /\ p \in wheel[Now] /\ ~entry[p].cancelled
      BY <1>2 DEF Due
  <2>2. entry[p] # Off /\ entry[p] \in Entries
      BY <1>1, <2>1 DEF WheelInv, WheelTypeOK
  <2> QED BY <2>1, <2>2, WheelAssumption DEF WheelInv, Owned, Entries
<1>4. ASSUME NEW i \in Ids, timerMap[i] \in Due
      PROVE  entry[timerMap[i]].id = i
    BY <1>3, <1>4 DEF WheelInv, WheelTypeOK
<1> QED BY <1>1, <1>2, <1>3, <1>4

\* What a tick does, timer by timer and entry by entry.
LEMMA TickFacts ==
    ASSUME WheelInv, Tick
    PROVE  /\ expirations = TRUE /\ expirations' = FALSE /\ current' = Now /\ nextId' = nextId
           /\ wheel' \in [Slots -> SUBSET Pointers]
           /\ \A p \in Pointers, s \in Slots :
                 p \in wheel'[s] <=> \/ s # Now /\ p \in wheel[s]
                                     \/ p \in Again /\ NextSlot(p) = s
           /\ entry' = [p \in Pointers |-> IF p \in wheel[Now] \ Again THEN Off ELSE entry[p]]
           /\ timerMap' = [i \in Ids |-> IF timerMap[i] \in Due \ Again THEN Off ELSE timerMap[i]]
           /\ fired' = [i \in Ids |-> IF timerMap[i] \in Due THEN 1 ELSE 0]
           /\ elapsed' = [i \in Ids |-> IF timerMap[i] \in Due THEN 0 ELSE elapsed[i]]
<1> DEFINE gone == {entry[p].id : p \in Due \ Again}
           restarted == {entry[p].id : p \in Again}
<1>1. /\ expirations = TRUE /\ expirations' = FALSE /\ current' = Now /\ nextId' = nextId
      /\ wheel' = [s \in Slots |-> (IF s = Now THEN {} ELSE wheel[s])
                                   \cup {p \in Again : NextSlot(p) = s}]
      /\ entry' = [p \in Pointers |-> IF p \in wheel[Now] \ Again THEN Off ELSE entry[p]]
      /\ timerMap' = [i \in Ids |-> IF i \in gone THEN Off ELSE timerMap[i]]
      /\ fired' = [i \in Ids |-> Cardinality({p \in Due : entry[p].id = i})]
      /\ elapsed' = [i \in Ids |-> IF i \in gone \cup restarted THEN 0 ELSE elapsed[i]]
    BY DEF Tick, Now, Due, Again, NextSlot, WheelInv, WheelTypeOK
<1>2. \A i \in Ids : (i \in gone <=> timerMap[i] \in Due \ Again)
                     /\ (i \in restarted <=> timerMap[i] \in Again)
    BY DueFacts
<1>3. ASSUME NEW i \in Ids
      PROVE  Cardinality({p \in Due : entry[p].id = i}) = IF timerMap[i] \in Due THEN 1 ELSE 0
  <2>1. CASE timerMap[i] \in Due
    <3>1. {p \in Due : entry[p].id = i} = {timerMap[i]}
        BY <2>1, DueFacts
    <3> QED BY <2>1, <3>1, FS_Singleton
  <2>2. CASE timerMap[i] \notin Due
    <3>1. {p \in Due : entry[p].id = i} = {}
        BY <2>2, DueFacts
    <3> QED BY <2>2, <3>1, FS_EmptySet
  <2> QED BY <2>1, <2>2
<1>4. timerMap' = [i \in Ids |-> IF timerMap[i] \in Due \ Again THEN Off ELSE timerMap[i]]
    BY <1>1, <1>2
<1>5. elapsed' = [i \in Ids |-> IF timerMap[i] \in Due THEN 0 ELSE elapsed[i]]
    BY <1>1, <1>2, DueFacts
<1>6. fired' = [i \in Ids |-> IF timerMap[i] \in Due THEN 1 ELSE 0]
    BY <1>1, <1>3
<1>7. /\ wheel' \in [Slots -> SUBSET Pointers]
      /\ \A p \in Pointers, s \in Slots :
            p \in wheel'[s] <=> \/ s # Now /\ p \in wheel[s]
                                \/ p \in Again /\ NextSlot(p) = s
    BY <1>1, DueFacts DEF WheelInv, WheelTypeOK
<1> QED BY <1>1, <1>4, <1>5, <1>6, <1>7

\* The bucket a repeating entry goes to.
LEMMA AgainSlot ==
    ASSUME WheelInv, NEW p \in Again
    PROVE  /\ p \in Pointers /\ p \in wheel[Now] /\ ~entry[p].cancelled
           /\ NextSlot(p) \in Slots /\ Ticks(Now, NextSlot(p)) = entry[p].interval
           /\ entry[p].interval \in 1 .. MaxDelay /\ entry[p].repeat = TRUE
<1>1. p \in Due /\ entry[p].repeat = TRUE /\ entry[p].interval \in 1 .. MaxDelay
    BY DueFacts DEF Again, Entries
<1>2. p \in wheel[Now] /\ ~entry[p].cancelled
    BY <1>1 DEF Due
<1> QED BY <1>1, <1>2, DueFacts, Ahead DEF NextSlot

LEMMA TickInv ==
    ASSUME WheelInv, Tick
    PROVE  WheelInv'
<1>1. WheelTypeOK'
  <2>1. /\ current' \in Slots /\ wheel' \in [Slots -> SUBSET Pointers]
        /\ entry' \in [Pointers -> Entries \cup {Off}]
        /\ timerMap' \in [Ids -> Pointers \cup {Off}]
        /\ nextId' \in 1 .. MaxTimers + 1
        /\ fired' \in [Ids -> Nat]
        /\ expirations' \in BOOLEAN
        /\ elapsed' \in [Ids -> 0 .. MaxDelay]
    <3>1. /\ current' \in Slots /\ wheel' \in [Slots -> SUBSET Pointers]
          /\ nextId' \in 1 .. MaxTimers + 1 /\ expirations' \in BOOLEAN
        BY TickFacts, DueFacts DEF WheelInv, WheelTypeOK
    <3>2. entry' \in [Pointers -> Entries \cup {Off}]
      <4>1. entry \in [Pointers -> Entries \cup {Off}]
          BY DEF WheelInv, WheelTypeOK
      <4> QED BY <4>1, TickFacts
    <3>3. timerMap' \in [Ids -> Pointers \cup {Off}]
      <4>1. timerMap \in [Ids -> Pointers \cup {Off}]
          BY DEF WheelInv, WheelTypeOK
      <4> QED BY <4>1, TickFacts
    <3>4. fired' \in [Ids -> Nat]
        BY TickFacts
    <3>5. elapsed' \in [Ids -> 0 .. MaxDelay]
      <4>1. 0 \in 0 .. MaxDelay
          BY WheelAssumption
      <4>2. elapsed \in [Ids -> 0 .. MaxDelay]
          BY DEF WheelInv, WheelTypeOK
      <4> QED BY <4>1, <4>2, TickFacts
    <3> QED BY <3>1, <3>2, <3>3, <3>4, <3>5
  <2>2. ASSUME NEW p \in Pointers
        PROVE  entry'[p] # Off <=> \E s \in Slots : p \in wheel'[s]
    <3>1. CASE p \in Again
      <4>1. entry[p] # Off /\ entry'[p] = entry[p]
          BY <3>1, DueFacts, TickFacts
      <4>2. NextSlot(p) \in Slots
          BY <3>1, AgainSlot
      <4>3. p \in wheel'[NextSlot(p)]
          BY <3>1, <4>2, TickFacts
      <4> QED BY <4>1, <4>2, <4>3
    <3>2. CASE p \in wheel[Now] /\ p \notin Again
      <4>1. entry'[p] = Off
          BY <3>2, TickFacts
      <4>2. \A s \in Slots : s # Now => p \notin wheel[s]
          BY <3>2, DueFacts DEF WheelInv, OneSlot
      <4>3. \A s \in Slots : p \notin wheel'[s]
          BY <3>2, <4>2, TickFacts
      <4> QED BY <4>1, <4>3
    <3>3. CASE p \notin wheel[Now]
      <4>1. p \notin Again
          BY <3>3, AgainSlot
      <4>2. entry'[p] = entry[p] /\ \A s \in Slots : p \in wheel'[s] <=> p \in wheel[s]
          BY <3>3, <4>1, TickFacts
      <4> QED BY <4>2 DEF WheelInv, WheelTypeOK
    <3> QED BY <3>1, <3>2, <3>3
  <2>3. ASSUME NEW i \in Ids, timerMap'[i] # Off
        PROVE  /\ i < nextId' /\ entry'[timerMap'[i]] # Off
               /\ entry'[timerMap'[i]].id = i /\ ~entry'[timerMap'[i]].cancelled
    <3>1. timerMap'[i] = timerMap[i] /\ timerMap[i] \notin Due \ Again
        BY <2>3, TickFacts
    <3>2. /\ i < nextId /\ entry[timerMap[i]] # Off /\ timerMap[i] \in Pointers
          /\ entry[timerMap[i]].id = i /\ ~entry[timerMap[i]].cancelled
        BY <2>3, <3>1 DEF WheelInv, WheelTypeOK, Locked
    <3>3. timerMap[i] \notin wheel[Now] \ Again
        BY <3>1, <3>2 DEF Due
    <3> QED BY <3>1, <3>2, <3>3, TickFacts
  <2> QED BY <2>1, <2>2, <2>3 DEF WheelTypeOK, Locked
<1>2. OneSlot'
  <2> SUFFICES ASSUME NEW p \in Pointers, NEW s \in Slots, NEW t \in Slots,
                      p \in wheel'[s], p \in wheel'[t]
               PROVE  s = t
      BY DEF OneSlot
  <2>1. CASE p \in Again
    <3>1. Now \in Slots /\ p \in wheel[Now]
        BY <2>1, AgainSlot, DueFacts
    <3>2. \A v \in Slots : v # Now => p \notin wheel[v]
        BY <3>1 DEF WheelInv, OneSlot
    <3> QED BY <3>2, TickFacts
  <2>2. CASE p \notin Again
      BY <2>2, TickFacts DEF WheelInv, OneSlot
  <2> QED BY <2>1, <2>2
<1>3. Owned'
  <2> SUFFICES ASSUME NEW p \in Pointers, entry'[p] # Off, ~entry'[p].cancelled
               PROVE  timerMap'[entry'[p].id] = p
      BY DEF Owned
  <2>1. entry'[p] = entry[p] /\ p \notin wheel[Now] \ Again
      BY TickFacts
  <2>2. entry[p].id \in Ids /\ timerMap[entry[p].id] = p
      BY <2>1 DEF WheelInv, WheelTypeOK, Owned, Entries
  <2>3. p \notin Due \ Again
      BY <2>1 DEF Due
  <2> QED BY <2>1, <2>2, <2>3, TickFacts
<1>4. Timely'
  <2> SUFFICES ASSUME NEW i \in Ids, timerMap'[i] # Off,
                      NEW s \in Slots, timerMap'[i] \in wheel'[s]
               PROVE  elapsed'[i] + 1 >= entry'[timerMap'[i]].interval - Ticks(Now, s)
      <3>1. \A i \in Ids, s \in Slots :
               /\ timerMap'[i] # Off => entry'[timerMap'[i]].interval \in Int
               /\ Ticks(Now, s) \in Int
          BY <1>1, TicksIs, DueFacts, WheelAssumption DEF WheelTypeOK, Locked, Entries
      <3> QED BY <3>1, TickFacts DEF Timely, Ticks
  <2>1. /\ timerMap'[i] = timerMap[i] /\ timerMap[i] # Off /\ timerMap[i] \in Pointers
        /\ entry'[timerMap'[i]] = entry[timerMap[i]]
        /\ entry[timerMap[i]] \in Entries
        /\ elapsed[i] \in 0 .. MaxDelay
    <3>1. timerMap'[i] = timerMap[i] /\ timerMap[i] # Off /\ timerMap[i] \in Pointers
      <4>1. timerMap'[i] = timerMap[i] /\ timerMap[i] # Off
          BY TickFacts
      <4> QED BY <4>1 DEF WheelInv, WheelTypeOK
    <3>2. entry[timerMap[i]] \in Entries /\ elapsed[i] \in 0 .. MaxDelay
        BY <3>1 DEF WheelInv, WheelTypeOK, Locked
    <3>3. entry'[timerMap'[i]] # Off
        BY <1>1 DEF WheelTypeOK, Locked
    <3>4. entry'[timerMap'[i]] = entry[timerMap[i]]
        BY <3>1, <3>3, TickFacts
    <3> QED BY <3>1, <3>2, <3>4
  <2>2. CASE timerMap[i] \in Again
    <3>1. elapsed'[i] = 0
        BY <2>2, TickFacts, DueFacts
    <3>2. s = NextSlot(timerMap[i])
      <4>1. Now \in Slots /\ timerMap[i] \in wheel[Now]
          BY <2>2, AgainSlot, DueFacts
      <4>2. \A v \in Slots : v # Now => timerMap[i] \notin wheel[v]
          BY <2>1, <4>1 DEF WheelInv, OneSlot
      <4> QED BY <2>1, <4>2, TickFacts
    <3>3. Ticks(Now, s) = entry[timerMap[i]].interval
        BY <2>2, <3>2, AgainSlot
    <3>4. entry[timerMap[i]].interval \in Int
        BY <2>1, WheelAssumption DEF Entries
    <3> QED BY <2>1, <3>1, <3>3, <3>4
  <2>3. CASE timerMap[i] \notin Again
    <3>1. timerMap[i] \notin Due /\ elapsed'[i] = elapsed[i]
        BY <2>1, <2>3, TickFacts
    <3>2. s # Now /\ timerMap[i] \in wheel[s]
        BY <2>1, <2>3, TickFacts
    <3>3. Ticks(Now, s) = Ticks(current, s) - 1 /\ Ticks(current, s) \in 1 .. WheelSize
        BY <3>2, Nearer, TicksIs DEF Now, WheelInv, WheelTypeOK
    <3>4. elapsed[i] + 1 >= entry[timerMap[i]].interval - Ticks(current, s) + 1
        BY <2>1, <3>2, TickFacts DEF WheelInv, Timely
    <3> QED BY <2>1, <3>1, <3>3, <3>4 DEF Entries
  <2> QED BY <2>2, <2>3
<1> QED BY <1>1, <1>2, <1>3, <1>4 DEF WheelInv

----------------------------------------------------------------------------
(***************************************************************************)
(* The countdowns over a step.                                             *)
(***************************************************************************)

LEMMA CancelTimers ==
    ASSUME WheelInv, NEW i \in Ids, CancelTimer(i)
    PROVE  \A j \in Ids : TimerOf(j)' = IF j = i THEN Off ELSE TimerOf(j)
<1>1. /\ timerMap[i] # Off
      /\ entry' = MarkCancelled(i)
      /\ timerMap' = [timerMap EXCEPT ![i] = Off]
      /\ UNCHANGED <<current, wheel>>
    BY Marked DEF CancelTimer
<1>2. WheelInv'
    BY CancelInv
<1>3. ASSUME NEW j \in Ids
      PROVE  TimerOf(j)' = IF j = i THEN Off ELSE TimerOf(j)
  <2>1. CASE j = i \/ timerMap[j] = Off
      BY <1>1, <2>1 DEF TimerOf, WheelInv, WheelTypeOK
  <2>2. CASE j # i /\ timerMap[j] # Off
    <3>1. timerMap'[j] = timerMap[j] /\ timerMap[j] \in Pointers
        BY <1>1, <2>2 DEF WheelInv, WheelTypeOK
    <3>2. timerMap[j] # timerMap[i]
        BY <1>1, <2>2 DEF WheelInv, WheelTypeOK
    <3>3. entry'[timerMap[j]] = entry[timerMap[j]]
        BY <1>1, <3>1, <3>2, Marked
    <3>4. PICK s \in Slots : timerMap[j] \in wheel[s]
        BY <2>2, TimerOfSlot
    <3>5. TimerOf(j) = [left |-> Ticks(current, s), period |-> entry[timerMap[j]].interval,
                        repeat |-> entry[timerMap[j]].repeat]
        BY <2>2, <3>4, TimerOfIs
    <3>6. TimerOf(j)' = [left |-> Ticks(current', s), period |-> entry'[timerMap'[j]].interval,
                         repeat |-> entry'[timerMap'[j]].repeat]
        BY <1>1, <1>2, <2>2, <3>1, <3>4, TimerOfWillBe
    <3> QED BY <1>1, <2>2, <3>1, <3>3, <3>5, <3>6
  <2> QED BY <2>1, <2>2
<1> QED BY <1>3

\* A timer that is set is due when one tick is left.
LEMMA DueWhenOneLeft ==
    ASSUME WheelInv, NEW i \in Ids, timerMap[i] # Off
    PROVE  timerMap[i] \in Due <=> TimerOf(i).left = 1
<1>1. PICK s \in Slots : timerMap[i] \in wheel[s]
    BY TimerOfSlot
<1>2. TimerOf(i) = [left |-> Ticks(current, s), period |-> entry[timerMap[i]].interval,
                    repeat |-> entry[timerMap[i]].repeat]
    BY <1>1, TimerOfIs
<1>3. TimerOf(i).left = Ticks(current, s)
    BY <1>2
<1>4. timerMap[i] \in Pointers /\ ~entry[timerMap[i]].cancelled
    BY DEF WheelInv, WheelTypeOK
<1>5. timerMap[i] \in Due <=> s = Now
    BY <1>1, <1>4, DueFacts DEF Due, WheelInv, OneSlot
<1>6. Ticks(current, s) = 1 <=> s = Now
    BY Nearer, TicksIs DEF Now, WheelInv, WheelTypeOK
<1> QED BY <1>3, <1>5, <1>6

LEMMA TickTimers ==
    ASSUME WheelInv, Tick
    PROVE  \A i \in Ids :
              /\ TimerOf(i)' = Abstract!AfterTick(TimerOf(i))
              /\ fired'[i] = IF TimerOf(i) # Off /\ TimerOf(i).left = 1 THEN 1 ELSE 0
<1>1. WheelInv'
    BY TickInv
<1> SUFFICES ASSUME NEW i \in Ids
             PROVE  /\ TimerOf(i)' = Abstract!AfterTick(TimerOf(i))
                    /\ fired'[i] = IF TimerOf(i) # Off /\ TimerOf(i).left = 1 THEN 1 ELSE 0
    OBVIOUS
<1>2. CASE timerMap[i] = Off
  <2>1. TimerOf(i) = Off /\ timerMap[i] \notin Due
      BY <1>2, DueFacts DEF TimerOf
  <2>2. timerMap'[i] = Off /\ fired'[i] = 0
      BY <1>2, <2>1, TickFacts
  <2>3. TimerOf(i)' = Off
      BY <2>2 DEF TimerOf
  <2>4. Abstract!AfterTick(Off) = Off
      BY DEF Abstract!AfterTick
  <2> QED BY <2>1, <2>2, <2>3, <2>4
<1>3. CASE timerMap[i] # Off
  <2> DEFINE t == TimerOf(i)
  <2>1. t \in Countdowns /\ t # Off
      BY <1>3, TimerOfSlot
  <2>2. PICK s \in Slots : timerMap[i] \in wheel[s]
      BY <1>3, TimerOfSlot
  <2>3. t = [left |-> Ticks(current, s), period |-> entry[timerMap[i]].interval,
             repeat |-> entry[timerMap[i]].repeat]
      BY <1>3, <2>2, TimerOfIs
  <2>4. timerMap[i] \in Due <=> t.left = 1
      BY <1>3, DueWhenOneLeft
  <2>5. fired'[i] = IF t # Off /\ t.left = 1 THEN 1 ELSE 0
      BY <2>1, <2>4, TickFacts
  <2>6. timerMap[i] \in Pointers /\ entry[timerMap[i]] \in Entries
      BY <1>3 DEF WheelInv, WheelTypeOK, Locked
  <2> HIDE DEF t
  <2>7. TimerOf(i)' = Abstract!AfterTick(t)
    <3>1. CASE t.left = 1 /\ t.repeat
      <4>1. timerMap[i] \in Again
          BY <2>3, <2>4, <3>1 DEF Again
      <4>2. /\ timerMap'[i] = timerMap[i] /\ entry'[timerMap[i]] = entry[timerMap[i]]
            /\ NextSlot(timerMap[i]) \in Slots
            /\ Ticks(Now, NextSlot(timerMap[i])) = entry[timerMap[i]].interval
            /\ entry[timerMap[i]].repeat = TRUE
          BY <2>6, <4>1, AgainSlot, TickFacts
      <4>3. timerMap'[i] \in wheel'[NextSlot(timerMap[i])]
          BY <2>6, <4>1, <4>2, TickFacts
      <4>4. TimerOf(i)' = [left   |-> Ticks(current', NextSlot(timerMap[i])),
                           period |-> entry'[timerMap'[i]].interval,
                           repeat |-> entry'[timerMap'[i]].repeat]
          BY <1>1, <1>3, <4>2, <4>3, TimerOfWillBe
      <4>5. TimerOf(i)' = [left |-> t.period, period |-> t.period, repeat |-> TRUE]
          BY <2>3, <4>2, <4>4, TickFacts
      <4>6. Abstract!AfterTick(t) = Abstract!Armed(t.period, TRUE)
          BY <2>1, <3>1 DEF Abstract!AfterTick
      <4> QED BY <4>5, <4>6 DEF Abstract!Armed
    <3>2. CASE t.left = 1 /\ ~t.repeat
      <4>1. timerMap[i] \in Due \ Again
          BY <2>3, <2>4, <3>2 DEF Again
      <4>2. TimerOf(i)' = Off
          BY <4>1, TickFacts DEF TimerOf
      <4> QED BY <2>1, <3>2, <4>2 DEF Abstract!AfterTick
    <3>3. CASE t.left # 1
      <4>1. t.left \in 1 .. WheelSize /\ t.left > 1
          BY <2>1, <3>3, WheelAssumption DEF Countdowns
      <4>2. timerMap[i] \notin Due /\ timerMap[i] \notin Again
          BY <2>4, <3>3 DEF Again
      <4>3. timerMap'[i] = timerMap[i]
          BY <4>2, TickFacts
      <4>4. s # Now
          BY <2>2, <2>3, <3>3, Nearer DEF Now, WheelInv, WheelTypeOK
      <4>5. timerMap[i] \notin wheel[Now]
          BY <2>2, <2>6, <4>4, DueFacts DEF WheelInv, OneSlot
      <4>6. entry'[timerMap[i]] = entry[timerMap[i]] /\ timerMap[i] \in wheel'[s]
          BY <2>2, <2>6, <4>4, <4>5, TickFacts
      <4>7. Ticks(current', s) = t.left - 1
        <5>1. t.left = Ticks(current, s) /\ current' = Now /\ current \in Slots
            BY <2>3, TickFacts DEF WheelInv, WheelTypeOK
        <5>2. Ticks(Now, s) = Ticks(current, s) - 1
            BY <4>4, <5>1, Nearer DEF Now
        <5> QED BY <5>1, <5>2
      <4>8. TimerOf(i)' = [left   |-> Ticks(current', s),
                           period |-> entry'[timerMap'[i]].interval,
                           repeat |-> entry'[timerMap'[i]].repeat]
          BY <1>1, <1>3, <4>3, <4>6, TimerOfWillBe
      <4>9. TimerOf(i)' = [left |-> t.left - 1, period |-> t.period, repeat |-> t.repeat]
          BY <2>3, <4>3, <4>6, <4>7, <4>8
      <4>10. Abstract!AfterTick(t) = [t EXCEPT !.left = @ - 1]
          BY <2>1, <3>3, <4>1, WheelAssumption DEF Abstract!AfterTick
      <4>11. [t EXCEPT !.left = @ - 1] = [left |-> t.left - 1, period |-> t.period, repeat |-> t.repeat]
          BY <2>1 DEF Countdowns
      <4> QED BY <4>9, <4>10, <4>11
    <3> QED BY <3>1, <3>2, <3>3
  <2> QED BY <2>5, <2>7 DEF t
<1> QED BY <1>2, <1>3

----------------------------------------------------------------------------
(***************************************************************************)
(* The theorems.                                                           *)
(***************************************************************************)

LEMMA WheelInvInit == Init => WheelInv
<1> SUFFICES ASSUME Init PROVE WheelInv
    OBVIOUS
<1>1. WheelTypeOK
  <2>1. /\ current \in Slots /\ nextId \in 1 .. MaxTimers + 1 /\ expirations \in BOOLEAN
        /\ fired \in [Ids -> Nat] /\ elapsed \in [Ids -> 0 .. MaxDelay]
    <3>1. 0 \in Slots /\ 1 \in 1 .. MaxTimers + 1 /\ 0 \in 0 .. MaxDelay
        BY WheelAssumption DEF Slots
    <3> QED BY <3>1 DEF Init
  <2>2. /\ wheel \in [Slots -> SUBSET Pointers]
        /\ entry \in [Pointers -> Entries \cup {Off}]
        /\ timerMap \in [Ids -> Pointers \cup {Off}]
      BY DEF Init
  <2>3. /\ \A p \in Pointers : entry[p] = Off /\ \A s \in Slots : p \notin wheel[s]
        /\ \A i \in Ids : timerMap[i] = Off
      BY DEF Init
  <2> QED BY <2>1, <2>2, <2>3 DEF WheelTypeOK
<1>2. OneSlot /\ Owned /\ Timely
    BY DEF Init, OneSlot, Owned, Timely
<1> QED BY <1>1, <1>2 DEF WheelInv

LEMMA WheelInvNext == WheelInv /\ [Next]_vars => WheelInv'
<1> SUFFICES ASSUME WheelInv, [Next]_vars PROVE WheelInv'
    OBVIOUS
<1>1. ASSUME NEW delay \in 0 .. MaxDelay, NEW repeat \in BOOLEAN, AddTimer(delay, repeat)
      PROVE  WheelInv'
    BY <1>1, Added, InsertInv
<1>2. ASSUME NEW i \in Ids, CancelTimer(i)
      PROVE  WheelInv'
    BY <1>2, CancelInv
<1>3. ASSUME NEW i \in Ids, NEW delay \in 0 .. MaxDelay, RefreshTimer(i, delay)
      PROVE  WheelInv'
    BY <1>3, Refreshed, InsertInv
<1>4. CASE Expire
    BY <1>4, ExpireInv
<1>5. CASE Tick
    BY <1>5, TickInv
<1>6. CASE UNCHANGED vars
    BY <1>6 DEF vars, WheelInv, WheelTypeOK, Locked, OneSlot, Owned, Timely, Ticks
<1> QED BY <1>1, <1>2, <1>3, <1>4, <1>5, <1>6 DEF Next

LEMMA WheelInvariant == Spec => []WheelInv
BY WheelInvInit, WheelInvNext, PTL DEF Spec

\* The buckets hold exactly the entries there are, and every id in timer_map_
\* leads to an entry of its own in the wheel that is not marked: a weak pointer
\* that CancelTimer or RefreshTimer finds can always be locked.
THEOREM WheelTypes == Spec => []WheelTypeOK
<1>1. WheelInv => WheelTypeOK
    BY DEF WheelInv
<1> QED BY <1>1, WheelInvariant, PTL

LEMMA StepIsNotEarly ==
    ASSUME WheelInv, Next, NEW i \in Ids, fired'[i] > 0, timerMap[i] # Off
    PROVE  elapsed[i] >= entry[timerMap[i]].interval - 1
<1>1. ASSUME Silent PROVE FALSE
    BY <1>1 DEF Silent
<1>2. Tick
    BY <1>1 DEF Next, AddTimer, CancelTimer, RefreshTimer, Expire
<1>3. timerMap[i] \in Due
    BY <1>2, TickFacts
<1>4. Now \in Slots /\ timerMap[i] \in wheel[Now] /\ Ticks(current, Now) = 1
    BY <1>3, Nearer DEF Due, Now, WheelInv, WheelTypeOK
<1>5. elapsed[i] + 1 >= entry[timerMap[i]].interval - 1 + 1
    BY <1>2, <1>4, TickFacts DEF WheelInv, Timely
<1>6. entry[timerMap[i]].interval \in Int /\ elapsed[i] \in Int
    BY <1>3, DueFacts, WheelAssumption DEF Entries, WheelInv, WheelTypeOK
<1> QED BY <1>5, <1>6

\* No timer calls back before its delay, less the one expiration that may have
\* been waiting when it was set: HandleTimerTick makes a timer late when it
\* misses seconds, never early.
THEOREM TimersAreNotEarly == Spec => NotEarly
<1>1. ASSUME WheelInv, [Next]_vars
      PROVE  [\A i \in Ids :
                 fired'[i] > 0 /\ timerMap[i] # Off
                     => elapsed[i] >= entry[timerMap[i]].interval - 1]_vars
  <2>1. CASE Next
      BY <1>1, <2>1, StepIsNotEarly
  <2>2. CASE UNCHANGED vars
      BY <2>2
  <2> QED BY <1>1, <2>1, <2>2
<1> QED BY <1>1, WheelInvariant, PTL DEF Spec, NotEarly

LEMMA InitImplementsTimers == Init => Abstract!Init
BY DEF Init, Abstract!Init, TimerOf

LEMMA StepImplementsTimers ==
    WheelInv /\ [Next]_vars => [Abstract!Next]_(Abstract!vars)
<1> SUFFICES ASSUME WheelInv, [Next]_vars PROVE [Abstract!Next]_(Abstract!vars)
    OBVIOUS
<1> DEFINE timer == [i \in Ids |-> TimerOf(i)]
<1>0. timer' = [i \in Ids |-> TimerOf(i)']
    OBVIOUS
<1>1. ASSUME NEW delay \in 0 .. MaxDelay, NEW repeat \in BOOLEAN, AddTimer(delay, repeat)
      PROVE  Abstract!Next
  <2>1. PICK e \in Entries, d \in 1 .. MaxDelay :
           Inserting(entry, e, d) /\ e.id = nextId /\ timerMap[nextId] = Off
      BY <1>1, Added
  <2>2. e.id \in Ids /\ e.repeat \in BOOLEAN /\ TimerOf(e.id) = Off
      BY <2>1 DEF Entries, TimerOf
  <2>3. timer' = [timer EXCEPT ![e.id] = Abstract!Armed(d, e.repeat)]
      BY <1>0, <2>1, <2>2, InsertTimers
  <2>4. Abstract!Set(e.id, d, e.repeat)
      BY <2>1, <2>2, <2>3 DEF Abstract!Set, Abstract!Silent, Silent, Inserting
  <2> QED BY <2>2, <2>4 DEF Abstract!Next
<1>2. ASSUME NEW i \in Ids, CancelTimer(i)
      PROVE  Abstract!Next
  <2>1. timer' = [timer EXCEPT ![i] = Off]
      BY <1>0, <1>2, CancelTimers
  <2>2. Abstract!Cancel(i)
      BY <1>2, <2>1 DEF Abstract!Cancel, Abstract!Silent, Silent, CancelTimer
  <2> QED BY <2>2 DEF Abstract!Next
<1>3. ASSUME NEW i \in Ids, NEW delay \in 0 .. MaxDelay, RefreshTimer(i, delay)
      PROVE  Abstract!Next
  <2>1. PICK e \in Entries, d \in 1 .. MaxDelay :
           /\ Inserting(MarkCancelled(i), e, d) /\ e.id = i /\ timerMap[i] # Off
           /\ e.repeat = entry[timerMap[i]].repeat
      BY <1>3, Refreshed
  <2>2. timer[i] # Off
      BY <2>1, TimerOfSlot
  <2>3. timer[i].repeat = e.repeat
      BY <2>1 DEF TimerOf
  <2>4. timer' = [timer EXCEPT ![i] = Abstract!Armed(d, timer[i].repeat)]
      BY <1>0, <2>1, <2>3, InsertTimers
  <2>5. Abstract!Reset(i, d)
      BY <2>1, <2>2, <2>4 DEF Abstract!Reset, Abstract!Silent, Silent, Inserting
  <2> QED BY <2>5 DEF Abstract!Next
<1>4. CASE Expire
  <2>1. timer' = timer
      BY <1>4 DEF Expire, TimerOf, SlotOf, TicksTo
  <2> QED BY <1>4, <2>1 DEF Expire, Silent, Abstract!Next, Abstract!Silent
<1>5. CASE Tick
  <2>1. timer' = [i \in Ids |-> Abstract!AfterTick(timer[i])]
      BY <1>0, <1>5, TickTimers
  <2>2. fired' = [i \in Ids |-> IF timer[i] # Off /\ timer[i].left = 1 THEN 1 ELSE 0]
    <3>1. fired' = [i \in Ids |-> fired'[i]]
        BY <1>5, TickFacts
    <3>2. \A i \in Ids : fired'[i] = IF timer[i] # Off /\ timer[i].left = 1 THEN 1 ELSE 0
        BY <1>5, TickTimers
    <3> QED BY <3>1, <3>2
  <2> QED BY <2>1, <2>2 DEF Abstract!Next, Abstract!Tick
<1>6. CASE UNCHANGED vars
  <2>1. timer' = timer
      BY <1>6 DEF vars, TimerOf, SlotOf, TicksTo
  <2> QED BY <1>6, <2>1 DEF vars, Abstract!vars
<1> QED BY <1>1, <1>2, <1>3, <1>4, <1>5, <1>6 DEF Next

\* The ring of buckets, whatever its size and however many marked entries it
\* carries, is one countdown per timer: every timer that is set calls back once,
\* at the tick it was last set for, a cancelled one never.
THEOREM WheelImplementsTimers == Spec => ImplementsTimers
BY InitImplementsTimers, StepImplementsTimers, WheelInvariant, PTL
   DEF Spec, ImplementsTimers, Abstract!Spec

=============================================================================
