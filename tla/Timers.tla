------------------------------- MODULE Timers -------------------------------
(***************************************************************************)
(* What a timer wheel promises: a timer calls back once, exactly as many   *)
(* ticks after it was last set as it was set for; a repeating timer again  *)
(* after the same number of ticks; a cancelled timer never.                *)
(***************************************************************************)
EXTENDS Naturals

CONSTANTS
    Ids,        \* timer ids
    Delays,     \* delays a timer may be set to, in ticks
    Off         \* the timer is not set

VARIABLES
    timer,      \* [Ids -> Off or the ticks left, the period, whether it repeats]
    fired       \* [Ids -> Nat]: how often each called back in the last step

vars == <<timer, fired>>

Armed(d, repeat) == [left |-> d, period |-> d, repeat |-> repeat]

Silent == fired' = [i \in Ids |-> 0]

Init ==
    /\ timer = [i \in Ids |-> Off]
    /\ fired = [i \in Ids |-> 0]

Set(i, d, repeat) ==
    /\ timer[i] = Off
    /\ timer' = [timer EXCEPT ![i] = Armed(d, repeat)]
    /\ Silent

Reset(i, d) ==
    /\ timer[i] # Off
    /\ timer' = [timer EXCEPT ![i] = Armed(d, @.repeat)]
    /\ Silent

Cancel(i) ==
    /\ timer' = [timer EXCEPT ![i] = Off]
    /\ Silent

\* One tick less for a timer that is set; Off after the last one.
AfterTick(t) ==
    CASE t = Off                   -> Off
      [] t # Off /\ t.left > 1     -> [t EXCEPT !.left = @ - 1]
      [] t # Off /\ t.left = 1     -> IF t.repeat THEN Armed(t.period, TRUE) ELSE Off

Tick ==
    /\ timer' = [i \in Ids |-> AfterTick(timer[i])]
    /\ fired' = [i \in Ids |->
                   IF timer[i] # Off /\ timer[i].left = 1 THEN 1 ELSE 0]

Next ==
    \/ \E i \in Ids, d \in Delays, repeat \in BOOLEAN : Set(i, d, repeat)
    \/ \E i \in Ids, d \in Delays : Reset(i, d)
    \/ \E i \in Ids : Cancel(i)
    \/ Tick
    \/ Silent /\ UNCHANGED timer

Spec == Init /\ [][Next]_vars

=============================================================================
