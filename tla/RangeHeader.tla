---------------------------- MODULE RangeHeader ----------------------------
(***************************************************************************)
(* ObjectHandlers::ParseRange: the bytes a Range header asks for.  The two *)
(* groups of digits that its regular expression finds in "bytes=a-b" are   *)
(* given as numbers, Absent for a group that is empty.                     *)
(***************************************************************************)
EXTENDS Integers

Absent == -1
Position == Nat \cup {Absent}

\* No range: the handler answers 416.
Unsatisfiable == <<-1, -1>>

\* Mutant: the last byte is not bounded by the size of the object.
ParseRangePastEnd(first, last, size) ==
    IF size = 0 \/ (first = Absent /\ last = Absent) THEN Unsatisfiable
    ELSE IF first = Absent
         THEN <<size - (IF last > size THEN size ELSE last), size - 1>>
    ELSE IF first >= size \/ (last # Absent /\ first > last) THEN Unsatisfiable
    ELSE <<first, IF last = Absent THEN size - 1 ELSE last>>

\* <<first, last>> of the bytes to send.
ParseRange(first, last, size) ==
    IF size = 0 \/ (first = Absent /\ last = Absent) THEN Unsatisfiable
    ELSE IF first = Absent
         THEN <<size - (IF last > size THEN size ELSE last), size - 1>>
    ELSE IF first >= size \/ (last # Absent /\ first > last) THEN Unsatisfiable
    ELSE <<first, IF last = Absent \/ last >= size THEN size - 1 ELSE last>>

\* length of the response.
RangeLength(range) == range[2] - range[1] + 1

(***************************************************************************)
(* What the header asks for: byte i of the object is selected by "a-b"     *)
(* when a <= i <= b, by "a-" when a <= i, by "-n" when it is one of the    *)
(* last n.                                                                 *)
(***************************************************************************)
Selects(first, last, size, i) ==
    /\ i \in 0..(size - 1)
    /\ IF first = Absent
       THEN last # Absent /\ i >= size - last
       ELSE first <= i /\ (last = Absent \/ i <= last)

Selected(first, last, size) ==
    {i \in 0..(size - 1) : Selects(first, last, size, i)}

\* The range is exactly the bytes the header selects, 416 is answered only
\* when it selects none, and a range that is sent is never empty or outside
\* the object, except for "bytes=-0", for which an empty range is sent.
RangeIsWhatWasAsked(first, last, size) ==
    LET range == ParseRange(first, last, size)
    IN  IF range = Unsatisfiable
        THEN Selected(first, last, size) = {}
        ELSE /\ range[1]..range[2] = Selected(first, last, size)
             /\ RangeLength(range) \in 0..size
             /\ RangeLength(range) = 0 <=> (first = Absent /\ last = 0)
=============================================================================
