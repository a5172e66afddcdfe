-------------------------- MODULE MultipartProofs --------------------------
(***************************************************************************)
(* Proofs about Multipart for every number of uploads, parts, contents,    *)
(* requests and attempts.                                                  *)
(*                                                                         *)
(* The types, and that only CleanupUnreferencedCas takes away bytes that a *)
(* row refers to, hold for every set of failures and for clients that do   *)
(* what they like.  The counts cover the references only if clients finish *)
(* an upload once, after its parts, and neither the database nor the       *)
(* server fails between the statements of a release.                       *)
(***************************************************************************)
EXTENDS Multipart, ObjectStoreProofs

PartPcs == {"store", "rename", "lookup", "select", "upsert", "enqueue"}
MergePcs == {"merge", "mstore", "mrename", "fast", "oselect", "oupsert", "oenqueue"}
ReleasePcs == {"release", "relcheck", "drop"}
FinishPcs == MergePcs \cup ReleasePcs \cup {"list", "cleanup", "unlink"}

\* What a request is about at each step.
MpShape(t) ==
    /\ t.pc = "new" => t.op = "none" /\ t.up = None
    /\ t.pc \in PartPcs =>
          /\ t.op = "part" /\ t.part \in PartIds /\ t.up = t.part[1] /\ t.cas \in Content
          /\ t.pc # "enqueue" => t.cas \in PartContent
    /\ t.pc \in FinishPcs => t.op \in {"complete", "abort"} /\ t.up \in Uploads
    /\ t.pc \in MergePcs \cup {"cleanup", "unlink"} => t.op = "complete"
    /\ t.pc \in (MergePcs \cup {"cleanup", "unlink"}) \ {"merge"} => t.cas \in Content
    /\ t.pc \in {"merge", "relcheck"} => t.list # << >>
    /\ t.list \in Seq(PartContent) /\ Len(t.list) <= MaxParts

\* The part rows of uploads that exist, of contents that clients upload.
PartsOK ==
    \A p \in PartIds : /\ partCas[p] \in PartContent \cup {None}
                       /\ partCas[p] # None => uploads[p[1]] = "open"

MpInv ==
    /\ TypeOK /\ PartsOK
    /\ uploads \in [Uploads -> {"none", "open", "gone"}]
    /\ mp \in [PartRequests -> PartRequest]
    /\ \A r \in PartRequests : MpShape(mp[r])

(***************************************************************************)
(* The counts.  A part whose reference is still to be given back is        *)
(* counted from the end of the list of its request.                        *)
(***************************************************************************)

ToRelease(t) ==
    CASE t.pc = "release" -> Len(t.list)
      [] t.pc = "relcheck" -> Len(t.list) - 1
      [] OTHER -> 0

FromEnd(s, j) == s[Len(s) + 1 - j]

Owed(c) ==
    {p \in PartIds : \E r \in PartRequests :
        /\ mp[r].up = p[1]
        /\ p[2] \in 1 .. ToRelease(mp[r])
        /\ FromEnd(mp[r].list, p[2]) = c}

\* One request finishes an upload, and no part of it is being uploaded then.
FinisherIsAlone ==
    \A r, q \in PartRequests :
       r # q /\ mp[r].op \in {"complete", "abort"} /\ mp[q].up = mp[r].up =>
          mp[q].pc \in {"new", "done"} /\ mp[q].op \notin {"complete", "abort"}

\* The list of a completion is what the table has; what is released has a row.
ListIsCurrent ==
    \A r \in PartRequests :
       /\ mp[r].pc \in MergePcs => mp[r].list = ListParts(mp[r].up)
       /\ mp[r].pc \in ReleasePcs =>
             \A i \in 1 .. Len(mp[r].list) :
                \E p \in PartIds : p[1] = mp[r].up /\ partCas[p] = mp[r].list[i]

CountsCoverOwed ==
    \A c \in Content :
       Cardinality(ObjectRefs(c)) + Cardinality(LiveParts(c)) + Cardinality(Owed(c)) <= refCount[c]

CountInv == FinisherIsAlone /\ ListIsCurrent /\ CountsCoverOwed

----------------------------------------------------------------------------
(***************************************************************************)
(* What ListParts returns                                                  *)
(***************************************************************************)

LEMMA RankOK ==
    ASSUME NEW ns \in SUBSET (1 .. MaxParts), NEW k \in ns
    PROVE  /\ Rank(ns, k) \in 1 .. Cardinality(ns)
           /\ \A j \in ns : j < k => Rank(ns, j) < Rank(ns, k)
  <1> DEFINE B(x) == {j \in ns : j <= x}
  <1>1. IsFiniteSet(ns) /\ ns \subseteq Nat
    <2>1. MaxParts \in Nat /\ IsFiniteSet(1 .. MaxParts)
      BY UploadsAssumption, FS_Interval
    <2>2. IsFiniteSet(ns)
      BY <2>1, FS_Subset
    <2> QED
      BY <2>1, <2>2
  <1>2. ASSUME NEW x \in ns
        PROVE  /\ IsFiniteSet(B(x)) /\ Cardinality(B(x)) \in Nat
               /\ Cardinality(B(x)) <= Cardinality(ns) /\ x \in B(x)
    <2>1. B(x) \in SUBSET ns /\ x \in B(x)
      BY <1>1
    <2> HIDE DEF B
    <2> QED
      BY <1>1, <2>1, FS_Subset, FS_CardinalityType
  <1>3. Cardinality(B(k)) # 0
    <2> HIDE DEF B
    <2> QED
      BY <1>2, FS_EmptySet
  <1>4. ASSUME NEW j \in ns, j < k
        PROVE  Cardinality(B(j)) < Cardinality(B(k))
    <2>1. j \in Nat /\ k \in Nat
      BY <1>1
    <2>2. B(j) \in SUBSET B(k) /\ k \notin B(j) /\ k \in B(k)
      <3>1. \A x \in ns : x <= j => x <= k
        BY <1>1, <1>4, <2>1
      <3>2. ~(k <= j) /\ k <= k
        BY <1>4, <2>1
      <3> QED
        BY <3>1, <3>2
    <2> HIDE DEF B
    <2>3. B(j) # B(k)
      BY <2>2
    <2>4. Cardinality(B(j)) <= Cardinality(B(k)) /\ Cardinality(B(j)) # Cardinality(B(k))
      BY <1>2, <2>2, <2>3, FS_Subset
    <2> QED
      BY <1>2, <2>4
  <1>5. Cardinality(ns) \in Nat
    BY <1>1, FS_CardinalityType
  <1>6. \A x \in ns : Rank(ns, x) = Cardinality(B(x))
    BY DEF Rank
  <1> HIDE DEF B
  <1> QED
    BY <1>2, <1>3, <1>4, <1>5, <1>6

\* There is a number of each rank.
LEMMA NumberOfRank ==
    ASSUME NEW ns \in SUBSET (1 .. MaxParts), NEW i \in 1 .. Cardinality(ns)
    PROVE  \E n \in ns : Rank(ns, n) = i
  <1> DEFINE S == 1 .. Cardinality(ns)
             f == [n \in ns |-> Rank(ns, n)]
  <1>1. IsFiniteSet(ns) /\ ns \subseteq Nat /\ Cardinality(ns) \in Nat
    <2>1. MaxParts \in Nat /\ IsFiniteSet(1 .. MaxParts)
      BY UploadsAssumption, FS_Interval
    <2>2. IsFiniteSet(ns)
      BY <2>1, FS_Subset
    <2> QED
      BY <2>1, <2>2, FS_CardinalityType
  <1>2. IsFiniteSet(S) /\ Cardinality(S) = Cardinality(ns)
    BY <1>1, FS_Interval
  <1>3. f \in [ns -> S]
    BY RankOK
  <1>4. \A a, b \in ns : f[a] = f[b] => a = b
    <2> SUFFICES ASSUME NEW a \in ns, NEW b \in ns, a # b PROVE f[a] # f[b]
      OBVIOUS
    <2>1. a < b \/ b < a
      BY <1>1
    <2>2. f[a] < f[b] \/ f[b] < f[a]
      BY <2>1, RankOK
    <2> QED
      BY <1>3, <2>2
  <1> HIDE DEF f, S
  <1>5. f \in Injection(ns, S)
    BY <1>3, <1>4 DEF Injection, IsInjective
  <1>6. f \in Surjection(ns, S)
    BY <1>2, <1>5, FS_Injection
  <1>7. \E n \in ns : f[n] = i
    BY <1>6 DEF Surjection, S
  <1> QED
    BY <1>7 DEF f

\* Each entry of the list is the content of a part row of its own.
LEMMA ListPartsOK ==
    ASSUME NEW u \in Uploads,
           \A p \in PartIds : partCas[p] \in PartContent \cup {None}
    PROVE  LET l == ListParts(u)
           IN  /\ l \in Seq(PartContent) /\ Len(l) <= MaxParts
               /\ \E f \in [1 .. Len(l) -> 1 .. MaxParts] :
                     /\ \A i, j \in 1 .. Len(l) : f[i] = f[j] => i = j
                     /\ \A i \in 1 .. Len(l) : <<u, f[i]>> \in PartIds /\ partCas[<<u, f[i]>>] = l[i]
  <1> DEFINE ns == PartNumbers(u)
             c == Cardinality(ns)
             l == ListParts(u)
             num(i) == CHOOSE n \in ns : Rank(ns, n) = i
             f == [i \in 1 .. c |-> num(i)]
  <1>1. /\ ns \in SUBSET (1 .. MaxParts) /\ \A n \in ns : partCas[<<u, n>>] # None
        /\ MaxParts \in Nat /\ PartIds = Uploads \X (1 .. MaxParts)
    BY UploadsAssumption DEF PartNumbers
  <1>2. c \in Nat /\ c <= MaxParts
    <2>1. IsFiniteSet(1 .. MaxParts) /\ Cardinality(1 .. MaxParts) = MaxParts
      BY <1>1, FS_Interval
    <2> HIDE DEF ns
    <2> QED
      BY <1>1, <2>1, FS_Subset, FS_CardinalityType
  <1>3. \A i \in 1 .. c : num(i) \in ns /\ Rank(ns, num(i)) = i
    <2> HIDE DEF ns
    <2> QED
      BY <1>1, NumberOfRank
  <1>4. l = [i \in 1 .. c |-> partCas[<<u, num(i)>>]]
    BY DEF ListParts
  <1> HIDE DEF ns, num, l, c
  <1>5. \A i \in 1 .. c : <<u, num(i)>> \in PartIds /\ partCas[<<u, num(i)>>] \in PartContent
    BY <1>1, <1>3
  <1>6. l \in [1 .. c -> PartContent] /\ Len(l) = c
    <2>1. l \in [1 .. c -> PartContent]
      BY <1>4, <1>5
    <2> QED
      BY <1>2, <2>1
  <1>7. l \in Seq(PartContent) /\ Len(l) <= MaxParts
    BY <1>2, <1>6
  <1>8. /\ f \in [1 .. Len(l) -> 1 .. MaxParts]
        /\ \A i \in 1 .. Len(l) : <<u, f[i]>> \in PartIds /\ partCas[<<u, f[i]>>] = l[i]
    BY <1>1, <1>3, <1>4, <1>5, <1>6
  <1>9. \A i, j \in 1 .. Len(l) : f[i] = f[j] => i = j
    BY <1>3, <1>6
  <1> HIDE DEF f
  <1> QED
    BY <1>7, <1>8, <1>9 DEF l

----------------------------------------------------------------------------
(***************************************************************************)
(* What a step does to its request                                         *)
(***************************************************************************)

MpRest(r) ==
    /\ mp' \in [PartRequests -> PartRequest]
    /\ \A q \in PartRequests \ {r} : mp'[q] = mp[q]

\* The request moves on to step p, with content c and list l.
Became(r, p, c, l) ==
    LET t == mp[r]
        u == mp'[r]
    IN  /\ MpRest(r)
        /\ u.pc = p /\ u.op = t.op /\ u.up = t.up /\ u.part = t.part /\ u.cas = c /\ u.list = l

\* It is answered.
Ended(r) ==
    LET u == mp'[r]
    IN  MpRest(r) /\ u.pc = "done" /\ u.op = mp[r].op /\ u.up = mp[r].up /\ u.list = << >>

LEMMA NewRequestOK ==
    /\ NewRequest \in PartRequest /\ NewRequest.pc = "new" /\ NewRequest.op = "none"
    /\ NewRequest.up = None /\ NewRequest.list = << >> /\ MpShape(NewRequest)
  <1>1. /\ NewRequest.pc = "new" /\ NewRequest.op = "none"
        /\ NewRequest.up = None /\ NewRequest.list = << >>
    BY DEF NewRequest
  <1>2. << >> \in Seq(Content) /\ << >> \in Seq(PartContent) /\ Len(<< >>) <= MaxParts
    BY UploadsAssumption
  <1>3. 0 \in 0 .. MaxAttempts
    BY RequestsAssumption
  <1>4. NewRequest \in PartRequest
    BY <1>2, <1>3 DEF NewRequest, PartRequest, MpPcs, Ops
  <1> QED
    BY <1>1, <1>2, <1>4 DEF MpShape, PartPcs, MergePcs, ReleasePcs, FinishPcs

LEMMA FinishEnds ==
    ASSUME mp \in [PartRequests -> PartRequest], NEW r \in PartRequests, MpFinish(r)
    PROVE  Ended(r)
  <1> DEFINE t == mp[r]
             u == [NewRequest EXCEPT !.pc = "done", !.op = t.op, !.up = t.up]
  <1>1. t \in PartRequest /\ mp' = [mp EXCEPT ![r] = u]
    BY DEF MpFinish
  <1> HIDE DEF t
  <1>2. u.pc = "done" /\ u.op = t.op /\ u.up = t.up /\ u.list = << >>
    BY DEF NewRequest
  <1>3. u \in PartRequest
    BY <1>1, NewRequestOK DEF PartRequest, MpPcs
  <1> HIDE DEF u
  <1> QED
    BY <1>1, <1>2, <1>3 DEF Ended, MpRest, t

LEMMA GotoBecomes ==
    ASSUME mp \in [PartRequests -> PartRequest], NEW r \in PartRequests, NEW p \in MpPcs,
           NEW c \in Content \cup {None}, NEW l \in Seq(Content), NEW a \in 0 .. MaxAttempts,
           \/ MpGoto(r, p) /\ c = mp[r].cas /\ l = mp[r].list
           \/ mp' = [mp EXCEPT ![r].pc = p, ![r].cas = c] /\ l = mp[r].list
           \/ mp' = [mp EXCEPT ![r].pc = p, ![r].list = l] /\ c = mp[r].cas
           \/ mp' = [mp EXCEPT ![r].pc = p, ![r].attempt = a] /\ c = mp[r].cas /\ l = mp[r].list
    PROVE  Became(r, p, c, l)
  <1> DEFINE t == mp[r]
  <1>1. t \in PartRequest
    OBVIOUS
  <1>2. ASSUME NEW u \in PartRequest, mp' = [mp EXCEPT ![r] = u],
               u.pc = p, u.op = t.op, u.up = t.up, u.part = t.part, u.cas = c, u.list = l
        PROVE  Became(r, p, c, l)
    BY <1>2 DEF Became, MpRest
  <1>3. CASE MpGoto(r, p) /\ c = t.cas /\ l = t.list
    <2> DEFINE u == [t EXCEPT !.pc = p]
    <2>1. mp' = [mp EXCEPT ![r] = u]
      BY <1>3 DEF MpGoto
    <2> HIDE DEF t
    <2>2. /\ u \in PartRequest /\ u.pc = p /\ u.op = t.op /\ u.up = t.up /\ u.part = t.part
          /\ u.cas = c /\ u.list = l
      BY <1>1, <1>3 DEF PartRequest
    <2> HIDE DEF u
    <2> QED
      BY <1>2, <2>1, <2>2
  <1>4. CASE mp' = [mp EXCEPT ![r].pc = p, ![r].cas = c] /\ l = t.list
    <2> DEFINE u == [t EXCEPT !.pc = p, !.cas = c]
    <2>1. mp' = [mp EXCEPT ![r] = u]
      BY <1>4
    <2> HIDE DEF t
    <2>2. /\ u \in PartRequest /\ u.pc = p /\ u.op = t.op /\ u.up = t.up /\ u.part = t.part
          /\ u.cas = c /\ u.list = l
      BY <1>1, <1>4 DEF PartRequest
    <2> HIDE DEF u
    <2> QED
      BY <1>2, <2>1, <2>2
  <1>5. CASE mp' = [mp EXCEPT ![r].pc = p, ![r].list = l] /\ c = t.cas
    <2> DEFINE u == [t EXCEPT !.pc = p, !.list = l]
    <2>1. mp' = [mp EXCEPT ![r] = u]
      BY <1>5
    <2> HIDE DEF t
    <2>2. /\ u \in PartRequest /\ u.pc = p /\ u.op = t.op /\ u.up = t.up /\ u.part = t.part
          /\ u.cas = c /\ u.list = l
      BY <1>1, <1>5 DEF PartRequest
    <2> HIDE DEF u
    <2> QED
      BY <1>2, <2>1, <2>2
  <1>6. CASE mp' = [mp EXCEPT ![r].pc = p, ![r].attempt = a] /\ c = t.cas /\ l = t.list
    <2> DEFINE u == [t EXCEPT !.pc = p, !.attempt = a]
    <2>1. mp' = [mp EXCEPT ![r] = u]
      BY <1>6
    <2> HIDE DEF t
    <2>2. /\ u \in PartRequest /\ u.pc = p /\ u.op = t.op /\ u.up = t.up /\ u.part = t.part
          /\ u.cas = c /\ u.list = l
      BY <1>1, <1>6 DEF PartRequest
    <2> HIDE DEF u
    <2> QED
      BY <1>2, <2>1, <2>2
  <1> QED
    BY <1>3, <1>4, <1>5, <1>6

\* What MpInv says of one request.
LEMMA MpFacts ==
    ASSUME MpInv, NEW r \in PartRequests
    PROVE  /\ mp \in [PartRequests -> PartRequest] /\ mp[r] \in PartRequest /\ MpShape(mp[r])
           /\ mp[r].cas \in Content \cup {None} /\ mp[r].list \in Seq(Content)
           /\ mp[r].attempt \in 0 .. MaxAttempts /\ mp[r].pc \in MpPcs
  <1>1. mp[r] \in PartRequest /\ MpShape(mp[r])
    BY DEF MpInv
  <1> DEFINE t == mp[r]
  <1> HIDE DEF t
  <1>2. t \in PartRequest => /\ t.cas \in Content \cup {None} /\ t.list \in Seq(Content)
                             /\ t.attempt \in 0 .. MaxAttempts /\ t.pc \in MpPcs
    BY DEF PartRequest
  <1> QED
    BY <1>1, <1>2 DEF MpInv, t

LEMMA EndedShape ==
    ASSUME MpInv, NEW r \in PartRequests, Ended(r)
    PROVE  MpShape(mp[r])'
  BY NewRequestOK DEF Ended, MpShape, PartPcs, MergePcs, ReleasePcs, FinishPcs

\* A step of request r that leaves the tables well typed.
LEMMA MpKept ==
    ASSUME MpInv, TypeOK', PartsOK', uploads' \in [Uploads -> {"none", "open", "gone"}],
           NEW r \in PartRequests, MpRest(r), MpShape(mp[r])'
    PROVE  MpInv'
  <1>1. ASSUME NEW q \in PartRequests, q # r PROVE MpShape(mp[q])'
    <2>1. mp'[q] = mp[q] /\ MpShape(mp[q])
      BY <1>1 DEF MpRest, MpInv
    <2> QED
      BY <2>1 DEF MpShape
  <1> QED
    BY <1>1 DEF MpInv, MpRest

LEMMA SameTables ==
    ASSUME MpInv, UNCHANGED <<vars, uploads>>
    PROVE  TypeOK' /\ PartsOK' /\ uploads' \in [Uploads -> {"none", "open", "gone"}]
  BY DEF MpInv, PartsOK, TypeOK, MetaTypeOK, RowsWellFormed, GCTypeOK, CollectorOK, vars,
         metaVars, gcVars

LEMMA QuietKept ==
    ASSUME MpInv, UNCHANGED <<vars, uploads>>, NEW r \in PartRequests, MpRest(r), MpShape(mp[r])'
    PROVE  MpInv'
  BY SameTables, MpKept

(***************************************************************************)
(* Steps that only move the request on.                                    *)
(***************************************************************************)

\* Another request is at work on the same upload.
Contended(r) == \E q \in PartRequests \ {r} : Active(q) /\ mp[q].up = mp[r].up

Moved(r) ==
    LET t == mp[r]
    IN  \/ Ended(r) /\ (t.pc \notin ReleasePcs \/ "db" \in Faults \/ (t.pc = "drop" /\ Contended(r)))
        \/ t.pc \in PartPcs /\ \E p \in PartPcs : Became(r, p, t.cas, t.list)
        \/ t.pc \in MergePcs /\ \E p \in MergePcs, c \in Content : Became(r, p, c, t.list)
        \/ t.pc \in MergePcs /\ Became(r, "cleanup", t.cas, t.list)
        \/ t.pc = "cleanup" /\ Became(r, "unlink", t.cas, t.list)
        \/ t.pc = "list" /\ t.op = "complete" /\ Became(r, "merge", t.cas, ListParts(t.up))
        \/ t.pc = "list" /\ t.op = "abort" /\ Became(r, "release", t.cas, ListParts(t.up))
        \/ t.pc = "release" /\ t.list = << >> /\ Became(r, "drop", t.cas, t.list)
        \/ t.pc = "oenqueue" /\ Became(r, "release", t.cas, t.list)
        \/ t.pc = "relcheck" /\ Became(r, "release", t.cas, Tail(t.list))
        \/ t.pc = "release" /\ t.list # << >> /\ Became(r, "release", t.cas, Tail(t.list))
        \/ "db" \in Faults /\ t.pc \in ReleasePcs \cup {"list"} /\ MpRest(r)

PartMoves(r) ==
    \/ StorePart(r) \/ RejectPart(r) \/ LookupUpload(r) \/ PartSelectNone(r) \/ PartFails(r)
    \/ PartAborted(r)

LEMMA PartMovesOK ==
    ASSUME MpInv, NEW r \in PartRequests, PartMoves(r)
    PROVE  MpInv' /\ UNCHANGED <<vars, uploads>> /\ Moved(r)
  <1> DEFINE t == mp[r]
  <1>1. /\ t.pc \in PartPcs \ {"enqueue"} /\ UNCHANGED <<vars, uploads>>
        /\ \/ MpFinish(r)
           \/ \E p \in PartPcs \ {"enqueue"}, a \in 0 .. MaxAttempts :
                 MpGoto(r, p) \/ mp' = [mp EXCEPT ![r].pc = p, ![r].attempt = a]
    <2>1. t.attempt \in 0 .. MaxAttempts /\ MaxAttempts \in Nat
      BY MpFacts, RequestsAssumption
    <2>2. CASE PartAborted(r)
      <3>1. CASE t.attempt + 1 < MaxAttempts
        <4>1. t.attempt + 1 \in 0 .. MaxAttempts
          BY <2>1, <3>1
        <4>2. mp' = [mp EXCEPT ![r].pc = "select", ![r].attempt = t.attempt + 1]
          BY <2>2, <3>1, MpFacts DEF PartAborted
        <4> QED
          BY <2>2, <4>1, <4>2 DEF PartAborted, PartPcs
      <3> QED
        BY <2>2, <3>1 DEF PartAborted, PartPcs
    <2>3. CASE \/ StorePart(r) \/ RejectPart(r) \/ LookupUpload(r) \/ PartSelectNone(r)
               \/ PartFails(r)
      BY <2>1, <2>3 DEF StorePart, RejectPart, LookupUpload, PartSelectNone, PartFails, PartPcs
    <2> QED
      BY <2>2, <2>3 DEF PartMoves
  <1>2. CASE MpFinish(r)
    <2>1. Ended(r) /\ t.pc \notin ReleasePcs
      BY <1>1, <1>2, MpFacts, FinishEnds DEF PartPcs, ReleasePcs
    <2>2. Moved(r)
      BY <2>1 DEF Moved
    <2> QED
      BY <1>1, <2>1, <2>2, EndedShape, QuietKept DEF Ended
  <1>3. ASSUME NEW p \in PartPcs \ {"enqueue"}, NEW a \in 0 .. MaxAttempts,
               MpGoto(r, p) \/ mp' = [mp EXCEPT ![r].pc = p, ![r].attempt = a]
        PROVE  MpInv' /\ Moved(r)
    <2>a. p \in MpPcs
      BY DEF PartPcs, MpPcs
    <2>b. t.cas \in Content \cup {None} /\ t.list \in Seq(Content)
      BY MpFacts
    <2>c. mp \in [PartRequests -> PartRequest]
      BY DEF MpInv
    <2>1. Became(r, p, t.cas, t.list)
      BY <1>3, <2>a, <2>b, <2>c, GotoBecomes
    <2>2. MpShape(mp[r])'
      BY <1>1, <2>1, MpFacts DEF Became, MpShape, PartPcs, MergePcs, ReleasePcs, FinishPcs
    <2> QED
      BY <1>1, <2>1, <2>2, QuietKept DEF Moved, Became
  <1> QED
    BY <1>1, <1>2, <1>3

\* The content of a merge.
LEMMA ConcatOK ==
    ASSUME NEW l \in Seq(PartContent), l # << >>, Len(l) <= MaxParts
    PROVE  Concat(l) \in Content
  <1>1. Len(l) \in 1 .. MaxParts /\ l \in [1 .. Len(l) -> PartContent]
    BY UploadsAssumption
  <1> QED
    BY <1>1, UploadsAssumption

CompleteMoves(r) ==
    \/ Merge(r) \/ MergeFails(r) \/ StoreMerged(r) \/ CompleteDuplicate(r)
    \/ CompleteSelectNone(r) \/ CompleteAborted(r) \/ CompleteFails(r) \/ CleanupCheck(r)

LEMMA CompleteMovesOK ==
    ASSUME MpInv, NEW r \in PartRequests, CompleteMoves(r)
    PROVE  MpInv' /\ UNCHANGED <<vars, uploads>> /\ Moved(r)
  <1> DEFINE t == mp[r]
  <1>1. UNCHANGED <<vars, uploads>> /\ t.pc \in MergePcs \cup {"cleanup"}
    BY DEF CompleteMoves, Merge, MergeFails, StoreMerged, CompleteDuplicate, CompleteSelectNone,
           CompleteAborted, CompleteFails, CleanupCheck, MergePcs
  <1>2. /\ t.op = "complete" /\ t.up \in Uploads /\ (t.pc # "merge" => t.cas \in Content)
        /\ t.list \in Seq(PartContent) /\ Len(t.list) <= MaxParts
    BY <1>1, MpFacts DEF MpShape, FinishPcs, MergePcs
  <1>3. CASE MpFinish(r)
    <2>1. Ended(r) /\ t.pc \notin ReleasePcs
      BY <1>1, <1>3, MpFacts, FinishEnds DEF MergePcs, ReleasePcs
    <2>2. Moved(r)
      BY <2>1 DEF Moved
    <2> QED
      BY <1>1, <2>1, <2>2, EndedShape, QuietKept DEF Ended
  <1>4. ASSUME NEW p, NEW c \in Content, Became(r, p, c, t.list),
               \/ t.pc \in MergePcs /\ p \in MergePcs \ {"merge"}
               \/ t.pc \in MergePcs /\ p = "cleanup" /\ c = t.cas
               \/ t.pc = "cleanup" /\ p = "unlink" /\ c = t.cas
        PROVE  MpInv' /\ Moved(r)
    <2>1. MpShape(mp[r])'
      BY <1>2, <1>4 DEF Became, MpShape, PartPcs, MergePcs, ReleasePcs, FinishPcs
    <2> QED
      BY <1>1, <1>4, <2>1, QuietKept DEF Moved, Became
  <1>5. CASE Merge(r)
    <2>1. t.pc = "merge" /\ t.list # << >>
      BY <1>5, MpFacts DEF Merge, MpShape
    <2>2. Concat(t.list) \in Content
      BY <1>2, <2>1, ConcatOK
    <2>3. MpFinish(r) \/ mp' = [mp EXCEPT ![r].pc = "mstore", ![r].cas = Concat(t.list)]
      BY <1>5 DEF Merge
    <2>4. CASE mp' = [mp EXCEPT ![r].pc = "mstore", ![r].cas = Concat(t.list)]
      <3>1. Became(r, "mstore", Concat(t.list), t.list)
        BY <2>2, <2>4, MpFacts, GotoBecomes DEF MpPcs
      <3> QED
        BY <1>1, <1>4, <2>1, <2>2, <3>1 DEF MergePcs
    <2> QED
      BY <1>1, <1>3, <2>3, <2>4
  <1>6. CASE CompleteAborted(r)
    <2>1. t.attempt + 1 \in 0 .. MaxAttempts
      BY <1>6, MpFacts, RequestsAssumption DEF CompleteAborted
    <2>2. mp' = [mp EXCEPT ![r].pc = "fast", ![r].attempt = t.attempt + 1]
          /\ t.pc \in MergePcs \ {"merge"}
      BY <1>6, MpFacts DEF CompleteAborted, MergePcs
    <2>3. Became(r, "fast", t.cas, t.list)
      BY <2>1, <2>2, MpFacts, GotoBecomes DEF MpPcs
    <2> QED
      BY <1>1, <1>2, <1>4, <2>2, <2>3 DEF MergePcs
  <1>7. CASE \/ MergeFails(r) \/ StoreMerged(r) \/ CompleteDuplicate(r)
             \/ CompleteSelectNone(r) \/ CompleteFails(r) \/ CleanupCheck(r)
    <2>1. \/ MpFinish(r)
          \/ /\ t.pc # "merge"
             /\ \E p \in MpPcs :
                /\ MpGoto(r, p)
                /\ \/ t.pc \in MergePcs /\ p \in MergePcs \ {"merge"}
                   \/ t.pc \in MergePcs /\ p = "cleanup"
                   \/ t.pc = "cleanup" /\ p = "unlink"
      BY <1>7 DEF MergeFails, StoreMerged, CompleteDuplicate, CompleteSelectNone,
                  CompleteFails, CleanupCheck, MergePcs, MpPcs
    <2>2. ASSUME t.pc # "merge", NEW p \in MpPcs, MpGoto(r, p)
          PROVE  Became(r, p, t.cas, t.list) /\ t.cas \in Content
      BY <1>2, <2>2, MpFacts, GotoBecomes
    <2> QED
      BY <1>1, <1>3, <1>4, <2>1, <2>2
  <1> QED
    BY <1>1, <1>5, <1>6, <1>7 DEF CompleteMoves

ListMoves(r) == CompleteList(r) \/ AbortList(r) \/ ReleaseDone(r) \/ ReleaseError(r)

LEMMA ListMovesOK ==
    ASSUME MpInv, NEW r \in PartRequests, ListMoves(r)
    PROVE  MpInv' /\ UNCHANGED <<vars, uploads>> /\ Moved(r)
  <1> DEFINE t == mp[r]
             l == ListParts(t.up)
  <1>1. UNCHANGED <<vars, uploads>> /\ t.pc \in ReleasePcs \cup {"list"}
    BY DEF ListMoves, CompleteList, AbortList, ReleaseDone, ReleaseError, ReleasePcs
  <1>2. /\ t.op \in {"complete", "abort"} /\ t.up \in Uploads
        /\ t.list \in Seq(PartContent) /\ Len(t.list) <= MaxParts
        /\ mp \in [PartRequests -> PartRequest]
        /\ t.cas \in Content \cup {None} /\ t.list \in Seq(Content)
    BY <1>1, MpFacts DEF MpShape, FinishPcs, MpInv
  <1>3. l \in Seq(PartContent) /\ Len(l) <= MaxParts /\ l \in Seq(Content)
    <2>1. l \in Seq(PartContent) /\ Len(l) <= MaxParts
      BY <1>2, ListPartsOK DEF MpInv, PartsOK
    <2> HIDE DEF l
    <2>2. PartContent \subseteq Content
      BY UploadsAssumption
    <2> QED
      BY <2>1, <2>2
  <1>a. 0 \in 0 .. MaxAttempts
    BY RequestsAssumption
  <1>4. CASE MpFinish(r) /\ (t.pc \notin ReleasePcs \/ "db" \in Faults \/ (t.pc = "drop" /\ Contended(r)))
    <2>1. Ended(r)
      BY <1>2, <1>4, FinishEnds
    <2>2. Moved(r)
      BY <1>4, <2>1 DEF Moved
    <2> QED
      BY <1>1, <2>1, <2>2, EndedShape, QuietKept DEF Ended
  <1>5. ASSUME NEW p \in {"merge", "release", "drop"}, NEW s \in Seq(PartContent),
               Len(s) <= MaxParts, Became(r, p, t.cas, s),
               p = "merge" => t.op = "complete" /\ s # << >>
        PROVE  MpInv'
    <2>1. MpShape(mp[r])'
      BY <1>2, <1>5 DEF Became, MpShape, PartPcs, MergePcs, ReleasePcs, FinishPcs
    <2> QED
      BY <1>1, <1>5, <2>1, QuietKept DEF Became
  <1>6. CASE CompleteList(r)
    <2>1. t.pc = "list" /\ t.op = "complete" /\ "list" \notin ReleasePcs
      BY <1>6 DEF CompleteList, ReleasePcs
    <2>2. MpFinish(r) \/ (l # << >> /\ mp' = [mp EXCEPT ![r].pc = "merge", ![r].list = l])
      BY <1>6 DEF CompleteList
    <2>3. CASE l # << >> /\ mp' = [mp EXCEPT ![r].pc = "merge", ![r].list = l]
      <3>1. "merge" \in MpPcs
        BY DEF MpPcs
      <3> HIDE DEF l
      <3>2. Became(r, "merge", t.cas, l)
        BY <1>2, <1>3, <1>a, <2>3, <3>1, GotoBecomes
      <3>3. MpInv'
        BY <1>3, <1>5, <2>1, <2>3, <3>2
      <3> QED
        BY <1>1, <2>1, <3>2, <3>3 DEF Moved, l
    <2> QED
      BY <1>1, <1>4, <2>1, <2>2, <2>3
  <1>7. CASE AbortList(r)
    <2>1. /\ t.pc = "list" /\ t.op = "abort" /\ "release" \in MpPcs
          /\ mp' = [mp EXCEPT ![r].pc = "release", ![r].list = l]
      BY <1>7 DEF AbortList, MpPcs
    <2> HIDE DEF l
    <2>2. Became(r, "release", t.cas, l)
      BY <1>2, <1>3, <1>a, <2>1, GotoBecomes
    <2>3. MpInv'
      BY <1>3, <1>5, <2>1, <2>2
    <2> QED
      BY <1>1, <2>1, <2>2, <2>3 DEF Moved, l
  <1>8. CASE ReleaseDone(r)
    <2>1. t.pc = "release" /\ t.list = << >> /\ MpGoto(r, "drop") /\ "drop" \in MpPcs
      BY <1>8 DEF ReleaseDone, MpPcs
    <2>2. Became(r, "drop", t.cas, t.list)
      BY <1>2, <1>a, <2>1, GotoBecomes
    <2>3. MpInv'
      BY <1>2, <1>5, <2>2
    <2> QED
      BY <1>1, <2>1, <2>2, <2>3 DEF Moved
  <1>9. CASE ReleaseError(r)
    <2>1. ASSUME NEW p \in {"release", "drop"}, NEW s \in Seq(PartContent), Len(s) <= MaxParts,
                 Became(r, p, t.cas, s)
          PROVE  MpInv' /\ MpRest(r)
      BY <1>1, <1>5, <2>1 DEF Became
    <2>2. t.pc \in {"release", "relcheck", "drop", "list"} /\ t.pc \in ReleasePcs \cup {"list"}
      BY <1>9 DEF ReleaseError, ReleasePcs
    <2>3. CASE /\ t.list # << >> /\ mp' = [mp EXCEPT ![r].pc = "release", ![r].list = Tail(@)]
               /\ "db" \in Faults \/ t.pc = "release"
      <3>1. /\ Tail(t.list) \in Seq(PartContent) /\ Len(Tail(t.list)) <= MaxParts
            /\ Tail(t.list) \in Seq(Content)
        BY <1>2, <2>3, UploadsAssumption
      <3>2. mp' = [mp EXCEPT ![r].pc = "release", ![r].list = Tail(t.list)] /\ "release" \in MpPcs
        BY <1>2, <2>3 DEF MpPcs
      <3>3. Became(r, "release", t.cas, Tail(t.list))
        BY <1>2, <1>a, <3>1, <3>2, GotoBecomes
      <3>4. MpInv' /\ MpRest(r)
        BY <2>1, <3>1, <3>3
      <3> QED
        BY <1>1, <2>2, <2>3, <3>3, <3>4 DEF Moved
    <2>4. CASE MpGoto(r, "drop") /\ "db" \in Faults
      <3>1. Became(r, "drop", t.cas, t.list)
        BY <1>2, <1>a, <2>4, GotoBecomes DEF MpPcs
      <3>2. MpInv' /\ MpRest(r)
        BY <1>2, <2>1, <3>1
      <3> QED
        BY <1>1, <2>2, <2>4, <3>2 DEF Moved
    <2>5. CASE MpFinish(r) /\ ("db" \in Faults \/ (t.pc = "drop" /\ Contended(r)))
      BY <1>1, <1>4, <2>5
    <2>6. \/ "db" \in Faults
          \/ t.pc = "release"
          \/ t.pc = "drop" /\ Contended(r)
      BY <1>9 DEF ReleaseError, Contended
    <2>7. \/ /\ t.pc \in {"release", "relcheck"} /\ t.list # << >>
             /\ mp' = [mp EXCEPT ![r].pc = "release", ![r].list = Tail(@)]
          \/ t.pc = "drop" /\ MpFinish(r)
          \/ t.pc = "list" /\ MpGoto(r, "drop")
      BY <1>9 DEF ReleaseError
    <2>8. CASE t.pc \in {"release", "relcheck"}
      BY <2>3, <2>6, <2>7, <2>8
    <2>9. CASE t.pc = "drop"
      BY <2>5, <2>6, <2>7, <2>9
    <2>10. CASE t.pc = "list"
      BY <2>4, <2>6, <2>7, <2>10
    <2> QED
      BY <2>2, <2>8, <2>9, <2>10
  <1> QED
    BY <1>6, <1>7, <1>8, <1>9 DEF ListMoves

(***************************************************************************)
(* Steps on the files and on the queue.                                    *)
(***************************************************************************)

LEMMA FilesTypeOK ==
    ASSUME MpInv, UNCHANGED <<metaVars, stranded, gc, req, blind, uploads>>,
           files' \subseteq Content, pending' \in Seq(Content)
    PROVE  TypeOK' /\ PartsOK' /\ uploads' \in [Uploads -> {"none", "open", "gone"}]
  <1>1. MetaTypeOK'
    BY TablesTypeOK DEF MpInv, TypeOK
  <1>2. GCTypeOK' /\ req' \in [Requests -> Request] /\ blind' \subseteq Slots
    BY DEF MpInv, TypeOK, GCTypeOK, CollectorOK
  <1>3. PartsOK' /\ uploads' \in [Uploads -> {"none", "open", "gone"}]
    BY DEF MpInv, PartsOK, metaVars
  <1> QED
    BY <1>1, <1>2, <1>3 DEF TypeOK

FileMoves(r) ==
    \/ RenamePart(r) \/ PartEnqueue(r) \/ RenameMerged(r) \/ CompleteEnqueue(r)
    \/ CleanupUnlink(r) \/ ReleaseCheck(r)

LEMMA FileMovesOK ==
    ASSUME MpInv, NEW r \in PartRequests, FileMoves(r)
    PROVE  /\ MpInv' /\ UNCHANGED <<metaVars, stranded, gc, req, blind, uploads>> /\ Moved(r)
           /\ files \subseteq files' \/ CleanupUnlink(r)
  <1> DEFINE t == mp[r]
  <1>1. /\ mp \in [PartRequests -> PartRequest] /\ MpShape(t)
        /\ t.cas \in Content \cup {None} /\ t.list \in Seq(Content)
        /\ files \subseteq Content /\ pending \in Seq(Content) /\ 0 \in 0 .. MaxAttempts
    BY MpFacts, RequestsAssumption DEF MpInv, TypeOK, GCTypeOK
  <1>2. UNCHANGED <<metaVars, stranded, gc, req, blind, uploads>>
    BY DEF FileMoves, RenamePart, PartEnqueue, RenameMerged, CompleteEnqueue, CleanupUnlink,
           ReleaseCheck
  <1>3. ASSUME files' \subseteq Content, pending' \in Seq(Content), MpRest(r), MpShape(mp[r])'
        PROVE  MpInv'
    BY <1>2, <1>3, FilesTypeOK, MpKept
  <1>4. CASE RenamePart(r) \/ RenameMerged(r)
    <2> DEFINE p == IF RenamePart(r) THEN "lookup" ELSE "fast"
    <2>1. /\ t.pc = IF RenamePart(r) THEN "rename" ELSE "mrename"
          /\ files' = files \cup {t.cas} /\ pending' = pending /\ MpGoto(r, p)
      BY <1>4 DEF RenamePart, RenameMerged
    <2>2. p \in MpPcs /\ t.cas \in Content
      BY <1>1, <2>1 DEF MpPcs, MpShape, PartPcs, MergePcs
    <2>3. p = IF t.pc = "rename" THEN "lookup" ELSE "fast"
      BY <2>1
    <2> HIDE DEF p
    <2>4. Became(r, p, t.cas, t.list)
      BY <1>1, <2>1, <2>2, GotoBecomes
    <2>5. MpShape(mp[r])'
      BY <1>1, <2>1, <2>3, <2>4 DEF Became, MpShape, PartPcs, MergePcs, ReleasePcs, FinishPcs
    <2>6. Moved(r)
      BY <2>1, <2>2, <2>3, <2>4 DEF Moved, PartPcs, MergePcs
    <2> QED
      BY <1>1, <1>2, <1>3, <2>1, <2>2, <2>4, <2>5, <2>6 DEF Became
  <1>5. CASE PartEnqueue(r) \/ CleanupUnlink(r)
    <2>1. MpFinish(r) /\ t.pc \in {"enqueue", "unlink"}
      BY <1>5 DEF PartEnqueue, CleanupUnlink
    <2>2. Ended(r)
      BY <1>1, <2>1, FinishEnds
    <2>3. files' \subseteq Content /\ pending' \in Seq(Content) /\ (files \subseteq files' \/ CleanupUnlink(r))
      BY <1>1, <1>5 DEF PartEnqueue, CleanupUnlink, AddPendingDelete, MpShape, PartPcs
    <2>4. Moved(r)
      <3>1. t.pc \notin ReleasePcs
        BY <2>1 DEF ReleasePcs
      <3> QED
        BY <2>2, <3>1 DEF Moved
    <2> QED
      BY <1>2, <1>3, <2>2, <2>3, <2>4, EndedShape DEF Ended
  <1>6. CASE CompleteEnqueue(r)
    <2>1. /\ t.pc = "oenqueue" /\ MpGoto(r, "release") /\ files' = files
          /\ pending' = Append(pending, t.cas) /\ "release" \in MpPcs
      BY <1>6 DEF CompleteEnqueue, AddPendingDelete, MpPcs
    <2>2. t.cas \in Content
      BY <1>1, <2>1 DEF MpShape, MergePcs
    <2>3. Became(r, "release", t.cas, t.list)
      BY <1>1, <2>1, GotoBecomes
    <2>4. MpShape(mp[r])'
      BY <1>1, <2>1, <2>3 DEF Became, MpShape, PartPcs, MergePcs, ReleasePcs, FinishPcs
    <2>5. Moved(r) /\ MpRest(r) /\ pending' \in Seq(Content)
      BY <1>1, <2>1, <2>2, <2>3 DEF Moved, Became
    <2> QED
      BY <1>1, <1>2, <1>3, <2>1, <2>4, <2>5
  <1>7. CASE ReleaseCheck(r)
    <2>1. /\ t.pc = "relcheck" /\ files' = files /\ "release" \in MpPcs
          /\ pending' = pending \/ pending' = Append(pending, Head(t.list))
          /\ mp' = [mp EXCEPT ![r].pc = "release", ![r].list = Tail(t.list)]
      BY <1>1, <1>7 DEF ReleaseCheck, AddPendingDelete, MpPcs
    <2>2. t.list # << >> /\ t.list \in Seq(PartContent) /\ Len(t.list) <= MaxParts
      BY <1>1, <2>1 DEF MpShape
    <2>3. /\ Tail(t.list) \in Seq(PartContent) /\ Len(Tail(t.list)) <= MaxParts
          /\ Tail(t.list) \in Seq(Content) /\ Head(t.list) \in Content
      BY <1>1, <2>2, UploadsAssumption
    <2>4. Became(r, "release", t.cas, Tail(t.list))
      BY <1>1, <2>1, <2>3, GotoBecomes
    <2>5. MpShape(mp[r])'
      BY <1>1, <2>1, <2>3, <2>4 DEF Became, MpShape, PartPcs, MergePcs, ReleasePcs, FinishPcs
    <2>6. Moved(r) /\ MpRest(r) /\ pending' \in Seq(Content)
      BY <1>1, <2>1, <2>3, <2>4 DEF Moved, Became
    <2> QED
      BY <1>1, <1>2, <1>3, <2>1, <2>5, <2>6
  <1> QED
    BY <1>4, <1>5, <1>6, <1>7 DEF FileMoves

(***************************************************************************)
(* Transactions.                                                           *)
(***************************************************************************)

\* The row of the request's part takes its content; one reference moves there.
PartStored(r) ==
    LET t == mp[r]
        old == partCas[t.part]
    IN  /\ t.pc \in {"select", "upsert"}
        /\ partCas' = [partCas EXCEPT ![t.part] = t.cas]
        /\ blobs' = blobs \cup {t.cas}
        /\ \/ old = t.cas /\ refCount' = refCount
           \/ old \in Content \ {t.cas} /\ refCount' = Decrement(Increment(refCount, t.cas), old)
           \/ refCount' = Increment(refCount, t.cas)
        /\ UNCHANGED <<objKey, objCas, gcVars, req, blind, uploads>>
        /\ Ended(r) \/ \E c \in Content : Became(r, "enqueue", c, t.list)

LEMMA PartStoredOK ==
    ASSUME MpInv, NEW r \in PartRequests, PartOverwrite(r) \/ PartUpsert(r)
    PROVE  MpInv' /\ PartStored(r)
  <1> DEFINE t == mp[r]
             old == partCas[t.part]
  <1>1. /\ mp \in [PartRequests -> PartRequest] /\ MpShape(t)
        /\ t.cas \in Content \cup {None} /\ t.list \in Seq(Content) /\ 0 \in 0 .. MaxAttempts
    BY MpFacts, RequestsAssumption DEF MpInv
  <1>2. /\ t.pc \in {"select", "upsert"}
        /\ PartOverwrite(r) => t.pc = "select" /\ old # None
        /\ PartUpsert(r) => uploads[t.up] = "open"
    BY DEF PartOverwrite, PartUpsert
  <1>3. t.part \in PartIds /\ t.up = t.part[1] /\ t.cas \in PartContent /\ t.cas \in Content
    <2>1. t.part \in PartIds /\ t.up = t.part[1] /\ t.cas \in PartContent
      BY <1>1, <1>2 DEF MpShape, PartPcs
    <2> QED
      BY <2>1, UploadsAssumption
  <1>4. /\ refCount \in [Content -> Nat] /\ partCas \in [PartIds -> Content \cup {None}]
        /\ blobs \subseteq Content
    BY DEF MpInv, TypeOK, MetaTypeOK
  <1>5. uploads[t.part[1]] = "open" /\ old \in Content \cup {None}
    BY <1>2, <1>3, <1>4 DEF MpInv, PartsOK
  <1>6. PICK cand \in Content \cup {None} : PartCommitted(r, cand)
    <2>1. CASE PartOverwrite(r)
      <3> DEFINE count == IF old = t.cas THEN refCount
                          ELSE Decrement(Increment(refCount, t.cas), old)
                 cand == IF old # t.cas /\ count[old] = 0 THEN old ELSE None
      <3>1. PartCommitted(r, cand)
        BY <2>1 DEF PartOverwrite
      <3>2. cand \in Content \cup {None}
        <4> HIDE DEF count
        <4> QED
          BY <1>5
      <3> QED
        BY <3>1, <3>2
    <2>2. CASE PartUpsert(r)
      BY <2>2 DEF PartUpsert
    <2> QED
      BY <2>1, <2>2
  <1>7. /\ partCas' = [partCas EXCEPT ![t.part] = t.cas]
        /\ blobs' = blobs \cup {t.cas}
        /\ UNCHANGED <<objKey, objCas, gcVars, req, blind, uploads>>
        /\ \/ MpFinish(r)
           \/ cand # None /\ mp' = [mp EXCEPT ![r].pc = "enqueue", ![r].cas = cand]
    BY <1>6 DEF PartCommitted
  <1>8. Ended(r) \/ (cand \in Content /\ Became(r, "enqueue", cand, t.list))
    <2>1. CASE MpFinish(r)
      BY <1>1, <2>1, FinishEnds
    <2>2. CASE cand # None /\ mp' = [mp EXCEPT ![r].pc = "enqueue", ![r].cas = cand]
      <3>1. "enqueue" \in MpPcs /\ cand \in Content
        BY <2>2 DEF MpPcs
      <3> QED
        BY <1>1, <2>2, <3>1, GotoBecomes
    <2> QED
      BY <1>7, <2>1, <2>2
  <1>9. \/ old = t.cas /\ refCount' = refCount
        \/ old \in Content \ {t.cas} /\ refCount' = Decrement(Increment(refCount, t.cas), old)
        \/ refCount' = Increment(refCount, t.cas)
    <2>1. CASE PartUpsert(r)
      BY <2>1 DEF PartUpsert
    <2>2. CASE PartOverwrite(r)
      <3>1. refCount' = IF old = t.cas THEN refCount
                        ELSE Decrement(Increment(refCount, t.cas), old)
        BY <2>2 DEF PartOverwrite
      <3>2. old \in Content
        BY <1>2, <1>5, <2>2
      <3> QED
        BY <3>1, <3>2
    <2> QED
      BY <2>1, <2>2
  <1>10. PartStored(r)
    BY <1>2, <1>7, <1>8, <1>9 DEF PartStored
  <1>11. MetaTypeOK'
    <2>1. refCount' \in [Content -> Nat]
      BY <1>3, <1>4, <1>9 DEF Increment, Decrement
    <2>2. /\ blobs' \subseteq Content /\ objKey' = objKey /\ objCas' = objCas
          /\ partCas' \in [PartIds -> Content \cup {None}]
      BY <1>3, <1>4, <1>7
    <2> QED
      BY <2>1, <2>2 DEF MpInv, TypeOK, MetaTypeOK, RowsWellFormed
  <1>12. TypeOK' /\ uploads' \in [Uploads -> {"none", "open", "gone"}]
    BY <1>7, <1>11 DEF MpInv, TypeOK, gcVars, GCTypeOK, CollectorOK
  <1>13. PartsOK'
    BY <1>3, <1>4, <1>5, <1>7 DEF MpInv, PartsOK
  <1>14. MpRest(r) /\ MpShape(mp[r])'
    <2>1. CASE Ended(r)
      BY <2>1, EndedShape DEF Ended
    <2>2. CASE cand \in Content /\ Became(r, "enqueue", cand, t.list)
      <3>1. t.op = "part" /\ t.list \in Seq(PartContent) /\ Len(t.list) <= MaxParts
        BY <1>1, <1>2 DEF MpShape, PartPcs
      <3> QED
        BY <1>3, <2>2, <3>1 DEF Became, MpShape, PartPcs, MergePcs, ReleasePcs, FinishPcs
    <2> QED
      BY <1>8, <2>1, <2>2
  <1> QED
    BY <1>10, <1>12, <1>13, <1>14, MpKept

\* The object is put; the parts are released next, unless the answer is lost.
ObjectStored(r) ==
    LET t == mp[r]
    IN  /\ t.pc \in {"fast", "oselect", "oupsert"}
        /\ \E k \in Keys, c \in Content :
              InsertObject(k, c) \/ OverwriteObject(k, c) \/ UpsertObject(k, c)
        /\ UNCHANGED <<gcVars, req, uploads>>
        /\ \/ Became(r, "release", t.cas, t.list)
           \/ \E c \in Content : Became(r, "oenqueue", c, t.list)
           \/ "db" \in Faults /\ Became(r, "cleanup", t.cas, t.list)

LEMMA ObjectStoredOK ==
    ASSUME MpInv, NEW r \in PartRequests,
           CompleteFast(r) \/ CompleteOverwrite(r) \/ CompleteUpsert(r)
    PROVE  MpInv' /\ ObjectStored(r)
  <1> DEFINE t == mp[r]
             k == UploadKey[t.up]
  <1>1. /\ mp \in [PartRequests -> PartRequest] /\ MpShape(t)
        /\ t.cas \in Content \cup {None} /\ t.list \in Seq(Content) /\ 0 \in 0 .. MaxAttempts
    BY MpFacts, RequestsAssumption DEF MpInv
  <1>2. t.pc \in {"fast", "oselect", "oupsert"}
    BY DEF CompleteFast, CompleteOverwrite, CompleteUpsert
  <1>3. /\ t.up \in Uploads /\ t.cas \in Content /\ t.op = "complete"
        /\ t.list \in Seq(PartContent) /\ Len(t.list) <= MaxParts
    BY <1>1, <1>2 DEF MpShape, MergePcs, FinishPcs
  <1>4. k \in Keys
    BY <1>3, UploadsAssumption
  <1>5. PICK cand \in Content \cup {None} :
          /\ InsertObject(k, t.cas) \/ OverwriteObject(k, t.cas) \/ UpsertObject(k, t.cas)
          /\ ObjectCommitted(r, cand)
    <2>1. CASE CompleteFast(r) \/ CompleteUpsert(r)
      BY <2>1 DEF CompleteFast, CompleteUpsert
    <2>2. CASE CompleteOverwrite(r)
      <3>1. OverwriteObject(k, t.cas) /\ ObjectCommitted(r, ReplacedCandidate(k, t.cas))
        BY <2>2 DEF CompleteOverwrite
      <3>2. Found(k)
        BY <3>1 DEF OverwriteObject
      <3>3. ReplacedCandidate(k, t.cas) \in Content \cup {None}
        BY <1>4, <3>2, CandidateType DEF MpInv, TypeOK
      <3> QED
        BY <3>1, <3>3
    <2> QED
      BY <2>1, <2>2
  <1>6. /\ NoteCommit(SlotOf[k], t.cas) /\ UNCHANGED <<gcVars, req, uploads>>
        /\ \/ MpGoto(r, "release")
           \/ cand # None /\ mp' = [mp EXCEPT ![r].pc = "oenqueue", ![r].cas = cand]
           \/ "db" \in Faults /\ MpGoto(r, "cleanup")
    BY <1>5 DEF ObjectCommitted
  <1>7. \/ Became(r, "release", t.cas, t.list)
        \/ cand \in Content /\ Became(r, "oenqueue", cand, t.list)
        \/ "db" \in Faults /\ Became(r, "cleanup", t.cas, t.list)
    <2>1. "release" \in MpPcs /\ "oenqueue" \in MpPcs /\ "cleanup" \in MpPcs
      BY DEF MpPcs
    <2>2. CASE MpGoto(r, "release")
      BY <1>1, <2>1, <2>2, GotoBecomes
    <2>3. CASE cand # None /\ mp' = [mp EXCEPT ![r].pc = "oenqueue", ![r].cas = cand]
      BY <1>1, <2>1, <2>3, GotoBecomes
    <2>4. CASE "db" \in Faults /\ MpGoto(r, "cleanup")
      BY <1>1, <2>1, <2>4, GotoBecomes
    <2> QED
      BY <1>6, <2>2, <2>3, <2>4
  <1>8. ObjectStored(r)
    BY <1>2, <1>3, <1>4, <1>5, <1>6, <1>7 DEF ObjectStored
  <1>9. MetaTypeOK'
    BY <1>3, <1>4, <1>5, TablesTypeOK DEF MpInv, TypeOK
  <1>10. blind' \subseteq Slots
    BY <1>4, <1>6, TablesAssumption DEF NoteCommit, MpInv, TypeOK
  <1>11. TypeOK' /\ uploads' \in [Uploads -> {"none", "open", "gone"}]
    BY <1>6, <1>9, <1>10 DEF MpInv, TypeOK, gcVars, GCTypeOK, CollectorOK
  <1>12. partCas' = partCas
    BY <1>5 DEF InsertObject, OverwriteObject, UpsertObject
  <1>13. PartsOK'
    BY <1>6, <1>12 DEF MpInv, PartsOK
  <1>14. MpRest(r) /\ MpShape(mp[r])'
    BY <1>1, <1>3, <1>7 DEF Became, MpShape, PartPcs, MergePcs, ReleasePcs, FinishPcs
  <1> QED
    BY <1>8, <1>11, <1>13, <1>14, MpKept

LEMMA ReleasePartOK ==
    ASSUME MpInv, NEW r \in PartRequests, ReleasePart(r)
    PROVE  /\ MpInv' /\ Became(r, "relcheck", mp[r].cas, mp[r].list)
           /\ Head(mp[r].list) \in Content
  <1> DEFINE t == mp[r]
  <1>1. /\ mp \in [PartRequests -> PartRequest] /\ MpShape(t)
        /\ t.cas \in Content \cup {None} /\ t.list \in Seq(Content) /\ 0 \in 0 .. MaxAttempts
    BY MpFacts, RequestsAssumption DEF MpInv
  <1>2. /\ t.pc = "release" /\ t.list # << >> /\ MpGoto(r, "relcheck") /\ "relcheck" \in MpPcs
        /\ refCount' = Decrement(refCount, Head(t.list))
        /\ UNCHANGED <<blobs, objKey, objCas, partCas, gcVars, req, blind, uploads>>
    BY DEF ReleasePart, MpPcs
  <1>3. Head(t.list) \in Content
    BY <1>1, <1>2
  <1>4. Became(r, "relcheck", t.cas, t.list)
    BY <1>1, <1>2, GotoBecomes
  <1>5. MpShape(mp[r])'
    BY <1>1, <1>2, <1>4 DEF Became, MpShape, PartPcs, MergePcs, ReleasePcs, FinishPcs
  <1>6. refCount' \in [Content -> Nat]
    BY <1>2, <1>3 DEF MpInv, TypeOK, MetaTypeOK, Decrement
  <1>7. TypeOK' /\ PartsOK' /\ uploads' \in [Uploads -> {"none", "open", "gone"}]
    BY <1>2, <1>6 DEF MpInv, TypeOK, MetaTypeOK, RowsWellFormed, gcVars, GCTypeOK, CollectorOK,
       PartsOK
  <1> QED
    BY <1>3, <1>4, <1>5, <1>7, MpKept DEF Became

LEMMA DropUploadOK ==
    ASSUME MpInv, NEW r \in PartRequests, DropUpload(r)
    PROVE  MpInv' /\ Ended(r) /\ mp[r].up \in Uploads
  <1> DEFINE t == mp[r]
  <1>1. /\ t.pc = "drop" /\ MpFinish(r)
        /\ uploads' = [uploads EXCEPT ![t.up] = "gone"]
        /\ partCas' = [p \in PartIds |-> IF p[1] = t.up THEN None ELSE partCas[p]]
        /\ UNCHANGED <<blobs, refCount, objKey, objCas, gcVars, req, blind>>
    BY DEF DropUpload
  <1>2. mp \in [PartRequests -> PartRequest] /\ MpShape(t)
    BY MpFacts DEF MpInv
  <1>3. t.up \in Uploads
    BY <1>1, <1>2 DEF MpShape, FinishPcs, ReleasePcs
  <1>4. Ended(r)
    BY <1>1, <1>2, FinishEnds
  <1>5. partCas' \in [PartIds -> Content \cup {None}]
    BY <1>1 DEF MpInv, TypeOK, MetaTypeOK
  <1>6. TypeOK' /\ uploads' \in [Uploads -> {"none", "open", "gone"}]
    BY <1>1, <1>3, <1>5 DEF MpInv, TypeOK, MetaTypeOK, RowsWellFormed, gcVars, GCTypeOK, CollectorOK
  <1>7. PartsOK'
    <2> SUFFICES ASSUME NEW p \in PartIds
                 PROVE  /\ partCas'[p] \in PartContent \cup {None}
                        /\ partCas'[p] # None => uploads'[p[1]] = "open"
      BY DEF PartsOK
    <2>1. p[1] \in Uploads
      BY UploadsAssumption
    <2> QED
      BY <1>1, <2>1 DEF MpInv, PartsOK
  <1> QED
    BY <1>3, <1>4, <1>6, <1>7, EndedShape, MpKept DEF Ended

(***************************************************************************)
(* Everything else.                                                        *)
(***************************************************************************)

\* A request begins.
Begun(r) ==
    LET u == mp'[r]
    IN  /\ mp[r].pc = "new" /\ MpRest(r) /\ u.list = << >> /\ u.up \in Uploads
        /\ \/ /\ u.pc \in {"store", "lookup"} /\ u.op = "part"
              /\ Sequential => \A q \in PartRequests : ~Finishes(q, u.up)
           \/ /\ u.pc = "list" /\ u.op \in {"complete", "abort"}
              /\ Sequential => \A q \in PartRequests :
                                  ~Finishes(q, u.up) /\ ~(Active(q) /\ mp[q].up = u.up)

LEMMA BeginsOK ==
    ASSUME MpInv, NEW r \in PartRequests, BeginPart(r) \/ BeginFinish(r)
    PROVE  MpInv' /\ Begun(r) /\ UNCHANGED <<vars, uploads>>
  <1>1. UNCHANGED <<vars, uploads>> /\ mp[r].pc = "new" /\ mp \in [PartRequests -> PartRequest]
    BY DEF BeginPart, BeginFinish, MpInv
  <1>2. CASE BeginPart(r)
    <2>1. PICK p \in PartIds, c \in PartContent, pc \in {"store", "lookup"} :
            /\ Sequential => \A q \in PartRequests : ~Finishes(q, p[1])
            /\ mp' = [mp EXCEPT ![r] = [NewRequest EXCEPT !.pc = pc, !.op = "part",
                                           !.up = p[1], !.part = p, !.cas = c]]
      BY <1>2 DEF BeginPart
    <2> DEFINE u == [NewRequest EXCEPT !.pc = pc, !.op = "part",
                                       !.up = p[1], !.part = p, !.cas = c]
    <2>2. p[1] \in Uploads /\ c \in Content
      BY UploadsAssumption
    <2>3. /\ u.pc = pc /\ u.op = "part" /\ u.up = p[1] /\ u.part = p /\ u.cas = c
          /\ u.list = << >>
      BY DEF NewRequest
    <2>4. u \in PartRequest
      BY <2>2, NewRequestOK DEF PartRequest, MpPcs, Ops
    <2> HIDE DEF u
    <2>5. mp'[r] = u /\ MpRest(r)
      BY <1>1, <2>1, <2>4 DEF MpRest, u
    <2>6. MpShape(u)
      BY <2>2, <2>3, NewRequestOK DEF MpShape, PartPcs, MergePcs, ReleasePcs, FinishPcs
    <2>7. MpShape(mp[r])'
      BY <2>5, <2>6 DEF MpShape
    <2>8. Begun(r)
      BY <1>1, <2>1, <2>2, <2>3, <2>5 DEF Begun
    <2> QED
      BY <1>1, <2>5, <2>7, <2>8, QuietKept
  <1>3. CASE BeginFinish(r)
    <2>1. PICK up \in Uploads, op \in {"complete", "abort"} :
            /\ Sequential => \A q \in PartRequests :
                                ~Finishes(q, up) /\ ~(Active(q) /\ mp[q].up = up)
            /\ mp' = [mp EXCEPT ![r] = [NewRequest EXCEPT !.pc = "list", !.op = op, !.up = up]]
      BY <1>3 DEF BeginFinish
    <2> DEFINE u == [NewRequest EXCEPT !.pc = "list", !.op = op, !.up = up]
    <2>2. u.pc = "list" /\ u.op = op /\ u.up = up /\ u.list = << >>
      BY DEF NewRequest
    <2>3. u \in PartRequest
      BY NewRequestOK DEF PartRequest, MpPcs, Ops
    <2> HIDE DEF u
    <2>4. mp'[r] = u /\ MpRest(r)
      BY <1>1, <2>1, <2>3 DEF MpRest, u
    <2>5. MpShape(u)
      BY <2>2, NewRequestOK DEF MpShape, PartPcs, MergePcs, ReleasePcs, FinishPcs
    <2>6. MpShape(mp[r])'
      BY <2>4, <2>5 DEF MpShape
    <2>7. Begun(r)
      BY <1>1, <2>1, <2>2, <2>4 DEF Begun
    <2> QED
      BY <1>1, <2>4, <2>6, <2>7, QuietKept
  <1> QED
    BY <1>2, <1>3

LEMMA InitUploadOK ==
    ASSUME MpInv, NEW u \in Uploads, InitUpload(u)
    PROVE  MpInv' /\ UNCHANGED <<vars, mp>>
  <1>1. uploads' = [uploads EXCEPT ![u] = "open"] /\ UNCHANGED <<vars, mp>>
    BY DEF InitUpload, CreateMultipartUpload
  <1>2. TypeOK' /\ uploads' \in [Uploads -> {"none", "open", "gone"}]
    BY <1>1 DEF MpInv, TypeOK, MetaTypeOK, RowsWellFormed, GCTypeOK, CollectorOK, vars, metaVars,
       gcVars
  <1>3. PartsOK'
    <2> SUFFICES ASSUME NEW p \in PartIds
                 PROVE  /\ partCas'[p] \in PartContent \cup {None}
                        /\ partCas'[p] # None => uploads'[p[1]] = "open"
      BY DEF PartsOK
    <2>1. p[1] \in Uploads /\ partCas' = partCas
      BY <1>1, UploadsAssumption DEF vars, metaVars
    <2> QED
      BY <1>1, <2>1 DEF MpInv, PartsOK
  <1> QED
    BY <1>1, <1>2, <1>3 DEF MpInv, MpShape

\* Steps of other requests, of the collector and of the server leave the parts.
LEMMA OthersOK ==
    ASSUME MpInv, TypeOK', UNCHANGED <<partCas, mpVars>>
    PROVE  MpInv'
  BY DEF MpInv, PartsOK, MpShape, mpVars

LEMMA RequestKeepsParts ==
    ASSUME NEW r \in Requests, RequestStep(r)
    PROVE  partCas' = partCas
  BY DEF RequestStep, PutStep, DeleteStep, RequestFails, BeginPut, BeginDelete, CommitWrite,
     CommitRename, PutFast, PutDuplicate, PutOverwrite, PutSelectNone, PutUpsert, DeleteObject,
     DeleteMissing, Enqueue, RejectUpload, RejectPut, PutAborted, RequestError, metaVars,
     InsertObject, OverwriteObject, UpsertObject, RemoveObject

LEMMA CollectorKeepsParts ==
    ASSUME CollectorStep
    PROVE  partCas' = partCas
  BY DEF CollectorStep, GCStep, GCIdle, GCTakeBatch, GCCheck, GCProbe, GCQuarantine, GCRecheck,
     GCRestore, GCRemove, GCCallback, GCDeleteRow, GCDatabaseError, GCFileError, metaVars,
     DeleteCasBlob

LEMMA MultipartCrashOK ==
    ASSUME MpInv, MultipartCrash
    PROVE  MpInv'
  <1>1. TypeOK' /\ partCas' = partCas /\ uploads' = uploads
    BY CrashTypeOK DEF MultipartCrash, MpInv, Crash, metaVars
  <1>2. ASSUME NEW r \in PartRequests
        PROVE  mp'[r] \in PartRequest /\ MpShape(mp'[r])
    <2> DEFINE u == [NewRequest EXCEPT !.pc = "done", !.op = mp[r].op, !.up = mp[r].up]
    <2>1. mp[r] \in PartRequest /\ MpShape(mp[r])
      BY MpFacts
    <2>2. u.pc = "done" /\ u.list = << >>
      BY DEF NewRequest
    <2>3. u \in PartRequest
      BY <2>1, NewRequestOK DEF PartRequest, MpPcs
    <2>4. mp'[r] = mp[r] \/ mp'[r] = u
      BY DEF MultipartCrash
    <2> HIDE DEF u
    <2>5. MpShape(u)
      BY <2>2, NewRequestOK DEF MpShape, PartPcs, MergePcs, ReleasePcs, FinishPcs
    <2> QED
      BY <2>1, <2>3, <2>4, <2>5
  <1>3. mp' \in [PartRequests -> PartRequest]
    BY <1>2 DEF MultipartCrash
  <1>4. \A r \in PartRequests : MpShape(mp[r])'
    BY <1>2 DEF MpShape
  <1> QED
    BY <1>1, <1>3, <1>4 DEF MpInv, PartsOK

\* The steps of a multipart request, by what they do.
LEMMA HandlerSteps ==
    ASSUME NEW r \in PartRequests, HandlerStep(r)
    PROVE  \/ PartMoves(r) \/ CompleteMoves(r) \/ ListMoves(r) \/ FileMoves(r)
           \/ (PartOverwrite(r) \/ PartUpsert(r))
           \/ (CompleteFast(r) \/ CompleteOverwrite(r) \/ CompleteUpsert(r))
           \/ ReleasePart(r) \/ DropUpload(r)
  BY DEF HandlerStep, UploadPartStep, CompleteStep, ReleaseStep, PartMoves, CompleteMoves,
         ListMoves, FileMoves

LEMMA MpInvKept ==
    ASSUME MpInv, [MultipartNext]_allVars
    PROVE  MpInv'
  <1>1. CASE UNCHANGED allVars
    <2>1. UNCHANGED <<vars, uploads>> /\ mp' = mp
      BY <1>1 DEF allVars, mpVars
    <2> QED
      BY <2>1, SameTables DEF MpInv, MpShape
  <1>2. CASE \E u \in Uploads : InitUpload(u)
    BY <1>2, InitUploadOK
  <1>3. ASSUME NEW r \in PartRequests, BeginPart(r) \/ BeginFinish(r) \/ HandlerStep(r)
        PROVE  MpInv'
    BY <1>3, BeginsOK, HandlerSteps, PartMovesOK, CompleteMovesOK, ListMovesOK, FileMovesOK,
       PartStoredOK, ObjectStoredOK, ReleasePartOK, DropUploadOK
  <1>4. CASE (\E r \in Requests : RequestStep(r)) /\ UNCHANGED mpVars
    BY <1>4, RequestTypeOK, RequestKeepsParts, OthersOK DEF MpInv
  <1>5. CASE CollectorStep /\ UNCHANGED mpVars
    BY <1>5, CollectorTypeOK, CollectorKeepsParts, OthersOK DEF MpInv
  <1> QED
    BY <1>1, <1>2, <1>3, <1>4, <1>5, MultipartCrashOK DEF MultipartNext

LEMMA MpInvInitially == MultipartInit => MpInv
  <1> SUFFICES ASSUME MultipartInit PROVE MpInv
    OBVIOUS
  <1>1. TypeOK
    <2>1. MetaTypeOK
      <3>1. \A c \in Content : References(c) \in Nat
        BY ReferencesNat
      <3> QED
        BY <3>1 DEF MultipartInit, Init, MetaInit, MetaTypeOK
    <2>2. GCTypeOK
      BY <2>1 DEF MultipartInit, Init, GCInit, GCWaiting, GCTypeOK, CollectorOK, GCPcs, MetaTypeOK
    <2>3. req \in [Requests -> Request] /\ blind \subseteq Slots
      BY DEF MultipartInit, Init, Request
    <2> QED
      BY <2>1, <2>2, <2>3 DEF TypeOK
  <1>2. PartsOK /\ uploads \in [Uploads -> {"none", "open", "gone"}]
    BY DEF MultipartInit, PartsOK
  <1>3. mp \in [PartRequests -> PartRequest] /\ \A r \in PartRequests : MpShape(mp[r])
    BY NewRequestOK DEF MultipartInit
  <1> QED
    BY <1>1, <1>2, <1>3 DEF MpInv

\* Type correctness of uploads, parts and multipart requests; the rows of parts
\* are gone with their upload (ON DELETE CASCADE).
THEOREM MultipartTypes == MultipartSpec => []MultipartTypeOK
  <1>1. MpInv => MultipartTypeOK
    BY DEF MpInv, PartsOK, MultipartTypeOK
  <1> QED
    BY <1>1, MpInvInitially, MpInvKept, PTL DEF MultipartSpec

----------------------------------------------------------------------------
(***************************************************************************)
(* The bytes of what rows refer to.                                        *)
(***************************************************************************)

LEMMA SameQuarantine ==
    ASSUME UNCHANGED <<stranded, gc>>, NEW c, c \in files => c \in files'
    PROVE  (OnDisk(c) => OnDisk(c)') /\ (Kept(c) => Kept(c)')
  BY DEF OnDisk, Kept, InQuarantine, Condemned, GCKey

\* The collector takes from the disk only what it has condemned.
LEMMA CollectorUnlinksCondemned ==
    ASSUME TypeOK, CollectorStep, NEW c \in Content, OnDisk(c), References(c) > 0
    PROVE  OnDisk(c)' \/ Condemned(c)
  <1>1. CASE Kept(c)
    <2>1. Kept(c)'
      BY <1>1, CollectorKeepsBytes, NoReferences
    <2> QED
      BY <2>1 DEF Kept, OnDisk
  <1>2. CASE ~Kept(c)
    BY <1>2 DEF Kept, OnDisk
  <1> QED
    BY <1>1, <1>2

\* What a request on objects does to the files.
LEMMA RequestKeepsFiles ==
    ASSUME NEW r \in Requests, RequestStep(r)
    PROVE  UNCHANGED <<stranded, gc>> /\ files \subseteq files'
  BY DEF RequestStep, PutStep, DeleteStep, RequestFails, BeginPut, BeginDelete, CommitWrite,
     CommitRename, PutFast, PutDuplicate, PutOverwrite, PutSelectNone, PutUpsert, DeleteObject,
     DeleteMissing, Enqueue, RejectUpload, RejectPut, PutAborted, RequestError, gcVars

\* What a multipart request does to them.
LEMMA HandlerKeepsFiles ==
    ASSUME MpInv, NEW r \in PartRequests, BeginPart(r) \/ BeginFinish(r) \/ HandlerStep(r)
    PROVE  UNCHANGED <<stranded, gc>> /\ (files \subseteq files' \/ CleanupUnlink(r))
  <1>1. CASE BeginPart(r) \/ BeginFinish(r) \/ PartMoves(r) \/ CompleteMoves(r) \/ ListMoves(r)
    <2>1. UNCHANGED <<vars, uploads>>
      BY <1>1, BeginsOK, PartMovesOK, CompleteMovesOK, ListMovesOK
    <2> QED
      BY <2>1 DEF vars, gcVars
  <1>2. CASE FileMoves(r)
    BY <1>2, FileMovesOK
  <1>3. CASE PartOverwrite(r) \/ PartUpsert(r)
    <2>1. PartStored(r)
      BY <1>3, PartStoredOK
    <2> QED
      BY <2>1 DEF PartStored, gcVars
  <1>4. CASE CompleteFast(r) \/ CompleteOverwrite(r) \/ CompleteUpsert(r)
    <2>1. ObjectStored(r)
      BY <1>4, ObjectStoredOK
    <2> QED
      BY <2>1 DEF ObjectStored, gcVars
  <1>5. CASE ReleasePart(r) \/ DropUpload(r)
    BY <1>5 DEF ReleasePart, DropUpload, gcVars
  <1> QED
    BY <1>1, <1>2, <1>3, <1>4, <1>5, HandlerSteps

\* Whatever fails and however requests, collector and crashes interleave, the
\* bytes of a content that an object or a part refers to leave the disk by the
\* unlink of CleanupUnreferencedCas, or because they were in a quarantined file
\* the collector had already decided to unlink; and it decides so of no bytes
\* that a row refers to.
THEOREM BytesLeaveTwoWays == MultipartSpec => ReferencedBytesLeaveTwoWays
  <1> DEFINE Stays(c) == /\ OnDisk(c) => OnDisk(c)' \/ CleanupUnlinks(c) \/ Condemned(c)
                         /\ Kept(c) => Kept(c)' \/ CleanupUnlinks(c)
  <1>1. MpInv /\ [MultipartNext]_allVars =>
          [\A c \in Content : References(c) > 0 => Stays(c)]_allVars
    <2> SUFFICES ASSUME MpInv, MultipartNext, NEW c \in Content, References(c) > 0
                 PROVE  Stays(c)
      OBVIOUS
    <2>1. CASE \E u \in Uploads : InitUpload(u)
      <3>1. UNCHANGED <<files, stranded, gc>>
        BY <2>1 DEF InitUpload, vars, gcVars
      <3> QED
        BY <3>1, SameQuarantine
    <2>2. ASSUME NEW r \in PartRequests, BeginPart(r) \/ BeginFinish(r) \/ HandlerStep(r)
          PROVE  Stays(c)
      <3>1. UNCHANGED <<stranded, gc>> /\ (files \subseteq files' \/ CleanupUnlink(r))
        BY <2>2, HandlerKeepsFiles
      <3>2. CASE c \in files => c \in files'
        BY <3>1, <3>2, SameQuarantine
      <3>3. CASE c \in files /\ c \notin files'
        <4>1. CleanupUnlink(r)
          BY <3>1, <3>3
        <4>2. mp[r].pc = "unlink" /\ mp[r].cas = c
          BY <3>3, <4>1 DEF CleanupUnlink
        <4>3. mp'[r].pc = "done"
          BY <4>1, FinishEnds DEF CleanupUnlink, MpInv, Ended
        <4> QED
          BY <4>2, <4>3 DEF CleanupUnlinks
      <3> QED
        BY <3>2, <3>3
    <2>3. CASE \E r \in Requests : RequestStep(r)
      BY <2>3, RequestKeepsFiles, SameQuarantine
    <2>4. CASE CollectorStep
      <3>1. Kept(c) => Kept(c)'
        BY <2>4, CollectorKeepsBytes, NoReferences DEF MpInv
      <3>2. OnDisk(c) => OnDisk(c)' \/ Condemned(c)
        BY <2>4, CollectorUnlinksCondemned DEF MpInv
      <3> QED
        BY <3>1, <3>2
    <2>5. CASE MultipartCrash
      <3>1. files' = files /\ stranded' = IF gc.moved THEN stranded \cup {GCKey} ELSE stranded
        BY <2>5 DEF MultipartCrash, Crash, GCCrash
      <3> QED
        BY <3>1 DEF OnDisk, Kept, InQuarantine
    <2> QED
      BY <2>1, <2>2, <2>3, <2>4, <2>5 DEF MultipartNext
  <1> QED
    BY <1>1, MpInvInitially, MpInvKept, PTL DEF MultipartSpec, ReferencedBytesLeaveTwoWays

----------------------------------------------------------------------------
(***************************************************************************)
(* The counts, when clients finish an upload once, after its parts.        *)
(***************************************************************************)

LEMMA PartSetsNat ==
    ASSUME NEW c
    PROVE  /\ LiveParts(c) \in SUBSET PartIds /\ IsFiniteSet(LiveParts(c))
           /\ Cardinality(LiveParts(c)) \in Nat
           /\ Owed(c) \in SUBSET PartIds /\ IsFiniteSet(Owed(c)) /\ Cardinality(Owed(c)) \in Nat
  <1>1. LiveParts(c) \in SUBSET PartIds /\ Owed(c) \in SUBSET PartIds
    BY DEF LiveParts, PartRefs, Owed
  <1>2. IsFiniteSet(LiveParts(c)) /\ IsFiniteSet(Owed(c))
    BY <1>1, FS_Subset, TablesAssumption
  <1> QED
    BY <1>1, <1>2, FS_CardinalityType

\* The sets of the next state are as finite as those of this one.
LEMMA PartSetsNatNext ==
    ASSUME NEW c
    PROVE  /\ Cardinality(LiveParts(c))' \in Nat /\ IsFiniteSet(LiveParts(c)')
           /\ Cardinality(Owed(c))' \in Nat /\ IsFiniteSet(Owed(c)')
           /\ Cardinality(ObjectRefs(c))' \in Nat
  <1>1. LiveParts(c)' \in SUBSET PartIds /\ Owed(c)' \in SUBSET PartIds
        /\ ObjectRefs(c)' \in SUBSET Slots
    BY DEF LiveParts, PartRefs, Owed, ObjectRefs
  <1>2. IsFiniteSet(LiveParts(c)') /\ IsFiniteSet(Owed(c)') /\ IsFiniteSet(ObjectRefs(c)')
    BY <1>1, FS_Subset, TablesAssumption
  <1> QED
    BY <1>2, FS_CardinalityType

\* Each step lets the count of a content follow what it has to cover.
LEMMA CountsFollow ==
    ASSUME MpInv, MpInv', CountsCoverOwed,
           \A x \in Content :
              Cardinality(ObjectRefs(x))' + Cardinality(LiveParts(x))' + Cardinality(Owed(x))'
                 + refCount[x]
              <= Cardinality(ObjectRefs(x)) + Cardinality(LiveParts(x)) + Cardinality(Owed(x))
                 + refCount'[x]
    PROVE  CountsCoverOwed'
  <1> SUFFICES ASSUME NEW x \in Content
               PROVE  Cardinality(ObjectRefs(x))' + Cardinality(LiveParts(x))'
                         + Cardinality(Owed(x))' <= refCount'[x]
    BY DEF CountsCoverOwed
  <1>1. refCount[x] \in Nat /\ refCount'[x] \in Nat
    BY DEF MpInv, TypeOK, MetaTypeOK
  <1>2. /\ Cardinality(ObjectRefs(x)) \in Nat /\ Cardinality(LiveParts(x)) \in Nat
        /\ Cardinality(Owed(x)) \in Nat
    BY ReferencesNat, PartSetsNat
  <1>3. /\ Cardinality(ObjectRefs(x))' \in Nat /\ Cardinality(LiveParts(x))' \in Nat
        /\ Cardinality(Owed(x))' \in Nat
    BY PartSetsNatNext
  <1>4. Cardinality(ObjectRefs(x)) + Cardinality(LiveParts(x)) + Cardinality(Owed(x)) <= refCount[x]
    BY DEF CountsCoverOwed
  <1> QED
    BY <1>1, <1>2, <1>3, <1>4

\* A transaction on objects moves the count of each content with its objects.
LEMMA ObjectCounts ==
    ASSUME MpInv, MpInv', partCas' = partCas,
           \/ \E k \in Keys, c \in Content :
                 InsertObject(k, c) \/ OverwriteObject(k, c) \/ UpsertObject(k, c)
           \/ \E k \in Keys : RemoveObject(k)
           \/ UNCHANGED metaVars,
           NEW x \in Content
    PROVE  Cardinality(ObjectRefs(x))' + refCount[x] <= Cardinality(ObjectRefs(x)) + refCount'[x]
  <1> DEFINE o == Cardinality(ObjectRefs(x))
             o2 == Cardinality(ObjectRefs(x))'
  <1> SUFFICES o2 + refCount[x] <= o + refCount'[x]
    OBVIOUS
  <1>1. MetaTypeOK /\ refCount \in [Content -> Nat] /\ refCount' \in [Content -> Nat]
    BY DEF MpInv, TypeOK, MetaTypeOK
  <1>2. o \in Nat /\ o2 \in Nat
    BY ReferencesNat, PartSetsNatNext
  <1>3. ASSUME NEW k \in Keys, NEW c \in Content \cup {None},
               objCas' = [objCas EXCEPT ![SlotOf[k]] = c]
        PROVE  o2 = IF objCas[SlotOf[k]] = c THEN o
                    ELSE IF x = c THEN o + 1
                    ELSE IF x = objCas[SlotOf[k]] THEN o - 1 ELSE o
    <2>1. SlotOf[k] \in Slots
      BY TablesAssumption
    <2>2. References(x)' = IF objCas[SlotOf[k]] = c THEN References(x)
                           ELSE IF x = c THEN References(x) + 1
                           ELSE IF x = objCas[SlotOf[k]] THEN References(x) - 1
                           ELSE References(x)
      BY <1>1, <1>3, <2>1, MoveReference
    <2>3. PartRefs(x)' = PartRefs(x)
      BY DEF PartRefs
    <2>4. References(x) = o + Cardinality(PartRefs(x)) /\ References(x)' = o2 + Cardinality(PartRefs(x))
      BY <2>3 DEF References
    <2>5. Cardinality(PartRefs(x)) \in Nat
      BY ReferencesNat
    <2> HIDE DEF o, o2
    <2> QED
      BY <1>2, <2>2, <2>4, <2>5
  <1>4. CASE \E k \in Keys, c \in Content :
                InsertObject(k, c) \/ OverwriteObject(k, c) \/ UpsertObject(k, c)
    <2>1. PICK k \in Keys, c \in Content :
             InsertObject(k, c) \/ OverwriteObject(k, c) \/ UpsertObject(k, c)
      BY <1>4
    <2> DEFINE old == objCas[SlotOf[k]]
    <2>2. objCas' = [objCas EXCEPT ![SlotOf[k]] = c]
      BY <2>1 DEF InsertObject, OverwriteObject, UpsertObject
    <2>3. o2 = IF old = c THEN o ELSE IF x = c THEN o + 1 ELSE IF x = old THEN o - 1 ELSE o
      BY <1>3, <2>2
    <2>4. CASE InsertObject(k, c) \/ UpsertObject(k, c)
      <3>1. refCount' = Increment(refCount, c)
        BY <2>4 DEF InsertObject, UpsertObject
      <3>2. refCount'[x] = IF x = c THEN refCount[x] + 1 ELSE refCount[x]
        BY <1>1, <3>1 DEF Increment
      <3> HIDE DEF o, o2, old
      <3> QED
        BY <1>1, <1>2, <2>3, <3>2
    <2>5. CASE OverwriteObject(k, c)
      <3>1. /\ Found(k)
            /\ refCount' = IF old = c THEN refCount ELSE Decrement(Increment(refCount, c), old)
        BY <2>5 DEF OverwriteObject
      <3>2. old \in Content
        BY <1>1, <3>1, CandidateType
      <3> HIDE DEF old
      <3>3. CASE old = c
        <4>1. refCount'[x] = refCount[x]
          BY <3>1, <3>3
        <4> HIDE DEF o, o2
        <4> QED
          BY <1>1, <1>2, <2>3, <3>3, <4>1
      <3>4. CASE old # c
        <4>1. /\ x = c => refCount'[x] = refCount[x] + 1
              /\ x = old => refCount'[x] >= refCount[x] - 1
              /\ x \notin {c, old} => refCount'[x] = refCount[x]
          BY <1>1, <3>1, <3>2, <3>4 DEF Increment, Decrement
        <4> HIDE DEF o, o2
        <4> QED
          BY <1>1, <1>2, <2>3, <3>4, <4>1
      <3> QED
        BY <3>3, <3>4
    <2> QED
      BY <2>1, <2>4, <2>5
  <1>5. CASE \E k \in Keys : RemoveObject(k)
    <2>1. PICK k \in Keys : RemoveObject(k)
      BY <1>5
    <2> DEFINE old == objCas[SlotOf[k]]
    <2>2. /\ Found(k) /\ objCas' = [objCas EXCEPT ![SlotOf[k]] = None]
          /\ refCount' = Decrement(refCount, old)
      BY <2>1 DEF RemoveObject
    <2>3. old \in Content /\ x # None /\ old # None
      BY <1>1, <2>2, CandidateType, TablesAssumption
    <2>4. o2 = IF x = old THEN o - 1 ELSE o
      BY <1>3, <2>2, <2>3
    <2>5. refCount'[x] = IF x = old THEN (IF refCount[x] > 0 THEN refCount[x] - 1 ELSE 0) ELSE refCount[x]
      BY <1>1, <2>2, <2>3 DEF Decrement
    <2> HIDE DEF o, o2, old
    <2> QED
      BY <1>1, <1>2, <2>4, <2>5
  <1>6. CASE UNCHANGED metaVars
    <2>1. ObjectRefs(x)' = ObjectRefs(x) /\ refCount'[x] = refCount[x]
      BY <1>6 DEF metaVars, ObjectRefs
    <2> QED
      BY <1>1, <1>2, <2>1
  <1> QED
    BY <1>4, <1>5, <1>6

\* What is owed depends on the requests that release; what is live, on the parts
\* and on the uploads they release.
LEMMA SameParts ==
    ASSUME mp \in [PartRequests -> PartRequest], NEW r \in PartRequests, MpRest(r),
           partCas' = partCas,
           \/ mp[r].pc \notin ReleasePcs /\ mp'[r].pc \notin ReleasePcs
           \/ /\ mp[r].pc \in ReleasePcs /\ mp'[r].pc \in ReleasePcs /\ mp'[r].up = mp[r].up
              /\ ToRelease(mp'[r]) = ToRelease(mp[r])
              /\ \A j \in 1 .. ToRelease(mp[r]) : FromEnd(mp'[r].list, j) = FromEnd(mp[r].list, j),
           NEW x
    PROVE  LiveParts(x)' = LiveParts(x) /\ Owed(x)' = Owed(x)
  <1>1. \A q \in PartRequests \ {r} : mp'[q] = mp[q]
    BY DEF MpRest
  <1>2. ASSUME NEW q \in PartRequests, NEW p \in PartIds
        PROVE  /\ (mp'[q].up = p[1] /\ mp'[q].pc \in ReleasePcs)
                    <=> (mp[q].up = p[1] /\ mp[q].pc \in ReleasePcs)
               /\ (mp'[q].up = p[1] /\ p[2] \in 1 .. ToRelease(mp'[q])
                     /\ FromEnd(mp'[q].list, p[2]) = x)
                    <=> (mp[q].up = p[1] /\ p[2] \in 1 .. ToRelease(mp[q])
                           /\ FromEnd(mp[q].list, p[2]) = x)
    <2>1. CASE q # r
      BY <1>1, <2>1
    <2>2. CASE q = r /\ mp[r].pc \notin ReleasePcs /\ mp'[r].pc \notin ReleasePcs
      <3>1. ToRelease(mp[r]) = 0 /\ ToRelease(mp'[r]) = 0
        BY <2>2 DEF ToRelease, ReleasePcs
      <3>2. ~(p[2] \in 1 .. 0)
        OBVIOUS
      <3> QED
        BY <2>2, <3>1, <3>2
    <2>3. CASE q = r /\ mp[r].pc \in ReleasePcs
      BY <2>3
    <2> QED
      BY <2>1, <2>2, <2>3
  <1>3. LiveParts(x)' = LiveParts(x)
    BY <1>2 DEF LiveParts, PartRefs, ReleasePcs
  <1>4. Owed(x)' = Owed(x)
    <2>1. Owed(x)' = {p \in PartIds : \E q \in PartRequests :
                        /\ mp'[q].up = p[1]
                        /\ p[2] \in 1 .. ToRelease(mp'[q])
                        /\ FromEnd(mp'[q].list, p[2]) = x}
      BY DEF Owed, ToRelease, FromEnd
    <2> QED
      BY <1>2, <2>1 DEF Owed
  <1> QED
    BY <1>3, <1>4

LEMMA ListPartsSame ==
    ASSUME NEW u \in Uploads,
           \A p \in PartIds : p[1] = u => partCas'[p] = partCas[p]
    PROVE  ListParts(u)' = ListParts(u)
  <1>1. \A n \in 1 .. MaxParts : partCas'[<<u, n>>] = partCas[<<u, n>>]
    BY UploadsAssumption
  <1>2. PartNumbers(u)' = PartNumbers(u)
    BY <1>1 DEF PartNumbers
  <1> DEFINE ns == PartNumbers(u)
             num(i) == CHOOSE n \in ns : Rank(ns, n) = i
  <1>3. \A i \in 1 .. Cardinality(ns) : num(i) \in 1 .. MaxParts
    <2>1. ns \in SUBSET (1 .. MaxParts)
      BY DEF PartNumbers
    <2> HIDE DEF ns
    <2> QED
      BY <2>1, NumberOfRank
  <1>4. ListParts(u) = [i \in 1 .. Cardinality(ns) |-> partCas[<<u, num(i)>>]]
    BY DEF ListParts
  <1>5. ListParts(u)' = [i \in 1 .. Cardinality(ns) |-> partCas'[<<u, num(i)>>]]
    BY <1>2 DEF ListParts, Rank
  <1> HIDE DEF ns, num
  <1> QED
    BY <1>1, <1>3, <1>4, <1>5

\* A request that goes on, or is answered, leaves the finishers alone.
LEMMA AloneKept ==
    ASSUME FinisherIsAlone, NEW r \in PartRequests, MpRest(r),
           mp'[r].op = mp[r].op, mp'[r].up = mp[r].up, mp[r].pc \notin {"new", "done"}
    PROVE  FinisherIsAlone'
  <1> SUFFICES ASSUME NEW a \in PartRequests, NEW b \in PartRequests, a # b,
                      mp'[a].op \in {"complete", "abort"}, mp'[b].up = mp'[a].up
               PROVE  mp'[b].pc \in {"new", "done"} /\ mp'[b].op \notin {"complete", "abort"}
    BY DEF FinisherIsAlone
  <1>1. \A q \in PartRequests : mp'[q].op = mp[q].op /\ mp'[q].up = mp[q].up
    BY DEF MpRest
  <1>2. mp[b].pc \in {"new", "done"} /\ mp[b].op \notin {"complete", "abort"}
    BY <1>1 DEF FinisherIsAlone
  <1>3. b # r
    BY <1>2
  <1> QED
    BY <1>2, <1>3 DEF MpRest

LEMMA AloneBegins ==
    ASSUME FinisherIsAlone, Sequential, NEW r \in PartRequests, Begun(r)
    PROVE  FinisherIsAlone'
  <1> SUFFICES ASSUME NEW a \in PartRequests, NEW b \in PartRequests, a # b,
                      mp'[a].op \in {"complete", "abort"}, mp'[b].up = mp'[a].up
               PROVE  mp'[b].pc \in {"new", "done"} /\ mp'[b].op \notin {"complete", "abort"}
    BY DEF FinisherIsAlone
  <1>1. \A q \in PartRequests \ {r} : mp'[q] = mp[q]
    BY DEF Begun, MpRest
  <1>2. CASE a # r /\ b # r
    BY <1>1, <1>2 DEF FinisherIsAlone
  <1>3. CASE a = r
    <2>1. mp'[r].op # "part"
      BY <1>3
    <2>2. ~Finishes(b, mp'[r].up) /\ ~(Active(b) /\ mp[b].up = mp'[r].up)
      BY <2>1 DEF Begun
    <2> QED
      BY <1>1, <1>3, <2>2 DEF Finishes, Active
  <1>4. CASE b = r
    <2>1. ~Finishes(a, mp'[r].up)
      BY DEF Begun
    <2> QED
      BY <1>1, <1>4, <2>1 DEF Finishes
  <1> QED
    BY <1>2, <1>3, <1>4

\* One finisher is the only one to release its upload.
LEMMA OnlyFinisher ==
    ASSUME MpInv, FinisherIsAlone, NEW r \in PartRequests, NEW q \in PartRequests,
           q # r, mp[q].up = mp[r].up, mp[q].pc \in FinishPcs
    PROVE  mp[r].pc \in {"new", "done"}
  <1>1. mp[q].op \in {"complete", "abort"}
    BY MpFacts DEF MpShape
  <1> QED
    BY <1>1 DEF FinisherIsAlone

\* What a list says stays true when the rows of its upload stay.
LEMMA ListsKept ==
    ASSUME MpInv, ListIsCurrent, NEW q \in PartRequests, mp'[q] = mp[q],
           mp[q].pc \in MergePcs \cup ReleasePcs =>
              \A p \in PartIds : p[1] = mp[q].up => partCas'[p] = partCas[p]
    PROVE  /\ mp'[q].pc \in MergePcs => mp'[q].list = ListParts(mp[q].up)'
           /\ mp'[q].pc \in ReleasePcs =>
                 \A i \in 1 .. Len(mp'[q].list) :
                    \E p \in PartIds : p[1] = mp'[q].up /\ partCas'[p] = mp'[q].list[i]
  <1>1. MpShape(mp[q])
    BY MpFacts
  <1>2. CASE mp[q].pc \in MergePcs
    <2>1. mp[q].up \in Uploads /\ "merge" \notin ReleasePcs
      BY <1>1, <1>2 DEF MpShape, FinishPcs, ReleasePcs
    <2>2. ListParts(mp[q].up)' = ListParts(mp[q].up)
      <3> DEFINE u == mp[q].up
      <3>1. u' = u
        OBVIOUS
      <3>2. u \in Uploads /\ \A p \in PartIds : p[1] = u => partCas'[p] = partCas[p]
        BY <1>2, <2>1
      <3>3. PICK v \in Uploads : v = u
        BY <3>2
      <3>4. ListParts(v)' = ListParts(v)
        BY <3>2, <3>3, ListPartsSame
      <3> QED
        BY <3>1, <3>3, <3>4
    <2>3. mp[q].pc \notin ReleasePcs
      BY <1>2 DEF MergePcs, ReleasePcs
    <2> QED
      BY <1>2, <2>2, <2>3 DEF ListIsCurrent
  <1>3. CASE mp[q].pc \in ReleasePcs
    <2>1. mp[q].pc \notin MergePcs
      BY <1>3 DEF MergePcs, ReleasePcs
    <2> QED
      BY <1>3, <2>1 DEF ListIsCurrent
  <1> QED
    BY <1>2, <1>3

\* The rows of an upload with content x, and the entries of a list with it.
RowsOf(u, x) == {p \in PartIds : p[1] = u /\ partCas[p] = x}
EntriesOf(u, l, x) ==
    {p \in PartIds : p[1] = u /\ p[2] \in 1 .. Len(l) /\ FromEnd(l, p[2]) = x}

\* A list of the parts has no more entries with content x than there are rows.
LEMMA EntriesAreRows ==
    ASSUME NEW u \in Uploads, \A p \in PartIds : partCas[p] \in PartContent \cup {None},
           NEW x, NEW l, l = ListParts(u)
    PROVE  /\ IsFiniteSet(RowsOf(u, x)) /\ Cardinality(RowsOf(u, x)) \in Nat
           /\ IsFiniteSet(EntriesOf(u, l, x)) /\ Cardinality(EntriesOf(u, l, x)) \in Nat
           /\ Cardinality(EntriesOf(u, l, x)) <= Cardinality(RowsOf(u, x))
  <1> DEFINE A == RowsOf(u, x)
             B == EntriesOf(u, l, x)
  <1>a. /\ A \in SUBSET PartIds /\ B \in SUBSET PartIds
        /\ \A p \in PartIds : p \in A <=> p[1] = u /\ partCas[p] = x
        /\ \A p \in B : p[1] = u /\ p[2] \in 1 .. Len(l) /\ FromEnd(l, p[2]) = x
    BY DEF RowsOf, EntriesOf
  <1> SUFFICES /\ IsFiniteSet(A) /\ IsFiniteSet(B) /\ Cardinality(A) \in Nat
               /\ Cardinality(B) \in Nat /\ Cardinality(B) <= Cardinality(A)
    OBVIOUS
  <1> HIDE DEF A, B
  <1> USE <1>a
  <1> DEFINE n == Len(l)
  <1>1. l \in Seq(PartContent) /\ n \in Nat /\ n <= MaxParts
    BY ListPartsOK
  <1>2. PICK f \in [1 .. n -> 1 .. MaxParts] :
          /\ \A i, j \in 1 .. n : f[i] = f[j] => i = j
          /\ \A i \in 1 .. n : <<u, f[i]>> \in PartIds /\ partCas[<<u, f[i]>>] = l[i]
    BY ListPartsOK
  <1>4. \A p \in B : /\ p = <<u, p[2]>> /\ p[2] \in 1 .. n /\ n + 1 - p[2] \in 1 .. n
                     /\ l[n + 1 - p[2]] = x
    <2> SUFFICES ASSUME NEW p \in B
                 PROVE  /\ p = <<u, p[2]>> /\ p[2] \in 1 .. n /\ n + 1 - p[2] \in 1 .. n
                        /\ l[n + 1 - p[2]] = x
      OBVIOUS
    <2>1. p \in Uploads \X (1 .. MaxParts) /\ p[1] = u
      BY UploadsAssumption
    <2>2. p = <<u, p[2]>>
      BY <2>1
    <2>3. p[2] \in 1 .. n /\ FromEnd(l, p[2]) = x
      OBVIOUS
    <2>4. n + 1 - p[2] \in 1 .. n
      BY <1>1, <2>3
    <2> QED
      BY <2>2, <2>3, <2>4 DEF FromEnd
  <1> DEFINE g == [p \in B |-> <<u, f[n + 1 - p[2]]>>]
  <1>5. g \in [B -> A]
    <2> SUFFICES ASSUME NEW p \in B PROVE <<u, f[n + 1 - p[2]]>> \in A
      OBVIOUS
    <2>1. n + 1 - p[2] \in 1 .. n /\ l[n + 1 - p[2]] = x
      BY <1>4
    <2>2. /\ <<u, f[n + 1 - p[2]]>> \in PartIds
          /\ partCas[<<u, f[n + 1 - p[2]]>>] = x
      BY <1>2, <2>1
    <2> QED
      BY <2>2
  <1>6. ASSUME NEW p \in B, NEW q \in B, g[p] = g[q] PROVE p = q
    <2>1. f[n + 1 - p[2]] = f[n + 1 - q[2]]
      BY <1>6
    <2>2. n + 1 - p[2] = n + 1 - q[2]
      BY <1>2, <1>4, <2>1
    <2>3. p[2] = q[2]
      BY <1>1, <1>4, <2>2
    <2> QED
      BY <1>4, <2>3
  <1> HIDE DEF g
  <1>7. IsFiniteSet(A) /\ IsFiniteSet(B)
    BY FS_Subset, TablesAssumption
  <1>8. Cardinality(A) \in Nat /\ Cardinality(B) \in Nat
    BY <1>7, FS_CardinalityType
  <1>9. ~(Cardinality(A) < Cardinality(B))
    BY <1>5, <1>6, <1>7, FS_PigeonHole
  <1>10. Cardinality(B) <= Cardinality(A)
    BY <1>8, <1>9
  <1> QED
    BY <1>7, <1>8, <1>10

\* A request begins to release the parts that it has listed.
LEMMA ReleaseBegins ==
    ASSUME MpInv, FinisherIsAlone, NEW r \in PartRequests, MpRest(r), partCas' = partCas,
           mp[r].pc \in FinishPcs \ ReleasePcs, mp'[r].pc = "release", mp'[r].up = mp[r].up,
           mp'[r].list = ListParts(mp[r].up), NEW x \in Content
    PROVE  Cardinality(LiveParts(x))' + Cardinality(Owed(x))'
              <= Cardinality(LiveParts(x)) + Cardinality(Owed(x))
  <1> DEFINE u == mp[r].up
             l == ListParts(u)
             A == RowsOf(u, x)
             B == EntriesOf(u, l, x)
             L == LiveParts(x)
             W == Owed(x)
             L2 == LiveParts(x)'
             W2 == Owed(x)'
  <1>1. mp[r].pc \notin ReleasePcs /\ mp[r].pc \notin {"new", "done"} /\ u \in Uploads
    BY MpFacts DEF MpShape, FinishPcs, ReleasePcs, MergePcs
  <1>2. \A q \in PartRequests : q # r /\ mp[q].up = u => mp[q].pc \notin ReleasePcs
    BY <1>1, OnlyFinisher DEF FinishPcs
  <1>3. A \subseteq L
    <2> SUFFICES ASSUME NEW p \in A PROVE p \in L
      OBVIOUS
    <2>1. p \in PartRefs(x) /\ p[1] = u
      BY DEF PartRefs, RowsOf
    <2>2. \A q \in PartRequests : ~(mp[q].up = p[1] /\ mp[q].pc \in ReleasePcs)
      BY <1>1, <1>2, <2>1
    <2> QED
      BY <2>1, <2>2 DEF LiveParts, ReleasePcs
  <1>4. L2 \subseteq L \ A
    <2> SUFFICES ASSUME NEW p \in L2 PROVE p \in L \ A
      OBVIOUS
    <2>1. p \in PartRefs(x) /\ p[1] # u
      BY DEF LiveParts, PartRefs
    <2>2. \A q \in PartRequests : ~(mp'[q].up = p[1] /\ mp'[q].pc \in ReleasePcs)
      BY DEF LiveParts, ReleasePcs
    <2>3. \A q \in PartRequests : ~(mp[q].up = p[1] /\ mp[q].pc \in ReleasePcs)
      BY <1>1, <2>2 DEF MpRest
    <2> QED
      BY <2>1, <2>3 DEF LiveParts, ReleasePcs, RowsOf
  <1>5. W2 \subseteq W \cup B
    <2> SUFFICES ASSUME NEW p \in W2, p \notin B PROVE p \in W
      OBVIOUS
    <2>1. PICK q \in PartRequests : /\ mp'[q].up = p[1]
                                    /\ p[2] \in 1 .. ToRelease(mp'[q])
                                    /\ FromEnd(mp'[q].list, p[2]) = x
      BY DEF Owed, ToRelease, FromEnd
    <2>2. p \in PartIds
      BY DEF Owed
    <2>3. q # r
      <3>1. ToRelease(mp'[r]) = Len(l)
        BY DEF ToRelease
      <3> QED
        BY <2>1, <2>2, <3>1 DEF EntriesOf
    <2>4. mp'[q] = mp[q]
      BY <2>3 DEF MpRest
    <2> QED
      BY <2>1, <2>2, <2>4 DEF Owed
  <1>6. /\ IsFiniteSet(A) /\ IsFiniteSet(B) /\ Cardinality(A) \in Nat
        /\ Cardinality(B) \in Nat /\ Cardinality(B) <= Cardinality(A)
    <2>1. \A p \in PartIds : partCas[p] \in PartContent \cup {None}
      BY DEF MpInv, PartsOK
    <2>2. l = ListParts(u) /\ u \in Uploads
      BY <1>1
    <2> HIDE DEF u, l
    <2> QED
      BY <2>1, <2>2, EntriesAreRows
  <1>7. /\ IsFiniteSet(L) /\ IsFiniteSet(W) /\ Cardinality(L) \in Nat /\ Cardinality(W) \in Nat
    BY PartSetsNat
  <1>8. Cardinality(L2) \in Nat /\ Cardinality(W2) \in Nat
    BY PartSetsNatNext
  <1> SUFFICES Cardinality(L2) + Cardinality(W2) <= Cardinality(L) + Cardinality(W)
    OBVIOUS
  <1> HIDE DEF A, B, L, W, L2, W2, l
  <1>9. Cardinality(L2) <= Cardinality(L) - Cardinality(A)
    <2>1. L \cap A = A
      BY <1>3
    <2>2. IsFiniteSet(L \ A) /\ Cardinality(L \ A) = Cardinality(L) - Cardinality(A)
      BY <1>7, <2>1, FS_Difference
    <2>3. Cardinality(L2) <= Cardinality(L \ A)
      BY <1>4, <2>2, FS_Subset
    <2> QED
      BY <2>2, <2>3
  <1>10. Cardinality(W2) <= Cardinality(W) + Cardinality(B)
    <2>1. /\ IsFiniteSet(W \cup B)
          /\ Cardinality(W \cup B) = Cardinality(W) + Cardinality(B) - Cardinality(W \cap B)
      BY <1>6, <1>7, FS_Union
    <2>2. Cardinality(W \cap B) \in Nat
      <3>1. IsFiniteSet(W \cap B)
        BY <1>7, FS_Intersection
      <3> QED
        BY <3>1, FS_CardinalityType
    <2>3. Cardinality(W2) <= Cardinality(W \cup B)
      BY <1>5, <2>1, FS_Subset
    <2> QED
      BY <1>6, <1>7, <1>8, <2>1, <2>2, <2>3
  <1> QED
    BY <1>6, <1>7, <1>8, <1>9, <1>10

\* A step of a request that leaves the parts as they are.
LEMMA StepKeepsCounts ==
    ASSUME MpInv, MpInv', CountInv, NEW r \in PartRequests, MpRest(r), partCas' = partCas,
           mp'[r].op = mp[r].op, mp'[r].up = mp[r].up, mp[r].pc \notin {"new", "done"},
           mp'[r].pc \in MergePcs => mp'[r].list = ListParts(mp[r].up),
           mp'[r].pc \in ReleasePcs =>
              \A i \in 1 .. Len(mp'[r].list) :
                 \E p \in PartIds : p[1] = mp[r].up /\ partCas[p] = mp'[r].list[i],
           \A x \in Content : Cardinality(ObjectRefs(x))' + refCount[x]
                                 <= Cardinality(ObjectRefs(x)) + refCount'[x],
           \/ mp[r].pc \notin ReleasePcs /\ mp'[r].pc \notin ReleasePcs
           \/ /\ mp[r].pc \in ReleasePcs /\ mp'[r].pc \in ReleasePcs
              /\ ToRelease(mp'[r]) = ToRelease(mp[r])
              /\ \A j \in 1 .. ToRelease(mp[r]) : FromEnd(mp'[r].list, j) = FromEnd(mp[r].list, j)
           \/ /\ mp[r].pc \in FinishPcs \ ReleasePcs /\ mp'[r].pc = "release"
              /\ mp'[r].list = ListParts(mp[r].up)
    PROVE  CountInv'
  <1> USE DEF CountInv
  <1>1. FinisherIsAlone'
    BY AloneKept
  <1>2. ListIsCurrent'
    <2> SUFFICES ASSUME NEW q \in PartRequests
                 PROVE  /\ mp'[q].pc \in MergePcs => mp'[q].list = ListParts(mp[q].up)'
                        /\ mp'[q].pc \in ReleasePcs =>
                              \A i \in 1 .. Len(mp'[q].list) :
                                 \E p \in PartIds : p[1] = mp'[q].up /\ partCas'[p] = mp'[q].list[i]
      BY DEF ListIsCurrent
    <2>1. CASE q # r
      <3>1. mp'[q] = mp[q]
        BY <2>1 DEF MpRest
      <3> QED
        BY <3>1, ListsKept
    <2>2. CASE q = r
      <3>1. ListParts(mp[r].up)' = ListParts(mp[r].up)
        BY DEF ListParts, PartNumbers, Rank
      <3> QED
        BY <2>2, <3>1
    <2> QED
      BY <2>1, <2>2
  <1>3. \A x \in Content : Cardinality(LiveParts(x))' + Cardinality(Owed(x))'
                              <= Cardinality(LiveParts(x)) + Cardinality(Owed(x))
    <2> SUFFICES ASSUME NEW x \in Content
                 PROVE  Cardinality(LiveParts(x))' + Cardinality(Owed(x))'
                           <= Cardinality(LiveParts(x)) + Cardinality(Owed(x))
      OBVIOUS
    <2>1. CASE \/ mp[r].pc \notin ReleasePcs /\ mp'[r].pc \notin ReleasePcs
               \/ mp[r].pc \in ReleasePcs
      <3>1. mp \in [PartRequests -> PartRequest]
        BY DEF MpInv
      <3>2. LiveParts(x)' = LiveParts(x) /\ Owed(x)' = Owed(x)
        BY <2>1, <3>1, SameParts
      <3> QED
        BY <3>2, PartSetsNat
    <2>2. CASE /\ mp[r].pc \in FinishPcs \ ReleasePcs /\ mp'[r].pc = "release"
               /\ mp'[r].list = ListParts(mp[r].up)
      BY <2>2, ReleaseBegins
    <2> QED
      BY <2>1, <2>2
  <1>4. CountsCoverOwed'
    <2> SUFFICES ASSUME NEW x \in Content
                 PROVE  Cardinality(ObjectRefs(x))' + Cardinality(LiveParts(x))' + Cardinality(Owed(x))'
                           + refCount[x]
                        <= Cardinality(ObjectRefs(x)) + Cardinality(LiveParts(x)) + Cardinality(Owed(x))
                           + refCount'[x]
      BY CountsFollow
    <2>1. refCount[x] \in Nat /\ refCount'[x] \in Nat
      BY DEF MpInv, TypeOK, MetaTypeOK
    <2>2. /\ Cardinality(ObjectRefs(x)) \in Nat /\ Cardinality(LiveParts(x)) \in Nat
          /\ Cardinality(Owed(x)) \in Nat
      BY ReferencesNat, PartSetsNat
    <2>3. /\ Cardinality(ObjectRefs(x))' \in Nat /\ Cardinality(LiveParts(x))' \in Nat
          /\ Cardinality(Owed(x))' \in Nat
      BY PartSetsNatNext
    <2>4. Cardinality(ObjectRefs(x))' + refCount[x] <= Cardinality(ObjectRefs(x)) + refCount'[x]
      OBVIOUS
    <2>5. Cardinality(LiveParts(x))' + Cardinality(Owed(x))'
             <= Cardinality(LiveParts(x)) + Cardinality(Owed(x))
      BY <1>3
    <2> DEFINE o == Cardinality(ObjectRefs(x))
               l == Cardinality(LiveParts(x))
               w == Cardinality(Owed(x))
               m == refCount[x]
    <2>6. /\ {o, l, w, m, o', l', w', m'} \subseteq Nat
          /\ o' + m <= o + m' /\ l' + w' <= l + w
      BY <2>1, <2>2, <2>3, <2>4, <2>5
    <2> SUFFICES o' + l' + w' + m <= o + l + w + m'
      OBVIOUS
    <2> HIDE DEF o, l, w, m
    <2> QED
      BY <2>6
  <1> QED
    BY <1>1, <1>2, <1>4

\* What is to be released of an upload has rows.
LEMMA ListedHaveRows ==
    ASSUME MpInv, NEW u \in Uploads
    PROVE  \A i \in 1 .. Len(ListParts(u)) :
              \E p \in PartIds : p[1] = u /\ partCas[p] = ListParts(u)[i]
  <1> DEFINE l == ListParts(u)
  <1>1. PICK f \in [1 .. Len(l) -> 1 .. MaxParts] :
          \A i \in 1 .. Len(l) : <<u, f[i]>> \in PartIds /\ partCas[<<u, f[i]>>] = l[i]
    BY ListPartsOK DEF MpInv, PartsOK
  <1> QED
    BY <1>1

\* A release that is skipped: the reference stays counted and is owed no more.
LEMMA SkipKeepsCounts ==
    ASSUME MpInv, MpInv', CountInv, UNCHANGED <<metaVars, uploads>>, NEW r \in PartRequests,
           mp[r].pc = "release", mp[r].list # << >>,
           Became(r, "release", mp[r].cas, Tail(mp[r].list))
    PROVE  CountInv'
  <1> USE DEF CountInv
  <1> DEFINE t == mp[r]
             n == mp'[r]
  <1>1. partCas' = partCas /\ objCas' = objCas /\ refCount' = refCount
    BY DEF metaVars
  <1>2. /\ n.pc = "release" /\ n.op = t.op /\ n.up = t.up /\ n.list = Tail(t.list) /\ MpRest(r)
        /\ \A q \in PartRequests \ {r} : mp'[q] = mp[q]
    BY DEF Became, MpRest
  <1>3. t.list \in Seq(PartContent)
    BY MpFacts DEF MpShape
  <1>4. /\ Len(n.list) = Len(t.list) - 1 /\ Len(t.list) \in Nat \ {0}
        /\ \A i \in 1 .. Len(n.list) : n.list[i] = t.list[i + 1] /\ i + 1 \in 1 .. Len(t.list)
    BY <1>2, <1>3
  <1>5. ToRelease(n) = Len(t.list) - 1 /\ ToRelease(t) = Len(t.list)
    BY <1>2, <1>4 DEF ToRelease
  <1>6. ASSUME NEW j \in 1 .. ToRelease(n)
        PROVE  j \in 1 .. ToRelease(t) /\ FromEnd(n.list, j) = FromEnd(t.list, j)
    <2>1. Len(n.list) + 1 - j \in 1 .. Len(n.list) /\ j \in 1 .. ToRelease(t)
      BY <1>4, <1>5
    <2>2. n.list[Len(n.list) + 1 - j] = t.list[Len(n.list) + 1 - j + 1]
      BY <1>4, <2>1
    <2>3. Len(n.list) + 1 - j + 1 = Len(t.list) + 1 - j
      BY <1>4, <1>5
    <2> QED
      BY <2>1, <2>2, <2>3 DEF FromEnd
  <1>7. FinisherIsAlone'
    BY <1>2, AloneKept
  <1>8. ListIsCurrent'
    <2> SUFFICES ASSUME NEW q \in PartRequests
                 PROVE  /\ mp'[q].pc \in MergePcs => mp'[q].list = ListParts(mp[q].up)'
                        /\ mp'[q].pc \in ReleasePcs =>
                              \A i \in 1 .. Len(mp'[q].list) :
                                 \E p \in PartIds : p[1] = mp'[q].up /\ partCas'[p] = mp'[q].list[i]
      BY DEF ListIsCurrent
    <2>1. CASE q # r
      BY <1>1, <1>2, <2>1, ListsKept
    <2>2. CASE q = r
      <3>1. "release" \in ReleasePcs /\ "release" \notin MergePcs
        BY DEF ReleasePcs, MergePcs
      <3>2. \A i \in 1 .. Len(t.list) : \E p \in PartIds : p[1] = t.up /\ partCas[p] = t.list[i]
        BY <3>1 DEF ListIsCurrent
      <3>3. ASSUME NEW i \in 1 .. Len(n.list)
            PROVE  \E p \in PartIds : p[1] = n.up /\ partCas'[p] = n.list[i]
        BY <1>1, <1>2, <1>4, <3>2, <3>3
      <3>4. n.pc \notin MergePcs
        BY <1>2, <3>1
      <3> HIDE DEF n
      <3>5. n = mp'[q]
        BY <2>2 DEF n
      <3> QED
        BY <3>3, <3>4, <3>5
    <2> QED
      BY <2>1, <2>2
  <1>9. ASSUME NEW x \in Content
        PROVE  LiveParts(x)' = LiveParts(x) /\ Owed(x)' \subseteq Owed(x)
    <2>1. \A q \in PartRequests : mp'[q].up = mp[q].up /\ (mp'[q].pc \in ReleasePcs <=> mp[q].pc \in ReleasePcs)
      BY <1>2 DEF ReleasePcs
    <2>2. LiveParts(x)' = LiveParts(x)
      BY <1>1, <2>1 DEF LiveParts, PartRefs, ReleasePcs
    <2>3. Owed(x)' = {p \in PartIds : \E q \in PartRequests :
                        /\ mp'[q].up = p[1]
                        /\ p[2] \in 1 .. ToRelease(mp'[q])
                        /\ FromEnd(mp'[q].list, p[2]) = x}
      BY DEF Owed, ToRelease, FromEnd
    <2>4. ASSUME NEW p \in Owed(x)' PROVE p \in Owed(x)
      <3>1. p \in PartIds
        BY <2>3, <2>4
      <3>2. PICK q \in PartRequests : /\ mp'[q].up = p[1]
                                      /\ p[2] \in 1 .. ToRelease(mp'[q])
                                      /\ FromEnd(mp'[q].list, p[2]) = x
        BY <2>3, <2>4
      <3>3. CASE q = r
        BY <1>2, <1>6, <3>1, <3>2, <3>3 DEF Owed
      <3>4. CASE q # r
        BY <1>2, <3>1, <3>2, <3>4 DEF Owed
      <3> QED
        BY <3>3, <3>4
    <2> QED
      BY <2>2, <2>4
  <1>10. CountsCoverOwed'
    <2> SUFFICES ASSUME NEW x \in Content
                 PROVE  Cardinality(ObjectRefs(x))' + Cardinality(LiveParts(x))' + Cardinality(Owed(x))'
                           + refCount[x]
                        <= Cardinality(ObjectRefs(x)) + Cardinality(LiveParts(x)) + Cardinality(Owed(x))
                           + refCount'[x]
      BY CountsFollow
    <2> DEFINE W == Owed(x)
               W2 == Owed(x)'
    <2>1. refCount[x] \in Nat
      BY DEF MpInv, TypeOK, MetaTypeOK
    <2>2. Cardinality(ObjectRefs(x)) \in Nat /\ Cardinality(LiveParts(x)) \in Nat
      BY ReferencesNat, PartSetsNat
    <2>3. IsFiniteSet(W) /\ Cardinality(W) \in Nat /\ Cardinality(W2) \in Nat
      BY PartSetsNat, PartSetsNatNext
    <2>4. ObjectRefs(x)' = ObjectRefs(x) /\ LiveParts(x)' = LiveParts(x) /\ W2 \subseteq W
      BY <1>1, <1>9 DEF ObjectRefs
    <2> HIDE DEF W, W2
    <2>5. Cardinality(W2) <= Cardinality(W)
      BY <2>3, <2>4, FS_Subset
    <2>6. Cardinality(ObjectRefs(x)) + Cardinality(LiveParts(x)) + Cardinality(W2) + refCount[x]
            <= Cardinality(ObjectRefs(x)) + Cardinality(LiveParts(x)) + Cardinality(W) + refCount[x]
      BY <2>1, <2>2, <2>3, <2>5
    <2> QED
      BY <1>1, <2>4, <2>6 DEF W, W2
  <1> QED
    BY <1>7, <1>8, <1>10

\* Steps that leave the tables.
LEMMA MovesKeepCounts ==
    ASSUME MpInv, MpInv', CountInv, "db" \notin Faults, UNCHANGED <<metaVars, uploads>>,
           NEW r \in PartRequests, Moved(r), mp[r].pc \notin {"new", "done"}
    PROVE  CountInv'
  <1> DEFINE t == mp[r]
             n == mp'[r]
  <1>1. /\ partCas' = partCas
        /\ \A x \in Content : Cardinality(ObjectRefs(x))' + refCount[x]
                                 <= Cardinality(ObjectRefs(x)) + refCount'[x]
    BY ObjectCounts DEF metaVars
  <1>2. MpShape(t) /\ MpShape(n)
    <2>1. MpShape(mp[r])'
      BY DEF MpInv
    <2> QED
      BY <2>1, MpFacts DEF MpShape
  <1>3. \A i \in 1 .. Len(t.list) : t.pc \in ReleasePcs =>
           \E p \in PartIds : p[1] = t.up /\ partCas[p] = t.list[i]
    BY DEF CountInv, ListIsCurrent
  <1>4. CASE Ended(r) /\ t.pc \notin ReleasePcs
    <2>1. n.pc \notin MergePcs \cup ReleasePcs
      BY <1>4 DEF Ended, MergePcs, ReleasePcs
    <2> QED
      BY <1>1, <1>4, <2>1, StepKeepsCounts DEF Ended
  <1>5. CASE t.pc \in PartPcs /\ \E p \in PartPcs : Became(r, p, t.cas, t.list)
    <2>1. /\ n.pc \notin MergePcs \cup ReleasePcs /\ t.pc \notin ReleasePcs
          /\ n.op = t.op /\ n.up = t.up /\ MpRest(r)
      BY <1>5 DEF Became, PartPcs, MergePcs, ReleasePcs
    <2> QED
      BY <1>1, <2>1, StepKeepsCounts
  <1>6. CASE \/ t.pc \in MergePcs /\ \E p \in MergePcs, c \in Content : Became(r, p, c, t.list)
             \/ t.pc \in MergePcs /\ Became(r, "cleanup", t.cas, t.list)
             \/ t.pc = "cleanup" /\ Became(r, "unlink", t.cas, t.list)
    <2>1. /\ n.pc \notin ReleasePcs /\ t.pc \notin ReleasePcs
          /\ n.op = t.op /\ n.up = t.up /\ n.list = t.list /\ MpRest(r)
          /\ n.pc \in MergePcs => t.pc \in MergePcs
      BY <1>6 DEF Became, MergePcs, ReleasePcs
    <2>2. t.pc \in MergePcs => t.list = ListParts(t.up)
      BY DEF CountInv, ListIsCurrent
    <2> QED
      BY <1>1, <2>1, <2>2, StepKeepsCounts
  <1>7. CASE t.pc = "list" /\ Became(r, "merge", t.cas, ListParts(t.up))
    <2>1. /\ n.pc \notin ReleasePcs /\ t.pc \notin ReleasePcs
          /\ n.op = t.op /\ n.up = t.up /\ n.list = ListParts(t.up) /\ MpRest(r)
      BY <1>7 DEF Became, ReleasePcs
    <2> QED
      BY <1>1, <2>1, StepKeepsCounts
  <1>8. CASE \/ t.pc = "list" /\ Became(r, "release", t.cas, ListParts(t.up))
             \/ t.pc = "oenqueue" /\ Became(r, "release", t.cas, t.list)
    <2>1. t.pc = "oenqueue" => t.list = ListParts(t.up)
      BY DEF CountInv, ListIsCurrent, MergePcs
    <2>2. /\ n.pc = "release" /\ t.pc \in FinishPcs \ ReleasePcs /\ n.op = t.op /\ n.up = t.up
          /\ n.list = ListParts(t.up) /\ MpRest(r) /\ "release" \notin MergePcs
      BY <1>8, <2>1 DEF Became, FinishPcs, MergePcs, ReleasePcs
    <2>3. t.up \in Uploads
      BY <1>2, <2>2 DEF MpShape
    <2>4. \A i \in 1 .. Len(n.list) : \E p \in PartIds : p[1] = t.up /\ partCas[p] = n.list[i]
      BY <2>2, <2>3, ListedHaveRows
    <2> QED
      BY <1>1, <2>2, <2>4, StepKeepsCounts
  <1>9. CASE t.pc = "release" /\ t.list = << >> /\ Became(r, "drop", t.cas, t.list)
    <2>1. /\ n.pc \in ReleasePcs /\ n.pc \notin MergePcs /\ t.pc \in ReleasePcs
          /\ n.op = t.op /\ n.up = t.up /\ n.list = t.list /\ MpRest(r)
      BY <1>9 DEF Became, MergePcs, ReleasePcs
    <2>2. ToRelease(t) = 0 /\ ToRelease(n) = 0
      BY <1>9 DEF Became, ToRelease
    <2>3. \A j \in 1 .. 0 : FromEnd(n.list, j) = FromEnd(t.list, j)
      OBVIOUS
    <2> QED
      BY <1>1, <1>3, <2>1, <2>2, <2>3, StepKeepsCounts
  <1>10. CASE t.pc = "relcheck" /\ Became(r, "release", t.cas, Tail(t.list))
    <2>1. /\ n.pc \in ReleasePcs /\ n.pc \notin MergePcs /\ t.pc \in ReleasePcs
          /\ n.op = t.op /\ n.up = t.up /\ n.list = Tail(t.list) /\ MpRest(r) /\ n.pc = "release"
      BY <1>10 DEF Became, MergePcs, ReleasePcs
    <2>2. t.list \in Seq(PartContent) /\ t.list # << >>
      BY <1>2, <1>10 DEF MpShape
    <2>3. /\ Len(n.list) = Len(t.list) - 1 /\ Len(t.list) \in Nat \ {0}
          /\ \A i \in 1 .. Len(n.list) : n.list[i] = t.list[i + 1] /\ i + 1 \in 1 .. Len(t.list)
      BY <2>1, <2>2
    <2>4. ToRelease(n) = Len(t.list) - 1 /\ ToRelease(t) = Len(t.list) - 1
      BY <1>10, <2>1, <2>3 DEF ToRelease
    <2>5. \A j \in 1 .. ToRelease(t) : FromEnd(n.list, j) = FromEnd(t.list, j)
      <3> SUFFICES ASSUME NEW j \in 1 .. ToRelease(t) PROVE FromEnd(n.list, j) = FromEnd(t.list, j)
        OBVIOUS
      <3>1. Len(n.list) + 1 - j \in 1 .. Len(n.list)
        BY <2>3, <2>4
      <3>2. n.list[Len(n.list) + 1 - j] = t.list[Len(n.list) + 1 - j + 1]
        BY <2>3, <3>1
      <3>3. Len(n.list) + 1 - j + 1 = Len(t.list) + 1 - j
        BY <2>3, <2>4
      <3> QED
        BY <3>2, <3>3 DEF FromEnd
    <2>6. \A i \in 1 .. Len(n.list) : \E p \in PartIds : p[1] = t.up /\ partCas[p] = n.list[i]
      BY <1>3, <2>1, <2>3
    <2> QED
      BY <1>1, <2>1, <2>4, <2>5, <2>6, StepKeepsCounts
  <1>11. CASE t.pc = "release" /\ t.list # << >> /\ Became(r, "release", t.cas, Tail(t.list))
    BY <1>11, SkipKeepsCounts
  <1>12. ~(t.pc = "drop" /\ Contended(r))
    <2> SUFFICES ASSUME t.pc = "drop", NEW q \in PartRequests \ {r}, Active(q), mp[q].up = t.up
                 PROVE  FALSE
      BY DEF Contended
    <2>1. t.op \in {"complete", "abort"}
      BY <1>2 DEF MpShape, FinishPcs, ReleasePcs
    <2> QED
      BY <2>1 DEF CountInv, FinisherIsAlone, Active
  <1> QED
    BY <1>4, <1>5, <1>6, <1>7, <1>8, <1>9, <1>10, <1>11, <1>12 DEF Moved

\* The object of a completion is counted, and the release of its parts begins.
LEMMA ObjectStoredCounts ==
    ASSUME MpInv, MpInv', CountInv, "db" \notin Faults, NEW r \in PartRequests, ObjectStored(r)
    PROVE  CountInv'
  <1> DEFINE t == mp[r]
             n == mp'[r]
  <1>1. t.pc \in MergePcs /\ t.pc \in FinishPcs \ ReleasePcs /\ t.pc \notin {"new", "done"}
    BY DEF ObjectStored, MergePcs, FinishPcs, ReleasePcs
  <1>2. partCas' = partCas
    BY DEF ObjectStored, InsertObject, OverwriteObject, UpsertObject
  <1>3. \A x \in Content : Cardinality(ObjectRefs(x))' + refCount[x]
                              <= Cardinality(ObjectRefs(x)) + refCount'[x]
    BY <1>2, ObjectCounts DEF ObjectStored
  <1>4. t.list = ListParts(t.up) /\ t.up \in Uploads
    BY <1>1, MpFacts DEF CountInv, ListIsCurrent, MpShape
  <1>5. \A i \in 1 .. Len(t.list) : \E p \in PartIds : p[1] = t.up /\ partCas[p] = t.list[i]
    BY <1>4, ListedHaveRows
  <1>6. CASE Became(r, "release", t.cas, t.list)
    <2>1. /\ n.pc = "release" /\ n.op = t.op /\ n.up = t.up /\ n.list = ListParts(t.up)
          /\ n.list = t.list /\ MpRest(r) /\ n.pc \notin MergePcs
      BY <1>4, <1>6 DEF Became, MergePcs
    <2> QED
      BY <1>1, <1>2, <1>3, <1>5, <2>1, StepKeepsCounts
  <1>7. CASE \E c \in Content : Became(r, "oenqueue", c, t.list)
    <2>1. /\ n.pc = "oenqueue" /\ n.op = t.op /\ n.up = t.up /\ n.list = ListParts(t.up)
          /\ MpRest(r) /\ n.pc \notin ReleasePcs
      BY <1>4, <1>7 DEF Became, ReleasePcs
    <2> QED
      BY <1>1, <1>2, <1>3, <2>1, StepKeepsCounts
  <1> QED
    BY <1>6, <1>7 DEF ObjectStored

\* One reference is given back, and one less is owed.
LEMMA ReleasePartCounts ==
    ASSUME MpInv, MpInv', CountInv, NEW r \in PartRequests, ReleasePart(r)
    PROVE  CountInv'
  <1> USE DEF CountInv
  <1> DEFINE t == mp[r]
             n == mp'[r]
             c == Head(t.list)
             k == Len(t.list)
             last == <<t.up, k>>
  <1>1. /\ t.pc = "release" /\ t.list # << >> /\ refCount' = Decrement(refCount, c)
        /\ partCas' = partCas /\ objCas' = objCas
    BY DEF ReleasePart
  <1>2. Became(r, "relcheck", t.cas, t.list) /\ c \in Content
    BY ReleasePartOK
  <1>3. /\ n.pc = "relcheck" /\ n.op = t.op /\ n.up = t.up /\ n.list = t.list /\ MpRest(r)
        /\ \A q \in PartRequests \ {r} : mp'[q] = mp[q]
    BY <1>2 DEF Became, MpRest
  <1>4. t.list \in Seq(PartContent) /\ k \in 1 .. MaxParts /\ t.up \in Uploads
    <2>1. t.list \in Seq(PartContent) /\ k <= MaxParts /\ t.up \in Uploads
      BY <1>1, MpFacts DEF MpShape, FinishPcs, ReleasePcs
    <2> QED
      BY <1>1, <2>1, UploadsAssumption
  <1>5. FinisherIsAlone'
    BY <1>1, <1>3, AloneKept
  <1>6. ListIsCurrent'
    <2> SUFFICES ASSUME NEW q \in PartRequests
                 PROVE  /\ mp'[q].pc \in MergePcs => mp'[q].list = ListParts(mp[q].up)'
                        /\ mp'[q].pc \in ReleasePcs =>
                              \A i \in 1 .. Len(mp'[q].list) :
                                 \E p \in PartIds : p[1] = mp'[q].up /\ partCas'[p] = mp'[q].list[i]
      BY DEF ListIsCurrent
    <2>1. CASE q # r
      BY <1>1, <1>3, <2>1, ListsKept
    <2>2. CASE q = r
      BY <1>1, <1>3, <2>2 DEF ListIsCurrent, MergePcs, ReleasePcs
    <2> QED
      BY <2>1, <2>2
  <1>7. ASSUME NEW x \in Content PROVE LiveParts(x)' = LiveParts(x)
    <2>1. \A q \in PartRequests : mp'[q].up = mp[q].up /\ (mp'[q].pc \in ReleasePcs <=> mp[q].pc \in ReleasePcs)
      BY <1>1, <1>3 DEF ReleasePcs
    <2> QED
      BY <1>1, <2>1 DEF LiveParts, PartRefs, ReleasePcs
  <1>8. ToRelease(t) = k /\ ToRelease(n) = k - 1
    BY <1>1, <1>3 DEF ToRelease
  <1>9. ASSUME NEW x \in Content
        PROVE  /\ Owed(x)' \subseteq Owed(x)
               /\ x = c => last \in Owed(x) /\ last \notin Owed(x)'
    <2>1. Owed(x)' = {p \in PartIds : \E q \in PartRequests :
                        /\ mp'[q].up = p[1]
                        /\ p[2] \in 1 .. ToRelease(mp'[q])
                        /\ FromEnd(mp'[q].list, p[2]) = x}
      BY DEF Owed, ToRelease, FromEnd
    <2>2. \A i : i \in 1 .. (k - 1) => i \in 1 .. k
      BY <1>4
    <2>3. Owed(x)' \subseteq Owed(x)
      <3> SUFFICES ASSUME NEW p \in Owed(x)' PROVE p \in Owed(x)
        OBVIOUS
      <3>1. p \in PartIds
        BY <2>1
      <3>2. PICK q \in PartRequests : /\ mp'[q].up = p[1]
                                      /\ p[2] \in 1 .. ToRelease(mp'[q])
                                      /\ FromEnd(mp'[q].list, p[2]) = x
        BY <2>1
      <3>3. /\ mp[q].up = p[1] /\ p[2] \in 1 .. ToRelease(mp[q])
            /\ FromEnd(mp[q].list, p[2]) = x
        <4>1. CASE q = r
          BY <1>3, <1>8, <2>2, <3>2, <4>1
        <4>2. CASE q # r
          BY <1>3, <3>2, <4>2
        <4> QED
          BY <4>1, <4>2
      <3> QED
        BY <3>1, <3>3 DEF Owed
    <2>4. ASSUME x = c PROVE last \in Owed(x) /\ last \notin Owed(x)'
      <3>1. last \in PartIds /\ last[1] = t.up /\ last[2] = k
        BY <1>4, UploadsAssumption
      <3>2. k \in 1 .. ToRelease(t) /\ FromEnd(t.list, k) = x
        <4>1. k + 1 - k = 1 /\ k \in 1 .. k
          BY <1>4
        <4>2. t.list[1] = c
          BY <1>1, <1>4
        <4> QED
          BY <1>8, <2>4, <4>1, <4>2 DEF FromEnd
      <3>3. last \in Owed(x)
        BY <3>1, <3>2 DEF Owed
      <3>4. ASSUME NEW q \in PartRequests, mp'[q].up = t.up, k \in 1 .. ToRelease(mp'[q])
            PROVE  FALSE
        <4>1. CASE q = r
          BY <1>4, <1>8, <3>4, <4>1
        <4>2. CASE q # r
          <5>1. mp[q].up = t.up /\ mp'[q] = mp[q]
            BY <1>3, <3>4, <4>2
          <5>2. t.op \in {"complete", "abort"}
            BY <1>1, MpFacts DEF MpShape, FinishPcs, ReleasePcs
          <5>3. mp[q].pc \in {"new", "done"}
            BY <4>2, <5>1, <5>2 DEF FinisherIsAlone
          <5>4. ToRelease(mp'[q]) = 0
            BY <5>1, <5>3 DEF ToRelease
          <5> QED
            BY <1>4, <3>4, <5>4
        <4> QED
          BY <4>1, <4>2
      <3>5. last \notin Owed(x)'
        BY <2>1, <3>1, <3>4
      <3> QED
        BY <3>3, <3>5
    <2> QED
      BY <2>3, <2>4
  <1>10. CountsCoverOwed'
    <2> SUFFICES ASSUME NEW x \in Content
                 PROVE  Cardinality(ObjectRefs(x))' + Cardinality(LiveParts(x))' + Cardinality(Owed(x))'
                           + refCount[x]
                        <= Cardinality(ObjectRefs(x)) + Cardinality(LiveParts(x)) + Cardinality(Owed(x))
                           + refCount'[x]
      BY CountsFollow
    <2> DEFINE W == Owed(x)
               W2 == Owed(x)'
    <2>1. refCount \in [Content -> Nat] /\ refCount[x] \in Nat /\ refCount'[x] \in Nat
      BY DEF MpInv, TypeOK, MetaTypeOK
    <2>2. Cardinality(ObjectRefs(x)) \in Nat /\ Cardinality(LiveParts(x)) \in Nat
      BY ReferencesNat, PartSetsNat
    <2>3. IsFiniteSet(W) /\ Cardinality(W) \in Nat /\ Cardinality(W2) \in Nat
      BY PartSetsNat, PartSetsNatNext
    <2>4. ObjectRefs(x)' = ObjectRefs(x) /\ LiveParts(x)' = LiveParts(x)
      BY <1>1, <1>7 DEF ObjectRefs
    <2>5. Cardinality(W2) <= IF x = c THEN Cardinality(W) - 1 ELSE Cardinality(W)
      <3>1. W2 \subseteq W /\ (x = c => last \in W /\ last \notin W2)
        BY <1>9
      <3> HIDE DEF W, W2, c, last
      <3>2. Cardinality(W2) <= Cardinality(W)
        BY <2>3, <3>1, FS_Subset
      <3>3. CASE x = c
        <4>1. W2 \subseteq W \ {last}
          BY <3>1, <3>3
        <4>2. IsFiniteSet(W \ {last}) /\ Cardinality(W \ {last}) = Cardinality(W) - 1
          BY <2>3, <3>1, <3>3, FS_RemoveElement
        <4>3. Cardinality(W2) <= Cardinality(W \ {last})
          BY <4>1, <4>2, FS_Subset
        <4> QED
          BY <3>3, <4>2, <4>3
      <3> QED
        BY <3>2, <3>3
    <2>6. /\ x = c => refCount'[x] >= refCount[x] - 1
          /\ x # c => refCount'[x] = refCount[x]
      <3> HIDE DEF c
      <3> QED
        BY <1>1, <1>2, <2>1 DEF Decrement
    <2> SUFFICES Cardinality(ObjectRefs(x)) + Cardinality(LiveParts(x)) + Cardinality(W2) + refCount[x]
                   <= Cardinality(ObjectRefs(x)) + Cardinality(LiveParts(x)) + Cardinality(W) + refCount'[x]
      BY <2>4
    <2> HIDE DEF W, W2, c
    <2> QED
      BY <2>1, <2>2, <2>3, <2>5, <2>6
  <1> QED
    BY <1>5, <1>6, <1>10

\* The rows that go with an upload were given back before.
LEMMA DropUploadCounts ==
    ASSUME MpInv, MpInv', CountInv, NEW r \in PartRequests, DropUpload(r)
    PROVE  CountInv'
  <1> USE DEF CountInv
  <1> DEFINE t == mp[r]
             n == mp'[r]
  <1>1. /\ t.pc = "drop" /\ refCount' = refCount /\ objCas' = objCas
        /\ partCas' = [p \in PartIds |-> IF p[1] = t.up THEN None ELSE partCas[p]]
    BY DEF DropUpload
  <1>2. /\ n.pc = "done" /\ n.op = t.op /\ n.up = t.up /\ MpRest(r)
        /\ \A q \in PartRequests \ {r} : mp'[q] = mp[q]
    BY DropUploadOK DEF Ended, MpRest
  <1>3. FinisherIsAlone'
    BY <1>1, <1>2, AloneKept
  <1>4. t.op \in {"complete", "abort"}
    BY <1>1, MpFacts DEF MpShape, FinishPcs, ReleasePcs
  <1>5. ASSUME NEW q \in PartRequests, q # r, mp[q].pc \notin {"new", "done"}
        PROVE  mp[q].up # t.up
    BY <1>4, <1>5 DEF FinisherIsAlone
  <1>6. ListIsCurrent'
    <2> SUFFICES ASSUME NEW q \in PartRequests
                 PROVE  /\ mp'[q].pc \in MergePcs => mp'[q].list = ListParts(mp[q].up)'
                        /\ mp'[q].pc \in ReleasePcs =>
                              \A i \in 1 .. Len(mp'[q].list) :
                                 \E p \in PartIds : p[1] = mp'[q].up /\ partCas'[p] = mp'[q].list[i]
      BY DEF ListIsCurrent
    <2>1. CASE q # r
      <3>1. mp[q].pc \in MergePcs \cup ReleasePcs =>
               \A p \in PartIds : p[1] = mp[q].up => partCas'[p] = partCas[p]
        BY <1>1, <1>5, <2>1 DEF MergePcs, ReleasePcs
      <3> QED
        BY <1>2, <2>1, <3>1, ListsKept
    <2>2. CASE q = r
      BY <1>2, <2>2 DEF MergePcs, ReleasePcs
    <2> QED
      BY <2>1, <2>2
  <1>7. ASSUME NEW x \in Content PROVE LiveParts(x)' = LiveParts(x)
    <2>1. \A q \in PartRequests : q # r => mp'[q].up = mp[q].up /\ mp'[q].pc = mp[q].pc
      BY <1>2
    <2>2. \A p \in PartIds : p \in PartRefs(x)' <=> p \in PartRefs(x) /\ p[1] # t.up
      BY <1>1, TablesAssumption DEF PartRefs
    <2>3. PartRefs(x)' \subseteq PartIds /\ PartRefs(x) \subseteq PartIds
      BY DEF PartRefs
    <2>4. ASSUME NEW p \in PartIds PROVE p \in LiveParts(x)' <=> p \in LiveParts(x)
      <3>1. p \in LiveParts(x) <=> /\ p \in PartRefs(x)
                                   /\ \A q \in PartRequests : ~(mp[q].up = p[1] /\ mp[q].pc \in ReleasePcs)
        BY DEF LiveParts, ReleasePcs
      <3>2. p \in LiveParts(x)' <=> /\ p \in PartRefs(x)'
                                    /\ \A q \in PartRequests : ~(mp'[q].up = p[1] /\ mp'[q].pc \in ReleasePcs)
        BY DEF LiveParts, ReleasePcs
      <3>3. n.pc \notin ReleasePcs /\ t.pc \in ReleasePcs
        BY <1>1, <1>2 DEF ReleasePcs
      <3> QED
        BY <2>1, <2>2, <3>1, <3>2, <3>3
    <2>5. LiveParts(x)' \subseteq PartIds /\ LiveParts(x) \subseteq PartIds
      BY <2>3 DEF LiveParts
    <2> QED
      BY <2>4, <2>5
  <1>8. ASSUME NEW x \in Content PROVE Owed(x)' = Owed(x)
    <2>1. ToRelease(t) = 0 /\ ToRelease(n) = 0
      BY <1>1, <1>2 DEF ToRelease
    <2>2. Owed(x)' = {p \in PartIds : \E q \in PartRequests :
                        /\ mp'[q].up = p[1]
                        /\ p[2] \in 1 .. ToRelease(mp'[q])
                        /\ FromEnd(mp'[q].list, p[2]) = x}
      BY DEF Owed, ToRelease, FromEnd
    <2>3. ASSUME NEW q \in PartRequests, NEW p \in PartIds
          PROVE  (mp'[q].up = p[1] /\ p[2] \in 1 .. ToRelease(mp'[q])
                     /\ FromEnd(mp'[q].list, p[2]) = x)
                    <=> (mp[q].up = p[1] /\ p[2] \in 1 .. ToRelease(mp[q])
                           /\ FromEnd(mp[q].list, p[2]) = x)
      <3>1. ~(p[2] \in 1 .. 0)
        OBVIOUS
      <3> QED
        BY <1>2, <2>1, <3>1
    <2> QED
      BY <2>2, <2>3 DEF Owed
  <1>9. CountsCoverOwed'
    <2>1. \A x \in Content : ObjectRefs(x)' = ObjectRefs(x)
      BY <1>1 DEF ObjectRefs
    <2> QED
      BY <1>1, <1>7, <1>8, <2>1 DEF CountsCoverOwed
  <1> QED
    BY <1>3, <1>6, <1>9

\* The row of a part takes a content, which is counted; the part is live.
LEMMA PartStoredCounts ==
    ASSUME MpInv, MpInv', CountInv, NEW r \in PartRequests, PartStored(r)
    PROVE  CountInv'
  <1> USE DEF CountInv
  <1> DEFINE t == mp[r]
             n == mp'[r]
             p == t.part
             c == t.cas
             old == partCas[p]
  <1>1. /\ t.pc \in {"select", "upsert"} /\ objCas' = objCas
        /\ partCas' = [partCas EXCEPT ![p] = c]
        /\ \/ old = c /\ refCount' = refCount
           \/ old \in Content \ {c} /\ refCount' = Decrement(Increment(refCount, c), old)
           \/ refCount' = Increment(refCount, c)
    BY DEF PartStored
  <1>2. /\ n.pc \in {"done", "enqueue"} /\ n.op = t.op /\ n.up = t.up /\ MpRest(r)
        /\ \A q \in PartRequests \ {r} : mp'[q] = mp[q]
    BY DEF PartStored, Ended, Became, MpRest
  <1>3. p \in PartIds /\ t.up = p[1] /\ c \in Content
    BY <1>1, MpFacts DEF MpShape, PartPcs
  <1>4. /\ partCas \in [PartIds -> Content \cup {None}] /\ refCount \in [Content -> Nat]
        /\ refCount' \in [Content -> Nat]
    BY DEF MpInv, TypeOK, MetaTypeOK
  <1>5. FinisherIsAlone'
    BY <1>1, <1>2, AloneKept
  <1>6. ASSUME NEW q \in PartRequests, mp[q].up = p[1]
        PROVE  mp[q].pc \notin MergePcs \cup ReleasePcs
    <2>1. CASE q = r
      BY <1>1, <2>1 DEF MergePcs, ReleasePcs
    <2>2. CASE q # r
      BY <1>1, <1>3, <1>6, <2>2, OnlyFinisher DEF FinishPcs
    <2> QED
      BY <2>1, <2>2
  <1>7. ListIsCurrent'
    <2> SUFFICES ASSUME NEW q \in PartRequests
                 PROVE  /\ mp'[q].pc \in MergePcs => mp'[q].list = ListParts(mp[q].up)'
                        /\ mp'[q].pc \in ReleasePcs =>
                              \A i \in 1 .. Len(mp'[q].list) :
                                 \E y \in PartIds : y[1] = mp'[q].up /\ partCas'[y] = mp'[q].list[i]
      BY DEF ListIsCurrent
    <2>1. CASE q # r
      <3>1. mp[q].pc \in MergePcs \cup ReleasePcs =>
               \A y \in PartIds : y[1] = mp[q].up => partCas'[y] = partCas[y]
        BY <1>1, <1>4, <1>6
      <3> QED
        BY <1>2, <2>1, <3>1, ListsKept
    <2>2. CASE q = r
      BY <1>2, <2>2 DEF MergePcs, ReleasePcs
    <2> QED
      BY <2>1, <2>2
  <1>8. ASSUME NEW x \in Content
        PROVE  LiveParts(x)' = IF x = c THEN LiveParts(x) \cup {p} ELSE LiveParts(x) \ {p}
    <2>1. \A q \in PartRequests : \A u : (mp'[q].up = u /\ mp'[q].pc \in ReleasePcs)
                                           <=> (mp[q].up = u /\ mp[q].pc \in ReleasePcs)
      BY <1>1, <1>2 DEF ReleasePcs
    <2>2. \A q \in PartRequests : ~(mp[q].up = p[1] /\ mp[q].pc \in ReleasePcs)
      BY <1>6
    <2>3. PartRefs(x)' = IF x = c THEN PartRefs(x) \cup {p} ELSE PartRefs(x) \ {p}
      BY <1>1, <1>3, <1>4 DEF PartRefs
    <2>4. LiveParts(x) = {y \in PartRefs(x) : \A q \in PartRequests :
                                                ~(mp[q].up = y[1] /\ mp[q].pc \in ReleasePcs)}
      BY DEF LiveParts, ReleasePcs
    <2>5. LiveParts(x)' = {y \in PartRefs(x)' : \A q \in PartRequests :
                                                ~(mp'[q].up = y[1] /\ mp'[q].pc \in ReleasePcs)}
      BY DEF LiveParts, ReleasePcs
    <2> DEFINE Busy(u) == \E q \in PartRequests : mp[q].up = u /\ mp[q].pc \in ReleasePcs
    <2>6. LiveParts(x) = {y \in PartRefs(x) : ~Busy(y[1])}
      BY <2>4
    <2>7. LiveParts(x)' = {y \in PartRefs(x)' : ~Busy(y[1])}
      <3>1. \A u : (\A q \in PartRequests : ~(mp'[q].up = u /\ mp'[q].pc \in ReleasePcs)) <=> ~Busy(u)
        BY <2>1
      <3> HIDE DEF Busy
      <3> QED
        BY <2>5, <3>1
    <2>8. ~Busy(p[1])
      BY <2>2
    <2> HIDE DEF p, c, Busy
    <2> QED
      BY <2>3, <2>6, <2>7, <2>8
  <1>9. ASSUME NEW x \in Content PROVE Owed(x)' = Owed(x) /\ (p \in LiveParts(x) <=> old = x)
    <2>1. ToRelease(t) = 0 /\ ToRelease(n) = 0
      BY <1>1, <1>2 DEF ToRelease
    <2>2. Owed(x)' = {y \in PartIds : \E q \in PartRequests :
                        /\ mp'[q].up = y[1]
                        /\ y[2] \in 1 .. ToRelease(mp'[q])
                        /\ FromEnd(mp'[q].list, y[2]) = x}
      BY DEF Owed, ToRelease, FromEnd
    <2>3. ASSUME NEW q \in PartRequests, NEW y \in PartIds
          PROVE  (mp'[q].up = y[1] /\ y[2] \in 1 .. ToRelease(mp'[q])
                     /\ FromEnd(mp'[q].list, y[2]) = x)
                    <=> (mp[q].up = y[1] /\ y[2] \in 1 .. ToRelease(mp[q])
                           /\ FromEnd(mp[q].list, y[2]) = x)
      <3>1. ~(y[2] \in 1 .. 0)
        OBVIOUS
      <3> QED
        BY <1>2, <2>1, <3>1
    <2>4. Owed(x)' = Owed(x)
      BY <2>2, <2>3 DEF Owed
    <2>5. p \in LiveParts(x) <=> old = x
      BY <1>3, <1>6 DEF LiveParts, PartRefs, ReleasePcs
    <2> QED
      BY <2>4, <2>5
  <1>10. CountsCoverOwed'
    <2> SUFFICES ASSUME NEW x \in Content
                 PROVE  Cardinality(ObjectRefs(x))' + Cardinality(LiveParts(x))' + Cardinality(Owed(x))'
                           + refCount[x]
                        <= Cardinality(ObjectRefs(x)) + Cardinality(LiveParts(x)) + Cardinality(Owed(x))
                           + refCount'[x]
      BY CountsFollow
    <2> DEFINE L == LiveParts(x)
               L2 == LiveParts(x)'
               o == Cardinality(ObjectRefs(x))
               w == Cardinality(Owed(x))
    <2>1. refCount[x] \in Nat /\ refCount'[x] \in Nat /\ o \in Nat /\ w \in Nat
      BY <1>4, ReferencesNat, PartSetsNat
    <2>2. IsFiniteSet(L) /\ Cardinality(L) \in Nat /\ Cardinality(L2) \in Nat
      BY PartSetsNat, PartSetsNatNext
    <2>3. ObjectRefs(x)' = ObjectRefs(x) /\ Owed(x)' = Owed(x)
      BY <1>1, <1>9 DEF ObjectRefs
    <2> SUFFICES o + Cardinality(L2) + w + refCount[x] <= o + Cardinality(L) + w + refCount'[x]
      BY <2>3
    <2>4. /\ L2 = IF x = c THEN L \cup {p} ELSE L \ {p}
          /\ p \in L <=> old = x
      BY <1>8, <1>9
    <2> HIDE DEF L, L2, o, w, p, c, old
    <2>5. Cardinality(L2) = IF x = c THEN (IF old = x THEN Cardinality(L) ELSE Cardinality(L) + 1)
                            ELSE (IF old = x THEN Cardinality(L) - 1 ELSE Cardinality(L))
      BY <2>2, <2>4, FS_AddElement, FS_RemoveElement
    <2>6. CASE old = c /\ refCount' = refCount
      BY <2>1, <2>2, <2>5, <2>6
    <2>7. CASE old \in Content \ {c} /\ refCount' = Decrement(Increment(refCount, c), old)
      <3>1. /\ x = c => refCount'[x] = refCount[x] + 1
            /\ x = old => refCount'[x] >= refCount[x] - 1
            /\ x \notin {c, old} => refCount'[x] = refCount[x]
        BY <1>3, <1>4, <2>7 DEF Increment, Decrement
      <3> QED
        BY <2>1, <2>2, <2>5, <2>7, <3>1
    <2>8. CASE refCount' = Increment(refCount, c)
      <3>1. refCount'[x] = IF x = c THEN refCount[x] + 1 ELSE refCount[x]
        BY <1>3, <1>4, <2>8 DEF Increment
      <3> QED
        BY <2>1, <2>2, <2>5, <3>1
    <2> QED
      BY <1>1, <2>6, <2>7, <2>8 DEF p, c, old
  <1> QED
    BY <1>5, <1>7, <1>10

\* A request that begins owes nothing and has listed nothing.
LEMMA BegunCounts ==
    ASSUME MpInv, MpInv', CountInv, Sequential, UNCHANGED <<vars, uploads>>,
           NEW r \in PartRequests, Begun(r)
    PROVE  CountInv'
  <1> USE DEF CountInv
  <1>1. /\ partCas' = partCas /\ refCount' = refCount /\ objCas' = objCas
    BY DEF vars, metaVars
  <1>2. FinisherIsAlone'
    BY AloneBegins
  <1>3. /\ mp'[r].pc \notin MergePcs \cup ReleasePcs /\ mp[r].pc \notin ReleasePcs /\ MpRest(r)
        /\ \A q \in PartRequests \ {r} : mp'[q] = mp[q]
    BY DEF Begun, MergePcs, ReleasePcs, MpRest
  <1>4. ListIsCurrent'
    <2> SUFFICES ASSUME NEW q \in PartRequests
                 PROVE  /\ mp'[q].pc \in MergePcs => mp'[q].list = ListParts(mp[q].up)'
                        /\ mp'[q].pc \in ReleasePcs =>
                              \A i \in 1 .. Len(mp'[q].list) :
                                 \E p \in PartIds : p[1] = mp'[q].up /\ partCas'[p] = mp'[q].list[i]
      BY DEF ListIsCurrent
    <2>1. CASE q # r
      BY <1>1, <1>3, <2>1, ListsKept
    <2>2. CASE q = r
      BY <1>3, <2>2
    <2> QED
      BY <2>1, <2>2
  <1>5. ASSUME NEW x \in Content
        PROVE  /\ LiveParts(x)' = LiveParts(x) /\ Owed(x)' = Owed(x)
               /\ ObjectRefs(x)' = ObjectRefs(x)
    <2>1. mp \in [PartRequests -> PartRequest]
      BY DEF MpInv
    <2>2. LiveParts(x)' = LiveParts(x) /\ Owed(x)' = Owed(x)
      BY <1>1, <1>3, <2>1, SameParts
    <2> QED
      BY <1>1, <2>2 DEF ObjectRefs
  <1>6. CountsCoverOwed'
    BY <1>1, <1>5 DEF CountsCoverOwed
  <1> QED
    BY <1>2, <1>4, <1>6

\* Steps of the rest of the server: a transaction on objects, or the deletion
\* of a cas_blobs row that nothing refers to, so that nothing is owed of it.
LEMMA OthersCount ==
    ASSUME MpInv, MpInv', CountInv, UNCHANGED <<partCas, mp>>,
           \/ \E k \in Keys, c \in Content : InsertObject(k, c)
           \/ \E k \in Keys, c \in Content : OverwriteObject(k, c)
           \/ \E k \in Keys, c \in Content : UpsertObject(k, c)
           \/ \E k \in Keys : RemoveObject(k)
           \/ \E c \in Content : DeleteCasBlob(c)
           \/ UNCHANGED metaVars
    PROVE  CountInv'
  <1> USE DEF CountInv
  <1>1. mp' = mp /\ partCas' = partCas
    OBVIOUS
  <1>2. FinisherIsAlone'
    BY <1>1 DEF FinisherIsAlone
  <1>3. ListIsCurrent'
    <2> SUFFICES ASSUME NEW q \in PartRequests
                 PROVE  /\ mp'[q].pc \in MergePcs => mp'[q].list = ListParts(mp[q].up)'
                        /\ mp'[q].pc \in ReleasePcs =>
                              \A i \in 1 .. Len(mp'[q].list) :
                                 \E p \in PartIds : p[1] = mp'[q].up /\ partCas'[p] = mp'[q].list[i]
      BY DEF ListIsCurrent
    <2> QED
      BY <1>1, ListsKept
  <1>4. \A x \in Content : LiveParts(x)' = LiveParts(x) /\ Owed(x)' = Owed(x)
    BY <1>1 DEF LiveParts, PartRefs, Owed, ToRelease, FromEnd
  <1>5. CASE \E c \in Content : DeleteCasBlob(c)
    <2>1. PICK c \in Content : DeleteCasBlob(c)
      BY <1>5
    <2>2. /\ ObjectRefs(c) = {} /\ PartRefs(c) = {} /\ objCas' = objCas
          /\ refCount' = [refCount EXCEPT ![c] = 0]
      BY <2>1 DEF DeleteCasBlob
    <2>3. Owed(c) = {}
      <3> SUFFICES ASSUME NEW p \in Owed(c) PROVE FALSE
        OBVIOUS
      <3>1. PICK r \in PartRequests : /\ mp[r].up = p[1]
                                      /\ p[2] \in 1 .. ToRelease(mp[r])
                                      /\ FromEnd(mp[r].list, p[2]) = c
        BY DEF Owed
      <3>2. mp[r].list \in Seq(PartContent) /\ (mp[r].pc = "relcheck" => mp[r].list # << >>)
        BY MpFacts DEF MpShape
      <3>3. ToRelease(mp[r]) # 0 => mp[r].pc \in ReleasePcs
        BY DEF ToRelease, ReleasePcs
      <3>4. mp[r].pc \in ReleasePcs
        BY <3>1, <3>3
      <3>5. Len(mp[r].list) + 1 - p[2] \in 1 .. Len(mp[r].list)
        <4> DEFINE k == Len(mp[r].list)
        <4>1. k \in Nat /\ ToRelease(mp[r]) \in {0, k, k - 1}
          BY <3>2 DEF ToRelease
        <4> HIDE DEF k
        <4>2. k + 1 - p[2] \in 1 .. k
          BY <3>1, <4>1
        <4> QED
          BY <4>2 DEF k
      <3>6. PICK y \in PartIds : partCas[y] = mp[r].list[Len(mp[r].list) + 1 - p[2]]
        BY <3>4, <3>5 DEF ListIsCurrent
      <3> QED
        BY <2>2, <3>1, <3>6 DEF PartRefs, FromEnd
    <2>4. LiveParts(c) = {}
      BY <2>2 DEF LiveParts
    <2>5. ASSUME NEW x \in Content
          PROVE  Cardinality(ObjectRefs(x))' + Cardinality(LiveParts(x))' + Cardinality(Owed(x))'
                    <= refCount'[x]
      <3>1. ObjectRefs(x)' = ObjectRefs(x) /\ LiveParts(x)' = LiveParts(x) /\ Owed(x)' = Owed(x)
        BY <1>4, <2>2 DEF ObjectRefs
      <3>2. CASE x # c
        <4>1. refCount'[x] = refCount[x]
          BY <2>2, <3>2 DEF MpInv, TypeOK, MetaTypeOK
        <4> QED
          BY <3>1, <4>1 DEF CountsCoverOwed
      <3>3. CASE x = c
        <4>1. Cardinality({}) = 0
          BY FS_EmptySet
        <4>2. refCount'[x] = 0
          BY <2>2, <3>3 DEF MpInv, TypeOK, MetaTypeOK
        <4> QED
          BY <2>2, <2>3, <2>4, <3>1, <3>3, <4>1, <4>2
      <3> QED
        BY <3>2, <3>3
    <2>6. CountsCoverOwed'
      BY <2>5 DEF CountsCoverOwed
    <2> QED
      BY <1>2, <1>3, <2>6
  <1>6. CASE ~\E c \in Content : DeleteCasBlob(c)
    <2>1. \A x \in Content : Cardinality(ObjectRefs(x))' + refCount[x]
                                <= Cardinality(ObjectRefs(x)) + refCount'[x]
      BY <1>1, <1>6, ObjectCounts
    <2>2. CountsCoverOwed'
      <3> SUFFICES ASSUME NEW x \in Content
                   PROVE  Cardinality(ObjectRefs(x))' + Cardinality(LiveParts(x))' + Cardinality(Owed(x))'
                             + refCount[x]
                          <= Cardinality(ObjectRefs(x)) + Cardinality(LiveParts(x)) + Cardinality(Owed(x))
                             + refCount'[x]
        BY CountsFollow
      <3>1. refCount[x] \in Nat /\ refCount'[x] \in Nat
        BY DEF MpInv, TypeOK, MetaTypeOK
      <3>2. /\ Cardinality(ObjectRefs(x)) \in Nat /\ Cardinality(LiveParts(x)) \in Nat
            /\ Cardinality(Owed(x)) \in Nat /\ Cardinality(ObjectRefs(x))' \in Nat
        BY ReferencesNat, PartSetsNat, PartSetsNatNext
      <3>3. LiveParts(x)' = LiveParts(x) /\ Owed(x)' = Owed(x)
        BY <1>4
      <3>4. Cardinality(ObjectRefs(x))' + refCount[x] <= Cardinality(ObjectRefs(x)) + refCount'[x]
        BY <2>1
      <3> QED
        BY <3>1, <3>2, <3>3, <3>4
    <2> QED
      BY <1>2, <1>3, <2>2
  <1> QED
    BY <1>5, <1>6

LEMMA CountInvKept ==
    ASSUME MpInv, CountInv, Sequential, Faults \cap {"db", "crash"} = {}, [MultipartNext]_allVars
    PROVE  CountInv'
  <1>1. MpInv' /\ "db" \notin Faults /\ "crash" \notin Faults
    BY MpInvKept
  <1>2. CASE UNCHANGED allVars
    BY <1>1, <1>2, OthersCount DEF allVars, vars, metaVars, mpVars
  <1>3. ASSUME NEW u \in Uploads, InitUpload(u) PROVE CountInv'
    <2>1. UNCHANGED <<metaVars, mp>>
      BY <1>3 DEF InitUpload, vars
    <2> QED
      BY <1>1, <2>1, OthersCount DEF metaVars
  <1>4. ASSUME NEW r \in PartRequests, BeginPart(r) \/ BeginFinish(r) PROVE CountInv'
    BY <1>1, <1>4, BeginsOK, BegunCounts
  <1>5. ASSUME NEW r \in PartRequests, HandlerStep(r) PROVE CountInv'
    <2>1. CASE PartMoves(r) \/ CompleteMoves(r) \/ ListMoves(r) \/ FileMoves(r)
      <3>1. Moved(r) /\ UNCHANGED <<metaVars, uploads>>
        BY <2>1, PartMovesOK, CompleteMovesOK, ListMovesOK, FileMovesOK DEF vars
      <3>2. mp[r].pc \notin {"new", "done"}
        BY <2>1 DEF PartMoves, CompleteMoves, ListMoves, FileMoves, StorePart, RejectPart,
           LookupUpload, PartSelectNone, PartFails, PartAborted, Merge, MergeFails, StoreMerged,
           CompleteDuplicate, CompleteSelectNone, CompleteAborted, CompleteFails, CleanupCheck,
           CompleteList, AbortList, ReleaseDone, ReleaseError, RenamePart, PartEnqueue,
           RenameMerged, CompleteEnqueue, CleanupUnlink, ReleaseCheck
      <3> QED
        BY <1>1, <3>1, <3>2, MovesKeepCounts
    <2>2. CASE PartOverwrite(r) \/ PartUpsert(r)
      BY <1>1, <2>2, PartStoredOK, PartStoredCounts
    <2>3. CASE CompleteFast(r) \/ CompleteOverwrite(r) \/ CompleteUpsert(r)
      BY <1>1, <2>3, ObjectStoredOK, ObjectStoredCounts
    <2>4. CASE ReleasePart(r) \/ DropUpload(r)
      BY <1>1, <2>4, ReleasePartCounts, DropUploadCounts
    <2> QED
      BY <1>5, <2>1, <2>2, <2>3, <2>4, HandlerSteps
  <1>6. CASE (\E r \in Requests : RequestStep(r)) /\ UNCHANGED mpVars
    <2>1. partCas' = partCas
      BY <1>6, RequestKeepsParts
    <2>2. TypeOK /\ [Next]_vars
      BY <1>6 DEF MpInv, Next
    <2> QED
      BY <1>1, <1>6, <2>1, <2>2, StepsAreTransactions, OthersCount DEF mpVars
  <1>7. CASE CollectorStep /\ UNCHANGED mpVars
    <2>1. partCas' = partCas
      BY <1>7, CollectorKeepsParts
    <2>2. TypeOK /\ [Next]_vars
      BY <1>7 DEF MpInv, Next
    <2> QED
      BY <1>1, <1>7, <2>1, <2>2, StepsAreTransactions, OthersCount DEF mpVars
  <1>8. ~MultipartCrash
    BY <1>1 DEF MultipartCrash, Crash
  <1> QED
    BY <1>2, <1>3, <1>4, <1>5, <1>6, <1>7, <1>8 DEF MultipartNext

LEMMA CountInvInitially == MultipartInit => CountInv
  <1> SUFFICES ASSUME MultipartInit PROVE CountInv
    OBVIOUS
  <1>1. \A r \in PartRequests : mp[r].pc = "new" /\ mp[r].op = "none"
    BY NewRequestOK DEF MultipartInit
  <1>2. FinisherIsAlone
    BY <1>1 DEF FinisherIsAlone
  <1>3. ListIsCurrent
    BY <1>1 DEF ListIsCurrent, MergePcs, ReleasePcs
  <1>4. CountsCoverOwed
    <2> SUFFICES ASSUME NEW c \in Content
                 PROVE  Cardinality(ObjectRefs(c)) + Cardinality(LiveParts(c)) + Cardinality(Owed(c))
                           <= refCount[c]
      BY DEF CountsCoverOwed
    <2>1. LiveParts(c) \in SUBSET PartRefs(c)
      BY DEF LiveParts
    <2>2. Owed(c) = {}
      <3>1. \A r \in PartRequests : ToRelease(mp[r]) = 0
        BY <1>1 DEF ToRelease
      <3>2. \A i : i \notin 1 .. 0
        OBVIOUS
      <3> QED
        BY <3>1, <3>2 DEF Owed
    <2>3. refCount[c] = Cardinality(ObjectRefs(c)) + Cardinality(PartRefs(c))
      BY DEF MultipartInit, Init, MetaInit, References
    <2>4. Cardinality(LiveParts(c)) <= Cardinality(PartRefs(c))
      BY <2>1, ReferencesNat, FS_Subset
    <2>5. Cardinality(Owed(c)) = 0
      BY <2>2, FS_EmptySet
    <2> QED
      BY <2>3, <2>4, <2>5, ReferencesNat, PartSetsNat
  <1> QED
    BY <1>2, <1>3, <1>4 DEF CountInv

\* When each upload is finished once, after its parts, and no statement of the
\* release is lost, CompleteUpload and AbortUpload give back exactly what the
\* parts they list were counted for: objects and live parts stay covered, with
\* PUTs, DELETEs, aborted transactions and the collector running next to them.
THEOREM CompletionsKeepCounts ==
    ASSUME Sequential, Faults \cap {"db", "crash"} = {}
    PROVE  MultipartSpec => []CountsCoverLiveReferences
  <1>1. MpInv /\ CountInv => CountsCoverLiveReferences
    <2> SUFFICES ASSUME MpInv, CountInv, NEW c \in Content
                 PROVE  Cardinality(ObjectRefs(c)) + Cardinality(LiveParts(c)) <= refCount[c]
      BY DEF CountsCoverLiveReferences
    <2>1. Cardinality(ObjectRefs(c)) + Cardinality(LiveParts(c)) + Cardinality(Owed(c)) <= refCount[c]
      BY DEF CountInv, CountsCoverOwed
    <2>2. refCount[c] \in Nat
      BY DEF MpInv, TypeOK, MetaTypeOK
    <2> QED
      BY <2>1, <2>2, ReferencesNat, PartSetsNat
  <1>2. MpInv /\ CountInv /\ [MultipartNext]_allVars => (MpInv /\ CountInv)'
    BY MpInvKept, CountInvKept
  <1> QED
    BY <1>1, <1>2, MpInvInitially, CountInvInitially, PTL DEF MultipartSpec

=============================================================================
