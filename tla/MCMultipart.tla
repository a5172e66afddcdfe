---------------------------- MODULE MCMultipart ----------------------------
(***************************************************************************)
(* Instances of Multipart for TLC.                                         *)
(***************************************************************************)
EXTENDS Multipart, TLC

\* Every key has an index entry of its own.
OwnSlot == [k \in Keys |-> k]

\* All part numbers of all uploads.
AllParts == Uploads \X (1 .. MaxParts)

\* All uploads are for the same object.
OneKey == [u \in Uploads |-> CHOOSE k \in Keys : TRUE]

\* One part is the object; two parts make a content no part has.
Joined(list) ==
    IF Len(list) = 1 THEN list[1] ELSE CHOOSE c \in Content : c \notin PartContent

\* Object requests and multipart requests are interchangeable.
Symmetry == Permutations(Requests) \cup Permutations(PartRequests)

=============================================================================
