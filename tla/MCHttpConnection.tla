-------------------------- MODULE MCHttpConnection --------------------------
(***************************************************************************)
(* Instances of HttpConnection for TLC.                                    *)
(***************************************************************************)
EXTENDS HttpConnection

Kind(len, stream, keep, fault) ==
    [len |-> len, cut |-> 0, stream |-> stream, keep |-> keep, fault |-> fault]

\* The line is so long that the parser rejects it when it comes in pieces.
Long(k, cut) == [k EXCEPT !.cut = cut]

Download == Kind(0, FALSE, TRUE, "none")
LastDownload == Kind(0, FALSE, FALSE, "none")
Upload == Kind(2, TRUE, TRUE, "none")
Post == Kind(1, FALSE, TRUE, "none")

\* Every sort of request the connection treats differently.
AllKinds ==
    {Download, LastDownload, Upload, Post, Kind(0, FALSE, TRUE, "line"),
     Kind(0, FALSE, TRUE, "length"), Kind(1, FALSE, TRUE, "length"), Kind(1, TRUE, TRUE, "big"),
     Kind(1, TRUE, TRUE, "chunked"),
     Long(Download, 2), Kind(0, FALSE, TRUE, "header"), Kind(1, FALSE, TRUE, "again"),
     Long(Kind(0, FALSE, TRUE, "long"), 1)}

\* Uploads only.
Uploads == {Upload}

=============================================================================
