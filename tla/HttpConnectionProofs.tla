------------------------ MODULE HttpConnectionProofs ------------------------
(***************************************************************************)
(* One HTTP connection, for any requests, any number of them and any way   *)
(* the bytes come in: the types, that a held connection is timed, that an  *)
(* upload context belongs to the request being read, that requests are     *)
(* handled in order with their bodies, and that responses are paired.      *)
(***************************************************************************)
EXTENDS HttpConnection, SequenceTheorems, TLAPS

(***************************************************************************)
(* Types.  Every token, the parser's request and the handled requests are  *)
(* of requests the client has begun; a ForceClose is queued at most once   *)
(* by the timer and at most once by a failed write in one iteration.       *)
(***************************************************************************)

Begun == 1 .. Len(kinds)

BegunTokens == [req : Begun, part : {"top", "cut", "line", "end", "body"}]
BegunResponses == [req : Begun, code : {"router", "400", "413", "500"}]
BegunHandled == [req : Begun, body : Nat, stored : BOOLEAN]
BegunParsers ==
    {p \in Parsers : /\ p.req <= Len(kinds)
                     /\ p.state \in {"HEADERS", "BODY", "DONE"} => p.req \in Begun}

States == {"READING_HEADERS", "READING_BODY_STREAM", "WRITING_RESPONSE",
           "SENDING_FILE", "CLOSED"}

BytesInv ==
    /\ kinds \in Seq(Kinds) /\ Len(kinds) <= MaxRequests
    /\ toSend \in Seq(BegunTokens) /\ sock \in Seq(BegunTokens)
    /\ input \in Seq(BegunTokens)

AnswerInv ==
    /\ received \in Seq(BegunResponses) /\ output \in Seq(BegunResponses)
    /\ handled \in Seq(BegunHandled)
    /\ file \in 0 .. MaxFile

ParserInv ==
    /\ st \in States
    /\ parser \in BegunParsers
    /\ st = "READING_HEADERS" => parser.state \in {"REQUEST_LINE", "HEADERS"}
    /\ st = "READING_BODY_STREAM" => parser.state = "BODY"
    /\ st = "SENDING_FILE" => parser.state = "DONE"
    /\ upload \in Contexts \cup {None}

LoopInv ==
    /\ events \subseteq {"in", "out"}
    /\ revents \subseteq {"error", "in", "out"}
    /\ {eof, rst, added, timer, registered, tick} \subseteq BOOLEAN
    /\ closes \in Nat
    /\ closes + (IF tick THEN 1 ELSE 0) + (IF "in" \in revents THEN 1 ELSE 0) <= 2
    /\ gen \in 1 .. MaxConns

TInv == BytesInv /\ AnswerInv /\ ParserInv /\ LoopInv

LEMMA TypesFromTInv == TInv => ConnTypeOK
  <1> SUFFICES ASSUME TInv PROVE ConnTypeOK
    OBVIOUS
  <1>1. Len(kinds) \in Nat /\ MaxRequests \in Nat /\ Begun \subseteq 1 .. MaxRequests
    BY ConnectionAssumption DEF TInv, BytesInv, Begun
  <1>2. /\ BegunTokens \subseteq Token /\ BegunResponses \subseteq Responses
        /\ BegunHandled \subseteq Handled
    BY <1>1 DEF BegunTokens, BegunResponses, BegunHandled, Token, Responses, Handled
  <1>3. /\ toSend \in Seq(Token) /\ sock \in Seq(Token) /\ input \in Seq(Token)
        /\ received \in Seq(Responses) /\ output \in Seq(Responses)
        /\ handled \in Seq(Handled)
    BY <1>2, SeqMonotonic DEF TInv, BytesInv, AnswerInv
  <1>4. closes \in 0 .. 2
    BY DEF TInv, LoopInv
  <1> QED
    BY <1>3, <1>4
    DEF TInv, BytesInv, AnswerInv, ParserInv, LoopInv, ConnTypeOK, States, BegunParsers

LEMMA InitTInv == Init => TInv
  <1> SUFFICES ASSUME Init PROVE TInv
    OBVIOUS
  <1>1. BytesInv
    BY ConnectionAssumption DEF Init, BytesInv
  <1>2. AnswerInv
    BY ConnectionAssumption DEF Init, AnswerInv
  <1>3. ParserInv
    BY ConnectionAssumption DEF Init, ParserInv, Fresh, States, BegunParsers, Parsers, Begun
  <1>4. LoopInv
    <2>1. {eof, rst, added, timer, registered, tick} \subseteq BOOLEAN
      BY DEF Init
    <2>2. closes + (IF tick THEN 1 ELSE 0) + (IF "in" \in revents THEN 1 ELSE 0) <= 2
      BY DEF Init
    <2> QED
      BY <2>1, <2>2, ConnectionAssumption DEF Init, LoopInv
  <1> QED
    BY <1>1, <1>2, <1>3, <1>4 DEF TInv

AllFaults == {"none", "line", "length", "big", "chunked", "header", "again", "long"}

\* The kind of a request the client has begun.
LEMMA KindType ==
    ASSUME TInv, NEW n \in Begun
    PROVE  /\ KindOf(n) \in Kinds /\ KindOf(n).len \in Nat /\ KindOf(n).cut \in Nat
           /\ KindOf(n).stream \in BOOLEAN /\ KindOf(n).keep \in BOOLEAN
           /\ KindOf(n).fault \in AllFaults
  <1>1. KindOf(n) \in Kinds
    BY DEF KindOf, TInv, BytesInv, Begun
  <1> QED
    BY <1>1, ConnectionAssumption DEF AllFaults, HeaderFaults

----------------------------------------------------------------------------
(***************************************************************************)
(* The parser                                                              *)
(***************************************************************************)

LEMMA HeadTail ==
    ASSUME NEW S, NEW s \in Seq(S), s # << >>
    PROVE  /\ Head(s) = s[1] /\ s[1] \in S
           /\ Tail(s) \in Seq(S) /\ Len(Tail(s)) = Len(s) - 1
           /\ (Len(s) = 1 /\ Tail(s) = << >>) \/ (Len(s) > 1 /\ Tail(s) # << >>)
  <1>1. Head(s) = s[1] /\ s[1] \in S
    OBVIOUS
  <1>2. Tail(s) \in Seq(S) /\ Len(Tail(s)) = Len(s) - 1
    BY HeadTailProperties
  <1>3. Len(s) \in Nat \ {0}
    BY EmptySeq
  <1>4. Tail(s) # << >> => Len(Tail(s)) \in Nat \ {0}
    BY <1>2, EmptySeq
  <1>5. Tail(s) = << >> => Len(Tail(s)) = 0
    BY EmptySeq
  <1> QED
    BY <1>1, <1>2, <1>3, <1>4, <1>5

\* What FinishHeaders returns for a request the client has begun.
LEMMA FinishHeadersCases ==
    ASSUME TInv, NEW p \in Parsers, p.req \in Begun,
           NEW in \in Seq(BegunTokens), in # << >>
    PROVE  LET k == KindOf(p.req)
               r == FinishHeaders(p, in) IN
           /\ r.in = Tail(in) /\ r.in \in Seq(BegunTokens)
           /\ r.p \in BegunParsers /\ r.p.req = p.req /\ r.p.keep = p.keep
           /\ r.p.body = p.body
           /\ \/ k.fault = "length" /\ r.res = "ERROR"
              \/ /\ k.fault = "chunked" /\ r.res = "HEADERS_COMPLETE"
                 /\ r.p.rem = 0 /\ r.p.state = "BODY"
              \/ /\ k.fault \notin {"length", "chunked"} /\ k.len > 0
                 /\ r.res = "HEADERS_COMPLETE"
                 /\ r.p.rem = k.len /\ r.p.state = "BODY"
              \/ /\ k.fault \notin {"length", "chunked"} /\ k.len = 0
                 /\ r.res = "MESSAGE_COMPLETE" /\ r.p.state = "DONE"
  <1> DEFINE k == KindOf(p.req)
  <1>1. k.len \in Nat
    BY KindType
  <1>2. Tail(in) \in Seq(BegunTokens)
    BY HeadTailProperties
  <1>3. p.req <= Len(kinds)
    BY DEF Begun
  <1> HIDE DEF k
  <1>4. CASE k.fault = "length"
    BY <1>2, <1>3, <1>4 DEF FinishHeaders, BegunParsers, Parsers, k
  <1>5. CASE k.fault = "chunked"
    BY <1>2, <1>3, <1>5 DEF FinishHeaders, BegunParsers, Parsers, k
  <1>6. CASE k.fault \notin {"length", "chunked"} /\ k.len > 0
    BY <1>1, <1>2, <1>3, <1>6 DEF FinishHeaders, BegunParsers, Parsers, k
  <1>7. CASE k.fault \notin {"length", "chunked"} /\ k.len = 0
    BY <1>2, <1>3, <1>7 DEF FinishHeaders, BegunParsers, Parsers, k
  <1> QED
    BY <1>1, <1>4, <1>5, <1>6, <1>7 DEF k

LEMMA LineLengthType ==
    ASSUME TInv, NEW in \in Seq(BegunTokens), in # << >>
    PROVE  /\ LineLength(in) \in 0 .. Len(in)
           /\ in[1].req \in Begun /\ Len(in) \in Nat \ {0}
  <1>1. in[1] \in BegunTokens /\ Len(in) \in Nat \ {0}
    BY HeadTail, EmptySeq
  <1>2. in[1].req \in Begun
    BY <1>1 DEF BegunTokens
  <1>3. KindOf(in[1].req).cut \in Nat
    BY <1>2, KindType
  <1> QED
    BY <1>1, <1>2, <1>3 DEF LineLength

\* The parser q has taken e tokens, a whole request line, from the front of in; or
\* it is at the headers already.
Begins(p, in, e, q) ==
    \/ p.state = "HEADERS" /\ e = 0 /\ q = p
    \/ /\ p.state = "REQUEST_LINE" /\ e = LineLength(in) /\ e > 0 /\ IsRequestLine(in[e])
       /\ q = [p EXCEPT !.req = in[1].req, !.keep = KindOf(in[1].req).keep]

RejectsLine(p, in) ==
    /\ p.state = "REQUEST_LINE"
    /\ LineLength(in) = 0 \/ ~IsRequestLine(in[LineLength(in)])

\* Parse rejects the request line or goes on to the headers behind it.
LEMMA ParseCases ==
    ASSUME TInv, NEW p \in BegunParsers, p.state \in {"REQUEST_LINE", "HEADERS"},
           NEW in \in Seq(BegunTokens), in # << >>
    PROVE  \/ /\ RejectsLine(p, in)
              /\ Parse(p, in) = Reject([p EXCEPT !.req = in[1].req], in)
           \/ \E e \in 0 .. Len(in), q \in Parsers :
                 /\ Begins(p, in, e, q) /\ q.req \in Begun /\ q.body = p.body
                 /\ Parse(p, in) = ParseHeaders(q, SubSeq(in, e + 1, Len(in)))
  <1>0. p \in Parsers /\ (p.state = "HEADERS" => p.req \in Begun)
    BY DEF BegunParsers
  <1>1. /\ LineLength(in) \in 0 .. Len(in)
        /\ in[1].req \in Begun /\ Len(in) \in Nat \ {0}
        /\ KindOf(in[1].req).keep \in BOOLEAN /\ in[1].req \in 0 .. MaxRequests
    <2>1. in[1].req \in Begun /\ LineLength(in) \in 0 .. Len(in) /\ Len(in) \in Nat \ {0}
      BY LineLengthType
    <2>2. KindOf(in[1].req).keep \in BOOLEAN
      BY <2>1, KindType
    <2>3. in[1].req \in 0 .. MaxRequests
      BY <2>1, ConnectionAssumption DEF Begun, TInv, BytesInv
    <2> QED
      BY <2>1, <2>2, <2>3
  <1>2. CASE p.state = "HEADERS"
    <2>1. SubSeq(in, 0 + 1, Len(in)) = in
      BY SubSeqFull
    <2>2. Parse(p, in) = ParseHeaders(p, in)
      BY <1>2 DEF Parse
    <2>3. 0 \in 0 .. Len(in) /\ Begins(p, in, 0, p)
      BY <1>1, <1>2 DEF Begins
    <2> QED
      BY <1>0, <1>2, <2>1, <2>2, <2>3
  <1>3. CASE RejectsLine(p, in)
    BY <1>3 DEF Parse, RejectsLine
  <1>4. CASE p.state = "REQUEST_LINE" /\ ~RejectsLine(p, in)
    <2> DEFINE e == LineLength(in)
               q == [p EXCEPT !.req = in[1].req, !.keep = KindOf(in[1].req).keep]
    <2>1. e > 0 /\ IsRequestLine(in[e]) /\ e \in 0 .. Len(in)
      BY <1>1, <1>4 DEF RejectsLine
    <2>2. q \in Parsers /\ q.req = in[1].req /\ q.body = p.body
      <3>1. ASSUME NEW n \in 0 .. MaxRequests, NEW b \in BOOLEAN
            PROVE  /\ [p EXCEPT !.req = n, !.keep = b] \in Parsers
                   /\ [p EXCEPT !.req = n, !.keep = b].req = n
                   /\ [p EXCEPT !.req = n, !.keep = b].body = p.body
        BY <1>0 DEF Parsers
      <3> QED
        BY <1>1, <3>1
    <2>3. Parse(p, in) = ParseHeaders(q, SubSeq(in, e + 1, Len(in)))
      <3>1. ASSUME NEW n \in 0 .. MaxRequests
            PROVE  /\ [p EXCEPT !.req = n].req = n
                   /\ \A b : [[p EXCEPT !.req = n] EXCEPT !.keep = b]
                                = [p EXCEPT !.req = n, !.keep = b]
        BY <1>0 DEF Parsers
      <3>2. e # 0 /\ ~(e = 0 \/ ~IsRequestLine(in[e]))
        BY <2>1
      <3> QED
        BY <1>1, <1>4, <3>1, <3>2 DEF Parse
    <2>4. Begins(p, in, e, q)
      BY <1>4, <2>1 DEF Begins
    <2> HIDE DEF e, q
    <2> QED
      BY <1>1, <2>1, <2>2, <2>3, <2>4
  <1> QED
    BY <1>2, <1>3, <1>4

\* The header at the front of in is rejected; or the end of the headers is behind d
\* tokens, a whole header.
RejectsHeader(in) ==
    /\ in # << >> /\ in[1].part # "end"
    /\ LineLength(in) = 0 \/ ~IsHeader(in[LineLength(in)])

Skips(in, d) ==
    /\ in # << >>
    /\ \/ d = 0 /\ in[1].part = "end"
       \/ /\ in[1].part # "end"
          /\ d = LineLength(in) /\ d > 0 /\ IsHeader(in[d])

LEMMA ParseHeadersCases ==
    ASSUME TInv, NEW p, NEW in \in Seq(BegunTokens)
    PROVE  \/ /\ in = << >> \/ Skips(in, Len(in))
              /\ ParseHeaders(p, in) = NeedMore(p)
           \/ RejectsHeader(in) /\ ParseHeaders(p, in) = Reject(p, in)
           \/ \E d \in 0 .. Len(in) : 
                 /\ d < Len(in) /\ Skips(in, d)
                 /\ ParseHeaders(p, in) = FinishHeaders(p, SubSeq(in, d + 1, Len(in)))
  <1>1. CASE in = << >>
    BY <1>1 DEF ParseHeaders
  <1>2. CASE in # << >> /\ in[1].part = "end"
    <2>1. Skips(in, 0) /\ 0 \in 0 .. Len(in) /\ 0 < Len(in)
      BY <1>2, LineLengthType DEF Skips
    <2>2. SubSeq(in, 0 + 1, Len(in)) = in
      BY SubSeqFull
    <2>3. ParseHeaders(p, in) = FinishHeaders(p, in)
      BY <1>2 DEF ParseHeaders
    <2> QED
      BY <2>1, <2>2, <2>3
  <1>3. CASE RejectsHeader(in)
    BY <1>3 DEF ParseHeaders, RejectsHeader
  <1>4. CASE in # << >> /\ in[1].part # "end" /\ ~RejectsHeader(in)
    <2> DEFINE d == LineLength(in)
               rest == SubSeq(in, d + 1, Len(in))
    <2>1. d \in 0 .. Len(in) /\ d > 0 /\ IsHeader(in[d]) /\ Len(in) \in Nat
      BY <1>4, LineLengthType DEF RejectsHeader
    <2>2. Skips(in, d)
      BY <1>4, <2>1 DEF Skips
    <2>3. CASE rest = << >>
      <3>1. d = Len(in)
        <4>1. CASE d < Len(in)
          <5>1. \A i \in d + 1 .. Len(in) : in[i] \in BegunTokens
            BY <2>1, ElementOfSeq
          <5>2. Len(rest) = Len(in) - (d + 1) + 1
            BY <2>1, <4>1, <5>1, SubSeqProperties
          <5> HIDE DEF d, rest
          <5>3. Len(rest) = 0
            BY <2>3
          <5> QED
            BY <2>1, <4>1, <5>2, <5>3
        <4> HIDE DEF d
        <4> QED
          BY <2>1, <4>1
      <3>2. ParseHeaders(p, in) = NeedMore(p)
        BY <1>4, <2>1, <2>3 DEF ParseHeaders
      <3> QED
        BY <2>2, <3>1, <3>2
    <2>4. CASE rest # << >>
      <3>1. d < Len(in)
        <4>1. CASE d = Len(in)
          <5>1. rest = << >>
            BY <2>1, <4>1, SubSeqEmpty
          <5> QED
            BY <2>4, <5>1
        <4> QED
          BY <2>1, <4>1
      <3>2. ParseHeaders(p, in) = FinishHeaders(p, rest)
        <4>1. ~(d = 0 \/ ~IsHeader(in[d]))
          BY <2>1
        <4> QED
          BY <1>4, <2>4, <4>1 DEF ParseHeaders
      <3> QED
        BY <2>1, <2>2, <3>1, <3>2
    <2> QED
      BY <2>3, <2>4
  <1> QED
    BY <1>1, <1>2, <1>3, <1>4

----------------------------------------------------------------------------
(***************************************************************************)
(* The callbacks of the server                                             *)
(***************************************************************************)

\* OnRequest answers the request it is given, and hands it to the router with
\* what it has got of the body, unless the upload cannot be committed.
LEMMA OnRequestCases ==
    ASSUME TInv, NEW p \in Parsers, p.req \in Begun,
           NEW ctx \in Contexts \cup {None}, NEW r \in OnRequest(p, ctx)
    PROVE  LET committed == ctx # None /\ ctx.session
               got == IF committed THEN ctx.bytes ELSE p.body IN
           /\ r.resp \in {Response(p.req, "router"), Response(p.req, "400")}
           /\ r.seen \in {<< >>, <<[req |-> p.req, body |-> got, stored |-> committed]>>}
           /\ r.seen \in Seq(BegunHandled)
           /\ r.next \in {"WRITING_RESPONSE", "SENDING_FILE"}
           /\ r.next = "SENDING_FILE" => r.resp = Response(p.req, "router")
           /\ r.next = "WRITING_RESPONSE" => r.file = 0
           /\ r.file \in 0 .. MaxFile
  <1> DEFINE committed == ctx # None /\ ctx.session
             got == IF committed THEN ctx.bytes ELSE p.body
             seen == [req |-> p.req, body |-> got, stored |-> committed]
  <1>1. seen \in BegunHandled
    <2>1. got \in Nat
      BY DEF Contexts, Parsers
    <2>2. committed \in BOOLEAN
      OBVIOUS
    <2> HIDE DEF got, committed
    <2> QED
      BY <2>1, <2>2 DEF BegunHandled
  <1>2. <<seen>> \in Seq(BegunHandled) /\ << >> \in Seq(BegunHandled)
    BY <1>1
  <1>3. 0 \in 0 .. MaxFile
    BY ConnectionAssumption
  <1>4. \/ r = [resp |-> Response(p.req, "router"), seen |-> <<seen>>,
                next |-> "WRITING_RESPONSE", file |-> 0]
        \/ \E f \in 0 .. MaxFile :
              r = [resp |-> Response(p.req, "router"), seen |-> <<seen>>,
                   next |-> "SENDING_FILE", file |-> f]
        \/ r = [resp |-> Response(p.req, "400"), seen |-> << >>,
                next |-> "WRITING_RESPONSE", file |-> 0]
    BY DEF OnRequest
  <1> HIDE DEF seen
  <1>5. /\ r.resp \in {Response(p.req, "router"), Response(p.req, "400")}
        /\ r.seen \in {<< >>, <<seen>>}
        /\ r.next \in {"WRITING_RESPONSE", "SENDING_FILE"}
        /\ r.next = "SENDING_FILE" => r.resp = Response(p.req, "router")
        /\ r.next = "WRITING_RESPONSE" => r.file = 0
        /\ r.file \in 0 .. MaxFile
    BY <1>3, <1>4
  <1> QED
    BY <1>2, <1>5 DEF seen

\* The effect of Dispatch on the connection's types.
LEMMA DispatchType ==
    ASSUME TInv, NEW p \in Parsers, p.req \in Begun,
           NEW ctx \in Contexts \cup {None}, NEW before \in Seq(BegunResponses),
           Dispatch(p, ctx, before)
    PROVE  /\ output' \in Seq(BegunResponses) /\ handled' \in Seq(BegunHandled)
           /\ file' \in 0 .. MaxFile
           /\ st' \in {"WRITING_RESPONSE", "SENDING_FILE"} /\ upload' = None
           /\ parser' \in BegunParsers /\ parser'.state = "DONE"
           /\ parser'.req = p.req /\ parser'.keep = p.keep
           /\ events' \subseteq {"in", "out"} /\ added' \in BOOLEAN
  <1>1. PICK r \in OnRequest(p, ctx) :
            /\ output' = output \o before \o <<r.resp>>
            /\ handled' = handled \o r.seen
            /\ st' = r.next
            /\ file' = r.file
            /\ upload' = None
            /\ parser' = [p EXCEPT !.state = "DONE"]
            /\ Update(events \cup {"out"})
    BY DEF Dispatch
  <1>2. /\ r.resp \in {Response(p.req, "router"), Response(p.req, "400")}
        /\ r.seen \in Seq(BegunHandled)
        /\ r.next \in {"WRITING_RESPONSE", "SENDING_FILE"}
        /\ r.file \in 0 .. MaxFile
    BY OnRequestCases
  <1>3. r.resp \in BegunResponses
    BY <1>2 DEF Response, BegunResponses
  <1>4. output' \in Seq(BegunResponses)
    <2>1. output \in Seq(BegunResponses)
      BY DEF TInv, AnswerInv
    <2>2. <<r.resp>> \in Seq(BegunResponses)
      BY <1>3
    <2> QED
      BY <1>1, <2>1, <2>2, ConcatProperties
  <1>5. handled' \in Seq(BegunHandled)
    BY <1>1, <1>2, ConcatProperties DEF TInv, AnswerInv
  <1>6. /\ parser' \in BegunParsers /\ parser'.state = "DONE"
        /\ parser'.req = p.req /\ parser'.keep = p.keep
    <2> DEFINE u == [p EXCEPT !.state = "DONE"]
    <2>1. /\ u \in Parsers /\ u.state = "DONE" /\ u.req = p.req /\ u.keep = p.keep
      BY DEF Parsers
    <2> HIDE DEF u
    <2>2. u.req <= Len(kinds)
      BY <2>1 DEF Begun
    <2>3. u \in BegunParsers
      BY <2>1, <2>2 DEF BegunParsers
    <2> QED
      BY <1>1, <2>1, <2>3 DEF u
  <1>7. events' \subseteq {"in", "out"} /\ added' \in BOOLEAN
    BY <1>1 DEF Update, AddedAfter, TInv, LoopInv
  <1> QED
    BY <1>1, <1>2, <1>4, <1>5, <1>6, <1>7

\* SendError is called for the request of a token or of the parser.
LEMMA SendErrorType ==
    ASSUME TInv, NEW p \in BegunParsers, p.req \in Begun,
           NEW code \in {"400", "413"}, SendError(p, code)
    PROVE  /\ output' \in Seq(BegunResponses)
           /\ events' \subseteq {"in", "out"} /\ added' \in BOOLEAN
  <1>1. Response(p.req, code) \in BegunResponses
    BY DEF Response, BegunResponses
  <1>2. output' \in Seq(BegunResponses)
    BY <1>1, AppendProperties DEF SendError, TInv, AnswerInv
  <1> QED
    BY <1>2 DEF SendError, Update, AddedAfter, TInv, LoopInv

\* OnBodyData with n units: collected in the request, or written by the session
\* of the request's upload context.
LEMMA OnBodyDataCases ==
    ASSUME TInv, NEW p \in Parsers, p.req \in Begun, NEW n \in Nat,
           NEW o \in OnBodyData(p, n)
    PROVE  /\ o.ok \in BOOLEAN /\ o.body \in Nat
           /\ o.upload \in Contexts \cup {None}
           /\ ~KindOf(p.req).stream => o.ok /\ o.upload = upload /\ o.body = p.body + n
           /\ KindOf(p.req).stream =>
                 /\ o.body = p.body /\ o.upload \in Contexts
                 /\ upload = None => o.upload.gen = gen /\ o.upload.req = p.req
                 /\ upload # None => o.upload.gen = upload.gen /\ o.upload.req = upload.req
                 /\ o.ok => /\ o.upload.session
                            /\ o.upload.bytes = n + (IF upload = None THEN 0 ELSE upload.bytes)
  <1> USE DEF Parsers
  <1>1. CASE ~KindOf(p.req).stream
    <2>1. o = [ok |-> TRUE, upload |-> upload, body |-> p.body + n]
      BY <1>1 DEF OnBodyData
    <2> QED
      BY <1>1, <2>1 DEF TInv, ParserInv
  <1>2. CASE KindOf(p.req).stream
    <2>1. PICK ctx \in (IF upload = None THEN BeginWrite(p) ELSE {upload}) :
              \E w \in IF ctx.session THEN Write(ctx, n) ELSE {[ok |-> FALSE, upload |-> ctx]} :
                  o = [ok |-> w.ok, upload |-> w.upload, body |-> p.body]
      BY <1>2 DEF OnBodyData
    <2>2. /\ ctx \in Contexts
          /\ upload = None => ctx.gen = gen /\ ctx.req = p.req /\ ctx.bytes = 0
          /\ upload # None => ctx = upload
      <3>1. CASE upload = None
        <4>1. PICK b \in BOOLEAN :
                  ctx = [gen |-> gen, req |-> p.req, session |-> b, bytes |-> 0]
          BY <2>1, <3>1 DEF BeginWrite, Fallible
        <4>2. p.req \in 1 .. MaxRequests
          BY ConnectionAssumption DEF TInv, BytesInv, Begun
        <4> QED
          BY <3>1, <4>1, <4>2 DEF Contexts, TInv, LoopInv
      <3>2. CASE upload # None
        BY <2>1, <3>2 DEF TInv, ParserInv
      <3> QED
        BY <3>1, <3>2
    <2>3. PICK w \in IF ctx.session THEN Write(ctx, n) ELSE {[ok |-> FALSE, upload |-> ctx]} :
              o = [ok |-> w.ok, upload |-> w.upload, body |-> p.body]
      BY <2>1
    <2>4. \/ w = [ok |-> FALSE, upload |-> ctx]
          \/ /\ ctx.session
             /\ w = [ok |-> TRUE, upload |-> [ctx EXCEPT !.bytes = @ + n]]
      <3>1. CASE ctx.session
        <4>1. PICK b \in BOOLEAN :
                  w = [ok |-> b, upload |-> IF b THEN [ctx EXCEPT !.bytes = @ + n] ELSE ctx]
          BY <2>3, <3>1 DEF Write, Fallible
        <4> QED
          BY <3>1, <4>1
      <3>2. CASE ~ctx.session
        BY <2>3, <3>2
      <3> QED
        BY <3>1, <3>2
    <2>5. CASE w = [ok |-> FALSE, upload |-> ctx]
      <3>1. ~o.ok /\ o.ok \in BOOLEAN /\ o.upload = ctx /\ o.body = p.body
        BY <2>3, <2>5
      <3> QED
        BY <1>2, <2>2, <3>1
    <2>6. CASE ctx.session /\ w = [ok |-> TRUE, upload |-> [ctx EXCEPT !.bytes = @ + n]]
      <3>1. /\ o.ok /\ o.body = p.body
            /\ o.upload = [ctx EXCEPT !.bytes = @ + n]
        BY <2>3, <2>6
      <3>2. /\ o.upload \in Contexts /\ o.upload.session
            /\ o.upload.gen = ctx.gen /\ o.upload.req = ctx.req
            /\ o.upload.bytes = ctx.bytes + n
        BY <2>2, <2>6, <3>1 DEF Contexts
      <3>3. ctx.bytes = IF upload = None THEN 0 ELSE upload.bytes
        BY <2>2
      <3> QED
        BY <1>2, <2>2, <3>1, <3>2, <3>3 DEF Contexts
    <2> QED
      BY <2>4, <2>5, <2>6
  <1> QED
    BY <1>1, <1>2

\* ProcessBody with n units, of which OnBodyData makes o.
BodyStep(p, in, n, o) ==
    LET q == [p EXCEPT !.body = o.body, !.rem = @ - n]
        failure == IF o.ok THEN << >> ELSE <<Response(p.req, "500")>> IN
    /\ n <= Len(in) /\ n <= p.rem
    /\ input' = SubSeq(in, n + 1, Len(in)) /\ input' \in Seq(BegunTokens)
    /\ closes' = IF o.ok THEN closes ELSE closes + 1
    /\ failure \in Seq(BegunResponses)
    /\ q \in BegunParsers /\ q.req = p.req /\ q.keep = p.keep
    /\ q.body = o.body /\ q.rem = p.rem - n /\ q.state = "BODY"
    /\ \/ /\ n = p.rem
          /\ Dispatch(q, o.upload, failure)
       \/ /\ n < p.rem /\ n = Len(in)
          /\ parser' = q
          /\ upload' = o.upload
          /\ output' = output \o failure /\ output' \in Seq(BegunResponses)
          /\ st' = IF o.ok THEN "READING_BODY_STREAM" ELSE "WRITING_RESPONSE"
          /\ events' = IF o.ok THEN events ELSE events \cup {"out"}
          /\ added' \in BOOLEAN
          /\ UNCHANGED <<file, handled>>

\* ProcessBody takes what there is of the body.  A complete body is dispatched; of
\* one that is not, nothing is left in the buffer.
LEMMA ProcessBodyCases ==
    ASSUME TInv, NEW p \in Parsers, p.req \in Begun, p.state = "BODY",
           NEW in \in Seq(BegunTokens), ProcessBody(p, in)
    PROVE  \E n \in Nat : \E o \in OnBodyData(p, n) : BodyStep(p, in, n, o)
  <1> DEFINE n == IF Len(in) < p.rem THEN Len(in) ELSE p.rem
  <1>1. /\ n \in Nat /\ n <= Len(in) /\ n <= p.rem /\ p.rem \in Nat
        /\ n = p.rem \/ (n < p.rem /\ n = Len(in))
        /\ n >= p.rem <=> n = p.rem
    BY DEF Parsers
  <1>2. input' = SubSeq(in, n + 1, Len(in))
    BY DEF ProcessBody
  <1>3. SubSeq(in, n + 1, Len(in)) \in Seq(BegunTokens)
    <2>1. \A i \in n + 1 .. Len(in) : in[i] \in BegunTokens
      BY <1>1
    <2> HIDE DEF n
    <2> QED
      BY <1>1, <2>1, SubSeqProperties
  <1>4. PICK o \in OnBodyData(p, n) :
          LET q == [p EXCEPT !.body = o.body, !.rem = @ - n]
              failure == IF o.ok THEN << >> ELSE <<Response(p.req, "500")>> IN
          /\ closes' = IF o.ok THEN closes ELSE closes + 1
          /\ \/ /\ n >= p.rem
                /\ Dispatch(q, o.upload, failure)
             \/ /\ ~(n >= p.rem)
                /\ parser' = q
                /\ upload' = o.upload
                /\ output' = output \o failure
                /\ st' = IF o.ok THEN "READING_BODY_STREAM" ELSE "WRITING_RESPONSE"
                /\ Update(IF o.ok THEN events ELSE events \cup {"out"})
                /\ UNCHANGED <<file, handled>>
    BY DEF ProcessBody
  <1> HIDE DEF n
  <1> DEFINE q == [p EXCEPT !.body = o.body, !.rem = @ - n]
             failure == IF o.ok THEN << >> ELSE <<Response(p.req, "500")>>
  <1>5. o.ok \in BOOLEAN /\ o.body \in Nat
    BY <1>1, OnBodyDataCases
  <1>6. /\ q \in BegunParsers /\ q.req = p.req /\ q.keep = p.keep
        /\ q.body = o.body /\ q.rem = p.rem - n /\ q.state = "BODY"
    <2>1. p.rem - n \in Nat
      BY <1>1
    <2>2. /\ q.req = p.req /\ q.keep = p.keep
          /\ q.body = o.body /\ q.rem = p.rem - n /\ q.state = "BODY"
      BY DEF Parsers
    <2>3. q \in Parsers
      BY <1>5, <2>1 DEF Parsers
    <2>4. p.req <= Len(kinds)
      BY DEF Begun
    <2> HIDE DEF q
    <2> QED
      BY <2>2, <2>3, <2>4 DEF BegunParsers
  <1>7. failure \in Seq(BegunResponses)
    <2>1. Response(p.req, "500") \in BegunResponses
      BY DEF Response, BegunResponses
    <2> QED
      BY <2>1
  <1>8. output \o failure \in Seq(BegunResponses)
    BY <1>7, ConcatProperties DEF TInv, AnswerInv
  <1> HIDE DEF q, failure
  <1>9. CASE n = p.rem
    <2>1. Dispatch(q, o.upload, failure) /\ closes' = IF o.ok THEN closes ELSE closes + 1
      BY <1>1, <1>4, <1>9 DEF q, failure
    <2> QED
      BY <1>1, <1>2, <1>3, <1>6, <1>7, <1>9, <2>1 DEF q, failure, BodyStep
  <1>10. CASE n < p.rem /\ n = Len(in)
    <2>1. /\ parser' = q
          /\ upload' = o.upload
          /\ output' = output \o failure
          /\ st' = IF o.ok THEN "READING_BODY_STREAM" ELSE "WRITING_RESPONSE"
          /\ Update(IF o.ok THEN events ELSE events \cup {"out"})
          /\ UNCHANGED <<file, handled>>
          /\ closes' = IF o.ok THEN closes ELSE closes + 1
      BY <1>1, <1>4, <1>10 DEF q, failure
    <2>2. /\ events' = IF o.ok THEN events ELSE events \cup {"out"}
          /\ added' \in BOOLEAN
      BY <2>1 DEF Update, AddedAfter, TInv, LoopInv
    <2> QED
      BY <1>1, <1>2, <1>3, <1>6, <1>7, <1>8, <1>10, <2>1, <2>2 DEF q, failure, BodyStep
  <1> QED
    BY <1>1, <1>9, <1>10

\* What ProcessHeaders does at the end of the headers of p's request, when in is
\* what follows them.
HeadersEnd(p, in) ==
    LET k == KindOf(p.req) IN
    \/ /\ k.fault = "length"
       /\ SendError(p, "400") /\ input' = in /\ closes' = closes
    \/ /\ k.fault = "big" /\ k.len > 0 /\ ~p.keep
       /\ SendError(p, "413") /\ input' = in /\ closes' = closes
    \/ /\ \/ k.fault = "chunked" /\ p.rem = 0
          \/ k.fault \notin {"length", "chunked", "big"} /\ k.len > 0 /\ p.rem = k.len
       /\ p.state = "BODY"
       /\ \/ in = << >> /\ NothingYet(p, in, "READING_BODY_STREAM")
          \/ in # << >> /\ ProcessBody(p, in)
    \/ /\ k.fault \notin {"length", "chunked"} /\ k.len = 0
       /\ Dispatch(p, upload, << >>) /\ input' = in /\ closes' = closes

\* ProcessHeaders rejects the request line, or takes it and then rejects a header,
\* waits for the end of the headers, or comes to it.
AfterLineStep(p, rest) ==
    \/ /\ RejectsHeader(rest)
       /\ SendError(p, "400") /\ input' = rest /\ closes' = closes
    \/ /\ rest = << >> \/ Skips(rest, Len(rest))
       /\ p.state = "HEADERS" /\ NothingYet(p, << >>, "READING_HEADERS")
    \/ \E d \in 0 .. Len(rest) :
          /\ d < Len(rest) /\ Skips(rest, d)
          /\ SubSeq(rest, d + 2, Len(rest)) \in Seq(BegunTokens)
          /\ HeadersEnd(p, SubSeq(rest, d + 2, Len(rest)))

LEMMA ProcessHeadersCases ==
    ASSUME TInv, st = "READING_HEADERS", NEW in \in Seq(BegunTokens), in # << >>,
           ProcessHeaders(in)
    PROVE  \/ /\ RejectsLine(parser, in)
              /\ \E p \in BegunParsers :
                    /\ p.req = in[1].req /\ p.keep = parser.keep /\ p.req \in Begun
                    /\ SendError(p, "400") /\ input' = in /\ closes' = closes
           \/ \E e \in 0 .. Len(in), q \in Parsers, p \in BegunParsers :
                 /\ Begins(parser, in, e, q)
                 /\ p.req = q.req /\ p.body = parser.body /\ p.req \in Begun
                 /\ SubSeq(in, e + 1, Len(in)) \in Seq(BegunTokens)
                 /\ AfterLineStep(p, SubSeq(in, e + 1, Len(in)))
  <1> DEFINE r == Parse(parser, in)
             tooBig == r.res = "HEADERS_COMPLETE" /\ KindOf(r.p.req).fault = "big"
             Outcome ==
                 \/ /\ r.res = "NEED_MORE_DATA"
                    /\ NothingYet(r.p, r.in, st)
                 \/ /\ r.res = "HEADERS_COMPLETE" /\ ~tooBig /\ r.in = << >>
                    /\ NothingYet(r.p, r.in, "READING_BODY_STREAM")
                 \/ /\ r.res = "HEADERS_COMPLETE" /\ ~tooBig /\ r.in # << >>
                    /\ ProcessBody(r.p, r.in)
                 \/ /\ tooBig
                    /\ SendError([r.p EXCEPT !.keep = FALSE], "413")
                    /\ input' = r.in
                    /\ UNCHANGED closes
                 \/ /\ r.res = "MESSAGE_COMPLETE"
                    /\ Dispatch(r.p, upload, << >>)
                    /\ input' = r.in
                    /\ UNCHANGED closes
                 \/ /\ r.res = "ERROR"
                    /\ SendError(r.p, "400")
                    /\ input' = r.in
                    /\ UNCHANGED closes
  <1>0. Outcome
    BY DEF ProcessHeaders
  <1>1. /\ parser \in BegunParsers /\ parser \in Parsers
        /\ parser.state \in {"REQUEST_LINE", "HEADERS"}
        /\ in[1].req \in Begun /\ in[1].req \in 0 .. MaxRequests /\ in[1].req <= Len(kinds)
        /\ Len(in) \in Nat \ {0}
    <2>1. in[1].req \in Begun /\ Len(in) \in Nat \ {0}
      BY LineLengthType
    <2> QED
      BY <2>1, ConnectionAssumption, SMTT(30) DEF TInv, ParserInv, BytesInv, BegunParsers, Begun
  <1> HIDE DEF r
  \* The end of the headers, with the parser's p and the tokens from d on.
  <1>2. ASSUME NEW p \in Parsers, p.req \in Begun, NEW u \in Seq(BegunTokens), 
               NEW d \in 0 .. Len(u), d < Len(u),
               r = FinishHeaders(p, SubSeq(u, d + 1, Len(u)))
        PROVE  \E p1 \in BegunParsers :
                  /\ p1.req = p.req /\ p1.body = p.body
                  /\ SubSeq(u, d + 2, Len(u)) \in Seq(BegunTokens)
                  /\ HeadersEnd(p1, SubSeq(u, d + 2, Len(u)))
    <2> DEFINE s == SubSeq(u, d + 1, Len(u))
               rest == SubSeq(u, d + 2, Len(u))
    <2>1. s \in Seq(BegunTokens) /\ s # << >> /\ Tail(s) = rest
      <3>0. Len(u) \in Nat /\ d \in Nat
        BY <1>2
      <3>1. \A i \in d + 1 .. Len(u) : u[i] \in BegunTokens
        BY <1>2, <3>0, ElementOfSeq
      <3>2. s \in Seq(BegunTokens) /\ Len(s) = Len(u) - (d + 1) + 1
        BY <1>2, <3>0, <3>1, SubSeqProperties
      <3>3. Len(s) # 0
        BY <1>2, <3>0, <3>2
      <3>4. s # << >>
        BY <3>3, EmptySeq
      <3>5. d + 1 \in 1 .. Len(u) /\ Len(u) \in d + 1 .. Len(u) /\ (d + 1) + 1 = d + 2
        BY <1>2, <3>0
      <3>6. Tail(s) = SubSeq(u, (d + 1) + 1, Len(u))
        BY <3>5, HeadTailOfSubSeq
      <3> QED
        BY <3>2, <3>4, <3>5, <3>6
    <2> HIDE DEF s, rest
    <2> DEFINE k == KindOf(p.req)
    <2>2. /\ r.in = rest /\ rest \in Seq(BegunTokens)
          /\ r.p \in BegunParsers /\ r.p.req = p.req /\ r.p.keep = p.keep
          /\ r.p.body = p.body
          /\ \/ k.fault = "length" /\ r.res = "ERROR"
             \/ /\ k.fault = "chunked" /\ r.res = "HEADERS_COMPLETE"
                /\ r.p.rem = 0 /\ r.p.state = "BODY"
             \/ /\ k.fault \notin {"length", "chunked"} /\ k.len > 0
                /\ r.res = "HEADERS_COMPLETE"
                /\ r.p.rem = k.len /\ r.p.state = "BODY"
             \/ /\ k.fault \notin {"length", "chunked"} /\ k.len = 0
                /\ r.res = "MESSAGE_COMPLETE" /\ r.p.state = "DONE"
      BY <1>2, <2>1, FinishHeadersCases, ZenonT(30) DEF s
    <2>3. k.len \in Nat
      BY <1>2, KindType
    <2>4. CASE tooBig
      <3> DEFINE p1 == [r.p EXCEPT !.keep = FALSE]
      <3>1. /\ p1 \in BegunParsers
            /\ p1.req = p.req /\ p1.body = p.body /\ ~p1.keep
        BY <2>2 DEF BegunParsers, Parsers
      <3>2. SendError(p1, "413") /\ input' = rest /\ closes' = closes
        BY <1>0, <2>2, <2>4, <3>1
      <3>3. HeadersEnd(p1, rest)
        BY <2>2, <2>3, <2>4, <3>1, <3>2 DEF HeadersEnd
      <3> QED
        BY <2>2, <3>1, <3>3 DEF rest
    <2>5. CASE ~tooBig
      <3>1. HeadersEnd(r.p, rest)
        <4>1. CASE r.res = "ERROR"
          BY <1>0, <2>2, <2>3, <4>1 DEF HeadersEnd
        <4>2. CASE r.res = "MESSAGE_COMPLETE"
          BY <1>0, <2>2, <2>3, <4>2 DEF HeadersEnd
        <4>3. CASE r.res = "HEADERS_COMPLETE"
          BY <1>0, <2>2, <2>3, <2>5, <4>3 DEF HeadersEnd
        <4> QED
          BY <2>2, <4>1, <4>2, <4>3
      <3> QED
        BY <2>2, <3>1 DEF rest
    <2> QED
      BY <2>4, <2>5
  <1>3. CASE RejectsLine(parser, in) /\ r = Reject([parser EXCEPT !.req = in[1].req], in)
    <2>0. r = [res |-> "ERROR", in |-> in,
               p |-> [[parser EXCEPT !.req = in[1].req] EXCEPT !.state = "ERROR"]]
      BY <1>3 DEF Reject
    <2>1. /\ r.p \in BegunParsers /\ r.p.req = in[1].req /\ r.p.keep = parser.keep
      BY <1>1, <2>0 DEF BegunParsers, Parsers
    <2>2. SendError(r.p, "400") /\ input' = in /\ closes' = closes
      BY <1>0, <2>0
    <2> QED
      BY <1>1, <1>3, <2>1, <2>2
  <1>4. ASSUME NEW e \in 0 .. Len(in), NEW q \in Parsers, Begins(parser, in, e, q),
               q.req \in Begun, q.body = parser.body,
               r = ParseHeaders(q, SubSeq(in, e + 1, Len(in)))
        PROVE  \E p \in BegunParsers :
                 /\ p.req = q.req /\ p.body = parser.body /\ p.req \in Begun
                 /\ SubSeq(in, e + 1, Len(in)) \in Seq(BegunTokens)
                 /\ AfterLineStep(p, SubSeq(in, e + 1, Len(in)))
    <2> DEFINE u == SubSeq(in, e + 1, Len(in))
    <2>1. u \in Seq(BegunTokens)
      <3>1. \A i \in e + 1 .. Len(in) : in[i] \in BegunTokens
        BY <1>1, <1>4, ElementOfSeq
      <3> QED
        BY <1>1, <1>4, <3>1, SubSeqProperties
    <2>a. r = ParseHeaders(q, u)
      BY <1>4
    <2> HIDE DEF u
    <2>2. CASE (u = << >> \/ Skips(u, Len(u))) /\ r = NeedMore(q)
      <3>1. r = [res |-> "NEED_MORE_DATA", in |-> << >>, p |-> [q EXCEPT !.state = "HEADERS"]]
        BY <2>2 DEF NeedMore
      <3>2. /\ r.p \in BegunParsers /\ r.p.req = q.req /\ r.p.body = parser.body
            /\ r.p.state = "HEADERS"
        BY <1>4, <3>1 DEF BegunParsers, Parsers, Begun
      <3>3. NothingYet(r.p, << >>, "READING_HEADERS")
        BY <1>0, <3>1
      <3>4. AfterLineStep(r.p, u)
        BY <2>2, <3>2, <3>3 DEF AfterLineStep
      <3> QED
        BY <1>4, <2>1, <3>2, <3>4 DEF u
    <2>3. CASE RejectsHeader(u) /\ r = Reject(q, u)
      <3>1. r = [res |-> "ERROR", in |-> u, p |-> [q EXCEPT !.state = "ERROR"]]
        BY <2>3 DEF Reject
      <3>2. /\ r.p \in BegunParsers /\ r.p.req = q.req /\ r.p.body = parser.body
        BY <1>4, <3>1 DEF BegunParsers, Parsers, Begun
      <3>3. SendError(r.p, "400") /\ input' = u /\ closes' = closes
        BY <1>0, <3>1
      <3>4. AfterLineStep(r.p, u)
        BY <2>3, <3>3 DEF AfterLineStep
      <3> QED
        BY <1>4, <2>1, <3>2, <3>4 DEF u
    <2>4. ASSUME NEW d \in 0 .. Len(u), d < Len(u), Skips(u, d),
                 r = FinishHeaders(q, SubSeq(u, d + 1, Len(u)))
          PROVE  \E p \in BegunParsers :
                   p.req = q.req /\ p.body = parser.body /\ AfterLineStep(p, u)
      <3>1. PICK p1 \in BegunParsers :
                  /\ p1.req = q.req /\ p1.body = q.body
                  /\ SubSeq(u, d + 2, Len(u)) \in Seq(BegunTokens)
                  /\ HeadersEnd(p1, SubSeq(u, d + 2, Len(u)))
        BY <1>2, <1>4, <2>1, <2>4
      <3>2. AfterLineStep(p1, u)
        BY <2>4, <3>1 DEF AfterLineStep
      <3> QED
        BY <1>4, <3>1, <3>2
    <2>5. \/ (u = << >> \/ Skips(u, Len(u))) /\ r = NeedMore(q)
          \/ RejectsHeader(u) /\ r = Reject(q, u)
          \/ \E d \in 0 .. Len(u) :
                /\ d < Len(u) /\ Skips(u, d)
                /\ r = FinishHeaders(q, SubSeq(u, d + 1, Len(u)))
      BY <2>1, <2>a, ParseHeadersCases
    <2> QED
      BY <1>4, <2>1, <2>2, <2>3, <2>4, <2>5 DEF u
  <1>5. \/ RejectsLine(parser, in) /\ r = Reject([parser EXCEPT !.req = in[1].req], in)
        \/ \E e \in 0 .. Len(in), q \in Parsers :
              /\ Begins(parser, in, e, q) /\ q.req \in Begun /\ q.body = parser.body
              /\ r = ParseHeaders(q, SubSeq(in, e + 1, Len(in)))
    BY <1>1, ParseCases, Zenon DEF r
  <1> QED
    BY <1>3, <1>4, <1>5, Zenon

----------------------------------------------------------------------------
(***************************************************************************)
(* The types are kept                                                      *)
(***************************************************************************)

\* What every outcome of a read keeps.
ReadTypes ==
    /\ input' \in Seq(BegunTokens)
    /\ output' \in Seq(BegunResponses) /\ handled' \in Seq(BegunHandled)
    /\ file' \in 0 .. MaxFile
    /\ st' \in States
    /\ parser' \in BegunParsers
    /\ st' = "READING_HEADERS" => parser'.state \in {"REQUEST_LINE", "HEADERS"}
    /\ st' = "READING_BODY_STREAM" => parser'.state = "BODY"
    /\ st' = "SENDING_FILE" => parser'.state = "DONE"
    /\ upload' \in Contexts \cup {None}
    /\ events' \subseteq {"in", "out"} /\ added' \in BOOLEAN
    /\ closes' \in {closes, closes + 1}

LEMMA ProcessBodyType ==
    ASSUME TInv, NEW p \in BegunParsers, p.req \in Begun, p.state = "BODY",
           NEW in \in Seq(BegunTokens), ProcessBody(p, in)
    PROVE  ReadTypes
  <1>0. p \in Parsers
    BY DEF BegunParsers
  <1>a. PICK n \in Nat : \E o \in OnBodyData(p, n) : BodyStep(p, in, n, o)
    BY <1>0, ProcessBodyCases
  <1>1. PICK o \in OnBodyData(p, n) : BodyStep(p, in, n, o)
    BY <1>a
  <1> DEFINE q == [p EXCEPT !.body = o.body, !.rem = @ - n]
             failure == IF o.ok THEN << >> ELSE <<Response(p.req, "500")>>
  <1>2. o.upload \in Contexts \cup {None} /\ o.ok \in BOOLEAN
    BY <1>0, OnBodyDataCases
  <1>3. /\ input' \in Seq(BegunTokens)
        /\ closes' \in {closes, closes + 1}
        /\ failure \in Seq(BegunResponses)
        /\ q \in BegunParsers /\ q \in Parsers /\ q.req \in Begun /\ q.state = "BODY"
    BY <1>1 DEF BegunParsers, BodyStep
  <1>4. CASE Dispatch(q, o.upload, failure)
    <2> HIDE DEF q, failure
    <2> QED
      BY <1>2, <1>3, <1>4, DispatchType DEF ReadTypes, States
  <1>5. CASE /\ parser' = q
             /\ upload' = o.upload
             /\ output' \in Seq(BegunResponses)
             /\ st' = IF o.ok THEN "READING_BODY_STREAM" ELSE "WRITING_RESPONSE"
             /\ events' = IF o.ok THEN events ELSE events \cup {"out"}
             /\ added' \in BOOLEAN
             /\ UNCHANGED <<file, handled>>
    <2> HIDE DEF q, failure
    <2> QED
      BY <1>2, <1>3, <1>5 DEF ReadTypes, States, TInv, AnswerInv, LoopInv
  <1> QED
    BY <1>1, <1>4, <1>5 DEF BodyStep

LEMMA NothingYetType ==
    ASSUME TInv, NEW p \in BegunParsers, NEW in \in Seq(BegunTokens), NEW next \in States,
           next = "READING_HEADERS" => p.state \in {"REQUEST_LINE", "HEADERS"},
           next = "READING_BODY_STREAM" => p.state = "BODY",
           next = "SENDING_FILE" => p.state = "DONE",
           NothingYet(p, in, next)
    PROVE  ReadTypes
  BY DEF NothingYet, ReadTypes, TInv, AnswerInv, ParserInv, LoopInv

LEMMA SendErrorReadType ==
    ASSUME TInv, NEW p \in BegunParsers, p.req \in Begun, NEW code \in {"400", "413"},
           SendError(p, code), input' \in Seq(BegunTokens), closes' = closes
    PROVE  ReadTypes
  <1>1. /\ output' \in Seq(BegunResponses)
        /\ events' \subseteq {"in", "out"} /\ added' \in BOOLEAN
    BY SendErrorType
  <1> QED
    BY <1>1 DEF SendError, ReadTypes, States, TInv, AnswerInv, ParserInv

LEMMA HeadersEndType ==
    ASSUME TInv, NEW p \in BegunParsers, p.req \in Begun, NEW in \in Seq(BegunTokens),
           HeadersEnd(p, in)
    PROVE  ReadTypes
  <1>1. CASE SendError(p, "400") /\ input' = in /\ closes' = closes
    BY <1>1, SendErrorReadType
  <1>2. CASE SendError(p, "413") /\ input' = in /\ closes' = closes
    BY <1>2, SendErrorReadType
  <1>3. CASE p.state = "BODY" /\ NothingYet(p, in, "READING_BODY_STREAM")
    BY <1>3, NothingYetType DEF States
  <1>4. CASE p.state = "BODY" /\ ProcessBody(p, in)
    BY <1>4, ProcessBodyType
  <1>5. CASE Dispatch(p, upload, << >>) /\ input' = in /\ closes' = closes
    <2>1. /\ p \in Parsers /\ upload \in Contexts \cup {None}
          /\ << >> \in Seq(BegunResponses)
      BY DEF BegunParsers, TInv, ParserInv
    <2> QED
      BY <1>5, <2>1, DispatchType DEF ReadTypes, States
  <1> QED
    BY <1>1, <1>2, <1>3, <1>4, <1>5 DEF HeadersEnd

LEMMA ReadDataTypes ==
    ASSUME TInv, HandleReadData
    PROVE  ReadTypes
  <1> DEFINE in == input \o sock
  <1>1. in \in Seq(BegunTokens) /\ in # << >>
    <2>1. input \in Seq(BegunTokens) /\ sock \in Seq(BegunTokens) /\ sock # << >>
      BY DEF TInv, BytesInv, HandleReadData
    <2> QED
      BY <2>1, ConcatProperties, ConcatEqualIffEmpty
  <1>2. /\ parser \in BegunParsers /\ st \in States
        /\ st = "READING_HEADERS" => parser.state \in {"REQUEST_LINE", "HEADERS"}
        /\ st = "READING_BODY_STREAM" => parser.state = "BODY"
        /\ st = "SENDING_FILE" => parser.state = "DONE"
    BY DEF TInv, ParserInv
  <1>3. \/ st = "READING_HEADERS" /\ ProcessHeaders(in)
        \/ st = "READING_BODY_STREAM" /\ ProcessBody(parser, in)
        \/ NothingYet(parser, in, st)
    BY DEF HandleReadData
  <1> HIDE DEF in
  <1>4. CASE st = "READING_HEADERS" /\ ProcessHeaders(in)
    <2>1. CASE \E p \in BegunParsers :
                  /\ p.req \in Begun
                  /\ SendError(p, "400") /\ input' = in /\ closes' = closes
      BY <1>1, <2>1, SendErrorReadType
    <2>2. ASSUME NEW p \in BegunParsers, p.req \in Begun, NEW rest \in Seq(BegunTokens),
                 AfterLineStep(p, rest)
          PROVE  ReadTypes
      <3>1. << >> \in Seq(BegunTokens) /\ "READING_HEADERS" \in States
        BY DEF States
      <3>2. CASE p.state = "HEADERS" /\ NothingYet(p, << >>, "READING_HEADERS")
        BY <2>2, <3>1, <3>2, NothingYetType
      <3>3. CASE SendError(p, "400") /\ input' = rest /\ closes' = closes
        BY <2>2, <3>3, SendErrorReadType
      <3> QED
        BY <2>2, <3>2, <3>3, HeadersEndType DEF AfterLineStep
    <2> QED
      BY <1>1, <1>4, <2>1, <2>2, ProcessHeadersCases
  <1>5. CASE st = "READING_BODY_STREAM" /\ ProcessBody(parser, in)
    <2>1. parser.req \in Begun
      BY <1>2, <1>5 DEF BegunParsers
    <2> QED
      BY <1>1, <1>2, <1>5, <2>1, ProcessBodyType
  <1>6. CASE NothingYet(parser, in, st)
    BY <1>1, <1>2, <1>6, NothingYetType
  <1> QED
    BY <1>3, <1>4, <1>5, <1>6

\* A callback is taken out of the event.
LEMMA CallsType ==
    ASSUME TInv, NEW c \in {"error", "in", "out"}, Calls(c)
    PROVE  /\ revents' \subseteq {"error", "in", "out"} /\ c \in revents
           /\ "in" \in revents' <=> ("in" \in revents /\ c # "in")
  BY DEF Calls, TInv, LoopInv

\* What HandleClose and ResponseDone do to the types.
CloseTypes ==
    /\ st' \in States
    /\ upload' \in Contexts \cup {None}
    /\ events' \subseteq {"in", "out"} /\ added' \in BOOLEAN
    /\ timer' \in BOOLEAN /\ registered' \in BOOLEAN

LEMMA CloseAfterType ==
    ASSUME TInv, NEW ev \in SUBSET {"in", "out"}, NEW isAdded \in BOOLEAN,
           CloseAfter(ev, isAdded)
    PROVE  CloseTypes /\ st' = "CLOSED"
  BY DEF CloseAfter, Abort, AddedAfter, CloseTypes, States, TInv, LoopInv, ParserInv

LEMMA HandleCloseType ==
    ASSUME TInv, HandleClose
    PROVE  CloseTypes /\ st' = "CLOSED"
  <1>1. events \in SUBSET {"in", "out"} /\ added \in BOOLEAN
    BY DEF TInv, LoopInv
  <1> QED
    BY <1>1, CloseAfterType DEF HandleClose

LEMMA ResponseDoneType ==
    ASSUME TInv, ResponseDone
    PROVE  /\ CloseTypes
           /\ parser' \in BegunParsers
           /\ \/ st' = "READING_HEADERS" /\ parser' = Fresh
              \/ st' = "CLOSED" /\ parser' = parser
  <1>1. CASE parser.keep
    <2>1. Fresh \in BegunParsers
      BY ConnectionAssumption DEF Fresh, BegunParsers, Parsers, TInv, BytesInv
    <2> QED
      BY <1>1, <2>1
      DEF ResponseDone, Update, AddedAfter, CloseTypes, States, TInv, LoopInv, ParserInv
  <1>2. CASE ~parser.keep
    <2>1. events \ {"out"} \in SUBSET {"in", "out"}
      BY DEF TInv, LoopInv
    <2>2. AddedAfter(added, events \ {"out"}) \in BOOLEAN
      BY DEF AddedAfter
    <2> QED
      BY <1>2, <2>1, <2>2, CloseAfterType DEF ResponseDone, TInv, ParserInv
  <1> QED
    BY <1>1, <1>2

\* What is kept of the client's side when the client has begun nothing new.
LEMMA SameKinds ==
    ASSUME kinds' = kinds
    PROVE  /\ Begun' = Begun /\ BegunTokens' = BegunTokens
           /\ BegunResponses' = BegunResponses /\ BegunHandled' = BegunHandled
           /\ BegunParsers' = BegunParsers
  BY DEF Begun, BegunTokens, BegunResponses, BegunHandled, BegunParsers

LEMMA ClientStepTInv ==
    ASSUME TInv, ClientStep
    PROVE  TInv'
  <1> USE DEF ClientStep, bufferVars, channelVars, serverVars, loopVars
  <1>0. LoopInv'
    <2>1. {eof', rst'} \subseteq BOOLEAN
      BY DEF ClientBegins, ClientSends, ClientCloses, ClientResets, TInv, LoopInv
    <2> QED
      BY <2>1 DEF TInv, LoopInv
  <1>1. ASSUME NEW k \in Kinds, ClientBegins(k)
        PROVE  TInv'
    <2>1. /\ kinds \in Seq(Kinds) /\ kinds' = Append(kinds, k) /\ Len(kinds) \in Nat
          /\ Len(kinds) < MaxRequests /\ MaxRequests \in Nat
      BY <1>1, ConnectionAssumption DEF ClientBegins, TInv, BytesInv
    <2>2. kinds' \in Seq(Kinds) /\ Len(kinds') = Len(kinds) + 1
      BY <2>1, AppendProperties
    <2>3. Len(kinds') <= MaxRequests
      BY <2>1, <2>2
    <2>4. Begun \subseteq Begun' /\ Len(kinds) + 1 \in Begun'
      BY <2>1, <2>2 DEF Begun
    <2>5. /\ BegunTokens \subseteq BegunTokens' /\ BegunResponses \subseteq BegunResponses'
          /\ BegunHandled \subseteq BegunHandled'
      BY <2>4 DEF BegunTokens, BegunResponses, BegunHandled
    <2>6. toSend' \in Seq(BegunTokens')
      <3> DEFINE top == IF k.fault \in HeaderFaults THEN 1 ELSE 0
                 line == top + k.cut + 1
                 t(i) == [req |-> Len(kinds) + 1,
                          part |-> IF i <= top THEN "top" ELSE IF i < line THEN "cut"
                                   ELSE IF i = line THEN "line"
                                   ELSE IF i = line + 1 THEN "end" ELSE "body"]
      <3>1. line + 1 + k.len \in Nat
        BY ConnectionAssumption
      <3>2. toSend' = [i \in 1 .. line + 1 + k.len |-> t(i)]
        BY <1>1 DEF ClientBegins, Tokens
      <3>3. \A i \in 1 .. line + 1 + k.len : t(i) \in BegunTokens'
        BY <2>4 DEF BegunTokens
      <3> HIDE DEF t, line
      <3> QED
        BY <3>1, <3>2, <3>3, IsASeq
    <2>7. /\ sock' \in Seq(BegunTokens') /\ input' \in Seq(BegunTokens')
      BY <1>1, <2>5, SeqMonotonic DEF ClientBegins, TInv, BytesInv
    <2>8. AnswerInv'
      BY <1>1, <2>5, SeqMonotonic DEF ClientBegins, TInv, AnswerInv
    <2>9. ParserInv'
      <3>1. parser \in BegunParsers'
        BY <2>1, <2>2, <2>4 DEF TInv, ParserInv, BegunParsers, Parsers
      <3> QED
        BY <3>1 DEF TInv, ParserInv
    <2> QED
      BY <1>0, <2>2, <2>3, <2>6, <2>7, <2>8, <2>9 DEF TInv, BytesInv
  <1>2. CASE kinds' = kinds /\ received' = received /\ BytesInv'
    BY <1>0, <1>2, SameKinds DEF TInv, AnswerInv, ParserInv
  <1>3. ASSUME NEW n \in 1 .. Len(toSend), ClientSends(n)
        PROVE  BytesInv'
    <2>1. toSend \in Seq(BegunTokens) /\ sock \in Seq(BegunTokens) /\ Len(toSend) \in Nat
      BY DEF TInv, BytesInv
    <2>2. /\ SubSeq(toSend, 1, n) \in Seq(BegunTokens)
          /\ SubSeq(toSend, n + 1, Len(toSend)) \in Seq(BegunTokens)
      <3>1. \A i \in 1 .. Len(toSend) : toSend[i] \in BegunTokens
        BY <2>1, ElementOfSeq
      <3>2. \A i \in 1 .. n : toSend[i] \in BegunTokens
        BY <2>1, <3>1
      <3>3. \A i \in n + 1 .. Len(toSend) : toSend[i] \in BegunTokens
        BY <2>1, <3>1
      <3> QED
        BY <2>1, <3>2, <3>3, SubSeqProperties
    <2>3. sock' \in Seq(BegunTokens)
      BY <1>3, <2>1, <2>2, ConcatProperties DEF ClientSends
    <2> QED
      BY <1>3, <2>2, <2>3, SameKinds DEF ClientSends, TInv, BytesInv
  <1>4. CASE ClientCloses \/ ClientResets
    <2>1. << >> \in Seq(BegunTokens)
      OBVIOUS
    <2> QED
      BY <1>2, <1>4, <2>1, SameKinds DEF ClientCloses, ClientResets, TInv, BytesInv
  <1> QED
    BY <1>1, <1>2, <1>3, <1>4 DEF ClientSends

LEMMA HandleReadDataTInv ==
    ASSUME TInv, HandleReadData
    PROVE  TInv'
  <1>0. UNCHANGED <<kinds, toSend, eof, rst, received, timer, registered, gen>> /\ sock' = << >>
    BY DEF HandleReadData
  <1>1. ReadTypes
    BY ReadDataTypes
  <1>2. BytesInv'
    <2>1. << >> \in Seq(BegunTokens)
      OBVIOUS
    <2> QED
      BY <1>0, <1>1, <2>1, SameKinds DEF ReadTypes, TInv, BytesInv
  <1>3. AnswerInv'
    BY <1>0, <1>1, SameKinds DEF ReadTypes, TInv, AnswerInv
  <1>4. ParserInv'
    BY <1>0, <1>1, SameKinds DEF ReadTypes, ParserInv
  <1>5. LoopInv'
    <2>1. /\ revents' \subseteq {"error", "in", "out"} /\ "in" \in revents
          /\ "in" \notin revents'
      BY CallsType DEF HandleReadData
    <2>2. tick' = (tick /\ ~timer)
      BY DEF HandleReadData
    <2>3. /\ closes \in Nat /\ tick \in BOOLEAN
          /\ closes + (IF tick THEN 1 ELSE 0) + 1 <= 2
      BY <2>1 DEF TInv, LoopInv
    <2>4. tick' \in BOOLEAN /\ (tick' => tick)
      BY <2>2, <2>3
    <2>5. /\ closes' \in Nat
          /\ closes' + (IF tick' THEN 1 ELSE 0) + (IF "in" \in revents' THEN 1 ELSE 0) <= 2
      <3>1. closes' \in {closes, closes + 1}
        BY <1>1 DEF ReadTypes
      <3>2. CASE closes' = closes
        BY <2>1, <2>3, <2>4, <3>2
      <3>3. CASE closes' = closes + 1
        BY <2>1, <2>3, <2>4, <3>3
      <3> QED
        BY <3>1, <3>2, <3>3
    <2> QED
      BY <1>0, <1>1, <2>1, <2>4, <2>5 DEF ReadTypes, TInv, LoopInv
  <1> QED
    BY <1>2, <1>3, <1>4, <1>5 DEF TInv

LEMMA HandleCloseTInv ==
    ASSUME TInv, HandleError \/ HandleReadEnd
    PROVE  TInv'
  <1>0. /\ UNCHANGED <<socketVars, bufferVars, handled, closes, gen>> /\ HandleClose
        /\ tick' \in {tick, (tick /\ ~timer)}
        /\ Calls("error") \/ Calls("in")
    BY DEF HandleError, HandleReadEnd
  <1>1. CloseTypes /\ st' = "CLOSED"
    BY <1>0, HandleCloseType
  <1>2. BytesInv' /\ AnswerInv'
    BY <1>0, SameKinds DEF socketVars, bufferVars, TInv, BytesInv, AnswerInv
  <1>3. ParserInv'
    BY <1>0, <1>1, SameKinds DEF socketVars, bufferVars, CloseTypes, TInv, ParserInv
  <1>4. LoopInv'
    <2>1. /\ revents' \subseteq {"error", "in", "out"}
          /\ "in" \in revents' => "in" \in revents
      BY <1>0, CallsType
    <2>2. tick' \in BOOLEAN /\ (tick' => tick)
      BY <1>0 DEF TInv, LoopInv
    <2>3. closes' + (IF tick' THEN 1 ELSE 0) + (IF "in" \in revents' THEN 1 ELSE 0) <= 2
      BY <1>0, <2>1, <2>2 DEF TInv, LoopInv
    <2> QED
      BY <1>0, <1>1, <2>1, <2>2, <2>3 DEF socketVars, CloseTypes, TInv, LoopInv
  <1> QED
    BY <1>2, <1>3, <1>4 DEF TInv

\* Both write callbacks: what they send is what is in the buffer, or the answer
\* with the file.
LEMMA WriteTInv ==
    ASSUME TInv, SendInLoop \/ SendFileInLoop
    PROVE  TInv'
  <1>0. /\ UNCHANGED <<kinds, toSend, sock, eof, rst, input, handled, tick, closes, gen>>
        /\ Calls("out")
    BY DEF SendInLoop, SendFileInLoop
  <1>1. output' \in Seq(BegunResponses) /\ received' \in Seq(BegunResponses)
    <2>0. output \in Seq(BegunResponses) /\ received \in Seq(BegunResponses)
      BY DEF TInv, AnswerInv
    <2>1. CASE UNCHANGED <<output, received>>
      BY <2>0, <2>1
    <2>2. ASSUME NEW n \in 1 .. Len(output), WriteOut(n)
          PROVE  output' \in Seq(BegunResponses) /\ received' \in Seq(BegunResponses)
      <3>1. \A i \in 1 .. Len(output) : output[i] \in BegunResponses
        BY <2>0, ElementOfSeq
      <3>2. /\ \A i \in 1 .. n : output[i] \in BegunResponses
            /\ \A i \in n + 1 .. Len(output) : output[i] \in BegunResponses
        BY <2>0, <3>1
      <3>3. /\ SubSeq(output, 1, n) \in Seq(BegunResponses)
            /\ SubSeq(output, n + 1, Len(output)) \in Seq(BegunResponses)
        BY <2>0, <3>2, SubSeqProperties
      <3> QED
        BY <2>0, <2>2, <3>3, ConcatProperties DEF WriteOut
    <2>3. CASE output' = << >> /\ received' \in {received, received \o output}
      <3>1. << >> \in Seq(BegunResponses)
        OBVIOUS
      <3> QED
        BY <2>0, <2>3, <3>1, ConcatProperties
    <2>4. CASE /\ st = "SENDING_FILE" /\ output' = << >>
               /\ received' = Append(received, Response(parser.req, "router"))
      <3>1. parser.req \in Begun
        BY <2>4 DEF TInv, ParserInv, BegunParsers
      <3>2. Response(parser.req, "router") \in BegunResponses
        BY <3>1 DEF Response, BegunResponses
      <3>3. << >> \in Seq(BegunResponses)
        OBVIOUS
      <3> QED
        BY <2>0, <2>4, <3>2, <3>3, AppendProperties
    <2> QED
      BY <2>1, <2>2, <2>3, <2>4 DEF SendInLoop, SendFileInLoop
  <1>2. file' \in 0 .. MaxFile
    <2>1. \A n \in 1 .. file : file - n \in 0 .. MaxFile
      BY ConnectionAssumption DEF TInv, AnswerInv
    <2> QED
      BY <2>1 DEF SendInLoop, SendFileInLoop, TInv, AnswerInv
  <1>3. /\ CloseTypes
        /\ parser' \in BegunParsers
        /\ \/ st' = "READING_HEADERS" /\ parser' = Fresh
           \/ st' = "CLOSED"
           \/ st' = st /\ parser' = parser
    <2>0. parser \in BegunParsers
      BY DEF TInv, ParserInv
    <2>1. CASE ResponseDone
      BY <2>1, ResponseDoneType
    <2>2. CASE HandleClose /\ UNCHANGED parser
      BY <2>0, <2>2, HandleCloseType
    <2>3. CASE UNCHANGED <<st, parser, channelVars, timer, registered, upload>>
      BY <2>0, <2>3 DEF channelVars, CloseTypes, TInv, ParserInv, LoopInv
    <2> QED
      BY <2>1, <2>2, <2>3 DEF SendInLoop, SendFileInLoop
  <1>4. BytesInv'
    BY <1>0, SameKinds DEF TInv, BytesInv
  <1>5. AnswerInv'
    BY <1>0, <1>1, <1>2, SameKinds DEF TInv, AnswerInv
  <1>6. ParserInv'
    <2>1. Fresh.state = "REQUEST_LINE"
      BY DEF Fresh
    <2> QED
      BY <1>0, <1>3, <2>1, SameKinds DEF TInv, ParserInv, CloseTypes
  <1>7. LoopInv'
    <2>1. /\ revents' \subseteq {"error", "in", "out"}
          /\ "in" \in revents' <=> "in" \in revents
      BY <1>0, CallsType
    <2>2. closes' + (IF tick' THEN 1 ELSE 0) + (IF "in" \in revents' THEN 1 ELSE 0) <= 2
      BY <1>0, <2>1 DEF TInv, LoopInv
    <2> QED
      BY <1>0, <1>3, <2>1, <2>2 DEF CloseTypes, TInv, LoopInv
  <1> QED
    BY <1>4, <1>5, <1>6, <1>7 DEF TInv

LEMMA LoopTInv ==
    ASSUME TInv,
           \/ \E out \in BOOLEAN, due \in BOOLEAN : EpollReturns(out, due)
           \/ IdleTimeout \/ RunForceClose
    PROVE  TInv'
  <1> USE DEF socketVars, bufferVars, channelVars, serverVars
  <1>1. ASSUME NEW out \in BOOLEAN, NEW due \in BOOLEAN, EpollReturns(out, due)
        PROVE  TInv'
    <2>1. /\ UNCHANGED <<socketVars, st, bufferVars, channelVars, timer, serverVars,
                         closes, gen>>
          /\ tick' = due /\ closes = 0 /\ revents' \subseteq {"error", "in", "out"}
      BY <1>1 DEF EpollReturns, Iterating, Ready, TInv, LoopInv
    <2>2. closes' + (IF tick' THEN 1 ELSE 0) + (IF "in" \in revents' THEN 1 ELSE 0) <= 2
      BY <2>1
    <2>3. LoopInv'
      BY <2>1, <2>2 DEF TInv, LoopInv
    <2> QED
      BY <2>1, <2>3, SameKinds DEF TInv, BytesInv, AnswerInv, ParserInv
  <1>2. CASE IdleTimeout
    <2>1. /\ UNCHANGED <<socketVars, st, bufferVars, channelVars, serverVars, revents, gen>>
          /\ tick /\ ~tick' /\ tick' \in BOOLEAN /\ timer' \in BOOLEAN
          /\ closes' \in {closes, closes + 1}
      BY <1>2 DEF IdleTimeout
    <2>2. /\ closes' \in Nat
          /\ closes' + (IF tick' THEN 1 ELSE 0) + (IF "in" \in revents' THEN 1 ELSE 0) <= 2
      BY <2>1 DEF TInv, LoopInv
    <2>3. LoopInv'
      BY <2>1, <2>2 DEF TInv, LoopInv
    <2> QED
      BY <2>1, <2>3, SameKinds DEF TInv, BytesInv, AnswerInv, ParserInv
  <1>3. CASE RunForceClose
    <2>1. /\ UNCHANGED <<socketVars, bufferVars, handled, revents, tick, gen>> /\ HandleClose
          /\ closes > 0 /\ closes' = closes - 1
      BY <1>3 DEF RunForceClose
    <2>2. CloseTypes /\ st' = "CLOSED"
      BY <2>1, HandleCloseType
    <2>3. /\ closes' \in Nat
          /\ closes' + (IF tick' THEN 1 ELSE 0) + (IF "in" \in revents' THEN 1 ELSE 0) <= 2
      BY <2>1 DEF TInv, LoopInv
    <2>4. LoopInv'
      BY <2>1, <2>2, <2>3 DEF CloseTypes, TInv, LoopInv
    <2> QED
      BY <2>1, <2>2, <2>4, SameKinds DEF CloseTypes, TInv, BytesInv, AnswerInv, ParserInv
  <1> QED
    BY <1>1, <1>2, <1>3

LEMMA AcceptTInv ==
    ASSUME TInv, Accept
    PROVE  TInv'
  <1>1. BytesInv'
    BY ConnectionAssumption DEF Accept, BytesInv
  <1>2. AnswerInv'
    BY ConnectionAssumption DEF Accept, AnswerInv
  <1>3. ParserInv'
    BY ConnectionAssumption
    DEF Accept, TInv, ParserInv, Fresh, States, BegunParsers, Parsers, Begun
  <1>4. LoopInv'
    <2>1. {eof', rst', added', timer', registered', tick'} \subseteq BOOLEAN
      BY DEF Accept, TInv, LoopInv
    <2>2. gen' \in 1 .. MaxConns
      BY ConnectionAssumption DEF Accept, TInv, LoopInv
    <2>3. UNCHANGED <<closes, tick, revents>> /\ events' \subseteq {"in", "out"}
      BY DEF Accept
    <2> QED
      BY <2>1, <2>2, <2>3 DEF TInv, LoopInv
  <1> QED
    BY <1>1, <1>2, <1>3, <1>4 DEF TInv

LEMMA NextTInv == TInv /\ [Next]_vars => TInv'
  <1> SUFFICES ASSUME TInv, [Next]_vars PROVE TInv'
    OBVIOUS
  <1>1. CASE UNCHANGED vars
    BY <1>1, SameKinds
    DEF vars, socketVars, bufferVars, channelVars, serverVars, loopVars, TInv, BytesInv,
        AnswerInv, ParserInv, LoopInv
  <1> QED
    BY <1>1, ClientStepTInv, HandleReadDataTInv, HandleCloseTInv, WriteTInv, LoopTInv,
       AcceptTInv
    DEF Next, Callback, Over

\* Every variable of a connection keeps its type, for any kinds of requests: no
\* response, token or upload context is of a request the client has not begun,
\* the parser counts a body down to zero and no further, and in one iteration
\* of the loop at most two ForceClose functors are queued.
THEOREM ConnectionTypes == Spec => []ConnTypeOK
  <1>1. Spec => []TInv
    BY InitTInv, NextTInv, PTL DEF Spec
  <1> QED
    BY <1>1, TypesFromTInv, PTL

----------------------------------------------------------------------------
(***************************************************************************)
(* What the connection is doing                                            *)
(***************************************************************************)

Reading == st \in {"READING_HEADERS", "READING_BODY_STREAM"}

\* No callback is left to run, and the connection is closed or will be before
\* epoll_wait is called again.
Doomed == revents = {} /\ (closes > 0 \/ ~registered)

LifeInv ==
    /\ registered => st # "CLOSED"
    /\ ~registered => upload = None /\ (st = "CLOSED" \/ revents = {})
    /\ registered => timer \/ closes > 0
    /\ registered /\ Reading => output = << >> /\ "out" \notin events \cup revents
    /\ upload # None =>
          /\ upload.gen = gen /\ upload.req = parser.req
          /\ (st = "READING_BODY_STREAM" \/ Doomed)

LEMMA InitLifeInv == Init => LifeInv
  BY DEF Init, LifeInv, Reading, Doomed

\* What a read makes of a connection that is reading.
ReadLife ==
    /\ st' # "CLOSED"
    /\ st' \in {"READING_HEADERS", "READING_BODY_STREAM"} => output' = << >> /\ events' = events
    /\ upload' # None =>
          /\ upload'.gen = gen /\ upload'.req = parser'.req
          /\ (st' = "READING_BODY_STREAM" \/ closes' > 0)

LEMMA ProcessBodyLife ==
    ASSUME TInv, NEW p \in BegunParsers, p.req \in Begun, p.state = "BODY",
           NEW in \in Seq(BegunTokens), ProcessBody(p, in), output = << >>,
           upload # None => upload.gen = gen /\ upload.req = p.req
    PROVE  ReadLife
  <1>0. p \in Parsers /\ closes \in Nat
    BY DEF BegunParsers, TInv, LoopInv
  <1>1. PICK n \in Nat : \E o \in OnBodyData(p, n) : BodyStep(p, in, n, o)
    BY <1>0, ProcessBodyCases
  <1>2. PICK o \in OnBodyData(p, n) : BodyStep(p, in, n, o)
    BY <1>1
  <1> DEFINE q == [p EXCEPT !.body = o.body, !.rem = @ - n]
             failure == IF o.ok THEN << >> ELSE <<Response(p.req, "500")>>
  <1>3. /\ o.ok \in BOOLEAN
        /\ o.upload # None => o.upload.gen = gen /\ o.upload.req = p.req
    <2>1. CASE KindOf(p.req).stream
      BY <1>0, <2>1, OnBodyDataCases
    <2>2. CASE ~KindOf(p.req).stream
      BY <1>0, <2>2, OnBodyDataCases
    <2> QED
      BY <2>1, <2>2
  <1>4. q.req = p.req /\ q \in Parsers /\ failure \in Seq(BegunResponses)
    BY <1>2 DEF BodyStep, BegunParsers
  <1>5. CASE Dispatch(q, o.upload, failure)
    <2>1. st' \in {"WRITING_RESPONSE", "SENDING_FILE"} /\ upload' = None
      <3>1. o.upload \in Contexts \cup {None}
        BY <1>0, OnBodyDataCases
      <3> HIDE DEF q, failure
      <3> QED
        BY <1>4, <1>5, <3>1, DispatchType
    <2> QED
      BY <2>1 DEF ReadLife
  <1>6. CASE /\ parser' = q
             /\ upload' = o.upload
             /\ output' = output \o failure
             /\ st' = IF o.ok THEN "READING_BODY_STREAM" ELSE "WRITING_RESPONSE"
             /\ events' = IF o.ok THEN events ELSE events \cup {"out"}
             /\ closes' = IF o.ok THEN closes ELSE closes + 1
    <2>1. parser'.req = p.req
      BY <1>4, <1>6
    <2>2. CASE o.ok
      <3>1. << >> \o << >> = << >>
        BY ConcatEmptySeq
      <3> QED
        BY <1>3, <1>6, <2>1, <2>2, <3>1 DEF ReadLife
    <2>3. CASE ~o.ok
      BY <1>0, <1>3, <1>6, <2>1, <2>3 DEF ReadLife
    <2> QED
      BY <2>2, <2>3
  <1> QED
    BY <1>2, <1>5, <1>6 DEF BodyStep

LEMMA HeadersEndLife ==
    ASSUME TInv, NEW p \in BegunParsers, p.req \in Begun, NEW in \in Seq(BegunTokens),
           HeadersEnd(p, in), output = << >>, upload = None
    PROVE  ReadLife
  <1>1. CASE SendError(p, "400") \/ SendError(p, "413")
    BY <1>1 DEF SendError, ReadLife
  <1>2. CASE NothingYet(p, in, "READING_BODY_STREAM")
    BY <1>2 DEF NothingYet, ReadLife
  <1>3. CASE p.state = "BODY" /\ ProcessBody(p, in)
    BY <1>3, ProcessBodyLife
  <1>4. CASE Dispatch(p, upload, << >>)
    <2>1. /\ p \in Parsers /\ upload \in Contexts \cup {None}
          /\ << >> \in Seq(BegunResponses)
      BY DEF BegunParsers, TInv, ParserInv
    <2> QED
      BY <1>4, <2>1, DispatchType DEF ReadLife
  <1> QED
    BY <1>1, <1>2, <1>3, <1>4 DEF HeadersEnd

LEMMA ReadingDataLife ==
    ASSUME TInv, LifeInv, HandleReadData, Reading
    PROVE  ReadLife /\ registered /\ revents' = {}
  <1> DEFINE in == input \o sock
  <1>1. in \in Seq(BegunTokens) /\ in # << >>
    <2>1. input \in Seq(BegunTokens) /\ sock \in Seq(BegunTokens) /\ sock # << >>
      BY DEF TInv, BytesInv, HandleReadData
    <2> QED
      BY <2>1, ConcatProperties, ConcatEqualIffEmpty
  <1>2. registered /\ output = << >> /\ "out" \notin revents /\ "in" \in revents
    BY CallsType DEF LifeInv, Reading, HandleReadData
  <1>3. revents' = {}
    BY <1>2 DEF HandleReadData, Calls, TInv, LoopInv
  <1> SUFFICES ReadLife
    BY <1>2, <1>3
  <1>4. upload # None => /\ upload.gen = gen /\ upload.req = parser.req
                         /\ st = "READING_BODY_STREAM"
    BY <1>2 DEF LifeInv, Doomed
  <1>5. /\ parser \in BegunParsers /\ st \in States
        /\ st = "READING_BODY_STREAM" => parser.state = "BODY" /\ parser.req \in Begun
    BY DEF TInv, ParserInv, BegunParsers
  <1>6. CASE st = "READING_HEADERS" /\ ProcessHeaders(in)
    <2> HIDE DEF in
    <2>1. upload = None
      BY <1>4, <1>6
    <2>2. CASE \E p \in BegunParsers : SendError(p, "400")
      BY <2>1, <2>2 DEF SendError, ReadLife
    <2>3. ASSUME NEW p \in BegunParsers, p.req \in Begun, NEW rest, AfterLineStep(p, rest)
          PROVE  ReadLife
      <3>1. CASE NothingYet(p, << >>, "READING_HEADERS")
        BY <1>2, <2>1, <3>1 DEF NothingYet, ReadLife
      <3> QED
        BY <1>2, <2>1, <2>2, <2>3, <3>1, HeadersEndLife DEF AfterLineStep
    <2> QED
      BY <1>1, <1>6, <2>2, <2>3, ProcessHeadersCases
  <1>7. CASE st = "READING_BODY_STREAM" /\ ProcessBody(parser, in)
    <2> HIDE DEF in
    <2> QED
      BY <1>1, <1>2, <1>4, <1>5, <1>7, ProcessBodyLife
  <1> QED
    BY <1>6, <1>7 DEF HandleReadData, Reading

LEMMA HandleReadDataLife ==
    ASSUME TInv, LifeInv, HandleReadData
    PROVE  LifeInv'
  <1>0. UNCHANGED <<timer, registered, gen>> /\ closes \in Nat
    BY DEF HandleReadData, TInv, LoopInv
  <1>1. CASE Reading
    <2>1. ReadLife /\ registered /\ revents' = {}
      BY <1>1, ReadingDataLife
    <2>2. closes' \in {closes, closes + 1}
      BY ReadDataTypes DEF ReadTypes
    <2>3. closes > 0 => closes' > 0
      BY <1>0, <2>2
    <2>4. "out" \notin events
      BY <1>1, <2>1 DEF LifeInv
    <2> QED
      BY <1>0, <2>1, <2>3, <2>4 DEF LifeInv, ReadLife, Reading, Doomed
  <1>2. CASE ~Reading
    <2>1. NothingYet(parser, input \o sock, st)
      BY <1>2 DEF HandleReadData, Reading
    <2>2. UNCHANGED <<st, output, events, upload, parser, closes>>
      BY <2>1 DEF NothingYet
    <2>3. upload = None
      BY <1>2, CallsType DEF LifeInv, HandleReadData, Doomed, Reading
    <2>4. revents' \subseteq revents
      BY DEF HandleReadData, Calls
    <2> QED
      BY <1>0, <1>2, <2>2, <2>3, <2>4 DEF LifeInv, Reading, Doomed
  <1> QED
    BY <1>1, <1>2

\* HandleClose ends the connection's life, whoever calls it.
LEMMA ClosingLife ==
    ASSUME TInv, LifeInv, NEW ev, NEW isAdded, CloseAfter(ev, isAdded)
    PROVE  st' = "CLOSED" /\ ~registered' /\ upload' = None
  BY DEF CloseAfter, Abort, LifeInv

\* What is closed has no life to keep.
LEMMA ClosedLife ==
    ASSUME st' = "CLOSED", ~registered', upload' = None
    PROVE  LifeInv'
  BY DEF LifeInv

LEMMA HandleCloseLife ==
    ASSUME TInv, LifeInv, HandleError \/ HandleReadEnd \/ RunForceClose
    PROVE  LifeInv'
  BY ClosingLife, ClosedLife DEF HandleError, HandleReadEnd, RunForceClose, HandleClose

LEMMA WriteLife ==
    ASSUME TInv, LifeInv, SendInLoop \/ SendFileInLoop
    PROVE  LifeInv'
  <1>0. UNCHANGED <<gen, closes>> /\ Calls("out") /\ revents' = {} /\ "out" \in revents
    BY DEF SendInLoop, SendFileInLoop, Calls, TInv, LoopInv
  <1>1. CASE HandleClose
    BY <1>1, ClosingLife, ClosedLife DEF HandleClose
  <1>2. ~Reading \/ ~registered
    BY <1>0 DEF LifeInv
  <1>3. upload = None
    BY <1>0, <1>2 DEF LifeInv, Doomed, Reading
  <1>4. CASE ResponseDone /\ (output' = output \/ output' = << >>)
             /\ (st # "SENDING_FILE" => output = << >> /\ output' = output)
             /\ (st = "SENDING_FILE" => output' = << >>)
    <2>1. CASE parser.keep
      <3>1. /\ st' = "READING_HEADERS" /\ UNCHANGED <<timer, registered, upload>>
            /\ events' = events \ {"out"}
        BY <2>1, <1>4 DEF ResponseDone, Update
      <3>2. output' = << >>
        BY <1>4
      <3>3. "out" \notin events' \cup revents'
        BY <1>0, <3>1
      <3> QED
        BY <1>0, <1>3, <3>1, <3>2, <3>3 DEF LifeInv, Reading, Doomed
    <2>2. CASE ~parser.keep
      BY <1>4, <2>2, ClosingLife, ClosedLife DEF ResponseDone
    <2> QED
      BY <2>1, <2>2
  <1>5. CASE UNCHANGED <<st, parser, channelVars, timer, registered, upload>>
    BY <1>0, <1>2, <1>3, <1>5 DEF channelVars, LifeInv, Reading, Doomed
  <1> QED
    BY <1>1, <1>4, <1>5 DEF SendInLoop, SendFileInLoop

LEMMA NextLifeInv == TInv /\ LifeInv /\ [Next]_vars => LifeInv'
  <1> SUFFICES ASSUME TInv, LifeInv, [Next]_vars PROVE LifeInv'
    OBVIOUS
  <1> USE DEF socketVars, bufferVars, channelVars, serverVars, loopVars
  <1>1. CASE UNCHANGED vars
    BY <1>1 DEF vars, LifeInv, Reading, Doomed
  <1>2. CASE ClientStep
    BY <1>2 DEF ClientStep, LifeInv, Reading, Doomed
  <1>3. ASSUME NEW out \in BOOLEAN, NEW due \in BOOLEAN, EpollReturns(out, due)
        PROVE  LifeInv'
    <2>1. /\ registered /\ closes = 0 /\ revents = {}
          /\ UNCHANGED <<st, upload, timer, registered, output, events, gen, parser, closes>>
      BY <1>3 DEF EpollReturns, Iterating, TInv, LoopInv
    <2>2. upload = None \/ st = "READING_BODY_STREAM"
      BY <2>1 DEF LifeInv, Doomed
    <2>3. "out" \in revents' => "out" \in events
      BY <1>3 DEF EpollReturns, Ready
    <2> QED
      BY <2>1, <2>2, <2>3 DEF LifeInv, Reading, Doomed
  <1>4. CASE IdleTimeout
    <2>1. /\ UNCHANGED <<st, upload, registered, output, events, gen, parser, revents>>
          /\ closes' = IF timer THEN closes + 1 ELSE closes
      BY <1>4 DEF IdleTimeout
    <2>2. closes \in Nat
      BY DEF TInv, LoopInv
    <2>3. registered => closes' > 0
      BY <2>1, <2>2 DEF LifeInv
    <2> QED
      BY <2>1, <2>3 DEF LifeInv, Reading, Doomed
  <1>5. CASE Accept
    <2>1. upload' = None /\ revents' = {}
      BY <1>5 DEF Accept, Iterating, LifeInv
    <2> QED
      BY <1>5, <2>1 DEF Accept, LifeInv, Reading
  <1> QED
    BY <1>1, <1>2, <1>3, <1>4, <1>5, HandleReadDataLife, HandleCloseLife, WriteLife
    DEF Next, Callback, Over

\* A connection the server holds is never without a deadline: its idle timer is
\* set or the functor that closes it is queued, in every interleaving of the
\* timer's tick with reads, writes and failures of the same iteration.
THEOREM HeldConnectionsAreTimed == Spec => []HeldConnectionIsTimed
  <1>1. Spec => [](TInv /\ LifeInv)
    BY InitTInv, NextTInv, InitLifeInv, NextLifeInv, PTL DEF Spec
  <1>2. LifeInv => HeldConnectionIsTimed
    BY DEF LifeInv, HeldConnectionIsTimed
  <1> QED
    BY <1>1, <1>2, PTL

\* An entry of uploads_, which is keyed by the socket's number, belongs to the
\* connection that has the number now and to the request being read.
THEOREM UploadContextsAreOwn == Spec => []UploadContextIsOwn
  <1>1. Spec => [](TInv /\ LifeInv)
    BY InitTInv, NextTInv, InitLifeInv, NextLifeInv, PTL DEF Spec
  <1>2. LifeInv => UploadContextIsOwn
    BY DEF LifeInv, UploadContextIsOwn
  <1> QED
    BY <1>1, <1>2, PTL

----------------------------------------------------------------------------
(***************************************************************************)
(* The bytes still to be read.  ks are the requests the client has begun,  *)
(* s the tokens of them that have not been consumed.                       *)
(***************************************************************************)

Tok(ks) == [req : 1 .. Len(ks), part : {"top", "cut", "line", "end", "body"}]

TopOf(n) == [req |-> n, part |-> "top"]
CutOf(n) == [req |-> n, part |-> "cut"]
LineOf(n) == [req |-> n, part |-> "line"]
EndOf(n) == [req |-> n, part |-> "end"]
BodyOf(n) == [req |-> n, part |-> "body"]

\* The line of n, with its pieces, is at i.
LineAt(ks, s, i, n) ==
    /\ \A j \in 0 .. ks[n].cut - 1 : i + j \in 1 .. Len(s) /\ s[i + j] = CutOf(n)
    /\ i + ks[n].cut \in 1 .. Len(s) /\ s[i + ks[n].cut] = LineOf(n)

\* Request n begins at i, or the client has not begun it.
Front(ks, s, i, n) ==
    \/ i = Len(s) + 1 /\ n = Len(ks) + 1
    \/ /\ i \in 1 .. Len(s) /\ n \in 1 .. Len(ks)
       /\ IF ks[n].fault \in HeaderFaults THEN s[i] = TopOf(n) ELSE LineAt(ks, s, i, n)

\* r units of the body of n are at i, and then comes the next request.
BodyAt(ks, s, i, n, r) ==
    /\ \A j \in 0 .. r - 1 : i + j \in 1 .. Len(s) /\ s[i + j] = BodyOf(n)
    /\ Front(ks, s, i + r, n + 1)

HeadersAt(ks, s, i, n) ==
    /\ i \in 1 .. Len(s) /\ s[i] = EndOf(n)
    /\ BodyAt(ks, s, i + 1, n, ks[n].len)

\* Every request of which s has the top or the line is in s as a whole.
Blocks(ks, s) ==
    \A i \in 1 .. Len(s) :
        /\ s[i].part = "top" => LineAt(ks, s, i + 1, s[i].req)
        /\ s[i].part = "line" => HeadersAt(ks, s, i + 1, s[i].req)

\* After a response to request m the next one may be for n.
Answerable(ks, n, m) ==
    \/ n = m + 1 /\ (m > 0 => ~Sticks(ks[m]))
    \/ n = m /\ n > 0 /\ Repeats(ks[n])

\* What is at the front of the buffer is of m, which has had a response: the line
\* the parser has rejected (then m has not been handed over; h is the last request
\* that has been) or a body it has not read.
Behind(ks, s, m, h) ==
    /\ m \in 1 .. Len(ks) /\ Repeats(ks[m])
    /\ \/ LineAt(ks, s, 1, m) /\ h < m
       \/ Len(s) > 0 /\ s[1] = BodyOf(m)

\* After a response to m the next request is at the front, or m is still there.
AtNext(ks, s, m, h) ==
    /\ h <= m
    /\ \/ Front(ks, s, 1, m + 1) /\ (m > 0 => ~Sticks(ks[m]))
       \/ Behind(ks, s, m, h)

\* Tokens are taken from the front.
LEMMA DropTokens ==
    ASSUME NEW ks \in Seq(Kinds), NEW s \in Seq(Tok(ks)), NEW d \in 0 .. Len(s)
    PROVE  LET t == SubSeq(s, d + 1, Len(s)) IN
           /\ t \in Seq(Tok(ks)) /\ Len(t) = Len(s) - d
           /\ \A i \in 1 .. Len(t) : t[i] = s[i + d]
           /\ \A i \in Nat \ {0}, n \in 1 .. Len(ks) : LineAt(ks, s, i + d, n) => LineAt(ks, t, i, n)
           /\ \A i \in Nat \ {0}, n \in Nat : Front(ks, s, i + d, n) => Front(ks, t, i, n)
           /\ \A i \in Nat \ {0}, n \in Nat, r \in Nat :
                  BodyAt(ks, s, i + d, n, r) => BodyAt(ks, t, i, n, r)
  <1> DEFINE t == SubSeq(s, d + 1, Len(s))
  <1>0. Len(s) \in Nat /\ d \in Nat /\ d <= Len(s)
    OBVIOUS
  <1>1. t \in Seq(Tok(ks)) /\ Len(t) = Len(s) - d
    <2>1. \A i \in d + 1 .. Len(s) : s[i] \in Tok(ks)
      BY <1>0, ElementOfSeq
    <2> QED
      BY <1>0, <2>1, SubSeqProperties
  <1>2. \A i \in 1 .. Len(t) : t[i] = s[i + d]
    <2>1. \A i \in d + 1 .. Len(s) : s[i] \in Tok(ks)
      BY <1>0, ElementOfSeq
    <2>2. \A i \in 1 .. Len(s) - (d + 1) + 1 : t[i] = s[(d + 1) + i - 1]
      BY <1>0, <2>1, SubSeqProperties
    <2> QED
      BY <1>0, <1>1, <2>2
  <1> HIDE DEF t
  <1>a. ASSUME NEW i \in Nat \ {0}, NEW n \in 1 .. Len(ks), LineAt(ks, s, i + d, n)
        PROVE  LineAt(ks, t, i, n)
    <2>0. ks[n].cut \in Nat
      <3>1. ks[n] \in Kinds
        BY <1>a, ElementOfSeq
      <3> QED
        BY <3>1, ConnectionAssumption
    <2> DEFINE c == ks[n].cut
    <2>a. c \in Nat
      BY <2>0
    <2>1. ASSUME NEW j \in 0 .. c - 1
          PROVE  i + j \in 1 .. Len(t) /\ t[i + j] = CutOf(n)
      <3>1. (i + d) + j \in 1 .. Len(s) /\ s[(i + d) + j] = CutOf(n)
        BY <1>a DEF LineAt
      <3> HIDE DEF c
      <3>2. i + j \in 1 .. Len(t) /\ (i + j) + d = (i + d) + j
        BY <1>0, <1>1, <2>a, <3>1
      <3> QED
        BY <1>2, <3>1, <3>2
    <2>2. i + c \in 1 .. Len(t) /\ t[i + c] = LineOf(n)
      <3>1. (i + d) + c \in 1 .. Len(s) /\ s[(i + d) + c] = LineOf(n)
        BY <1>a DEF LineAt
      <3> HIDE DEF c
      <3>2. i + c \in 1 .. Len(t) /\ (i + c) + d = (i + d) + c
        BY <1>0, <1>1, <2>a, <3>1
      <3> QED
        BY <1>2, <3>1, <3>2
    <2> QED
      BY <2>1, <2>2 DEF LineAt
  <1>3. ASSUME NEW i \in Nat \ {0}, NEW n \in Nat, Front(ks, s, i + d, n)
        PROVE  Front(ks, t, i, n)
    <2>1. CASE i + d = Len(s) + 1 /\ n = Len(ks) + 1
      BY <1>0, <1>1, <2>1 DEF Front
    <2>2. CASE /\ i + d \in 1 .. Len(s) /\ n \in 1 .. Len(ks)
               /\ IF ks[n].fault \in HeaderFaults THEN s[i + d] = TopOf(n)
                  ELSE LineAt(ks, s, i + d, n)
      <3>1. i \in 1 .. Len(t)
        BY <1>0, <1>1, <2>2
      <3> QED
        BY <1>2, <1>a, <2>2, <3>1 DEF Front
    <2> QED
      BY <1>3, <2>1, <2>2 DEF Front
  <1>4. ASSUME NEW i \in Nat \ {0}, NEW n \in Nat, NEW r \in Nat,
               BodyAt(ks, s, i + d, n, r)
        PROVE  BodyAt(ks, t, i, n, r)
    <2>1. ASSUME NEW j \in 0 .. r - 1
          PROVE  i + j \in 1 .. Len(t) /\ t[i + j] = BodyOf(n)
      <3>1. (i + d) + j \in 1 .. Len(s) /\ s[(i + d) + j] = BodyOf(n)
        BY <1>4 DEF BodyAt
      <3>2. i + j \in 1 .. Len(t) /\ (i + j) + d = (i + d) + j
        BY <1>0, <1>1, <3>1
      <3> QED
        BY <1>2, <3>1, <3>2
    <2>2. Front(ks, t, i + r, n + 1)
      <3>1. Front(ks, s, (i + d) + r, n + 1)
        BY <1>4 DEF BodyAt
      <3>2. (i + r) + d = (i + d) + r /\ i + r \in Nat \ {0} /\ n + 1 \in Nat
        BY <1>0
      <3> QED
        BY <1>3, <3>1, <3>2
    <2> QED
      BY <2>1, <2>2 DEF BodyAt
  <1> QED
    BY <1>1, <1>2, <1>a, <1>3, <1>4 DEF t

LEMMA DropHeaders ==
    ASSUME NEW ks \in Seq(Kinds), NEW s \in Seq(Tok(ks)), NEW d \in 0 .. Len(s),
           NEW i \in Nat \ {0}, NEW n \in 1 .. Len(ks), HeadersAt(ks, s, i + d, n)
    PROVE  HeadersAt(ks, SubSeq(s, d + 1, Len(s)), i, n)
  <1> DEFINE t == SubSeq(s, d + 1, Len(s))
  <1>0. Len(s) \in Nat /\ d \in Nat /\ ks[n].len \in Nat /\ n \in Nat
    <2>1. ks[n] \in Kinds
      BY ElementOfSeq
    <2> QED
      BY <2>1, ConnectionAssumption
  <1>1. /\ t \in Seq(Tok(ks)) /\ Len(t) = Len(s) - d
        /\ \A j \in 1 .. Len(t) : t[j] = s[j + d]
        /\ \A j \in Nat \ {0} : BodyAt(ks, s, j + d, n, ks[n].len)
                                   => BodyAt(ks, t, j, n, ks[n].len)
    BY <1>0, DropTokens
  <1> HIDE DEF t
  <1>2. i \in 1 .. Len(t) /\ t[i] = EndOf(n)
    BY <1>0, <1>1 DEF HeadersAt
  <1>3. BodyAt(ks, s, (i + d) + 1, n, ks[n].len)
    BY DEF HeadersAt
  <1>4. (i + d) + 1 = (i + 1) + d /\ i + 1 \in Nat \ {0}
    BY <1>0
  <1>5. BodyAt(ks, t, i + 1, n, ks[n].len)
    BY <1>1, <1>3, <1>4
  <1> QED
    BY <1>2, <1>5 DEF HeadersAt, t

LEMMA DropBlocks ==
    ASSUME NEW ks \in Seq(Kinds), NEW s \in Seq(Tok(ks)), NEW d \in 0 .. Len(s),
           Blocks(ks, s)
    PROVE  Blocks(ks, SubSeq(s, d + 1, Len(s)))
  <1> DEFINE t == SubSeq(s, d + 1, Len(s))
  <1>0. Len(s) \in Nat /\ d \in Nat
    OBVIOUS
  <1>1. /\ t \in Seq(Tok(ks)) /\ Len(t) = Len(s) - d
        /\ \A j \in 1 .. Len(t) : t[j] = s[j + d]
    BY DropTokens
  <1>2. ASSUME NEW i \in 1 .. Len(t)
        PROVE  /\ t[i].part = "top" => LineAt(ks, t, i + 1, t[i].req)
               /\ t[i].part = "line" => HeadersAt(ks, t, i + 1, t[i].req)
    <2>1. i + d \in 1 .. Len(s) /\ s[i + d] = t[i] /\ i + 1 \in Nat \ {0}
          /\ (i + d) + 1 = (i + 1) + d
      BY <1>0, <1>1
    <2>2. t[i].req \in 1 .. Len(ks)
      <3>1. t[i] \in Tok(ks)
        BY <1>1, ElementOfSeq
      <3> QED
        BY <3>1 DEF Tok
    <2>3. /\ t[i].part = "top" => LineAt(ks, s, (i + 1) + d, t[i].req)
          /\ t[i].part = "line" => HeadersAt(ks, s, (i + 1) + d, t[i].req)
      BY <2>1 DEF Blocks
    <2>4. \A j \in Nat \ {0}, n \in 1 .. Len(ks) : LineAt(ks, s, j + d, n) => LineAt(ks, t, j, n)
      BY DropTokens
    <2> HIDE DEF t
    <2> QED
      BY <2>1, <2>2, <2>3, <2>4, DropHeaders DEF t
  <1> QED
    BY <1>2 DEF Blocks

\* Of a body, d units are taken.
LEMMA DropBody ==
    ASSUME NEW ks \in Seq(Kinds), NEW s \in Seq(Tok(ks)), NEW n \in Nat, NEW r \in Nat,
           NEW d \in 0 .. r, d <= Len(s), BodyAt(ks, s, 1, n, r)
    PROVE  BodyAt(ks, SubSeq(s, d + 1, Len(s)), 1, n, r - d)
  <1>0. Len(s) \in Nat /\ d \in Nat /\ r - d \in Nat /\ d \in 0 .. Len(s)
    OBVIOUS
  <1>1. BodyAt(ks, s, 1 + d, n, r - d)
    <2>1. ASSUME NEW j \in 0 .. (r - d) - 1
          PROVE  (1 + d) + j \in 1 .. Len(s) /\ s[(1 + d) + j] = BodyOf(n)
      <3>1. d + j \in 0 .. r - 1 /\ 1 + (d + j) = (1 + d) + j
        BY <1>0
      <3> QED
        BY <3>1 DEF BodyAt
    <2>2. (1 + d) + (r - d) = 1 + r
      BY <1>0
    <2> QED
      BY <2>1, <2>2 DEF BodyAt
  <1> QED
    BY <1>0, <1>1, DropTokens

\* Behind the headers of a request are its body and the next one.
LEMMA BodyBehind ==
    ASSUME NEW ks \in Seq(Kinds), NEW s \in Seq(Tok(ks)), NEW n \in 1 .. Len(ks),
           HeadersAt(ks, s, 1, n)
    PROVE  Len(s) \in Nat \ {0} /\ BodyAt(ks, SubSeq(s, 2, Len(s)), 1, n, ks[n].len)
  <1>0. Len(s) \in Nat /\ 1 \in 0 .. Len(s) /\ ks[n].len \in Nat /\ n \in Nat
    <2>1. ks[n] \in Kinds
      BY ElementOfSeq
    <2> QED
      BY <2>1, ConnectionAssumption DEF HeadersAt
  <1>1. BodyAt(ks, s, 1 + 1, n, ks[n].len)
    BY DEF HeadersAt
  <1>2. BodyAt(ks, SubSeq(s, 1 + 1, Len(s)), 1, n, ks[n].len)
    BY <1>0, <1>1, DropTokens
  <1> QED
    BY <1>0, <1>2

\* Behind a request that has been answered comes the next one, unless the parser
\* has left its body.
LEMMA NextAfterBody ==
    ASSUME NEW ks \in Seq(Kinds), NEW s \in Seq(Tok(ks)), NEW n \in 1 .. Len(ks),
           NEW r \in Nat, BodyAt(ks, s, 1, n, r), NEW h, h <= n,
           r > 0 => Sticks(ks[n]), r = 0 => ~Sticks(ks[n])
    PROVE  AtNext(ks, s, n, h)
  <1>1. CASE r = 0
    BY <1>1 DEF BodyAt, AtNext
  <1>2. CASE r > 0
    <2>1. 0 \in 0 .. r - 1
      BY <1>2
    <2>2. 1 + 0 \in 1 .. Len(s) /\ s[1 + 0] = BodyOf(n)
      BY <2>1 DEF BodyAt
    <2>3. Len(s) > 0 /\ s[1] = BodyOf(n)
      BY <2>2
    <2> QED
      BY <1>2, <2>3 DEF AtNext, Behind, Repeats
  <1> QED
    BY <1>1, <1>2

TopLength(k) == IF k.fault \in HeaderFaults THEN 1 ELSE 0

\* ls and t are ks and s with a request of kind k behind them.
Extended(ks, s, k, ls, t) ==
    LET new == Len(ks) + 1
        line == Len(s) + TopLength(k) + k.cut + 1 IN
    /\ ls \in Seq(Kinds) /\ Len(ls) = new
    /\ \A n \in 1 .. Len(ks) : ls[n] = ks[n]
    /\ ls[new] = k
    /\ t \in Seq(Tok(ls)) /\ Len(t) = line + 1 + k.len
    /\ \A i \in 1 .. Len(s) : t[i] = s[i]
    /\ \A i \in Len(s) + 1 .. Len(s) + TopLength(k) : t[i] = TopOf(new)
    /\ \A i \in Len(s) + TopLength(k) + 1 .. line - 1 : t[i] = CutOf(new)
    /\ t[line] = LineOf(new)
    /\ t[line + 1] = EndOf(new)
    /\ \A i \in line + 2 .. line + 1 + k.len : t[i] = BodyOf(new)

\* The client begins a request: what there was keeps its place, and the new
\* request is there as a whole.
LEMMA MoreTokens ==
    ASSUME NEW ks \in Seq(Kinds), NEW s \in Seq(Tok(ks)), NEW k \in Kinds
    PROVE  Extended(ks, s, k, Append(ks, k), s \o Tokens(Len(ks) + 1, k))
  <1> DEFINE ls == Append(ks, k)
             new == Len(ks) + 1
             T == Tokens(new, k)
             t == s \o T
             top == TopLength(k)
             line == top + k.cut + 1
  <1>0. Len(ks) \in Nat /\ Len(s) \in Nat /\ k.len \in Nat /\ k.cut \in Nat /\ top \in Nat
    BY ConnectionAssumption DEF TopLength
  <1>a. line \in Nat /\ line > top
    <2> HIDE DEF top
    <2> QED
      BY <1>0
  <1>1. ls \in Seq(Kinds) /\ Len(ls) = new /\ ls[new] = k
        /\ \A n \in 1 .. Len(ks) : ls[n] = ks[n]
    BY AppendProperties
  <1>2. /\ T \in Seq(Tok(ls)) /\ Len(T) = line + 1 + k.len
        /\ \A i \in 1 .. line + 1 + k.len :
              T[i] = [req |-> new,
                      part |-> IF i <= top THEN "top" ELSE IF i < line THEN "cut"
                               ELSE IF i = line THEN "line"
                               ELSE IF i = line + 1 THEN "end" ELSE "body"]
    <2> DEFINE e(i) == [req |-> new,
                        part |-> IF i <= top THEN "top" ELSE IF i < line THEN "cut"
                                 ELSE IF i = line THEN "line"
                                 ELSE IF i = line + 1 THEN "end" ELSE "body"]
    <2>1. T = [i \in 1 .. line + 1 + k.len |-> e(i)]
      BY DEF Tokens, TopLength
    <2> HIDE DEF ls, T
    <2>2. \A i \in 1 .. line + 1 + k.len : e(i) \in Tok(ls)
      <3>1. new \in 1 .. Len(ls)
        BY <1>0, <1>1
      <3> HIDE DEF new, line, top
      <3> QED
        BY <3>1 DEF Tok
    <2>3. line + 1 + k.len \in Nat
      BY <1>0
    <2> HIDE DEF e, line
    <2>4. T \in Seq(Tok(ls)) /\ Len(T) = line + 1 + k.len
      BY <2>1, <2>2, <2>3, IsASeq
    <2>5. \A i \in 1 .. line + 1 + k.len : T[i] = e(i)
      BY <2>1
    <2> QED
      BY <2>4, <2>5 DEF e
  <1>3. s \in Seq(Tok(ls))
    <2>1. Tok(ks) \subseteq Tok(ls)
      BY <1>0, <1>1 DEF Tok
    <2> QED
      BY <2>1, SeqMonotonic
  <1> HIDE DEF ls, T
  <1>4. /\ t \in Seq(Tok(ls)) /\ Len(t) = Len(s) + Len(T)
        /\ \A i \in 1 .. Len(s) + Len(T) :
              t[i] = IF i <= Len(s) THEN s[i] ELSE T[i - Len(s)]
    BY <1>2, <1>3, ConcatProperties
  <1>10. Len(s) + line = Len(s) + top + k.cut + 1
    <2> HIDE DEF top
    <2> QED
      BY <1>0
  <1> HIDE DEF t, top, line
  <1>5. \A i \in 1 .. Len(s) : t[i] = s[i]
    <2> TAKE i \in 1 .. Len(s)
    <2>1. i \in 1 .. Len(s) + Len(T) /\ i <= Len(s)
      BY <1>0, <1>2, <1>a
    <2> QED
      BY <1>4, <2>1
  <1>6. \A i \in Len(s) + 1 .. Len(s) + line + 1 + k.len : 
            t[i] = T[i - Len(s)] /\ i - Len(s) \in 1 .. line + 1 + k.len
    <2> TAKE i \in Len(s) + 1 .. Len(s) + line + 1 + k.len
    <2>1. i \in 1 .. Len(s) + Len(T) /\ ~(i <= Len(s)) /\ i - Len(s) \in 1 .. line + 1 + k.len
      BY <1>0, <1>2, <1>a
    <2> QED
      BY <1>4, <2>1
  <1>7. ASSUME NEW i \in Len(s) + 1 .. Len(s) + line + 1 + k.len
        PROVE  t[i] = [req |-> new,
                       part |-> IF i <= Len(s) + top THEN "top"
                                ELSE IF i < Len(s) + line THEN "cut"
                                ELSE IF i = Len(s) + line THEN "line"
                                ELSE IF i = Len(s) + line + 1 THEN "end" ELSE "body"]
    <2>1. /\ i - Len(s) <= top <=> i <= Len(s) + top
          /\ i - Len(s) < line <=> i < Len(s) + line
          /\ i - Len(s) = line <=> i = Len(s) + line
          /\ i - Len(s) = line + 1 <=> i = Len(s) + line + 1
      BY <1>0, <1>a
    <2>2. t[i] = T[i - Len(s)] /\ i - Len(s) \in 1 .. line + 1 + k.len
      BY <1>6
    <2> QED
      BY <1>2, <2>1, <2>2
  <1>8. /\ \A i \in Len(s) + 1 .. Len(s) + top : t[i] = TopOf(new)
        /\ \A i \in Len(s) + top + 1 .. Len(s) + line - 1 : t[i] = CutOf(new)
        /\ t[Len(s) + line] = LineOf(new) /\ t[Len(s) + line + 1] = EndOf(new)
        /\ \A i \in Len(s) + line + 2 .. Len(s) + line + 1 + k.len : t[i] = BodyOf(new)
    <2>1. \A i \in Len(s) + 1 .. Len(s) + top : 
            i \in Len(s) + 1 .. Len(s) + line + 1 + k.len /\ i <= Len(s) + top
      BY <1>0, <1>a
    <2>2. \A i \in Len(s) + top + 1 .. Len(s) + line - 1 :
            /\ i \in Len(s) + 1 .. Len(s) + line + 1 + k.len
            /\ ~(i <= Len(s) + top) /\ i < Len(s) + line
      BY <1>0, <1>a
    <2>3. /\ Len(s) + line \in Len(s) + 1 .. Len(s) + line + 1 + k.len
          /\ Len(s) + line + 1 \in Len(s) + 1 .. Len(s) + line + 1 + k.len
          /\ ~(Len(s) + line <= Len(s) + top) /\ ~(Len(s) + line + 1 <= Len(s) + top)
          /\ ~(Len(s) + line < Len(s) + line) /\ ~(Len(s) + line + 1 < Len(s) + line)
          /\ ~(Len(s) + line + 1 = Len(s) + line)
      BY <1>0, <1>a
    <2>4. \A i \in Len(s) + line + 2 .. Len(s) + line + 1 + k.len :
            /\ i \in Len(s) + 1 .. Len(s) + line + 1 + k.len
            /\ ~(i <= Len(s) + top) /\ ~(i < Len(s) + line)
            /\ i # Len(s) + line /\ i # Len(s) + line + 1
      BY <1>0, <1>a
    <2> QED
      BY <1>7, <2>1, <2>2, <2>3, <2>4 DEF TopOf, CutOf, LineOf, EndOf, BodyOf
  <1>9. Len(t) = Len(s) + line + 1 + k.len
    BY <1>0, <1>2, <1>4, <1>a
  <1>11. Extended(ks, s, k, ls, t)
    <2> DEFINE l == Len(s) + top + k.cut + 1
    <2>1. /\ Len(t) = l + 1 + k.len
          /\ \A i \in Len(s) + 1 .. Len(s) + top : t[i] = TopOf(new)
          /\ \A i \in Len(s) + top + 1 .. l - 1 : t[i] = CutOf(new)
          /\ t[l] = LineOf(new) /\ t[l + 1] = EndOf(new)
          /\ \A i \in l + 2 .. l + 1 + k.len : t[i] = BodyOf(new)
      <3>1. Len(s) + line = l
        BY <1>10
      <3> HIDE DEF l
      <3> QED
        BY <1>0, <1>8, <1>9, <1>a, <3>1, SMTT(30)
    <2> HIDE DEF l, ls, t
    <2> QED
      BY <1>1, <1>4, <1>5, <2>1 DEF Extended, top, l
  <1> QED
    BY <1>11 DEF ls, T, t

\* What MoreTokens says of the old requests and of the new one.
LEMMA MoreOld ==
    ASSUME NEW ks \in Seq(Kinds), NEW s \in Seq(Tok(ks)), NEW k \in Kinds
    PROVE  LET ls == Append(ks, k)
               t == s \o Tokens(Len(ks) + 1, k) IN
           /\ Len(ks) \in Nat /\ Len(s) \in Nat
           /\ Len(ls) = Len(ks) + 1 /\ \A n \in 1 .. Len(ks) : ls[n] = ks[n]
           /\ Len(t) \in Nat /\ Len(t) > Len(s) + 1 /\ \A j \in 1 .. Len(s) : t[j] = s[j]
           /\ \A n \in 1 .. Len(ks) :
                 ks[n] \in Kinds /\ ks[n].cut \in Nat /\ ks[n].len \in Nat
  <1> DEFINE ls == Append(ks, k)
             t == s \o Tokens(Len(ks) + 1, k)
  <1>0. Len(ks) \in Nat /\ Len(s) \in Nat /\ k.len \in Nat /\ k.cut \in Nat
        /\ TopLength(k) \in {0, 1}
    BY ConnectionAssumption DEF TopLength
  <1>1. Extended(ks, s, k, ls, t)
    BY MoreTokens
  <1> HIDE DEF ls, t
  <1>2. \A n \in 1 .. Len(ks) : ks[n] \in Kinds
    BY ElementOfSeq
  <1>3. Len(t) = Len(s) + TopLength(k) + k.cut + 1 + 1 + k.len
    BY <1>1 DEF Extended
  <1>4. Len(t) \in Nat /\ Len(t) > Len(s) + 1
    BY <1>0, <1>3
  <1>5. Len(ls) = Len(ks) + 1 /\ (\A n \in 1 .. Len(ks) : ls[n] = ks[n])
        /\ \A j \in 1 .. Len(s) : t[j] = s[j]
    BY <1>1 DEF Extended
  <1> QED
    BY <1>0, <1>2, <1>4, <1>5, ConnectionAssumption DEF ls, t

LEMMA MoreLine ==
    ASSUME NEW ks \in Seq(Kinds), NEW s \in Seq(Tok(ks)), NEW k \in Kinds,
           NEW i \in Nat \ {0}, NEW n \in 1 .. Len(ks), LineAt(ks, s, i, n)
    PROVE  LineAt(Append(ks, k), s \o Tokens(Len(ks) + 1, k), i, n)
  <1> DEFINE ls == Append(ks, k)
             t == s \o Tokens(Len(ks) + 1, k)
  <1>1. /\ Len(s) \in Nat /\ ls[n] = ks[n] /\ ks[n].cut \in Nat
        /\ Len(t) \in Nat /\ Len(t) > Len(s) + 1 /\ \A j \in 1 .. Len(s) : t[j] = s[j]
    BY MoreOld
  <1> SUFFICES LineAt(ls, t, i, n)
    OBVIOUS
  <1> HIDE DEF ls, t
  <1>2. \A j \in 1 .. Len(s) : j \in 1 .. Len(t)
    BY <1>1
  <1> QED
    BY <1>1, <1>2 DEF LineAt

LEMMA MoreFront ==
    ASSUME NEW ks \in Seq(Kinds), NEW s \in Seq(Tok(ks)), NEW k \in Kinds,
           NEW i \in Nat \ {0}, NEW n \in Nat, Front(ks, s, i, n)
    PROVE  Front(Append(ks, k), s \o Tokens(Len(ks) + 1, k), i, n)
  <1> DEFINE ls == Append(ks, k)
             t == s \o Tokens(Len(ks) + 1, k)
  <1>0. Len(ks) \in Nat /\ Len(s) \in Nat /\ k.len \in Nat /\ k.cut \in Nat
    BY ConnectionAssumption
  <1>1. /\ Len(ls) = Len(ks) + 1 /\ \A j \in 1 .. Len(ks) : ls[j] = ks[j]
        /\ Len(t) \in Nat /\ Len(t) > Len(s) + 1 /\ \A j \in 1 .. Len(s) : t[j] = s[j]
    BY MoreOld
  <1>2. Extended(ks, s, k, ls, t)
    BY MoreTokens
  <1>3. n \in 1 .. Len(ks) /\ LineAt(ks, s, i, n) => LineAt(ls, t, i, n)
    BY MoreLine
  <1> SUFFICES Front(ls, t, i, n)
    OBVIOUS
  <1> HIDE DEF ls, t
  <1>4. CASE i = Len(s) + 1 /\ n = Len(ks) + 1
    <2>1. i \in 1 .. Len(t) /\ n \in 1 .. Len(ls) /\ ls[n] = k
      BY <1>0, <1>1, <1>2, <1>4 DEF Extended
    <2>2. CASE k.fault \in HeaderFaults
      <3>1. TopLength(k) = 1 /\ i \in Len(s) + 1 .. Len(s) + TopLength(k)
        BY <1>0, <1>4, <2>2 DEF TopLength
      <3>2. t[i] = TopOf(n)
        BY <1>2, <1>4, <3>1 DEF Extended
      <3> QED
        BY <2>1, <2>2, <3>2 DEF Front
    <2>3. CASE k.fault \notin HeaderFaults
      <3>1. TopLength(k) = 0
        BY <2>3 DEF TopLength
      <3>2. ASSUME NEW j \in 0 .. k.cut - 1
            PROVE  i + j \in 1 .. Len(t) /\ t[i + j] = CutOf(n)
        <4>1. i + j \in Len(s) + TopLength(k) + 1 .. (Len(s) + TopLength(k) + k.cut + 1) - 1
          BY <1>0, <1>4, <3>1, <3>2
        <4>2. t[i + j] = CutOf(n)
          <5>1. \A x \in Len(s) + TopLength(k) + 1 .. (Len(s) + TopLength(k) + k.cut + 1) - 1 :
                   t[x] = CutOf(Len(ks) + 1)
            BY <1>2 DEF Extended
          <5> QED
            BY <1>4, <4>1, <5>1
        <4>3. Len(t) = Len(s) + 0 + k.cut + 1 + 1 + k.len
          BY <1>2, <3>1 DEF Extended
        <4>4. i + j \in 1 .. Len(t)
          BY <1>0, <1>4, <3>2, <4>3, SMTT(30)
        <4> QED
          BY <4>2, <4>4
      <3>3. i + k.cut \in 1 .. Len(t) /\ t[i + k.cut] = LineOf(n)
        <4>1. i + k.cut = Len(s) + TopLength(k) + k.cut + 1
          BY <1>0, <1>4, <3>1
        <4>2. t[Len(s) + TopLength(k) + k.cut + 1] = LineOf(n)
          BY <1>2, <1>4 DEF Extended
        <4>3. Len(t) = Len(s) + 0 + k.cut + 1 + 1 + k.len
          BY <1>2, <3>1 DEF Extended
        <4>4. i + k.cut \in 1 .. Len(t)
          BY <1>0, <1>4, <4>3, SMTT(30)
        <4> QED
          BY <4>1, <4>2, <4>4
      <3>4. LineAt(ls, t, i, n)
        BY <2>1, <3>2, <3>3 DEF LineAt
      <3> QED
        BY <2>1, <2>3, <3>4 DEF Front
    <2> QED
      BY <2>2, <2>3
  <1>5. CASE /\ i \in 1 .. Len(s) /\ n \in 1 .. Len(ks)
             /\ IF ks[n].fault \in HeaderFaults THEN s[i] = TopOf(n) ELSE LineAt(ks, s, i, n)
    <2>1. i \in 1 .. Len(t) /\ n \in 1 .. Len(ls) /\ ls[n] = ks[n] /\ t[i] = s[i]
      BY <1>0, <1>1, <1>5
    <2> QED
      BY <1>3, <1>5, <2>1 DEF Front
  <1> QED
    BY <1>4, <1>5 DEF Front

LEMMA MoreBody ==
    ASSUME NEW ks \in Seq(Kinds), NEW s \in Seq(Tok(ks)), NEW k \in Kinds,
           NEW i \in Nat \ {0}, NEW n \in Nat, NEW r \in Nat, BodyAt(ks, s, i, n, r)
    PROVE  BodyAt(Append(ks, k), s \o Tokens(Len(ks) + 1, k), i, n, r)
  <1> DEFINE ls == Append(ks, k)
             t == s \o Tokens(Len(ks) + 1, k)
  <1>1. /\ Len(s) \in Nat /\ Len(t) \in Nat /\ Len(t) > Len(s) + 1
        /\ \A j \in 1 .. Len(s) : t[j] = s[j]
    BY MoreOld
  <1>2. Front(ls, t, i + r, n + 1)
    <2>1. Front(ks, s, i + r, n + 1) /\ i + r \in Nat \ {0} /\ n + 1 \in Nat
      BY DEF BodyAt
    <2> QED
      BY <2>1, MoreFront
  <1> HIDE DEF ls, t
  <1>3. \A j \in 0 .. r - 1 : i + j \in 1 .. Len(t) /\ t[i + j] = BodyOf(n)
    <2> TAKE j \in 0 .. r - 1
    <2>1. i + j \in 1 .. Len(s) /\ s[i + j] = BodyOf(n)
      BY DEF BodyAt
    <2>2. t[i + j] = s[i + j]
      BY <1>1, <2>1
    <2>3. i + j \in 1 .. Len(t)
      BY <1>1, <2>1
    <2> QED
      BY <2>1, <2>2, <2>3
  <1>4. BodyAt(ls, t, i, n, r)
    BY <1>2, <1>3 DEF BodyAt
  <1> QED
    BY <1>4 DEF ls, t

LEMMA MoreHeaders ==
    ASSUME NEW ks \in Seq(Kinds), NEW s \in Seq(Tok(ks)), NEW k \in Kinds,
           NEW i \in Nat \ {0}, NEW n \in 1 .. Len(ks), HeadersAt(ks, s, i, n)
    PROVE  HeadersAt(Append(ks, k), s \o Tokens(Len(ks) + 1, k), i, n)
  <1> DEFINE ls == Append(ks, k)
             t == s \o Tokens(Len(ks) + 1, k)
  <1>0. Len(s) \in Nat /\ ks[n].len \in Nat /\ n \in Nat
    BY MoreOld
  <1>1. /\ ls[n] = ks[n] /\ Len(t) \in Nat /\ Len(t) > Len(s) + 1
        /\ \A j \in 1 .. Len(s) : t[j] = s[j]
    BY MoreOld
  <1>2. BodyAt(ls, t, i + 1, n, ks[n].len)
    <2>1. BodyAt(ks, s, i + 1, n, ks[n].len) /\ i + 1 \in Nat \ {0}
      BY DEF HeadersAt
    <2> QED
      BY <1>0, <2>1, MoreBody
  <1> HIDE DEF ls, t
  <1>3. i \in 1 .. Len(t) /\ t[i] = EndOf(n)
    BY <1>0, <1>1 DEF HeadersAt
  <1>4. HeadersAt(ls, t, i, n)
    BY <1>1, <1>2, <1>3 DEF HeadersAt
  <1> QED
    BY <1>4 DEF ls, t

LEMMA MoreBlocks ==
    ASSUME NEW ks \in Seq(Kinds), NEW s \in Seq(Tok(ks)), NEW k \in Kinds, Blocks(ks, s)
    PROVE  Blocks(Append(ks, k), s \o Tokens(Len(ks) + 1, k))
  <1> DEFINE ls == Append(ks, k)
             t == s \o Tokens(Len(ks) + 1, k)
             new == Len(ks) + 1
             top == TopLength(k)
             line == Len(s) + top + k.cut + 1
  <1>0. Len(ks) \in Nat /\ Len(s) \in Nat /\ k.len \in Nat /\ k.cut \in Nat /\ top \in {0, 1}
        /\ top \in Nat
    BY ConnectionAssumption DEF TopLength
  <1>1. /\ Len(ls) = new /\ ls[new] = k
        /\ Len(t) = line + 1 + k.len
        /\ \A j \in 1 .. Len(s) : t[j] = s[j]
        /\ \A i \in Len(s) + 1 .. Len(s) + top : t[i] = TopOf(new)
        /\ \A i \in Len(s) + top + 1 .. line - 1 : t[i] = CutOf(new)
        /\ t[line] = LineOf(new) /\ t[line + 1] = EndOf(new)
        /\ \A i \in line + 2 .. line + 1 + k.len : t[i] = BodyOf(new)
    <2>1. Extended(ks, s, k, ls, t)
      BY MoreTokens
    <2> HIDE DEF ls, t
    <2> QED
      BY <2>1 DEF Extended
  <1>2. ASSUME NEW i \in 1 .. Len(s)
        PROVE  /\ t[i].part = "top" => LineAt(ls, t, i + 1, t[i].req)
               /\ t[i].part = "line" => HeadersAt(ls, t, i + 1, t[i].req)
    <2>1. t[i] = s[i] /\ s[i] \in Tok(ks)
      BY <1>1, ElementOfSeq
    <2>2. /\ s[i].req \in 1 .. Len(ks) /\ i + 1 \in Nat \ {0}
          /\ s[i].part = "line" => HeadersAt(ks, s, i + 1, s[i].req)
          /\ s[i].part = "top" => LineAt(ks, s, i + 1, s[i].req)
      BY <1>2, <2>1 DEF Tok, Blocks
    <2>3. s[i].part = "line" => HeadersAt(ls, t, i + 1, s[i].req)
      BY <2>2, MoreHeaders
    <2>4. s[i].part = "top" => LineAt(ls, t, i + 1, s[i].req)
      BY <2>2, MoreLine
    <2> QED
      BY <2>1, <2>3, <2>4
  <1> HIDE DEF ls, t, top
  <1>3. HeadersAt(ls, t, line + 1, new)
    <2>1. BodyAt(ls, t, line + 2, new, k.len)
      <3>0. Len(t) = line + 1 + k.len /\ line \in Nat
        BY <1>0, <1>1, SMTT(30)
      <3> HIDE DEF line
      <3>1. Front(ls, t, line + 2 + k.len, new + 1)
        <4>1. line + 2 + k.len = Len(t) + 1
          BY <1>0, <3>0, SMTT(30)
        <4>2. new + 1 = Len(ls) + 1
          BY <1>1
        <4> QED
          BY <4>1, <4>2 DEF Front
      <3>2. ASSUME NEW j \in 0 .. k.len - 1
            PROVE  /\ line + 2 + j \in 1 .. Len(t)
                   /\ line + 2 + j \in line + 2 .. line + 1 + k.len
        BY <1>0, <3>0, <3>2
      <3> HIDE DEF line
      <3> QED
        BY <1>1, <3>1, <3>2 DEF BodyAt
    <2>2. line + 1 \in 1 .. Len(t) /\ (line + 1) + 1 = line + 2
      BY <1>0, <1>1, SMTT(30)
    <2> HIDE DEF line
    <2> QED
      BY <1>1, <2>1, <2>2 DEF HeadersAt
  <1>4. LineAt(ls, t, Len(s) + top + 1, new)
    <2>0. Len(t) = line + 1 + k.len
      BY <1>1
    <2>1. ASSUME NEW j \in 0 .. k.cut - 1
          PROVE  /\ Len(s) + top + 1 + j \in 1 .. Len(t)
                 /\ Len(s) + top + 1 + j \in Len(s) + top + 1 .. line - 1
      BY <1>0, <2>0, <2>1
    <2>2. Len(s) + top + 1 + k.cut \in 1 .. Len(t) /\ Len(s) + top + 1 + k.cut = line
      BY <1>0, <2>0
    <2> HIDE DEF line
    <2> QED
      BY <1>1, <2>1, <2>2 DEF LineAt
  <1>5. ASSUME NEW i \in Len(s) + 1 .. Len(t)
        PROVE  /\ t[i].part = "top" => LineAt(ls, t, i + 1, t[i].req)
               /\ t[i].part = "line" => HeadersAt(ls, t, i + 1, t[i].req)
    <2>1. CASE i \in Len(s) + 1 .. Len(s) + top
      <3>1. i + 1 = Len(s) + top + 1
        BY <1>0, <2>1
      <3> QED
        BY <1>1, <1>4, <2>1, <3>1 DEF TopOf
    <2>2. CASE i \in Len(s) + top + 1 .. line - 1
      BY <1>1, <2>2 DEF CutOf
    <2>3. CASE i = line
      BY <1>1, <1>3, <2>3 DEF LineOf
    <2>4. CASE i = line + 1
      BY <1>1, <2>4 DEF EndOf
    <2>5. CASE i \in line + 2 .. line + 1 + k.len
      BY <1>1, <2>5 DEF BodyOf
    <2>6. \/ i \in Len(s) + 1 .. Len(s) + top \/ i \in Len(s) + top + 1 .. line - 1
          \/ i = line \/ i = line + 1 \/ i \in line + 2 .. line + 1 + k.len
      <3>1. Len(t) = line + 1 + k.len
        BY <1>1
      <3> QED
        BY <1>0, <1>5, <3>1
    <2> QED
      BY <2>1, <2>2, <2>3, <2>4, <2>5, <2>6
  <1>6. \A i \in 1 .. Len(t) : i \in 1 .. Len(s) \/ i \in Len(s) + 1 .. Len(t)
    <2>1. Len(t) \in Nat
      BY <1>0, <1>1
    <2> QED
      BY <1>0, <2>1
  <1>7. Blocks(ls, t)
    BY <1>2, <1>5, <1>6 DEF Blocks
  <1> QED
    BY <1>7 DEF ls, t

LEMMA MoreAtNext ==
    ASSUME NEW ks \in Seq(Kinds), NEW s \in Seq(Tok(ks)), NEW k \in Kinds, 
           NEW m \in 0 .. Len(ks), NEW h, AtNext(ks, s, m, h)
    PROVE  AtNext(Append(ks, k), s \o Tokens(Len(ks) + 1, k), m, h)
  <1> DEFINE ls == Append(ks, k)
             t == s \o Tokens(Len(ks) + 1, k)
  <1>0. /\ Len(ks) \in Nat /\ Len(s) \in Nat
        /\ Len(ls) = Len(ks) + 1 /\ \A n \in 1 .. Len(ks) : ls[n] = ks[n]
        /\ Len(t) \in Nat /\ Len(t) > Len(s) + 1 /\ \A j \in 1 .. Len(s) : t[j] = s[j]
    BY MoreOld
  <1>1. m > 0 => m \in 1 .. Len(ks) /\ m \in 1 .. Len(ls) /\ ls[m] = ks[m]
    BY <1>0
  <1>2. CASE Front(ks, s, 1, m + 1) /\ (m > 0 => ~Sticks(ks[m]))
    <2>1. m + 1 \in Nat
      OBVIOUS
    <2>2. Front(ls, t, 1, m + 1)
      BY <1>2, <2>1, MoreFront
    <2> HIDE DEF ls, t
    <2>3. AtNext(ls, t, m, h)
      BY <1>1, <1>2, <2>2 DEF AtNext
    <2> QED
      BY <2>3 DEF ls, t
  <1>3. CASE Behind(ks, s, m, h)
    <2>1. m \in 1 .. Len(ks) /\ Repeats(ls[m])
      BY <1>0, <1>3 DEF Behind
    <2>2. LineAt(ks, s, 1, m) => LineAt(ls, t, 1, m)
      BY <2>1, MoreLine
    <2>3. Len(s) > 0 /\ s[1] = BodyOf(m) => Len(t) > 0 /\ t[1] = BodyOf(m)
      <3>1. Len(s) > 0 => 1 \in 1 .. Len(s)
        BY <1>0
      <3> QED
        BY <1>0, <3>1
    <2> HIDE DEF ls, t
    <2>4. Behind(ls, t, m, h)
      BY <1>1, <1>3, <2>1, <2>2, <2>3 DEF Behind
    <2>5. AtNext(ls, t, m, h)
      BY <2>4 DEF AtNext
    <2> QED
      BY <2>5 DEF ls, t
  <1> QED
    BY <1>2, <1>3 DEF AtNext

----------------------------------------------------------------------------
(***************************************************************************)
(* The answers the client has, and the ones it will get when the           *)
(* connection lives, are in the order of the requests; behind them are the *)
(* bytes of the requests that have not been answered, or of one that may   *)
(* be answered again.                                                      *)
(***************************************************************************)

Rest == input \o sock \o toSend

Answers ==
    received \o (IF st = "SENDING_FILE" /\ file > 0
                 THEN <<Response(parser.req, "router")>> ELSE output)

\* The request of the last response, or of the last one handed over.
LastReq(s) == IF s = << >> THEN 0 ELSE s[Len(s)].req

\* After a response to m, and with h the last request handed over, n is in turn.
Due(ks, n, m, h) == h < n /\ Answerable(ks, n, m)

\* A request line of n has been read, the end of the headers not yet.
AfterLine(ks, s, n) ==
    \/ ks[n].fault \in HeaderFaults /\ LineAt(ks, s, 1, n)
    \/ ks[n].fault \notin {"line", "header"} /\ HeadersAt(ks, s, 1, n)

InHeaders(ks, s, p, m, h) ==
    /\ p.req \in 1 .. Len(ks) /\ p.body = 0
    /\ Due(ks, p.req, m, h)
    /\ AfterLine(ks, s, p.req)

\* The headers of a request have been read and perhaps some of its body, of
\* which the parser p and the upload context u have as much as is missing in s.
InBody(ks, s, p, u, m, h) ==
    LET k == ks[p.req]
        got == IF u = None THEN 0 ELSE u.bytes IN
    /\ p.req \in 1 .. Len(ks)
    /\ Due(ks, p.req, m, h)
    /\ BodyIsRead(k) \/ k.fault = "chunked"
    /\ BodyAt(ks, s, 1, p.req, IF k.fault = "chunked" THEN k.len ELSE p.rem)
    /\ k.fault # "chunked" => p.body + got + p.rem = k.len
    /\ k.fault = "chunked" => p.rem = 0
    /\ u # None => u.session
    /\ k.stream => p.body = 0
    /\ ~k.stream => u = None

InPlace(ks, s, m, h, state, p, u) ==
    /\ Blocks(ks, s)
    /\ state = "READING_HEADERS" /\ p.state = "REQUEST_LINE" => p = Fresh /\ AtNext(ks, s, m, h)
    /\ state = "READING_HEADERS" /\ p.state = "HEADERS" => InHeaders(ks, s, p, m, h)
    /\ state = "READING_BODY_STREAM" => InBody(ks, s, p, u, m, h)
    /\ state \in {"WRITING_RESPONSE", "SENDING_FILE"} => ~p.keep \/ AtNext(ks, s, m, h)

StreamInv ==
    /\ rst => sock = << >>
    /\ registered /\ ~Doomed /\ ~rst =>
          InPlace(kinds, Rest, LastReq(Answers), LastReq(handled), st, parser, upload)

PairedIn(ks, s) ==
    \A i \in 1 .. Len(s) : Answerable(ks, s[i].req, IF i = 1 THEN 0 ELSE s[i - 1].req)

PairInv ==
    /\ PairedIn(kinds, received)
    /\ ~Doomed => PairedIn(kinds, received \o output) /\ PairedIn(kinds, Answers)

HandInv ==
    /\ \A i \in 1 .. Len(handled) - 1 : handled[i].req < handled[i + 1].req
    /\ \A i \in 1 .. Len(handled) :
         LET k == KindOf(handled[i].req) IN
         BodyIsRead(k) =>
             handled[i].body = k.len \/ (Doomed /\ WriteFailed(handled[i].req))

FlowInv == StreamInv /\ PairInv /\ HandInv

(***************************************************************************)
(* Facts about sequences                                                   *)
(***************************************************************************)

\* Taking d elements off a concatenation takes them off its first part.
LEMMA DropOfConcat ==
    ASSUME NEW S, NEW a \in Seq(S), NEW b \in Seq(S), NEW d \in 0 .. Len(a)
    PROVE  /\ SubSeq(a, d + 1, Len(a)) \o b = SubSeq(a \o b, d + 1, Len(a \o b))
           /\ d \in 0 .. Len(a \o b)
  <1> DEFINE u == SubSeq(a, d + 1, Len(a))
             c == a \o b
             v == SubSeq(c, d + 1, Len(c))
  <1>0. Len(a) \in Nat /\ Len(b) \in Nat /\ d \in Nat /\ d <= Len(a)
    OBVIOUS
  <1>1. /\ c \in Seq(S) /\ Len(c) = Len(a) + Len(b)
        /\ \A i \in 1 .. Len(a) + Len(b) : c[i] = IF i <= Len(a) THEN a[i] ELSE b[i - Len(a)]
    BY ConcatProperties
  <1>2. /\ u \in Seq(S) /\ Len(u) = Len(a) - d
        /\ \A i \in 1 .. Len(a) - d : u[i] = a[i + d]
    <2>1. \A i \in d + 1 .. Len(a) : a[i] \in S
      BY <1>0, ElementOfSeq
    <2>2. u \in Seq(S) /\ Len(u) = Len(a) - d
      BY <1>0, <2>1, SubSeqProperties
    <2>3. \A i \in 1 .. Len(a) - (d + 1) + 1 : u[i] = a[(d + 1) + i - 1]
      BY <1>0, <2>1, SubSeqProperties
    <2> HIDE DEF u
    <2> QED
      BY <1>0, <2>2, <2>3
  <1> HIDE DEF u, c
  <1>3. /\ v \in Seq(S) /\ Len(v) = Len(c) - d
        /\ \A i \in 1 .. Len(c) - d : v[i] = c[i + d]
    <2>1. \A i \in d + 1 .. Len(c) : c[i] \in S
      BY <1>0, <1>1, ElementOfSeq
    <2>2. v \in Seq(S) /\ Len(v) = Len(c) - d
      BY <1>0, <1>1, <2>1, SubSeqProperties
    <2>3. \A i \in 1 .. Len(c) - (d + 1) + 1 : v[i] = c[(d + 1) + i - 1]
      BY <1>0, <1>1, <2>1, SubSeqProperties
    <2> HIDE DEF v
    <2> QED
      BY <1>0, <1>1, <2>2, <2>3
  <1> HIDE DEF v
  <1> DEFINE w == u \o b
  <1>4. /\ w \in Seq(S) /\ Len(w) = Len(u) + Len(b)
        /\ \A i \in 1 .. Len(u) + Len(b) : w[i] = IF i <= Len(u) THEN u[i] ELSE b[i - Len(u)]
    BY <1>2, ConcatProperties
  <1> HIDE DEF w
  <1>5. Len(w) = Len(v)
    BY <1>0, <1>1, <1>2, <1>3, <1>4
  <1>6. ASSUME NEW i \in 1 .. Len(w) PROVE w[i] = v[i]
    <2>1. i + d \in 1 .. Len(a) + Len(b) /\ i \in 1 .. Len(c) - d /\ i \in 1 .. Len(u) + Len(b)
      BY <1>0, <1>1, <1>2, <1>3, <1>4
    <2>2. CASE i <= Len(u)
      <3>1. i \in 1 .. Len(a) - d /\ i + d <= Len(a)
        BY <1>0, <1>2, <2>1, <2>2
      <3> QED
        BY <1>1, <1>2, <1>3, <1>4, <2>1, <2>2, <3>1
    <2>3. CASE ~(i <= Len(u))
      <3>1. ~(i + d <= Len(a)) /\ (i + d) - Len(a) = i - Len(u)
        BY <1>0, <1>2, <2>1, <2>3
      <3> QED
        BY <1>1, <1>2, <1>3, <1>4, <2>1, <2>3, <3>1
    <2> QED
      BY <2>2, <2>3
  <1>7. w = v
    BY <1>3, <1>4, <1>5, <1>6, SeqEqual
  <1>8. d \in 0 .. Len(c)
    BY <1>0, <1>1
  <1> QED
    BY <1>7, <1>8 DEF u, v, w, c

\* Moving elements from the front of one sequence to the end of the one before.
LEMMA MoveAcross ==
    ASSUME NEW S, NEW a \in Seq(S), NEW b \in Seq(S), NEW n \in 0 .. Len(b)
    PROVE  (a \o SubSeq(b, 1, n)) \o SubSeq(b, n + 1, Len(b)) = a \o b
  <1>0. Len(b) \in Nat /\ n \in Nat /\ n <= Len(b)
    OBVIOUS
  <1>1. \A i \in 1 .. Len(b) : b[i] \in S
    BY ElementOfSeq
  <1>2. /\ \A i \in 1 .. n : b[i] \in S
        /\ \A i \in n + 1 .. Len(b) : b[i] \in S
    BY <1>0, <1>1
  <1>3. SubSeq(b, 1, n) \in Seq(S) /\ SubSeq(b, n + 1, Len(b)) \in Seq(S)
    BY <1>0, <1>2, SubSeqProperties
  <1>4. SubSeq(b, 1, n) \o SubSeq(b, n + 1, Len(b)) = SubSeq(b, 1, Len(b))
    <2>1. 1 \in 1 .. Len(b) + 1 /\ n \in 1 - 1 .. Len(b) /\ Len(b) \in n .. Len(b)
      BY <1>0
    <2> QED
      BY <2>1, ConcatAdjacentSubSeq
  <1>5. SubSeq(b, 1, Len(b)) = b
    BY SubSeqFull
  <1> DEFINE x == SubSeq(b, 1, n)
             y == SubSeq(b, n + 1, Len(b))
  <1> SUFFICES (a \o x) \o y = a \o b
    OBVIOUS
  <1>6. x \in Seq(S) /\ y \in Seq(S)
    BY <1>3
  <1>7. x \o y = b
    BY <1>4, <1>5
  <1> HIDE DEF x, y
  <1>8. (a \o x) \o y = a \o (x \o y)
    BY <1>6, ConcatAssociative
  <1> QED
    BY <1>7, <1>8

LEMMA LastOfConcat ==
    ASSUME NEW S, NEW s \in Seq(S), NEW e \in S
    PROVE  /\ s \o <<e>> \in Seq(S) /\ Len(s \o <<e>>) = Len(s) + 1
           /\ (s \o <<e>>)[Len(s) + 1] = e
           /\ \A i \in 1 .. Len(s) : (s \o <<e>>)[i] = s[i]
  <1>1. Append(s, e) = s \o <<e>>
    BY AppendIsConcat
  <1> QED
    BY <1>1, AppendProperties

\* The request of the last element.
LEMMA LastReqType ==
    ASSUME NEW n \in Nat, NEW R, \A x \in R : x.req \in 1 .. n, NEW s \in Seq(R)
    PROVE  LastReq(s) \in 0 .. n /\ LastReq(s) \in Nat
  <1>1. CASE s = << >>
    BY <1>1 DEF LastReq
  <1>2. CASE s # << >>
    <2>1. Len(s) \in Nat \ {0}
      BY <1>2, EmptySeq
    <2>2. s[Len(s)] \in R
      BY <2>1, ElementOfSeq
    <2> QED
      BY <1>2, <2>2 DEF LastReq
  <1> QED
    BY <1>1, <1>2

LEMMA LastReqNext ==
    ASSUME NEW R, NEW s \in Seq(R), NEW e \in R
    PROVE  LastReq(s \o <<e>>) = e.req
  <1> DEFINE t == s \o <<e>>
  <1>1. t \in Seq(R) /\ Len(t) = Len(s) + 1 /\ t[Len(s) + 1] = e /\ Len(s) \in Nat
    BY LastOfConcat
  <1> HIDE DEF t
  <1>2. Len(t) # 0
    BY <1>1
  <1>3. t # << >>
    BY <1>2
  <1> QED
    BY <1>1, <1>3 DEF LastReq, t

\* One more response is paired when it is for the next request, or once more for
\* one that may be answered again.
LEMMA PairedNext ==
    ASSUME NEW ks, NEW R, NEW s \in Seq(R), NEW e \in R, PairedIn(ks, s),
           Answerable(ks, e.req, LastReq(s))
    PROVE  PairedIn(ks, s \o <<e>>)
  <1> DEFINE t == s \o <<e>>
  <1>1. /\ Len(t) = Len(s) + 1 /\ t[Len(s) + 1] = e /\ Len(s) \in Nat
        /\ \A i \in 1 .. Len(s) : t[i] = s[i]
    BY LastOfConcat
  <1>a. s = << >> <=> Len(s) = 0
    BY EmptySeq
  <1> SUFFICES PairedIn(ks, t)
    OBVIOUS
  <1> HIDE DEF t
  <1> SUFFICES ASSUME NEW i \in 1 .. Len(t)
               PROVE  Answerable(ks, t[i].req, IF i = 1 THEN 0 ELSE t[i - 1].req)
    BY DEF PairedIn
  <1>2. CASE i \in 1 .. Len(s)
    <2>1. t[i] = s[i] /\ (i # 1 => t[i - 1] = s[i - 1])
      BY <1>1, <1>2
    <2> QED
      BY <1>2, <2>1 DEF PairedIn
  <1>3. CASE i = Len(s) + 1
    <2>1. (IF i = 1 THEN 0 ELSE t[i - 1].req) = LastReq(s)
      <3>1. CASE Len(s) = 0
        BY <1>3, <1>a, <3>1 DEF LastReq
      <3>2. CASE Len(s) # 0
        <4>1. i # 1 /\ i - 1 = Len(s) /\ Len(s) \in 1 .. Len(s)
          BY <1>1, <1>3, <3>2
        <4> QED
          BY <1>1, <1>a, <3>2, <4>1 DEF LastReq
      <3> QED
        BY <3>1, <3>2
    <2> QED
      BY <1>1, <1>3, <2>1
  <1> QED
    BY <1>1, <1>2, <1>3

----------------------------------------------------------------------------
(***************************************************************************)
(* A read                                                                  *)
(***************************************************************************)

LEMMA RestType ==
    ASSUME TInv
    PROVE  /\ kinds \in Seq(Kinds) /\ Rest \in Seq(Tok(kinds)) /\ BegunTokens = Tok(kinds)
           /\ input \o sock \in Seq(BegunTokens)
           /\ Rest = (input \o sock) \o toSend
  <1>1. BegunTokens = Tok(kinds)
    BY DEF BegunTokens, Begun, Tok
  <1>2. /\ input \in Seq(BegunTokens) /\ sock \in Seq(BegunTokens)
        /\ toSend \in Seq(BegunTokens) /\ kinds \in Seq(Kinds)
    BY DEF TInv, BytesInv
  <1>3. input \o sock \in Seq(BegunTokens)
    BY <1>2, ConcatProperties
  <1>4. (input \o sock) \o toSend \in Seq(BegunTokens)
    BY <1>2, <1>3, ConcatProperties
  <1> QED
    BY <1>1, <1>2, <1>3, <1>4 DEF Rest

\* A read that leaves all but d tokens of in takes them off what is still to be
\* read.
LEMMA ReadTakes ==
    ASSUME TInv, NEW in \in Seq(BegunTokens), NEW d \in 0 .. Len(in),
           sock' = << >>, toSend' = toSend, input' = SubSeq(in, d + 1, Len(in))
    PROVE  LET s == in \o toSend IN
           /\ s \in Seq(Tok(kinds)) /\ d \in 0 .. Len(s)
           /\ Rest' = SubSeq(s, d + 1, Len(s))
  <1> DEFINE left == SubSeq(in, d + 1, Len(in))
  <1>1. toSend \in Seq(BegunTokens) /\ kinds \in Seq(Kinds) /\ BegunTokens = Tok(kinds)
    BY RestType DEF TInv, BytesInv
  <1>2. left \in Seq(BegunTokens)
    BY <1>1, DropTokens
  <1>3. left \o << >> = left
    <2> HIDE DEF left
    <2> QED
      BY <1>2, ConcatEmptySeq
  <1>4. Rest' = left \o toSend
    BY <1>3 DEF Rest
  <1>5. /\ left \o toSend = SubSeq(in \o toSend, d + 1, Len(in \o toSend))
        /\ d \in 0 .. Len(in \o toSend)
    BY <1>1, DropOfConcat
  <1>6. in \o toSend \in Seq(Tok(kinds))
    BY <1>1, ConcatProperties
  <1> QED
    BY <1>4, <1>5, <1>6

\* What a read makes of the answers and of the bytes.
ReadFlow ==
    /\ closes' = closes =>
          /\ InPlace(kinds, Rest', LastReq(Answers'), LastReq(handled'), st', parser', upload')
          /\ PairedIn(kinds, Answers') /\ PairedIn(kinds, received \o output')
    /\ \/ handled' = handled
       \/ \E g \in BegunHandled :
             /\ handled' = handled \o <<g>> /\ LastReq(handled) < g.req
             /\ BodyIsRead(kinds[g.req]) =>
                   \/ g.body = kinds[g.req].len
                   \/ /\ closes' # closes
                      /\ \E i \in 1 .. Len(output') : output'[i] = Response(g.req, "500")

\* The requests of the last response and of the last one handed over.
LEMMA LastReqs ==
    ASSUME TInv
    PROVE  /\ Len(kinds) \in Nat
           /\ LastReq(received) \in 0 .. Len(kinds) /\ LastReq(received) \in Nat
           /\ LastReq(handled) \in 0 .. Len(kinds) /\ LastReq(handled) \in Nat
  <1>1. /\ Len(kinds) \in Nat /\ received \in Seq(BegunResponses)
        /\ handled \in Seq(BegunHandled)
    BY DEF TInv, BytesInv, AnswerInv
  <1>2. /\ \A x \in BegunResponses : x.req \in 1 .. Len(kinds)
        /\ \A x \in BegunHandled : x.req \in 1 .. Len(kinds)
    BY DEF BegunResponses, BegunHandled, Begun
  <1> QED
    BY <1>1, <1>2, LastReqType

\* An answer to a request that is in turn.
LEMMA AnswerPaired ==
    ASSUME TInv, PairedIn(kinds, received), UNCHANGED received,
           NEW e \in BegunResponses, output' = <<e>>,
           Answerable(kinds, e.req, LastReq(received)),
           st' = "SENDING_FILE" => e = Response(parser'.req, "router")
    PROVE  /\ LastReq(Answers') = e.req
           /\ PairedIn(kinds, Answers') /\ PairedIn(kinds, received \o output')
  <1>1. Answers' = received \o <<e>>
    BY DEF Answers
  <1>3. received \in Seq(BegunResponses)
    BY DEF TInv, AnswerInv
  <1>4. PairedIn(kinds, received \o <<e>>)
    BY <1>3, PairedNext
  <1>5. LastReq(received \o <<e>>) = e.req
    BY <1>3, LastReqNext
  <1> QED
    BY <1>1, <1>4, <1>5

\* No answer is added.
LEMMA NoAnswerYet ==
    ASSUME TInv, PairedIn(kinds, received), UNCHANGED received, output' = << >>,
           st' # "SENDING_FILE"
    PROVE  /\ Answers' = received
           /\ PairedIn(kinds, Answers') /\ PairedIn(kinds, received \o output')
  <1>1. received \o << >> = received
    <2>1. received \in Seq(BegunResponses)
      BY DEF TInv, AnswerInv
    <2> QED
      BY <2>1, ConcatEmptySeq
  <1> QED
    BY <1>1 DEF Answers

\* Dispatch hands the request to the router, unless its upload cannot be
\* committed, and answers it.
LEMMA DispatchFlow ==
    ASSUME TInv, NEW p \in Parsers, p.req \in Begun,
           NEW ctx \in Contexts \cup {None}, NEW before \in Seq(BegunResponses),
           Dispatch(p, ctx, before), output = << >>
    PROVE  LET committed == ctx # None /\ ctx.session
               got == IF committed THEN ctx.bytes ELSE p.body
               h == [req |-> p.req, body |-> got, stored |-> committed] IN
           /\ h \in BegunHandled
           /\ handled' \in {handled, handled \o <<h>>}
           /\ \E e \in BegunResponses :
                 /\ output' = before \o <<e>> /\ e.req = p.req
                 /\ st' = "SENDING_FILE" => e = Response(parser'.req, "router")
  <1> DEFINE committed == ctx # None /\ ctx.session
             got == IF committed THEN ctx.bytes ELSE p.body
             h == [req |-> p.req, body |-> got, stored |-> committed]
  <1>1. PICK r \in OnRequest(p, ctx) :
           /\ output' = output \o before \o <<r.resp>>
           /\ handled' = handled \o r.seen
           /\ st' = r.next
    BY DEF Dispatch
  <1>2. /\ r.resp \in {Response(p.req, "router"), Response(p.req, "400")}
        /\ r.seen \in {<< >>, <<h>>}
        /\ r.next = "SENDING_FILE" => r.resp = Response(p.req, "router")
    BY OnRequestCases
  <1>3. parser'.req = p.req
    BY DispatchType
  <1>4. h \in BegunHandled
    <2>1. ctx \in Contexts => ctx.bytes \in Nat /\ ctx.session \in BOOLEAN
      BY DEF Contexts
    <2>2. p.body \in Nat
      BY DEF Parsers
    <2>3. committed \in BOOLEAN
      BY <2>1
    <2>4. got \in Nat
      BY <2>1, <2>2
    <2> HIDE DEF committed, got
    <2> QED
      BY <2>3, <2>4 DEF BegunHandled
  <1> HIDE DEF h
  <1>5. handled' \in {handled, handled \o <<h>>}
    <2>1. handled \o << >> = handled
      <3>1. handled \in Seq(BegunHandled)
        BY DEF TInv, AnswerInv
      <3> QED
        BY <3>1, ConcatEmptySeq
    <2> QED
      BY <1>1, <1>2, <2>1
  <1>6. r.resp \in BegunResponses /\ r.resp.req = p.req
    BY <1>2 DEF Response, BegunResponses
  <1>7. output' = before \o <<r.resp>>
    <2>1. << >> \o before = before
      BY ConcatEmptySeq
    <2> QED
      BY <1>1, <2>1
  <1> QED
    BY <1>1, <1>2, <1>3, <1>4, <1>5, <1>6, <1>7 DEF h

\* The body that goes with a request: all of it, when every write of it went
\* well.
LEMMA WholeBody ==
    ASSUME TInv, NEW p \in Parsers, p.req \in Begun,
           NEW s, NEW m, NEW h, InBody(kinds, s, p, upload, m, h),
           NEW n \in Nat, NEW o \in OnBodyData(p, n), o.ok, kinds[p.req].fault # "chunked",
           n <= p.rem
    PROVE  LET k == kinds[p.req]
               committed == o.upload # None /\ o.upload.session
               got == IF committed THEN o.upload.bytes ELSE o.body
               had == IF o.upload = None THEN 0 ELSE o.upload.bytes IN
           /\ o.body + had + (p.rem - n) = k.len
           /\ n = p.rem => got = k.len
           /\ o.upload # None => o.upload.session
           /\ k.stream => o.body = 0
           /\ ~k.stream => o.upload = None
  <1> DEFINE k == kinds[p.req]
             old == IF upload = None THEN 0 ELSE upload.bytes
  <1>1. /\ p.body + old + p.rem = k.len
        /\ k.stream => p.body = 0
        /\ ~k.stream => upload = None
    BY DEF InBody
  <1>2. k = KindOf(p.req) /\ k.stream \in BOOLEAN /\ k.len \in Nat
    BY <1>1, KindType DEF KindOf
  <1>3. p.body \in Nat /\ p.rem \in Nat /\ old \in Nat
    BY DEF Parsers, TInv, ParserInv, Contexts
  <1>4. CASE k.stream
    <2>1. /\ o.body = p.body /\ o.upload \in Contexts /\ o.upload.session
          /\ o.upload.bytes = n + old
      BY <1>2, <1>4, OnBodyDataCases
    <2>2. o.upload # None
      BY <2>1, ConnectionAssumption DEF Contexts
    <2>3. p.body = 0
      BY <1>1, <1>4
    <2> HIDE DEF old
    <2>4. o.body + o.upload.bytes + (p.rem - n) = k.len
          /\ (n = p.rem => o.upload.bytes = k.len)
      BY <1>1, <1>2, <1>3, <2>1, <2>3
    <2> QED
      BY <1>4, <2>1, <2>2, <2>3, <2>4
  <1>5. CASE ~k.stream
    <2>1. o.upload = None /\ o.body = p.body + n /\ old = 0
      BY <1>1, <1>2, <1>5, OnBodyDataCases
    <2> HIDE DEF old
    <2>2. o.body + 0 + (p.rem - n) = k.len /\ (n = p.rem => o.body = k.len)
      BY <1>1, <1>2, <1>3, <2>1
    <2> QED
      BY <1>5, <2>1, <2>2
  <1> QED
    BY <1>2, <1>4, <1>5

ReadStart ==
    /\ UNCHANGED <<toSend, received>> /\ sock' = << >>
    /\ output = << >> /\ PairedIn(kinds, received)

LEMMA ProcessBodyFlow ==
    ASSUME TInv, ReadStart, NEW p \in BegunParsers, p.state = "BODY", p.req \in Begun,
           NEW in \in Seq(BegunTokens), ProcessBody(p, in),
           Blocks(kinds, in \o toSend),
           InBody(kinds, in \o toSend, p, upload, LastReq(received), LastReq(handled))
    PROVE  ReadFlow
  <1> DEFINE m == LastReq(received)
             z == LastReq(handled)
             c == p.req
             k == kinds[c]
             s == in \o toSend
             r == IF k.fault = "chunked" THEN k.len ELSE p.rem
  <1>0. /\ p \in Parsers /\ p.rem \in Nat /\ closes \in Nat
        /\ c \in 1 .. Len(kinds) /\ c \in Nat
        /\ k = KindOf(c) /\ k.len \in Nat /\ k.fault \in AllFaults
    <2>1. p \in Parsers /\ p.rem \in Nat /\ closes \in Nat
      BY DEF BegunParsers, Parsers, TInv, LoopInv
    <2>2. c \in 1 .. Len(kinds) /\ c \in Nat
      BY DEF Begun
    <2> QED
      BY <2>1, <2>2, KindType DEF KindOf
  <1>a. z < c /\ z \in Nat /\ Answerable(kinds, c, m)
    BY LastReqs DEF InBody, Due
  <1>1. PICK n \in Nat : \E o \in OnBodyData(p, n) : BodyStep(p, in, n, o)
    BY <1>0, ProcessBodyCases
  <1>2. PICK o \in OnBodyData(p, n) : BodyStep(p, in, n, o)
    BY <1>1
  <1> DEFINE q == [p EXCEPT !.body = o.body, !.rem = @ - n]
             failure == IF o.ok THEN << >> ELSE <<Response(p.req, "500")>>
             t == SubSeq(s, n + 1, Len(s))
  <1>3. /\ n \in 0 .. Len(in) /\ n <= p.rem /\ input' = SubSeq(in, n + 1, Len(in))
        /\ closes' = IF o.ok THEN closes ELSE closes + 1
        /\ failure \in Seq(BegunResponses)
        /\ q \in Parsers /\ q.req = p.req /\ q.keep = p.keep
        /\ q.body = o.body /\ q.rem = p.rem - n /\ q.state = "BODY"
    BY <1>2 DEF BodyStep, BegunParsers
  <1>4. o.ok \in BOOLEAN /\ o.upload \in Contexts \cup {None}
    BY <1>0, OnBodyDataCases
  <1>5. Rest' = t /\ s \in Seq(Tok(kinds)) /\ kinds \in Seq(Kinds) /\ n \in 0 .. Len(s)
    BY <1>3, ReadTakes, RestType DEF ReadStart
  <1> HIDE DEF s, q, failure
  <1>6. Blocks(kinds, t)
    <2>1. Blocks(kinds, s)
      BY DEF s
    <2> QED
      BY <1>5, <2>1, DropBlocks
  <1>7. /\ BodyIsRead(k) \/ k.fault = "chunked" 
        /\ n <= r /\ r \in Nat
        /\ k.fault = "chunked" => p.rem = 0 /\ n = 0
        /\ BodyAt(kinds, t, 1, c, r - n)
    <2>1. /\ BodyIsRead(k) \/ k.fault = "chunked"
          /\ BodyAt(kinds, s, 1, c, r)
          /\ k.fault = "chunked" => p.rem = 0
      BY DEF InBody, s
    <2>2. n <= r /\ r \in Nat /\ n \in 0 .. r /\ (k.fault = "chunked" => n = 0)
      <3> HIDE DEF k
      <3>1. CASE k.fault = "chunked"
        BY <1>0, <1>3, <2>1, <3>1
      <3>2. CASE k.fault # "chunked"
        BY <1>0, <1>3, <3>2
      <3> QED
        BY <3>1, <3>2
    <2> HIDE DEF r, k, c
    <2>3. n <= Len(s)
      BY <1>0, <1>5
    <2> QED
      BY <1>0, <1>5, <2>1, <2>2, <2>3, DropBody DEF t
  <1>8. CASE o.ok /\ n = p.rem /\ Dispatch(q, o.upload, failure)
    <2> DEFINE committed == o.upload # None /\ o.upload.session
               got == IF committed THEN o.upload.bytes ELSE o.body
               g == [req |-> c, body |-> got, stored |-> committed]
    <2>1. /\ g \in BegunHandled /\ handled' \in {handled, handled \o <<g>>}
          /\ \E e \in BegunResponses :
                 /\ output' = failure \o <<e>> /\ e.req = q.req
                 /\ st' = "SENDING_FILE" => e = Response(parser'.req, "router")
      BY <1>0, <1>3, <1>4, <1>8, DispatchFlow DEF ReadStart
    <2>2. PICK e \in BegunResponses :
             /\ output' = failure \o <<e>> /\ e.req = c
             /\ st' = "SENDING_FILE" => e = Response(parser'.req, "router")
      BY <1>0, <1>3, <2>1
    <2>3. st' \in {"WRITING_RESPONSE", "SENDING_FILE"}
      BY <1>0, <1>3, <1>4, <1>8, DispatchType
    <2>4. output' = <<e>>
      <3>1. failure = << >> /\ <<e>> \in Seq(BegunResponses)
        BY <1>8 DEF failure
      <3> QED
        BY <2>2, <3>1, ConcatEmptySeq
    <2>5. /\ LastReq(Answers') = c
          /\ PairedIn(kinds, Answers') /\ PairedIn(kinds, received \o output')
      BY <1>a, <2>2, <2>4, AnswerPaired DEF ReadStart
    <2>a. LastReq(handled') <= c
      <3>1. LastReq(handled \o <<g>>) = g.req
        <4>1. handled \in Seq(BegunHandled)
          BY DEF TInv, AnswerInv
        <4> HIDE DEF g
        <4> QED
          BY <2>1, <4>1, LastReqNext
      <3>2. g.req = c
        OBVIOUS
      <3> HIDE DEF g
      <3>3. CASE handled' = handled
        BY <1>0, <1>a, <3>3
      <3>4. CASE handled' = handled \o <<g>>
        BY <1>0, <3>1, <3>2, <3>4
      <3> QED
        BY <2>1, <3>3, <3>4
    <2>6. AtNext(kinds, t, c, LastReq(handled'))
      <3>1. /\ r - n > 0 => Sticks(k)
            /\ r - n = 0 => ~Sticks(k)
        BY <1>0, <1>7, <1>8 DEF Sticks, BodyIsRead
      <3>2. t \in Seq(Tok(kinds)) /\ r - n \in Nat
        BY <1>5, <1>7, DropTokens
      <3> HIDE DEF t, r, c
      <3> QED
        BY <1>0, <1>5, <1>7, <2>a, <3>1, <3>2, NextAfterBody
    <2>7. k.fault # "chunked" => got = k.len
      BY <1>0, <1>3, <1>8, WholeBody DEF s
    <2>8. InPlace(kinds, Rest', LastReq(Answers'), LastReq(handled'), st', parser', upload')
      BY <1>5, <1>6, <2>3, <2>5, <2>6 DEF InPlace
    <2>10. /\ g.req = c
           /\ BodyIsRead(kinds[g.req]) => g.body = kinds[g.req].len
      BY <2>7 DEF BodyIsRead
    <2> HIDE DEF g
    <2>11. \/ handled' = handled
           \/ \E g1 \in BegunHandled :
                /\ handled' = handled \o <<g1>> /\ LastReq(handled) < g1.req
                /\ BodyIsRead(kinds[g1.req]) => g1.body = kinds[g1.req].len
      BY <1>a, <2>1, <2>10
    <2> QED
      BY <2>5, <2>8, <2>11 DEF ReadFlow
  <1>9. CASE ~o.ok /\ n = p.rem /\ Dispatch(q, o.upload, failure)
    <2> DEFINE committed == o.upload # None /\ o.upload.session
               got == IF committed THEN o.upload.bytes ELSE o.body
               g == [req |-> c, body |-> got, stored |-> committed]
    <2>1. /\ g \in BegunHandled /\ handled' \in {handled, handled \o <<g>>}
          /\ \E e \in BegunResponses : output' = failure \o <<e>>
      BY <1>0, <1>3, <1>4, <1>9, DispatchFlow DEF ReadStart
    <2>2. g.req = c /\ closes' # closes
      BY <1>0, <1>3, <1>9
    <2> HIDE DEF g
    <2>3. \E i \in 1 .. Len(output') : output'[i] = Response(c, "500")
      <3>1. PICK e \in BegunResponses : output' = failure \o <<e>>
        BY <2>1
      <3>2. failure = <<Response(c, "500")>>
        BY <1>0, <1>9 DEF failure
      <3>3. Len(output') = 2 /\ output'[1] = Response(c, "500")
        BY <3>1, <3>2
      <3> QED
        BY <3>3
    <2> QED
      BY <1>a, <2>1, <2>2, <2>3 DEF ReadFlow
  <1>10. CASE /\ o.ok /\ n < p.rem /\ parser' = q /\ upload' = o.upload
              /\ output' = output \o failure
              /\ st' = "READING_BODY_STREAM" /\ handled' = handled
    <2>1. output' = << >>
      BY <1>10, ConcatEmptySeq DEF failure, ReadStart
    <2>2. Answers' = received /\ PairedIn(kinds, Answers') /\ PairedIn(kinds, received \o output')
      BY <1>10, <2>1, NoAnswerYet DEF ReadStart
    <2>3. k.fault # "chunked" /\ BodyIsRead(k)
      BY <1>0, <1>7, <1>10
    <2>4. InBody(kinds, t, q, o.upload, m, z)
      <3>1. BodyAt(kinds, t, 1, c, q.rem)
        BY <1>3, <1>7, <2>3
      <3>2. LET had == IF o.upload = None THEN 0 ELSE o.upload.bytes IN
            /\ o.body + had + (p.rem - n) = k.len
            /\ o.upload # None => o.upload.session
            /\ k.stream => o.body = 0
            /\ ~k.stream => o.upload = None
        BY <1>0, <1>3, <1>10, <2>3, WholeBody, SMTT(30) DEF s
      <3> HIDE DEF t, m, z
      <3> QED
        BY <1>0, <1>3, <1>a, <2>3, <3>1, <3>2 DEF InBody, Due
    <2>5. InPlace(kinds, Rest', LastReq(Answers'), LastReq(handled'), st', parser', upload')
      BY <1>5, <1>6, <1>10, <2>2, <2>4 DEF InPlace
    <2> QED
      BY <1>10, <2>2, <2>5 DEF ReadFlow
  <1>11. CASE ~o.ok /\ handled' = handled
    BY <1>0, <1>3, <1>11 DEF ReadFlow
  <1> QED
    BY <1>2, <1>4, <1>8, <1>9, <1>10, <1>11 DEF BodyStep, q, failure

\* An answer of the connection itself.
LEMMA SendErrorFlow ==
    ASSUME TInv, ReadStart, NEW p \in BegunParsers, p.req \in Begun,
           NEW code \in {"400", "413"}, SendError(p, code),
           NEW in \in Seq(BegunTokens), input' = in, Blocks(kinds, in \o toSend),
           Answerable(kinds, p.req, LastReq(received)),
           ~p.keep \/ AtNext(kinds, in \o toSend, p.req, LastReq(handled))
    PROVE  ReadFlow
  <1> DEFINE s == in \o toSend
  <1>1. Rest' = s
    <2>1. 0 \in 0 .. Len(in) /\ in = SubSeq(in, 0 + 1, Len(in))
      BY SubSeqFull
    <2>2. s \in Seq(Tok(kinds)) /\ Rest' = SubSeq(s, 0 + 1, Len(s))
      BY <2>1, ReadTakes DEF ReadStart
    <2> HIDE DEF s
    <2> QED
      BY <2>2, SubSeqFull
  <1>2. Response(p.req, code) \in BegunResponses /\ Response(p.req, code).req = p.req
    BY DEF Response, BegunResponses
  <1>3. output' = <<Response(p.req, code)>> /\ st' = "WRITING_RESPONSE"
        /\ parser' = p /\ handled' = handled
    BY DEF SendError, ReadStart
  <1>4. /\ LastReq(Answers') = p.req
        /\ PairedIn(kinds, Answers') /\ PairedIn(kinds, received \o output')
    BY <1>2, <1>3, AnswerPaired DEF ReadStart
  <1>5. InPlace(kinds, Rest', LastReq(Answers'), LastReq(handled'), st', parser', upload')
    BY <1>1, <1>3, <1>4 DEF InPlace
  <1> QED
    BY <1>3, <1>4, <1>5 DEF ReadFlow

LEMMA NothingYetFlow ==
    ASSUME TInv, ReadStart, NEW p, NEW in \in Seq(BegunTokens), NEW next,
           NothingYet(p, in, next), next # "SENDING_FILE",
           InPlace(kinds, in \o toSend, LastReq(received), LastReq(handled), next, p, upload)
    PROVE  ReadFlow
  <1> DEFINE s == in \o toSend
  <1>1. Rest' = s
    <2>1. 0 \in 0 .. Len(in) /\ in = SubSeq(in, 0 + 1, Len(in)) /\ input' = in
      BY SubSeqFull DEF NothingYet
    <2>2. s \in Seq(Tok(kinds)) /\ Rest' = SubSeq(s, 0 + 1, Len(s))
      BY <2>1, ReadTakes DEF ReadStart
    <2> HIDE DEF s
    <2> QED
      BY <2>2, SubSeqFull
  <1>2. Answers' = received /\ PairedIn(kinds, Answers') /\ PairedIn(kinds, received \o output')
    BY NoAnswerYet DEF NothingYet, ReadStart
  <1> QED
    BY <1>1, <1>2 DEF ReadFlow, NothingYet

LEMMA HeadersEndFlow ==
    ASSUME TInv, ReadStart, NEW p \in BegunParsers, p.req \in Begun, p.body = 0,
           Due(kinds, p.req, LastReq(received), LastReq(handled)), upload = None,
           NEW in \in Seq(BegunTokens), HeadersEnd(p, in),
           KindOf(p.req).fault \notin {"line", "header"},
           Blocks(kinds, in \o toSend),
           BodyAt(kinds, in \o toSend, 1, p.req, KindOf(p.req).len)
    PROVE  ReadFlow
  <1> DEFINE m == LastReq(received)
             z == LastReq(handled)
             k == KindOf(p.req)
             s == in \o toSend
  <1>0. /\ p \in Parsers /\ k.len \in Nat /\ k = kinds[p.req] /\ p.req \in Nat
        /\ p.req \in 1 .. Len(kinds)
        /\ k.fault \in {"none", "length", "big", "chunked", "again", "long"}
    BY KindType DEF BegunParsers, KindOf, Begun, AllFaults
  <1>a. z < p.req /\ z \in Nat /\ Answerable(kinds, p.req, m) 
    BY LastReqs DEF Due
  <1>1. s \in Seq(Tok(kinds)) /\ kinds \in Seq(Kinds)
    <2>1. /\ in \in Seq(Tok(kinds)) /\ toSend \in Seq(Tok(kinds)) /\ kinds \in Seq(Kinds)
      BY RestType DEF TInv, BytesInv
    <2> QED
      BY <2>1, ConcatProperties
  <1>2. ASSUME k.len > 0 => Sticks(k), NEW h \in Nat, h <= p.req
        PROVE  AtNext(kinds, s, p.req, h)
    <2>1. k.len = 0 => ~Sticks(k)
      BY <1>0 DEF Sticks
    <2> HIDE DEF s
    <2> QED
      BY <1>0, <1>1, <1>2, <2>1, NextAfterBody DEF KindOf, s
  <1>3. CASE k.fault = "length" /\ SendError(p, "400") /\ input' = in
    <2>1. AtNext(kinds, s, p.req, z)
      BY <1>0, <1>2, <1>3, <1>a DEF Sticks
    <2> QED
      BY <1>3, <1>a, <2>1, SendErrorFlow
  <1>4. CASE ~p.keep /\ SendError(p, "413") /\ input' = in
    BY <1>4, <1>a, SendErrorFlow
  <1>5. CASE /\ \/ k.fault = "chunked" /\ p.rem = 0
                \/ k.fault \notin {"length", "chunked", "big"} /\ k.len > 0 /\ p.rem = k.len
             /\ p.state = "BODY"
             /\ \/ in = << >> /\ NothingYet(p, in, "READING_BODY_STREAM")
                \/ in # << >> /\ ProcessBody(p, in)
    <2>1. InBody(kinds, s, p, upload, m, z)
      <3>1. k.fault # "chunked" => 0 + 0 + p.rem = k.len
        BY <1>0, <1>5
      <3>2. BodyAt(kinds, s, 1, p.req, IF k.fault = "chunked" THEN k.len ELSE p.rem)
        BY <1>0, <1>5
      <3>3. BodyIsRead(k) \/ k.fault = "chunked"
        BY <1>0, <1>5 DEF BodyIsRead
      <3> HIDE DEF s
      <3> QED
        BY <1>0, <1>5, <3>1, <3>2, <3>3 DEF InBody
    <2>2. CASE NothingYet(p, in, "READING_BODY_STREAM")
      <3>1. InPlace(kinds, s, m, z, "READING_BODY_STREAM", p, upload)
        BY <2>1 DEF InPlace
      <3> QED
        BY <2>2, <3>1, NothingYetFlow
    <2>3. CASE ProcessBody(p, in)
      BY <1>5, <2>1, <2>3, ProcessBodyFlow
    <2> QED
      BY <1>5, <2>2, <2>3
  <1>6. CASE /\ k.fault \notin {"length", "chunked"} /\ k.len = 0
             /\ Dispatch(p, upload, << >>) /\ input' = in /\ closes' = closes
    <2> DEFINE g == [req |-> p.req, body |-> p.body, stored |-> FALSE]
    <2>0. << >> \in Seq(BegunResponses) /\ upload \in Contexts \cup {None}
      OBVIOUS
    <2>1. /\ g \in BegunHandled /\ handled' \in {handled, handled \o <<g>>}
          /\ \E e \in BegunResponses :
                 /\ output' = << >> \o <<e>> /\ e.req = p.req
                 /\ st' = "SENDING_FILE" => e = Response(parser'.req, "router")
      BY <1>0, <1>6, <2>0, DispatchFlow DEF ReadStart
    <2>2. PICK e \in BegunResponses :
             /\ output' = << >> \o <<e>> /\ e.req = p.req
             /\ st' = "SENDING_FILE" => e = Response(parser'.req, "router")
      BY <2>1
    <2>3. st' \in {"WRITING_RESPONSE", "SENDING_FILE"}
      BY <1>0, <1>6, <2>0, DispatchType
    <2>4. output' = <<e>>
      BY <2>2, ConcatEmptySeq
    <2>5. /\ LastReq(Answers') = p.req
          /\ PairedIn(kinds, Answers') /\ PairedIn(kinds, received \o output')
      BY <1>a, <2>2, <2>4, AnswerPaired DEF ReadStart
    <2>6. Rest' = s
      <3>1. 0 \in 0 .. Len(in) /\ in = SubSeq(in, 0 + 1, Len(in))
        BY SubSeqFull
      <3>2. Rest' = SubSeq(s, 0 + 1, Len(s))
        BY <1>6, <3>1, ReadTakes DEF ReadStart
      <3> HIDE DEF s
      <3> QED
        BY <1>1, <3>2, SubSeqFull
    <2>a. LastReq(handled') \in Nat /\ LastReq(handled') <= p.req
      <3>1. LastReq(handled \o <<g>>) = g.req
        <4>1. handled \in Seq(BegunHandled)
          BY DEF TInv, AnswerInv
        <4> HIDE DEF g
        <4> QED
          BY <2>1, <4>1, LastReqNext
      <3>2. g.req = p.req
        OBVIOUS
      <3> HIDE DEF g
      <3>3. CASE handled' = handled
        BY <1>0, <1>a, <3>3
      <3>4. CASE handled' = handled \o <<g>>
        BY <1>0, <3>1, <3>2, <3>4
      <3> QED
        BY <2>1, <3>3, <3>4
    <2>b. AtNext(kinds, s, p.req, LastReq(handled'))
      BY <1>0, <1>2, <1>6, <2>a
    <2>7. InPlace(kinds, Rest', LastReq(Answers'), LastReq(handled'), st', parser', upload')
      BY <2>3, <2>5, <2>6, <2>b DEF InPlace
    <2>8. g.req = p.req /\ kinds[g.req].len = g.body
      BY <1>0, <1>6
    <2> HIDE DEF g
    <2>10. ReadFlow
      BY <1>a, <2>1, <2>5, <2>7, <2>8 DEF ReadFlow
    <2> QED
      BY <2>10
  <1> QED
    BY <1>3, <1>4, <1>5, <1>6 DEF HeadersEnd

\* What has come in is at the front of what is to be read.
InFront(in, s) ==
    /\ in \in Seq(BegunTokens) /\ in # << >> /\ s \in Seq(Tok(kinds))
    /\ Len(in) \in Nat \ {0} /\ Len(s) \in Nat /\ Len(in) <= Len(s)
    /\ \A i \in 1 .. Len(in) : s[i] = in[i]

LEMMA InIsInFront ==
    ASSUME TInv, NEW in \in Seq(BegunTokens), in # << >>
    PROVE  InFront(in, in \o toSend)
  <1> DEFINE s == in \o toSend
  <1>1. /\ toSend \in Seq(BegunTokens) /\ BegunTokens = Tok(kinds)
        /\ Len(in) \in Nat \ {0} /\ Len(toSend) \in Nat
    BY RestType, EmptySeq DEF TInv, BytesInv
  <1>2. /\ s \in Seq(BegunTokens) /\ Len(s) = Len(in) + Len(toSend)
        /\ \A i \in 1 .. Len(in) + Len(toSend) :
              s[i] = IF i <= Len(in) THEN in[i] ELSE toSend[i - Len(in)]
    BY <1>1, ConcatProperties
  <1> HIDE DEF s
  <1>3. Len(in) <= Len(s) /\ Len(s) \in Nat
    BY <1>1, <1>2
  <1>4. \A i \in 1 .. Len(in) : s[i] = in[i]
    BY <1>1, <1>2
  <1> QED
    BY <1>1, <1>2, <1>3, <1>4 DEF InFront, s

\* The line of n is at the front: without its CRLF it is a long one, and behind it
\* are the end of the headers and the body.
LEMMA LineFront ==
    ASSUME TInv, NEW in, NEW s, InFront(in, s), Blocks(kinds, s),
           NEW n \in 1 .. Len(kinds), LineAt(kinds, s, 1, n)
    PROVE  LET e == LineLength(in) IN
           /\ in[1].req = n /\ in[1].part \in {"cut", "line"}
           /\ e \in 0 .. Len(in)
           /\ e = 0 => kinds[n].cut > 0
           /\ e > 0 => in[e] = LineOf(n) /\ HeadersAt(kinds, s, e + 1, n)
  <1> DEFINE c == kinds[n].cut
  <1>0. /\ c \in Nat /\ Len(in) \in Nat \ {0} /\ Len(s) \in Nat /\ Len(in) <= Len(s)
        /\ \A i \in 1 .. Len(in) : s[i] = in[i]
    BY KindType DEF KindOf, Begun, InFront
  <1>1. /\ \A j \in 0 .. c - 1 : 1 + j \in 1 .. Len(s) /\ s[1 + j] = CutOf(n)
        /\ 1 + c \in 1 .. Len(s) /\ s[1 + c] = LineOf(n)
    BY DEF LineAt
  <1>2. in[1] = s[1] /\ 1 \in 1 .. Len(in)
    BY <1>0
  <1>3. LineLength(in) = IF in[1].part # "cut" THEN 1
                         ELSE IF Len(in) > kinds[in[1].req].cut
                              THEN kinds[in[1].req].cut + 1 ELSE 0
    BY DEF LineLength, KindOf
  <1>4. ASSUME 1 + c <= Len(in)
        PROVE  in[1 + c] = LineOf(n) /\ HeadersAt(kinds, s, (1 + c) + 1, n)
    <2> HIDE DEF c
    <2>1. 1 + c \in 1 .. Len(in)
      BY <1>0, <1>4
    <2>2. s[1 + c].part = "line" /\ s[1 + c].req = n
      BY <1>1 DEF LineOf
    <2> QED
      BY <1>0, <1>1, <2>1, <2>2 DEF Blocks
  <1>5. CASE c = 0
    <2>0. 1 + c = 1
      BY <1>5
    <2>1. s[1] = LineOf(n)
      BY <1>1, <2>0
    <2>2. in[1].part = "line" /\ in[1].req = n
      BY <1>2, <2>1 DEF LineOf
    <2>3. LineLength(in) = 1 /\ in[1] = LineOf(n)
      BY <1>2, <1>3, <2>1, <2>2
    <2>4. HeadersAt(kinds, s, 1 + 1, n)
      BY <1>0, <1>4, <2>0
    <2> QED
      BY <1>0, <2>2, <2>3, <2>4
  <1>6. CASE c > 0
    <2>1. s[1] = CutOf(n)
      <3>1. 0 \in 0 .. c - 1 /\ 1 + 0 = 1
        BY <1>0, <1>6
      <3> QED
        BY <1>1, <3>1
    <2>2. in[1].part = "cut" /\ in[1].req = n
      BY <1>2, <2>1 DEF CutOf
    <2>3. LineLength(in) = IF Len(in) > c THEN c + 1 ELSE 0
      BY <1>3, <2>2
    <2> HIDE DEF c
    <2>4. CASE Len(in) > c
      <3>1. /\ LineLength(in) = 1 + c /\ 1 + c <= Len(in) /\ 1 + c \in 0 .. Len(in)
            /\ 1 + c # 0
        BY <1>0, <2>3, <2>4
      <3> QED
        BY <1>4, <2>2, <3>1
    <2>5. CASE ~(Len(in) > c)
      <3>1. LineLength(in) = 0 /\ 0 \in 0 .. Len(in)
        BY <1>0, <2>3, <2>5
      <3> QED
        BY <1>6, <2>2, <3>1 DEF c
    <2> QED
      BY <2>4, <2>5
  <1> QED
    BY <1>0, <1>5, <1>6

\* With m the request of the last response, the parser is at a request line of m
\* or of the next request.
LEMMA RequestFront ==
    ASSUME TInv, NEW in, NEW s, InFront(in, s), Blocks(kinds, s),
           NEW m \in 0 .. Len(kinds), NEW h \in Nat, AtNext(kinds, s, m, h)
    PROVE  LET n == in[1].req
               e == LineLength(in) IN
           /\ n \in 1 .. Len(kinds) /\ Answerable(kinds, n, m) /\ e \in 0 .. Len(in)
           /\ e = 0 \/ ~IsRequestLine(in[e]) => AtNext(kinds, s, n, h)
           /\ e > 0 /\ IsRequestLine(in[e]) =>
                 h < n /\ AfterLine(kinds, SubSeq(s, e + 1, Len(s)), n)
  <1> DEFINE e == LineLength(in)
  <1>0. /\ Len(kinds) \in Nat /\ Len(in) \in Nat \ {0} /\ Len(s) \in Nat \ {0}
        /\ in[1] = s[1] /\ 1 \in 1 .. Len(s) /\ s \in Seq(Tok(kinds))
        /\ kinds \in Seq(Kinds) /\ m \in Nat /\ Len(in) <= Len(s) /\ h <= m
    BY DEF InFront, TInv, BytesInv, AtNext
  \* The line of n at the front.
  <1>1. ASSUME NEW n \in 1 .. Len(kinds), LineAt(kinds, s, 1, n), h < n,
               kinds[n].fault \in HeaderFaults => Repeats(kinds[n])
        PROVE  /\ in[1].req = n /\ e \in 0 .. Len(in)
               /\ e = 0 \/ ~IsRequestLine(in[e]) => AtNext(kinds, s, n, h)
               /\ e > 0 /\ IsRequestLine(in[e]) =>
                     AfterLine(kinds, SubSeq(s, e + 1, Len(s)), n)
    <2>1. /\ in[1].req = n /\ e \in 0 .. Len(in)
          /\ e = 0 => kinds[n].cut > 0
          /\ e > 0 => in[e] = LineOf(n) /\ HeadersAt(kinds, s, e + 1, n)
      BY <1>1, LineFront
    <2> HIDE DEF e
    <2>2. kinds[n].fault \in AllFaults
      BY KindType DEF KindOf, Begun
    <2>3. ASSUME e = 0 \/ ~IsRequestLine(in[e])
          PROVE  AtNext(kinds, s, n, h)
      <3>1. Repeats(kinds[n])
        <4>1. CASE e = 0
          BY <2>1, <4>1 DEF Repeats
        <4>2. CASE e # 0
          <5>1. ~IsRequestLine(LineOf(n))
            BY <1>0, <2>1, <2>3, <4>2
          <5>2. kinds[n].fault \in {"line", "header", "long"}
            BY <5>1 DEF IsRequestLine, LineOf, KindOf
          <5> QED
            BY <1>1, <5>2 DEF Repeats, Sticks, HeaderFaults
        <4> QED
          BY <4>1, <4>2
      <3>2. Behind(kinds, s, n, h)
        BY <1>1, <3>1 DEF Behind
      <3>3. h <= n
        BY <1>0, <1>1
      <3> QED
        BY <3>2, <3>3 DEF AtNext
    <2>4. ASSUME e > 0, IsRequestLine(in[e])
          PROVE  AfterLine(kinds, SubSeq(s, e + 1, Len(s)), n)
      <3>1. IsRequestLine(LineOf(n))
        BY <2>1, <2>4
      <3>2. kinds[n].fault \notin {"line", "header"}
        BY <3>1 DEF IsRequestLine, LineOf, KindOf
      <3>3. e \in 0 .. Len(s) /\ e + 1 = 1 + e
        BY <1>0, <2>1
      <3>4. HeadersAt(kinds, s, 1 + e, n) /\ 1 \in Nat \ {0}
        BY <2>1, <2>4, <3>3
      <3>5. HeadersAt(kinds, SubSeq(s, e + 1, Len(s)), 1, n)
        BY <1>0, <3>3, <3>4, DropHeaders
      <3> QED
        BY <3>2, <3>5 DEF AfterLine
    <2> QED
      BY <2>1, <2>3, <2>4
  <1>2. CASE Front(kinds, s, 1, m + 1) /\ (m > 0 => ~Sticks(kinds[m]))
    <2> DEFINE n == m + 1
    <2>1. /\ n \in 1 .. Len(kinds) /\ h < n /\ Answerable(kinds, n, m)
          /\ IF kinds[n].fault \in HeaderFaults THEN s[1] = TopOf(n) ELSE LineAt(kinds, s, 1, n)
      BY <1>0, <1>2 DEF Front, Answerable
    <2>2. CASE kinds[n].fault \notin HeaderFaults
      <3> HIDE DEF n
      <3> QED
        BY <1>1, <2>1, <2>2
    <2>3. CASE kinds[n].fault \in HeaderFaults
      <3> HIDE DEF n
      <3>1. in[1] = TopOf(n)
        BY <1>0, <2>1, <2>3
      <3>2. in[1].req = n /\ in[1].part = "top"
        BY <3>1 DEF TopOf
      <3>3. e = 1 /\ IsRequestLine(in[1])
        BY <3>2 DEF LineLength, IsRequestLine
      <3>4. LineAt(kinds, s, 1 + 1, n)
        BY <1>0, <3>2 DEF Blocks
      <3>5. 1 \in 0 .. Len(s) /\ 1 \in Nat \ {0} /\ 1 \in 0 .. Len(in)
        BY <1>0
      <3>6. LineAt(kinds, SubSeq(s, 1 + 1, Len(s)), 1, n)
        BY <1>0, <2>1, <3>4, <3>5, DropTokens
      <3>7. AfterLine(kinds, SubSeq(s, 1 + 1, Len(s)), n)
        BY <2>3, <3>6 DEF AfterLine
      <3> QED
        BY <2>1, <3>2, <3>3, <3>5, <3>7
    <2> QED
      BY <2>2, <2>3
  <1>3. CASE Behind(kinds, s, m, h)
    <2>1. m \in 1 .. Len(kinds) /\ Repeats(kinds[m]) /\ Answerable(kinds, m, m)
      BY <1>0, <1>3 DEF Behind, Answerable
    <2>2. CASE LineAt(kinds, s, 1, m) /\ h < m
      BY <1>1, <2>1, <2>2
    <2>3. CASE s[1] = BodyOf(m)
      <3>1. in[1].req = m /\ in[1].part = "body"
        BY <1>0, <2>3 DEF BodyOf
      <3>2. e = 1 /\ ~IsRequestLine(in[1])
        BY <3>1 DEF LineLength, IsRequestLine
      <3>3. 1 \in 0 .. Len(in)
        BY <1>0
      <3> QED
        BY <1>3, <2>1, <3>1, <3>2, <3>3 DEF AtNext
    <2> QED
      BY <1>3, <2>2, <2>3 DEF Behind
  <1> QED
    BY <1>2, <1>3 DEF AtNext

\* In the headers: a rejected header is one of a request that may be answered
\* again, and one that is skipped has the end of the headers behind it.
LEMMA HeaderFront ==
    ASSUME TInv, NEW in, NEW s, InFront(in, s), Blocks(kinds, s),
           NEW n \in 1 .. Len(kinds), AfterLine(kinds, s, n), NEW h \in Nat, h < n
    PROVE  /\ RejectsHeader(in) => AtNext(kinds, s, n, h)
           /\ \A d : Skips(in, d) =>
                 /\ d \in 0 .. Len(in) /\ HeadersAt(kinds, s, d + 1, n)
                 /\ kinds[n].fault \notin {"line", "header"}
  <1> DEFINE e == LineLength(in)
  <1>0. in[1] = s[1] /\ Len(in) \in Nat \ {0} /\ n \in Nat
    BY DEF InFront
  <1>1. CASE kinds[n].fault \in HeaderFaults /\ LineAt(kinds, s, 1, n)
    <2>1. /\ in[1].part # "end" /\ e \in 0 .. Len(in)
          /\ e = 0 => kinds[n].cut > 0
          /\ e > 0 => in[e] = LineOf(n) /\ HeadersAt(kinds, s, e + 1, n)
      BY <1>1, LineFront
    <2>2. ASSUME RejectsHeader(in) PROVE AtNext(kinds, s, n, h)
      <3>1. e = 0 \/ ~IsHeader(in[e])
        BY <2>2 DEF RejectsHeader
      <3> HIDE DEF e
      <3>2. Repeats(kinds[n])
        <4>1. CASE e = 0
          BY <2>1, <4>1 DEF Repeats
        <4>2. CASE e # 0
          <5>1. ~IsHeader(LineOf(n))
            BY <1>0, <2>1, <3>1, <4>2
          <5>2. kinds[n].fault \in {"header", "again"}
            BY <1>1, <5>1 DEF IsHeader, LineOf, KindOf, HeaderFaults
          <5> QED
            BY <5>2 DEF Repeats, Sticks
        <4> QED
          BY <4>1, <4>2
      <3>3. Behind(kinds, s, n, h)
        BY <1>1, <3>2 DEF Behind
      <3>4. h <= n
        BY <1>0
      <3> QED
        BY <3>3, <3>4 DEF AtNext
    <2>3. ASSUME NEW d, Skips(in, d)
          PROVE  /\ d \in 0 .. Len(in) /\ HeadersAt(kinds, s, d + 1, n)
                 /\ kinds[n].fault \notin {"line", "header"}
      <3>1. d = e /\ e > 0 /\ IsHeader(in[e])
        BY <2>1, <2>3 DEF Skips
      <3> HIDE DEF e
      <3>2. IsHeader(LineOf(n))
        BY <2>1, <3>1
      <3> QED
        BY <2>1, <3>1, <3>2 DEF IsHeader, LineOf, KindOf
    <2> QED
      BY <2>2, <2>3
  <1>2. CASE kinds[n].fault \notin {"line", "header"} /\ HeadersAt(kinds, s, 1, n)
    <2>1. s[1] = EndOf(n) /\ 0 \in 0 .. Len(in) /\ 0 + 1 = 1
      BY <1>0, <1>2 DEF HeadersAt
    <2>2. in[1].part = "end"
      BY <1>0, <2>1 DEF EndOf
    <2>3. ~RejectsHeader(in) /\ \A d : Skips(in, d) => d = 0
      BY <2>2 DEF RejectsHeader, Skips
    <2> QED
      BY <1>2, <2>1, <2>3
  <1> QED
    BY <1>1, <1>2 DEF AfterLine

LEMMA AfterLineFlow ==
    ASSUME TInv, ReadStart, NEW p \in BegunParsers, p.req \in Begun, p.body = 0,
           Due(kinds, p.req, LastReq(received), LastReq(handled)), upload = None,
           NEW in \in Seq(BegunTokens), AfterLineStep(p, in),
           Blocks(kinds, in \o toSend), AfterLine(kinds, in \o toSend, p.req)
    PROVE  ReadFlow
  <1> DEFINE m == LastReq(received)
             z == LastReq(handled)
             n == p.req
             s == in \o toSend
  <1>0. /\ z < n /\ z \in Nat /\ Answerable(kinds, n, m) /\ n \in 1 .. Len(kinds) /\ n \in Nat
        /\ s \in Seq(Tok(kinds)) /\ kinds \in Seq(Kinds) /\ toSend \in Seq(BegunTokens)
        /\ BegunTokens = Tok(kinds) /\ Len(in) \in Nat /\ kinds[n].len \in Nat
    <2>1. toSend \in Seq(BegunTokens) /\ kinds \in Seq(Kinds) /\ BegunTokens = Tok(kinds)
      BY RestType DEF TInv, BytesInv
    <2>2. s \in Seq(Tok(kinds))
      BY <2>1, ConcatProperties
    <2>3. kinds[n].len \in Nat
      BY KindType DEF KindOf
    <2> QED
      BY <2>1, <2>2, <2>3, LastReqs DEF Due, Begun
  \* The tokens up to d are taken: s from d + 1 on is what is left.
  <1>1. ASSUME NEW d \in 0 .. Len(in)
        PROVE  /\ SubSeq(in, d + 1, Len(in)) \o toSend = SubSeq(s, d + 1, Len(s))
               /\ d \in 0 .. Len(s) /\ Blocks(kinds, SubSeq(s, d + 1, Len(s)))
    <2>1. /\ SubSeq(in, d + 1, Len(in)) \o toSend = SubSeq(s, d + 1, Len(s))
          /\ d \in 0 .. Len(s)
      BY <1>0, DropOfConcat
    <2>2. Blocks(kinds, s)
      OBVIOUS
    <2> HIDE DEF s
    <2> QED
      BY <1>0, <2>1, <2>2, DropBlocks
  <1>2. in # << >> =>
          /\ RejectsHeader(in) => AtNext(kinds, s, n, z)
          /\ \A d : Skips(in, d) =>
                /\ d \in 0 .. Len(in) /\ HeadersAt(kinds, s, d + 1, n)
                /\ kinds[n].fault \notin {"line", "header"}
    BY <1>0, InIsInFront, HeaderFront
  <1>3. CASE RejectsHeader(in) /\ SendError(p, "400") /\ input' = in
    <2>1. in # << >>
      BY <1>3 DEF RejectsHeader
    <2>2. AtNext(kinds, s, n, z)
      BY <1>2, <1>3, <2>1
    <2> QED
      BY <1>0, <1>3, <2>2, SendErrorFlow
  <1>4. CASE /\ in = << >> \/ Skips(in, Len(in))
             /\ p.state = "HEADERS" /\ NothingYet(p, << >>, "READING_HEADERS")
    <2> DEFINE d == Len(in)
               t == SubSeq(s, d + 1, Len(s))
    <2>1. d \in 0 .. Len(in) /\ SubSeq(in, d + 1, Len(in)) = << >>
      BY <1>0, SubSeqEmpty
    <2>2. << >> \o toSend = t /\ Blocks(kinds, t)
      BY <1>1, <2>1
    <2>3. AfterLine(kinds, t, n)
      <3>1. CASE in = << >>
        <4>1. t = s
          <5>1. << >> \o toSend = s
            BY <3>1
          <5> QED
            BY <2>2, <5>1
        <4> QED
          BY <4>1
      <3>2. CASE Skips(in, Len(in)) /\ in # << >>
        <4>1. HeadersAt(kinds, s, d + 1, n) /\ kinds[n].fault \notin {"line", "header"}
          BY <1>2, <3>2
        <4>2. d + 1 = 1 + d /\ 1 \in Nat \ {0} /\ d \in 0 .. Len(s)
          BY <1>0, <1>1, <2>1
        <4> HIDE DEF s, d, n
        <4>3. HeadersAt(kinds, t, 1, n)
          BY <1>0, <4>1, <4>2, DropHeaders
        <4> QED
          BY <4>1, <4>3 DEF AfterLine
      <3> QED
        BY <1>4, <3>1, <3>2
    <2>4. InHeaders(kinds, t, p, m, z)
      BY <1>0, <2>3 DEF InHeaders
    <2>5. InPlace(kinds, << >> \o toSend, m, z, "READING_HEADERS", p, upload)
      <3> HIDE DEF t, m, z
      <3> QED
        BY <1>4, <2>2, <2>4 DEF InPlace
    <2>6. << >> \in Seq(BegunTokens)
      OBVIOUS
    <2> QED
      BY <1>4, <2>5, <2>6, NothingYetFlow
  <1>5. ASSUME NEW d \in 0 .. Len(in), d < Len(in), Skips(in, d),
               SubSeq(in, d + 2, Len(in)) \in Seq(BegunTokens),
               HeadersEnd(p, SubSeq(in, d + 2, Len(in)))
        PROVE  ReadFlow
    <2> DEFINE rest == SubSeq(in, d + 2, Len(in))
               t == SubSeq(s, d + 2, Len(s))
    <2>1. d + 1 \in 0 .. Len(in) /\ (d + 1) + 1 = d + 2 /\ d + 2 = 1 + (d + 1)
      BY <1>0, <1>5
    <2>2. rest \o toSend = t /\ d + 1 \in 0 .. Len(s) /\ Blocks(kinds, t)
      BY <1>1, <2>1
    <2>3. HeadersAt(kinds, s, d + 1, n) /\ kinds[n].fault \notin {"line", "header"}
      BY <1>2, <1>5 DEF Skips
    <2>4. BodyAt(kinds, s, 1 + (d + 1), n, kinds[n].len)
      <3>1. BodyAt(kinds, s, (d + 1) + 1, n, kinds[n].len)
        BY <2>3 DEF HeadersAt
      <3> QED
        BY <2>1, <3>1
    <2>5. BodyAt(kinds, t, 1, n, kinds[n].len)
      <3> HIDE DEF s, n
      <3>1. BodyAt(kinds, SubSeq(s, (d + 1) + 1, Len(s)), 1, n, kinds[n].len)
        BY <1>0, <2>2, <2>4, DropTokens
      <3> QED
        BY <2>1, <3>1
    <2> HIDE DEF rest, t
    <2>6. rest \in Seq(BegunTokens) /\ HeadersEnd(p, rest)
      BY <1>5 DEF rest
    <2> QED
      BY <2>2, <2>3, <2>5, <2>6, HeadersEndFlow DEF KindOf
  <1> QED
    BY <1>3, <1>4, <1>5 DEF AfterLineStep

LEMMA ReadingFlow ==
    ASSUME TInv, LifeInv, FlowInv, HandleReadData, Reading
    PROVE  ReadFlow
  <1> DEFINE in == input \o sock
             m == LastReq(received)
             z == LastReq(handled)
  <1>1. in \in Seq(BegunTokens) /\ in # << >>
    <2>1. input \in Seq(BegunTokens) /\ sock \in Seq(BegunTokens) /\ sock # << >>
      BY DEF TInv, BytesInv, HandleReadData
    <2> QED
      BY <2>1, ConcatProperties, ConcatEqualIffEmpty
  <1>2. registered /\ output = << >> /\ "in" \in revents
    BY ReadingDataLife, CallsType DEF LifeInv, Reading, HandleReadData
  <1>3. ~Doomed /\ ~rst
    BY <1>2 DEF Doomed, FlowInv, StreamInv, HandleReadData
  <1>4. received \in Seq(BegunResponses) /\ m \in 0 .. Len(kinds) /\ z \in Nat /\ m \in Nat
    BY LastReqs DEF TInv, AnswerInv
  <1>5. Answers = received
    <2>1. received \o << >> = received
      BY <1>4, ConcatEmptySeq
    <2> QED
      BY <1>2, <2>1 DEF Answers, Reading
  <1>6. InPlace(kinds, Rest, m, z, st, parser, upload)
    BY <1>2, <1>3, <1>5 DEF FlowInv, StreamInv
  <1>7. ReadStart
    BY <1>2 DEF ReadStart, HandleReadData, FlowInv, PairInv
  <1>8. /\ Rest = in \o toSend /\ Rest \in Seq(Tok(kinds)) /\ kinds \in Seq(Kinds)
        /\ toSend \in Seq(BegunTokens) /\ BegunTokens = Tok(kinds)
    BY RestType DEF TInv, BytesInv
  <1>9. /\ parser \in BegunParsers /\ parser \in Parsers
        /\ st = "READING_BODY_STREAM" => parser.state = "BODY" /\ parser.req \in Begun
        /\ st = "READING_HEADERS" => parser.state \in {"REQUEST_LINE", "HEADERS"}
        /\ parser.state = "HEADERS" => parser.req \in Begun
    BY DEF TInv, ParserInv, BegunParsers
  <1>10. CASE st = "READING_BODY_STREAM" /\ ProcessBody(parser, in)
    <2>1. InBody(kinds, in \o toSend, parser, upload, m, z) /\ Blocks(kinds, in \o toSend)
      BY <1>6, <1>8, <1>10 DEF InPlace
    <2> HIDE DEF in
    <2> QED
      BY <1>1, <1>7, <1>9, <1>10, <2>1, ProcessBodyFlow
  <1>11. CASE st = "READING_HEADERS" /\ ProcessHeaders(in)
    <2>0. upload = None
      BY <1>2, <1>11 DEF LifeInv, Doomed
    <2>1. Blocks(kinds, Rest)
      BY <1>6 DEF InPlace
    <2> HIDE DEF in
    <2>2. InFront(in, Rest)
      BY <1>1, <1>8, InIsInFront
    <2>3. ASSUME parser.state = "REQUEST_LINE"
          PROVE  /\ parser.body = 0 /\ AtNext(kinds, Rest, m, z)
                 /\ in[1].req \in 1 .. Len(kinds) /\ Answerable(kinds, in[1].req, m)
                 /\ RejectsLine(parser, in) => AtNext(kinds, Rest, in[1].req, z)
                 /\ LineLength(in) > 0 /\ IsRequestLine(in[LineLength(in)]) =>
                       /\ z < in[1].req
                       /\ AfterLine(kinds, SubSeq(Rest, LineLength(in) + 1, Len(Rest)),
                                    in[1].req)
      <3>1. AtNext(kinds, Rest, m, z) /\ parser = Fresh
        BY <1>6, <1>11, <2>3 DEF InPlace
      <3> HIDE DEF m, z
      <3> QED
        BY <1>4, <2>1, <2>2, <3>1, RequestFront DEF RejectsLine, Fresh
    <2>4. ASSUME RejectsLine(parser, in), NEW p \in BegunParsers,
                 p.req = in[1].req, p.keep = parser.keep, p.req \in Begun,
                 SendError(p, "400"), input' = in
          PROVE  ReadFlow
      BY <1>1, <1>7, <1>8, <2>1, <2>3, <2>4, SendErrorFlow DEF RejectsLine
    <2>5. ASSUME NEW e \in 0 .. Len(in), NEW q \in Parsers, NEW p \in BegunParsers,
                 Begins(parser, in, e, q), p.req = q.req, p.body = parser.body, p.req \in Begun,
                 SubSeq(in, e + 1, Len(in)) \in Seq(BegunTokens),
                 AfterLineStep(p, SubSeq(in, e + 1, Len(in)))
          PROVE  ReadFlow
      <3> DEFINE rest == SubSeq(in, e + 1, Len(in))
                 t == SubSeq(Rest, e + 1, Len(Rest))
      <3>1. rest \o toSend = t /\ e \in 0 .. Len(Rest)
        BY <1>1, <1>8, DropOfConcat
      <3>2. Blocks(kinds, t)
        BY <1>8, <2>1, <3>1, DropBlocks
      <3>3. p.body = 0 /\ Due(kinds, p.req, m, z) /\ AfterLine(kinds, t, p.req)
        <4>1. CASE parser.state = "HEADERS" /\ e = 0 /\ q = parser
          <5>1. InHeaders(kinds, Rest, parser, m, z)
            BY <1>6, <1>11, <4>1 DEF InPlace
          <5>2. t = Rest
            BY <1>8, <4>1, SubSeqFull
          <5> HIDE DEF t, m, z
          <5> QED
            BY <2>5, <4>1, <5>1, <5>2 DEF InHeaders
        <4>2. CASE /\ parser.state = "REQUEST_LINE" /\ e = LineLength(in) /\ e > 0
                   /\ IsRequestLine(in[e])
                   /\ q = [parser EXCEPT !.req = in[1].req, !.keep = KindOf(in[1].req).keep]
          <5>1. q.req = in[1].req
            BY <1>9, <4>2 DEF Parsers
          <5> HIDE DEF m, z
          <5> QED
            BY <2>3, <2>5, <4>2, <5>1 DEF Due
        <4> QED
          BY <2>5, <4>1, <4>2 DEF Begins
      <3> HIDE DEF rest, t
      <3>4. rest \in Seq(BegunTokens) /\ AfterLineStep(p, rest)
        BY <2>5 DEF rest
      <3> QED
        BY <1>7, <2>0, <2>5, <3>1, <3>2, <3>3, <3>4, AfterLineFlow
    <2> QED
      BY <1>1, <1>11, <2>4, <2>5, ProcessHeadersCases
  <1> QED
    BY <1>10, <1>11 DEF HandleReadData, Reading

LEMMA InitFlowInv == Init => FlowInv
  <1> SUFFICES ASSUME Init PROVE FlowInv
    OBVIOUS
  <1>1. << >> \o << >> = << >> /\ Len(<< >>) = 0
    BY ConcatEmptySeq
  <1>2. Rest = << >> /\ Answers = << >>
    BY <1>1 DEF Init, Rest, Answers
  <1>3. InPlace(kinds, Rest, LastReq(Answers), LastReq(handled), st, parser, upload)
    BY <1>1, <1>2 DEF Init, InPlace, Blocks, AtNext, Front, Fresh, LastReq
  <1> QED
    BY <1>1, <1>2, <1>3 DEF Init, FlowInv, StreamInv, PairInv, PairedIn, HandInv

\* Handled requests when one more, a later one, has been handed over.
LEMMA HandledNext ==
    ASSUME TInv, HandInv, NEW g \in BegunHandled, handled' = handled \o <<g>>,
           kinds' = kinds, ~Doomed, LastReq(handled) < g.req,
           BodyIsRead(kinds[g.req]) =>
               g.body = kinds[g.req].len \/ (Doomed' /\ WriteFailed(g.req)')
    PROVE  HandInv'
  <1>1. /\ handled' \in Seq(BegunHandled) /\ Len(handled') = Len(handled) + 1
        /\ handled'[Len(handled) + 1] = g /\ Len(handled) \in Nat
        /\ \A i \in 1 .. Len(handled) : handled'[i] = handled[i]
    BY LastOfConcat DEF TInv, AnswerInv
  <1>2. \A i \in 1 .. Len(handled) :
           BodyIsRead(kinds[handled[i].req]) => handled[i].body = kinds[handled[i].req].len
    BY DEF HandInv, KindOf
  <1>4. ASSUME NEW i \in 1 .. Len(handled') - 1
        PROVE  handled'[i].req < handled'[i + 1].req
    <2>1. CASE i \in 1 .. Len(handled) - 1
      <3>1. i \in 1 .. Len(handled) /\ i + 1 \in 1 .. Len(handled)
        BY <1>1, <2>1
      <3> QED
        BY <1>1, <2>1, <3>1 DEF HandInv
    <2>2. CASE i = Len(handled)
      <3>1. i \in 1 .. Len(handled) /\ Len(handled) # 0
        BY <1>1, <2>2
      <3>2. LastReq(handled) = handled[i].req
        BY <2>2, <3>1 DEF LastReq
      <3> QED
        BY <1>1, <2>2, <3>1, <3>2
    <2> QED
      BY <1>1, <2>1, <2>2
  <1>5. ASSUME NEW i \in 1 .. Len(handled'), BodyIsRead(kinds[handled'[i].req])
        PROVE  \/ handled'[i].body = kinds[handled'[i].req].len
               \/ /\ Doomed'
                  /\ \E j \in 1 .. Len(output') : output'[j] = Response(handled'[i].req, "500")
    <2>1. CASE i \in 1 .. Len(handled)
      BY <1>1, <1>2, <1>5, <2>1
    <2>2. CASE i = Len(handled) + 1
      BY <1>1, <1>5, <2>2 DEF WriteFailed
    <2> QED
      BY <1>1, <2>1, <2>2
  <1> QED
    BY <1>4, <1>5 DEF HandInv, KindOf, WriteFailed

LEMMA ReadDataFlowInv ==
    ASSUME TInv, LifeInv, FlowInv, HandleReadData
    PROVE  FlowInv'
  <1>0. /\ UNCHANGED <<kinds, toSend, rst, received, registered>> /\ sock' = << >>
        /\ "in" \in revents /\ ~Doomed /\ ~rst /\ closes \in Nat
        /\ sock # << >>
    BY CallsType DEF HandleReadData, Doomed, FlowInv, StreamInv, TInv, LoopInv
  <1>1. CASE Reading
    <2>1. ReadFlow /\ registered /\ revents' = {} /\ output = << >>
      BY <1>1, ReadingFlow, ReadingDataLife DEF LifeInv
    <2>2. closes' \in {closes, closes + 1}
      BY ReadDataTypes DEF ReadTypes
    <2>3. ~Doomed' => closes' = closes
      BY <1>0, <2>1, <2>2 DEF Doomed
    <2>4. closes' # closes => Doomed'
      BY <1>0, <2>1, <2>2 DEF Doomed
    <2>6. StreamInv'
      BY <1>0, <2>1, <2>3 DEF StreamInv, ReadFlow
    <2>7. PairInv'
      BY <1>0, <2>1, <2>3 DEF PairInv, ReadFlow, FlowInv
    <2>8. HandInv'
      <3>1. CASE handled' = handled
        BY <1>0, <3>1 DEF FlowInv, HandInv, KindOf
      <3>2. ASSUME NEW g \in BegunHandled, handled' = handled \o <<g>>,
                   LastReq(handled) < g.req,
                   BodyIsRead(kinds[g.req]) =>
                     \/ g.body = kinds[g.req].len
                     \/ /\ closes' # closes
                        /\ \E i \in 1 .. Len(output') : output'[i] = Response(g.req, "500")
            PROVE  HandInv'
        <4>1. BodyIsRead(kinds[g.req]) =>
                 g.body = kinds[g.req].len \/ (Doomed' /\ WriteFailed(g.req)')
          BY <2>4, <3>2 DEF WriteFailed
        <4> QED
          BY <1>0, <3>2, <4>1, HandledNext DEF FlowInv
      <3> QED
        BY <2>1, <3>1, <3>2 DEF ReadFlow
    <2> QED
      BY <2>6, <2>7, <2>8 DEF FlowInv
  <1>2. CASE ~Reading
    <2>1. NothingYet(parser, input \o sock, st)
      BY <1>2 DEF HandleReadData, Reading
    <2>2. UNCHANGED <<st, parser, output, file, upload, handled, closes>> /\ input' = input \o sock
      BY <2>1 DEF NothingYet
    <2>3. Rest' = Rest
      <3>1. (input \o sock) \o << >> = input \o sock
        BY RestType, ConcatEmptySeq
      <3> QED
        BY <1>0, <2>2, <3>1 DEF Rest
    <2>4. Answers' = Answers
      BY <1>0, <2>2 DEF Answers
    <2>5. StreamInv'
      BY <1>0, <2>2, <2>3, <2>4 DEF FlowInv, StreamInv
    <2>6. PairInv'
      BY <1>0, <2>2, <2>4 DEF FlowInv, PairInv
    <2>7. HandInv'
      BY <1>0, <2>2, <2>4 DEF FlowInv, HandInv, KindOf
    <2> QED
      BY <2>5, <2>6, <2>7 DEF FlowInv
  <1> QED
    BY <1>1, <1>2

----------------------------------------------------------------------------
(***************************************************************************)
(* The other steps                                                         *)
(***************************************************************************)

\* Once doomed a connection stays so, and steps that change neither bytes nor
\* answers keep the rest.
LEMMA KeepFlow ==
    ASSUME FlowInv, Doomed => Doomed', registered' /\ ~Doomed' => registered,
           UNCHANGED <<kinds, toSend, sock, rst, received, st, parser, input, output, file,
                       upload, handled>>
    PROVE  FlowInv'
  <1>1. Rest' = Rest /\ Answers' = Answers
    BY DEF Rest, Answers
  <1>2. StreamInv'
    BY <1>1 DEF FlowInv, StreamInv
  <1>3. PairInv'
    BY <1>1 DEF FlowInv, PairInv
  <1>4. HandInv'
    BY <1>1 DEF FlowInv, HandInv, KindOf, WriteFailed
  <1> QED
    BY <1>2, <1>3, <1>4 DEF FlowInv

LEMMA CloseFlow ==
    ASSUME FlowInv, Doomed => Doomed', ~registered', st' = "CLOSED",
           UNCHANGED <<kinds, sock, rst, received, output, handled>>
    PROVE  FlowInv'
  <1>1. Answers' = received \o output
    BY DEF Answers
  <1>2. StreamInv'
    BY DEF FlowInv, StreamInv
  <1>3. PairInv'
    BY <1>1 DEF FlowInv, PairInv
  <1>4. HandInv'
    BY DEF FlowInv, HandInv, KindOf, WriteFailed
  <1> QED
    BY <1>2, <1>3, <1>4 DEF FlowInv

LEMMA HandleCloseFlow ==
    ASSUME TInv, LifeInv, FlowInv, HandleError \/ HandleReadEnd \/ RunForceClose
    PROVE  FlowInv'
  <1>1. st' = "CLOSED" /\ ~registered'
    BY ClosingLife DEF HandleError, HandleReadEnd, RunForceClose, HandleClose
  <1>2. UNCHANGED <<kinds, sock, rst, received, output, handled>>
    BY DEF HandleError, HandleReadEnd, RunForceClose, socketVars, bufferVars
  <1>3. Doomed => Doomed'
    BY <1>1 DEF HandleError, HandleReadEnd, RunForceClose, Calls, Doomed
  <1> QED
    BY <1>1, <1>2, <1>3, CloseFlow

LEMMA PairedPrefix ==
    ASSUME NEW ks, NEW R, NEW a \in Seq(R), NEW b \in Seq(R), PairedIn(ks, a \o b)
    PROVE  PairedIn(ks, a)
  <1> DEFINE c == a \o b
  <1>1. /\ Len(c) = Len(a) + Len(b) /\ Len(a) \in Nat /\ Len(b) \in Nat
        /\ \A i \in 1 .. Len(a) + Len(b) : c[i] = IF i <= Len(a) THEN a[i] ELSE b[i - Len(a)]
    BY ConcatProperties
  <1>2. PairedIn(ks, c)
    OBVIOUS
  <1> HIDE DEF c
  <1>3. \A i \in 1 .. Len(a) : /\ c[i] = a[i] /\ i \in 1 .. Len(c)
                               /\ i # 1 => c[i - 1] = a[i - 1]
    BY <1>1
  <1> QED
    BY <1>2, <1>3 DEF PairedIn

\* What goes out keeps the answers as they are.
LEMMA WriteAnswers ==
    ASSUME TInv, FlowInv, ~Doomed, SendInLoop \/ SendFileInLoop
    PROVE  \/ /\ Answers' = Answers
              /\ PairedIn(kinds, received') /\ PairedIn(kinds, received' \o output')
           \/ HandleClose /\ UNCHANGED <<received, output>>
  <1>0. /\ received \in Seq(BegunResponses) /\ output \in Seq(BegunResponses)
        /\ PairedIn(kinds, received) /\ PairedIn(kinds, received \o output)
        /\ PairedIn(kinds, Answers) /\ file \in Nat
    BY DEF TInv, AnswerInv, FlowInv, PairInv
  <1>1. received \o << >> = received
    BY <1>0, ConcatEmptySeq
  <1>2. CASE /\ st # "SENDING_FILE" /\ output = << >> /\ ResponseDone
             /\ UNCHANGED <<output, received>>
    <2>1. st' # "SENDING_FILE"
      BY <1>2 DEF ResponseDone, CloseAfter
    <2> QED
      BY <1>0, <1>1, <1>2, <2>1 DEF Answers
  <1>3. ASSUME st # "SENDING_FILE", NEW n \in 1 .. Len(output), WriteOut(n), UNCHANGED st
        PROVE  /\ Answers' = Answers
               /\ PairedIn(kinds, received') /\ PairedIn(kinds, received' \o output')
    <2>1. n \in 0 .. Len(output)
      OBVIOUS
    <2>2. received' \o output' = received \o output
      BY <1>0, <1>3, <2>1, MoveAcross DEF WriteOut
    <2>3. received' \in Seq(BegunResponses) /\ output' \in Seq(BegunResponses)
      <3>1. \A i \in 1 .. Len(output) : output[i] \in BegunResponses
        BY <1>0, ElementOfSeq
      <3>2. /\ \A i \in 1 .. n : output[i] \in BegunResponses
            /\ \A i \in n + 1 .. Len(output) : output[i] \in BegunResponses
        BY <1>0, <3>1
      <3>3. /\ SubSeq(output, 1, n) \in Seq(BegunResponses)
            /\ SubSeq(output, n + 1, Len(output)) \in Seq(BegunResponses)
        BY <1>0, <3>2, SubSeqProperties
      <3> QED
        BY <1>0, <1>3, <3>3, ConcatProperties DEF WriteOut
    <2>4. PairedIn(kinds, received')
      BY <1>0, <2>2, <2>3, PairedPrefix
    <2> QED
      BY <1>0, <1>3, <2>2, <2>4 DEF Answers
  <1>4. CASE /\ st = "SENDING_FILE" /\ file = 0 /\ output' = << >>
             /\ received' = received \o output /\ ResponseDone /\ UNCHANGED file
    <2>1. Answers = received \o output
      BY <1>4 DEF Answers
    <2>2. received' \o << >> = received'
      BY <1>0, <1>4, ConcatProperties, ConcatEmptySeq
    <2>3. Answers' = received' \o << >>
      BY <1>4 DEF Answers
    <2> QED
      BY <1>0, <1>4, <2>1, <2>2, <2>3
  <1>5. CASE /\ st = "SENDING_FILE" /\ file > 0 /\ output' = << >>
             /\ file' \in Nat
             /\ received' = IF file' = 0 THEN Append(received, Response(parser.req, "router"))
                            ELSE received
             /\ UNCHANGED <<st, parser>>
    <2>1. Answers = received \o <<Response(parser.req, "router")>>
      BY <1>5 DEF Answers
    <2>2. parser.req \in Begun
      BY <1>5 DEF TInv, ParserInv, BegunParsers
    <2>3. Response(parser.req, "router") \in BegunResponses
      BY <2>2 DEF Response, BegunResponses
    <2>4. CASE file' = 0
      <3>1. received' = Answers
        BY <1>0, <1>5, <2>1, <2>3, <2>4, AppendIsConcat
      <3>2. received' \o << >> = received'
        BY <1>0, <1>5, <2>3, <2>4, AppendProperties, ConcatEmptySeq
      <3>3. Answers' = received' \o << >>
        BY <1>5, <2>4 DEF Answers
      <3> QED
        BY <1>0, <1>5, <3>1, <3>2, <3>3
    <2>5. CASE file' # 0
      <3>1. Answers' = Answers
        BY <1>5, <2>1, <2>5 DEF Answers
      <3> QED
        BY <1>0, <1>1, <1>5, <2>5, <3>1
    <2> QED
      BY <2>4, <2>5
  <1>6. \A n \in 1 .. file : file - n \in Nat
    BY <1>0
  <1>7. CASE HandleClose /\ UNCHANGED <<received, output>>
    BY <1>7
  <1> QED
    BY <1>2, <1>3, <1>4, <1>5, <1>6, <1>7 DEF SendInLoop, SendFileInLoop

LEMMA WriteFlow ==
    ASSUME TInv, LifeInv, FlowInv, SendInLoop \/ SendFileInLoop
    PROVE  FlowInv'
  <1>0. /\ UNCHANGED <<kinds, toSend, sock, rst, input, handled, closes>>
        /\ "out" \in revents /\ revents' = {} /\ ~Doomed
    BY DEF SendInLoop, SendFileInLoop, Calls, TInv, LoopInv, Doomed
  <1>1. CASE HandleClose /\ UNCHANGED <<received, output>>
    BY <1>0, <1>1, ClosingLife, CloseFlow DEF HandleClose
  <1>2. CASE /\ Answers' = Answers
             /\ PairedIn(kinds, received') /\ PairedIn(kinds, received' \o output')
    <2>1. PairInv'
      BY <1>0, <1>2 DEF FlowInv, PairInv
    <2>2. registered' => registered
      BY DEF SendInLoop, SendFileInLoop, HandleClose, ResponseDone, CloseAfter
    <2>3. HandInv'
      BY <1>0, <1>2, <2>2 DEF FlowInv, HandInv, KindOf
    <2>4. Rest' = Rest
      BY <1>0 DEF Rest
    <2>5. ASSUME registered', ~Doomed', ~rst
          PROVE  InPlace(kinds, Rest, LastReq(Answers), LastReq(handled), st', parser', upload')
      <3>1. /\ InPlace(kinds, Rest, LastReq(Answers), LastReq(handled), st, parser, upload)
            /\ st \in {"WRITING_RESPONSE", "SENDING_FILE"}
        BY <1>0, <2>2, <2>5 DEF FlowInv, StreamInv, LifeInv, Reading, TInv, ParserInv, States
      <3>2. CASE UNCHANGED <<st, parser, upload>>
        BY <3>1, <3>2
      <3>3. CASE parser.keep /\ st' = "READING_HEADERS" /\ parser' = Fresh
        BY <3>1, <3>3 DEF InPlace, Fresh
      <3>4. ~HandleClose
        BY <2>5, ClosingLife DEF HandleClose
      <3>5. ResponseDone => parser.keep /\ st' = "READING_HEADERS" /\ parser' = Fresh
        BY <2>5, ClosingLife DEF ResponseDone
      <3> QED
        BY <3>2, <3>3, <3>4, <3>5 DEF SendInLoop, SendFileInLoop
    <2>6. StreamInv'
      BY <1>0, <1>2, <2>4, <2>5 DEF FlowInv, StreamInv
    <2> QED
      BY <2>1, <2>3, <2>6 DEF FlowInv
  <1> QED
    BY <1>0, <1>1, <1>2, WriteAnswers

\* The pairing of responses to requests the client has begun is not disturbed
\* by one it begins now.
LEMMA MorePaired ==
    ASSUME TInv, NEW k \in Kinds, NEW s \in Seq(BegunResponses), PairedIn(kinds, s)
    PROVE  PairedIn(Append(kinds, k), s)
  <1>1. \A n \in Begun : Append(kinds, k)[n] = kinds[n]
    BY AppendProperties DEF TInv, BytesInv, Begun
  <1>2. \A i \in 1 .. Len(s) : s[i].req \in Begun
    <2>1. \A i \in 1 .. Len(s) : s[i] \in BegunResponses
      BY ElementOfSeq
    <2> QED
      BY <2>1 DEF BegunResponses
  <1>3. \A n \in Begun, m \in Begun \cup {0} :
           Answerable(kinds, n, m) => Answerable(Append(kinds, k), n, m)
    BY <1>1 DEF Answerable, Begun
  <1>4. \A i \in 1 .. Len(s) : (IF i = 1 THEN 0 ELSE s[i - 1].req) \in Begun \cup {0}
    BY <1>2
  <1> QED
    BY <1>2, <1>3, <1>4 DEF PairedIn

LEMMA AnswersType ==
    ASSUME TInv
    PROVE  /\ Answers \in Seq(BegunResponses) /\ received \o output \in Seq(BegunResponses)
           /\ Len(Answers) \in Nat
  <1>1. received \in Seq(BegunResponses) /\ output \in Seq(BegunResponses)
    BY DEF TInv, AnswerInv
  <1>2. CASE st = "SENDING_FILE"
    <2>1. parser.req \in Begun
      BY <1>2 DEF TInv, ParserInv, BegunParsers
    <2>2. Response(parser.req, "router") \in BegunResponses
      BY <2>1 DEF Response, BegunResponses
    <2>3. received \o <<Response(parser.req, "router")>> \in Seq(BegunResponses)
      BY <1>1, <2>2, LastOfConcat
    <2> QED
      BY <1>1, <2>3, ConcatProperties DEF Answers
  <1>3. CASE st # "SENDING_FILE"
    BY <1>1, <1>3, ConcatProperties DEF Answers
  <1> QED
    BY <1>2, <1>3

LEMMA ClientBeginsFlow ==
    ASSUME TInv, FlowInv, NEW k \in Kinds, ClientBegins(k),
           UNCHANGED <<st, bufferVars, channelVars, timer, serverVars, loopVars>>
    PROVE  FlowInv'
  <1> USE DEF bufferVars, channelVars, serverVars, loopVars
  <1> DEFINE m == LastReq(Answers)
             z == LastReq(handled)
             T == Tokens(Len(kinds) + 1, k)
  <1>1. /\ kinds' = Append(kinds, k) /\ toSend = << >> /\ toSend' = T /\ ~rst /\ ~rst'
        /\ UNCHANGED <<sock, received, input, output, handled, file, st, parser, upload,
                       registered, revents, closes>>
    BY DEF ClientBegins
  <1>2. /\ kinds \in Seq(Kinds) /\ Rest \in Seq(Tok(kinds)) /\ m \in 0 .. Len(kinds)
        /\ Rest' = Rest \o T /\ Answers' = Answers /\ (Doomed' <=> Doomed)
    <2>1. kinds \in Seq(Kinds) /\ Rest \in Seq(Tok(kinds)) /\ input \o sock \in Seq(BegunTokens)
      BY RestType
    <2>2. Rest = input \o sock
      BY <1>1, <2>1, ConcatEmptySeq DEF Rest
    <2>3. Rest' = (input \o sock) \o T
      BY <1>1 DEF Rest
    <2>4. Answers' = Answers /\ (Doomed' <=> Doomed)
      BY <1>1 DEF Answers, Doomed
    <2>5. m \in 0 .. Len(kinds)
      <3>1. \A x \in BegunResponses : x.req \in 1 .. Len(kinds)
        BY DEF BegunResponses, Begun
      <3>2. Len(kinds) \in Nat /\ Answers \in Seq(BegunResponses)
        BY <2>1, AnswersType
      <3> QED
        BY <3>1, <3>2, LastReqType
    <2> QED
      BY <2>1, <2>2, <2>3, <2>4, <2>5
  <1>3. PairInv'
    <2>1. received \in Seq(BegunResponses)
      BY DEF TInv, AnswerInv
    <2>2. PairedIn(kinds', received)
      BY <1>1, <2>1, MorePaired DEF FlowInv, PairInv
    <2>3. ~Doomed => PairedIn(kinds', received \o output) /\ PairedIn(kinds', Answers)
      BY <1>1, AnswersType, MorePaired DEF FlowInv, PairInv
    <2> QED
      BY <1>1, <1>2, <2>2, <2>3 DEF PairInv
  <1>4. HandInv'
    <2>1. \A i \in 1 .. Len(handled) : handled[i].req \in Begun
      <3>1. \A i \in 1 .. Len(handled) : handled[i] \in BegunHandled
        BY ElementOfSeq DEF TInv, AnswerInv
      <3> QED
        BY <3>1 DEF BegunHandled
    <2>2. \A n \in Begun : kinds'[n] = kinds[n]
      BY <1>1, <1>2, AppendProperties DEF Begun
    <2>3. ASSUME NEW i \in 1 .. Len(handled), BodyIsRead(KindOf(handled[i].req)')
          PROVE  \/ handled[i].body = KindOf(handled[i].req)'.len
                 \/ Doomed /\ WriteFailed(handled[i].req)
      <3>1. KindOf(handled[i].req)' = KindOf(handled[i].req)
        BY <1>1, <2>1, <2>2 DEF KindOf
      <3> QED
        BY <2>3, <3>1 DEF FlowInv, HandInv
    <2>4. \A i \in 1 .. Len(handled) :
             WriteFailed(handled[i].req) => WriteFailed(handled[i].req)'
      BY <1>1 DEF WriteFailed
    <2> QED
      BY <1>1, <1>2, <2>3, <2>4 DEF FlowInv, HandInv
  <1>5. ASSUME InPlace(kinds, Rest, m, z, st, parser, upload)
        PROVE  InPlace(kinds', Rest', m, z, st, parser, upload)
    <2>0. parser \in BegunParsers /\ parser.rem \in Nat /\ Len(kinds) \in Nat
          /\ Len(kinds') = Len(kinds) + 1
          /\ \A n \in 1 .. Len(kinds) : kinds'[n] = kinds[n]
      BY <1>1, <1>2, AppendProperties DEF TInv, ParserInv, BegunParsers, Parsers, BytesInv
    <2>1. Blocks(kinds', Rest')
      BY <1>1, <1>2, <1>5, MoreBlocks DEF InPlace
    <2>2. AtNext(kinds, Rest, m, z) => AtNext(kinds', Rest', m, z)
      <3> HIDE DEF m, z
      <3> QED
        BY <1>1, <1>2, MoreAtNext
    <2>3. \A n \in 1 .. Len(kinds) : Due(kinds, n, m, z) => Due(kinds', n, m, z)
      <3>1. m > 0 => m \in 1 .. Len(kinds)
        BY <1>2, <2>0
      <3> HIDE DEF m, z
      <3> QED
        BY <2>0, <3>1 DEF Due, Answerable
    <2>4. InHeaders(kinds, Rest, parser, m, z) => InHeaders(kinds', Rest', parser, m, z)
      <3> SUFFICES ASSUME InHeaders(kinds, Rest, parser, m, z)
                   PROVE  InHeaders(kinds', Rest', parser, m, z)
        OBVIOUS
      <3> DEFINE n == parser.req
      <3>0. n \in 1 .. Len(kinds) /\ n \in 1 .. Len(kinds') /\ kinds'[n] = kinds[n]
        BY <2>0 DEF InHeaders
      <3> HIDE DEF m, z, n
      <3>1. HeadersAt(kinds, Rest, 1, n) => HeadersAt(kinds', Rest', 1, n)
        BY <1>1, <1>2, <3>0, MoreHeaders
      <3>2. LineAt(kinds, Rest, 1, n) => LineAt(kinds', Rest', 1, n)
        BY <1>1, <1>2, <3>0, MoreLine
      <3>3. AfterLine(kinds, Rest, n) => AfterLine(kinds', Rest', n)
        BY <3>0, <3>1, <3>2 DEF AfterLine
      <3> QED
        BY <2>3, <3>0, <3>3 DEF InHeaders, n
    <2>5. InBody(kinds, Rest, parser, upload, m, z) => InBody(kinds', Rest', parser, upload, m, z)
      <3> SUFFICES ASSUME InBody(kinds, Rest, parser, upload, m, z)
                   PROVE  InBody(kinds', Rest', parser, upload, m, z)
        OBVIOUS
      <3> DEFINE n == parser.req
                 r == IF kinds[n].fault = "chunked" THEN kinds[n].len ELSE parser.rem
      <3>0. n \in 1 .. Len(kinds) /\ n \in 1 .. Len(kinds') /\ kinds'[n] = kinds[n]
        BY <2>0 DEF InBody
      <3>1. r \in Nat /\ n \in Nat
        BY <1>2, <2>0, <3>0, KindType DEF KindOf, Begun
      <3>2. BodyAt(kinds, Rest, 1, n, r)
        BY DEF InBody
      <3> HIDE DEF r
      <3>3. BodyAt(kinds', Rest', 1, n, r)
        BY <1>1, <1>2, <3>1, <3>2, MoreBody
      <3> HIDE DEF m, z
      <3> QED
        BY <2>3, <3>0, <3>3 DEF InBody, r
    <2> HIDE DEF m, z
    <2> QED
      BY <1>5, <2>1, <2>2, <2>4, <2>5 DEF InPlace
  <1>6. StreamInv'
    BY <1>1, <1>2, <1>5 DEF FlowInv, StreamInv
  <1> QED
    BY <1>3, <1>4, <1>6 DEF FlowInv

LEMMA ClientFlow ==
    ASSUME TInv, FlowInv, ClientStep
    PROVE  FlowInv'
  <1> USE DEF bufferVars, channelVars, serverVars, loopVars
  <1>0. UNCHANGED <<st, bufferVars, channelVars, timer, serverVars, loopVars>>
        /\ (Doomed' <=> Doomed)
    BY DEF ClientStep, Doomed
  <1>1. ASSUME NEW n \in 1 .. Len(toSend), ClientSends(n)
        PROVE  FlowInv'
    <2>1. /\ UNCHANGED <<kinds, rst, received>>
          /\ sock' = sock \o SubSeq(toSend, 1, n)
          /\ toSend' = SubSeq(toSend, n + 1, Len(toSend)) /\ ~rst
      BY <1>1 DEF ClientSends
    <2>2. Rest' = Rest
      <3> DEFINE a == SubSeq(toSend, 1, n)
                 b == SubSeq(toSend, n + 1, Len(toSend))
      <3>1. /\ input \in Seq(BegunTokens) /\ sock \in Seq(BegunTokens)
            /\ toSend \in Seq(BegunTokens) /\ n \in 0 .. Len(toSend)
        BY DEF TInv, BytesInv
      <3>2. input \o sock \in Seq(BegunTokens) /\ a \in Seq(BegunTokens)
        <4>1. \A i \in 1 .. Len(toSend) : toSend[i] \in BegunTokens
          BY <3>1, ElementOfSeq
        <4>2. \A i \in 1 .. n : toSend[i] \in BegunTokens
          BY <3>1, <4>1
        <4> QED
          BY <3>1, <4>2, ConcatProperties, SubSeqProperties
      <3>3. ((input \o sock) \o a) \o b = (input \o sock) \o toSend
        <4> DEFINE c == input \o sock
        <4>1. c \in Seq(BegunTokens)
          BY <3>2
        <4> HIDE DEF c
        <4>2. (c \o a) \o b = c \o toSend
          BY <3>1, <4>1, MoveAcross
        <4> QED
          BY <4>2 DEF c
      <3>4. (input \o sock) \o a = input \o (sock \o a)
        <4> HIDE DEF a, b
        <4>1. input \in Seq(BegunTokens) /\ sock \in Seq(BegunTokens) /\ a \in Seq(BegunTokens)
          BY <3>1, <3>2
        <4> QED
          BY <4>1, ConcatAssociative
      <3>5. Rest' = (input \o (sock \o a)) \o b
        BY <1>0, <2>1 DEF Rest
      <3> QED
        BY <3>3, <3>4, <3>5 DEF Rest
    <2>3. Answers' = Answers
      BY <1>0, <2>1 DEF Answers
    <2>4. StreamInv'
      BY <1>0, <2>1, <2>2, <2>3 DEF FlowInv, StreamInv
    <2>5. PairInv' /\ HandInv'
      BY <1>0, <2>1, <2>3 DEF FlowInv, PairInv, HandInv, KindOf, WriteFailed
    <2> QED
      BY <2>4, <2>5 DEF FlowInv
  <1>2. CASE ClientResets
    <2>1. UNCHANGED <<kinds, received>> /\ rst' /\ sock' = << >>
      BY <1>2 DEF ClientResets
    <2>2. Answers' = Answers
      BY <1>0, <2>1 DEF Answers
    <2> QED
      BY <1>0, <2>1, <2>2
      DEF FlowInv, StreamInv, PairInv, HandInv, KindOf, WriteFailed
  <1>3. CASE ClientCloses
    <2>1. UNCHANGED <<kinds, toSend, sock, rst, received>>
      BY <1>3 DEF ClientCloses
    <2> QED
      BY <1>0, <2>1, KeepFlow
  <1> QED
    BY <1>0, <1>1, <1>2, <1>3, ClientBeginsFlow DEF ClientStep

LEMMA NextFlowInv == TInv /\ LifeInv /\ FlowInv /\ [Next]_vars => FlowInv'
  <1> SUFFICES ASSUME TInv, LifeInv, FlowInv, [Next]_vars PROVE FlowInv'
    OBVIOUS
  <1> USE DEF socketVars, bufferVars, channelVars, serverVars, loopVars
  <1>1. CASE UNCHANGED vars
    BY <1>1, KeepFlow DEF vars, Doomed
  <1>2. ASSUME NEW out \in BOOLEAN, NEW due \in BOOLEAN, EpollReturns(out, due)
        PROVE  FlowInv'
    <2>1. registered /\ closes = 0
      BY <1>2 DEF EpollReturns, Iterating, TInv, LoopInv
    <2>2. ~Doomed
      BY <2>1 DEF Doomed
    <2> QED
      BY <1>2, <2>1, <2>2, KeepFlow DEF EpollReturns
  <1>3. CASE IdleTimeout
    <2>1. Doomed => Doomed'
      BY <1>3 DEF IdleTimeout, Doomed, TInv, LoopInv
    <2> QED
      BY <1>3, <2>1, KeepFlow DEF IdleTimeout
  <1>4. CASE Accept
    <2>1. << >> \o << >> = << >> /\ Len(<< >>) = 0
      BY ConcatEmptySeq
    <2>2. Rest' = << >> /\ Answers' = << >>
      BY <1>4, <2>1 DEF Accept, Rest, Answers
    <2>3. InPlace(kinds', Rest', LastReq(Answers'), LastReq(handled'), st', parser', upload')
      BY <1>4, <2>1, <2>2 DEF Accept, InPlace, Blocks, AtNext, Front, Fresh, LastReq
    <2> QED
      BY <1>4, <2>1, <2>2, <2>3
      DEF Accept, FlowInv, StreamInv, PairInv, PairedIn, HandInv
  <1> QED
    BY <1>1, <1>2, <1>3, <1>4, ClientFlow, ReadDataFlowInv, HandleCloseFlow, WriteFlow
    DEF Next, Callback, Over

LEMMA FlowHolds == Spec => [](TInv /\ LifeInv /\ FlowInv)
  BY InitTInv, NextTInv, InitLifeInv, NextLifeInv, InitFlowInv, NextFlowInv, PTL DEF Spec

\* Requests reach the router in the order they were sent, each at most once and
\* with exactly its own body, however the bytes are split over reads, however
\* many requests are pipelined and whatever lines the parser has rejected before,
\* unless a write of the upload failed.
THEOREM RequestsAreHandledInOrder == Spec => []HandledInOrderWithBody
  <1>1. FlowInv => HandledInOrderWithBody
    BY DEF FlowInv, HandInv, HandledInOrderWithBody
  <1> QED
    BY <1>1, FlowHolds, PTL

\* Responses come in the order of the requests and none is left out, for any
\* number of pipelined requests.  A request gets more than one only when the
\* parser cannot get past it or reads again a line it has rejected (a request
\* line that was too long without its CRLF, a bad header), and from then on the
\* responses are behind by as many.
THEOREM ResponsesArePaired == Spec => []ResponsesPaired
  <1>1. FlowInv => ResponsesPaired
    <2> SUFFICES ASSUME FlowInv, NEW i \in 1 .. Len(received)
                 PROVE  LET n == received[i].req
                            previous == IF i = 1 THEN 0 ELSE received[i - 1].req IN
                        \/ n = previous + 1 /\ (previous > 0 => ~Sticks(KindOf(previous)))
                        \/ n = previous /\ n > 0 /\ Repeats(KindOf(n))
      BY DEF ResponsesPaired
    <2> DEFINE previous == IF i = 1 THEN 0 ELSE received[i - 1].req
    <2>1. Answerable(kinds, received[i].req, previous)
      BY DEF FlowInv, PairInv, PairedIn
    <2> HIDE DEF previous
    <2>2. \/ received[i].req = previous + 1 /\ (previous > 0 => ~Sticks(KindOf(previous)))
          \/ /\ received[i].req = previous /\ received[i].req > 0
             /\ Repeats(KindOf(received[i].req))
      BY <2>1 DEF Answerable, KindOf
    <2> QED
      BY <2>2 DEF previous
  <1> QED
    BY <1>1, FlowHolds, PTL

=============================================================================
