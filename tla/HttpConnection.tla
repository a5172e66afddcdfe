--------------------------- MODULE HttpConnection ---------------------------
(***************************************************************************)
(* One HTTP connection, from the socket to the request handlers: the state *)
(* machine of src/src/net/http/http_connection.cpp, the parser             *)
(* (http_parser.cpp), the channel's callbacks (channel.cpp), the streamed  *)
(* uploads of src/src/server/server.cpp and their write sessions           *)
(* (data_store.cpp).                                                       *)
(*                                                                         *)
(* Bytes are tokens, and every token names its request.  A request is a    *)
(* "line" (its lines, with the CRLF of the last one that matters), an      *)
(* "end" (the empty line) and as many "body" tokens as it has units of     *)
(* body.  In front of the line are "cut" tokens when that line is longer   *)
(* than the parser accepts without its CRLF, and in front of them a "top"  *)
(* (the request line and good headers) when the line is a header that is a *)
(* trouble.  A unit of body ends in CRLF and is no request line.  What a   *)
(* request is like is a kind the client chooses:                           *)
(*   len      units of body                                                *)
(*   cut      pieces of the line, each over the limit, before its last one *)
(*   stream   whether the body is written to a file as it comes (PUT)      *)
(*   keep     whether the connection is kept (HttpRequest::IsKeepAlive)    *)
(*   fault    "none", or what is wrong with it: "line" (a bad request      *)
(*            line), "header" (a header without colon), "again" (the same, *)
(*            and it is a request line), "long" (a header with many bytes, *)
(*            see cut), "length" (a bad content length), "big" (more than  *)
(*            max_body_bytes_), "chunked"                                  *)
(*                                                                         *)
(* The callbacks of one event (error, read, write) are separate steps, in  *)
(* the channel's order, with the client acting in between; the loop does   *)
(* nothing else until revents is empty.  The handler of a request is a     *)
(* step that sends a response, chosen freely.                              *)
(***************************************************************************)
EXTENDS Naturals, Sequences, FiniteSets

CONSTANTS
    Kinds,          \* the requests clients send
    MaxRequests,    \* bound: requests per connection
    MaxConns,       \* bound: connections, one after the other, with the same fd
    MaxFile,        \* bound: units of a file response
    Pipelining,     \* whether clients send before the last response has come
    Faults,         \* subset of {"io", "eof", "reset"}
    None            \* no upload context

\* What is wrong with a request whose request line is good, in its headers.
HeaderFaults == {"header", "again", "long"}

ASSUME ConnectionAssumption ==
    /\ Kinds \subseteq [len : Nat, cut : Nat, stream : BOOLEAN, keep : BOOLEAN,
                        fault : {"none", "line", "length", "big", "chunked"} \cup HeaderFaults]
    /\ MaxRequests \in Nat /\ MaxConns \in Nat \ {0} /\ MaxFile \in Nat
    /\ Pipelining \in BOOLEAN
    /\ None \notin [gen : Nat, req : Nat, session : BOOLEAN, bytes : Nat]

VARIABLES
    \* The client and the socket
    kinds,      \* Seq(Kinds): the requests begun on this connection
    toSend,     \* tokens of the last one not sent yet
    sock,       \* tokens sent and not read
    eof,        \* the client has closed its side
    rst,        \* the client has reset the connection
    received,   \* responses the client has got, whole
    \* HttpConnection
    st,         \* state_
    parser,     \* the parser's state, request number, keep-alive, rest of the
                \* body, and the body collected in the request
    input,      \* input_buffer_
    output,     \* output_buffer_: the responses in it
    file,       \* file_remaining_
    events,     \* Channel::events_
    added,      \* Channel::index_ >= 0
    timer,      \* whether the idle timer is set
    \* Server
    upload,     \* uploads_[fd]: None or the upload context
    registered, \* whether the connection is in connections_
    handled,    \* requests handed to the router: number and body it has got
    \* EventLoop
    revents,    \* callbacks of the current event still to call
    tick,       \* the idle timer is due in this iteration
    closes,     \* ForceClose functors queued
    gen         \* how many connections there have been

socketVars == <<kinds, toSend, sock, eof, rst, received>>
bufferVars == <<parser, input, output, file>>
channelVars == <<events, added>>
serverVars == <<upload, registered, handled>>
loopVars == <<revents, tick, closes, gen>>
vars == <<socketVars, st, bufferVars, channelVars, timer, serverVars, loopVars>>

Fresh == [state |-> "REQUEST_LINE", req |-> 0, keep |-> TRUE, rem |-> 0, body |-> 0]

\* Server::OnNewConnection and HttpConnection::Start.
Init ==
    /\ kinds = << >> /\ toSend = << >> /\ sock = << >> /\ received = << >>
    /\ eof = FALSE /\ rst = FALSE
    /\ st = "READING_HEADERS"
    /\ parser = Fresh
    /\ input = << >> /\ output = << >> /\ file = 0
    /\ events = {"in"} /\ added = TRUE
    /\ timer = TRUE
    /\ upload = None /\ registered = TRUE /\ handled = << >>
    /\ revents = {} /\ tick = FALSE /\ closes = 0
    /\ gen = 1

----------------------------------------------------------------------------
(***************************************************************************)
(* The client                                                              *)
(***************************************************************************)

Tokens(n, k) ==
    LET top == IF k.fault \in HeaderFaults THEN 1 ELSE 0
        line == top + k.cut + 1 IN
    [i \in 1 .. line + 1 + k.len |->
        [req |-> n, part |-> IF i <= top THEN "top" ELSE IF i < line THEN "cut"
                             ELSE IF i = line THEN "line" ELSE IF i = line + 1 THEN "end"
                             ELSE "body"]]

ClientBegins(k) ==
    /\ toSend = << >> /\ ~eof /\ ~rst
    /\ Len(kinds) < MaxRequests
    /\ Pipelining \/ Len(received) = Len(kinds)
    /\ kinds' = Append(kinds, k)
    /\ toSend' = Tokens(Len(kinds) + 1, k)
    /\ UNCHANGED <<sock, eof, rst, received>>

ClientSends(n) ==
    /\ n \in 1 .. Len(toSend) /\ ~eof /\ ~rst
    /\ sock' = sock \o SubSeq(toSend, 1, n)
    /\ toSend' = SubSeq(toSend, n + 1, Len(toSend))
    /\ UNCHANGED <<kinds, eof, rst, received>>

ClientCloses ==
    /\ "eof" \in Faults
    /\ ~eof /\ ~rst
    /\ eof' = TRUE
    /\ UNCHANGED <<kinds, toSend, sock, rst, received>>

ClientResets ==
    /\ "reset" \in Faults
    /\ ~rst
    /\ rst' = TRUE
    /\ sock' = << >>
    /\ UNCHANGED <<kinds, toSend, eof, received>>

ClientStep ==
    /\ \/ \E k \in Kinds : ClientBegins(k)
       \/ \E n \in 1 .. Len(toSend) : ClientSends(n)
       \/ ClientCloses
       \/ ClientResets
    /\ UNCHANGED <<st, bufferVars, channelVars, timer, serverVars, loopVars>>

----------------------------------------------------------------------------
(***************************************************************************)
(* Channel and EventLoop::UpdateChannel                                    *)
(***************************************************************************)

\* A channel not in epoll is added, whatever its events; one without events
\* is removed.
AddedAfter(isAdded, ev) == ~isAdded \/ ev # {}

Update(ev) ==
    /\ events' = ev
    /\ added' = AddedAfter(added, ev)

(***************************************************************************)
(* HandleClose and Server::OnConnectionClose                               *)
(***************************************************************************)

\* Mutant: the upload context is not erased.
CloseAfterKeepsUpload(ev, isAdded) ==
    \/ /\ st = "CLOSED"
       /\ events' = ev /\ added' = isAdded
       /\ UNCHANGED <<st, timer, registered, upload>>
    \/ /\ st # "CLOSED"
       /\ st' = "CLOSED"
       /\ timer' = FALSE
       /\ events' = {} /\ added' = AddedAfter(isAdded, {})
       /\ registered' = FALSE
       /\ UNCHANGED upload

\* The context is erased and its session destroyed: WriteSession::Abort.
Abort == upload' = None

\* DisableAll after the channel has been left with ev, isAdded.
CloseAfter(ev, isAdded) ==
    \/ /\ st = "CLOSED"
       /\ events' = ev /\ added' = isAdded
       /\ UNCHANGED <<st, timer, registered, upload>>
    \/ /\ st # "CLOSED"
       /\ st' = "CLOSED"
       /\ timer' = FALSE
       /\ events' = {} /\ added' = AddedAfter(isAdded, {})
       /\ registered' = FALSE
       /\ Abort

HandleClose == CloseAfter(events, added)

----------------------------------------------------------------------------
(***************************************************************************)
(* HttpParser                                                              *)
(***************************************************************************)

KindOf(n) == kinds[n]

\* What the parser finds in the headers once their last line is there.
FinishHeaders(p, in) ==
    LET k == KindOf(p.req)
        rest == Tail(in)
        hasBody == k.len > 0 \/ k.fault = "chunked"
        rem == IF k.fault = "chunked" THEN 0 ELSE k.len IN
    IF k.fault = "length" THEN [res |-> "ERROR", p |-> [p EXCEPT !.state = "ERROR"], in |-> rest]
    ELSE IF hasBody
         THEN [res |-> "HEADERS_COMPLETE", p |-> [p EXCEPT !.state = "BODY", !.rem = rem], in |-> rest]
         ELSE [res |-> "MESSAGE_COMPLETE", p |-> [p EXCEPT !.state = "DONE"], in |-> rest]

\* Between two lines of the headers.
NeedMore(p) == [res |-> "NEED_MORE_DATA", p |-> [p EXCEPT !.state = "HEADERS"], in |-> << >>]

\* A line the parser rejects stays in the buffer.
Reject(p, in) == [res |-> "ERROR", p |-> [p EXCEPT !.state = "ERROR"], in |-> in]

\* FindCRLF: how many tokens the line at the front has, 0 while its CRLF is
\* missing.  More bytes than a line may have are there then.
LineLength(in) ==
    LET cut == KindOf(in[1].req).cut IN
    IF in[1].part # "cut" THEN 1 ELSE IF Len(in) > cut THEN cut + 1 ELSE 0

\* Lines ParseRequestLine and ParseHeader accept, whatever their length.
IsRequestLine(t) ==
    \/ t.part = "top"
    \/ t.part = "line" /\ KindOf(t.req).fault \notin {"line", "header", "long"}

IsHeader(t) == t.part = "line" /\ KindOf(t.req).fault = "long"

\* State HEADERS.  Behind the header that may be a trouble is the empty line.
ParseHeaders(p, in) ==
    LET n == LineLength(in)
        rest == SubSeq(in, n + 1, Len(in)) IN
    IF in = << >> THEN NeedMore(p)
    ELSE IF in[1].part = "end" THEN FinishHeaders(p, in)
    ELSE IF n = 0 \/ ~IsHeader(in[n]) THEN Reject(p, in)
    ELSE IF rest = << >> THEN NeedMore(p)
    ELSE FinishHeaders(p, rest)

\* HttpParser::Parse up to the end of the headers.  After a Reset it begins with
\* what it has rejected: a request line that was too long is accepted when its
\* CRLF has come, and a rejected header is taken for a request line.
Parse(p, in) ==
    LET n == LineLength(in)
        q == [p EXCEPT !.req = in[1].req] IN
    IF p.state = "ERROR" THEN [res |-> "ERROR", p |-> p, in |-> in]
    ELSE IF p.state = "HEADERS" THEN ParseHeaders(p, in)
    ELSE IF in = << >> THEN [res |-> "NEED_MORE_DATA", p |-> p, in |-> in]
    ELSE IF n = 0 \/ ~IsRequestLine(in[n]) THEN Reject(q, in)
    ELSE ParseHeaders([q EXCEPT !.keep = KindOf(q.req).keep], SubSeq(in, n + 1, Len(in)))

----------------------------------------------------------------------------
(***************************************************************************)
(* Server::OnBodyData and OnRequest, HttpConnection::Send                  *)
(***************************************************************************)

Response(n, code) == [req |-> n, code |-> code]

Fallible(outcomes) == IF "io" \in Faults THEN outcomes ELSE {TRUE}

\* DataStore::BeginWrite for the request of p: a context with a session on a new
\* temporary file, or without.
BeginWrite(p) ==
    {[gen |-> gen, req |-> p.req, session |-> s, bytes |-> 0] : s \in Fallible(BOOLEAN)}

\* WriteSession::Write of n units.  When it fails it may leave bytes in the
\* file, and none are counted.
Write(ctx, n) ==
    {[ok |-> w, upload |-> IF w THEN [ctx EXCEPT !.bytes = @ + n] ELSE ctx] :
        w \in Fallible(BOOLEAN)}

\* OnBodyData with n units: the upload context, the body collected in the
\* request and whether it went well.
OnBodyData(p, n) ==
    IF ~KindOf(p.req).stream
    THEN {[ok |-> TRUE, upload |-> upload, body |-> p.body + n]}
    ELSE {[ok |-> w.ok, upload |-> w.upload, body |-> p.body] :
             w \in UNION {IF ctx.session THEN Write(ctx, n) ELSE {[ok |-> FALSE, upload |-> ctx]} :
                             ctx \in IF upload = None THEN BeginWrite(p) ELSE {upload}}}

\* WriteSession::Finish and CommitWrite: whether the upload is in the CAS.
Finish == Fallible(BOOLEAN)

\* OnRequest with upload context ctx: the response, what the router was given
\* (nothing when CommitWrite fails), and the file the response sends.  A
\* request without body may be answered with a file.
OnRequest(p, ctx) ==
    LET committed == ctx # None /\ ctx.session
        got == IF committed THEN ctx.bytes ELSE p.body
        seen == <<[req |-> p.req, body |-> got, stored |-> committed]>> IN
    {[resp |-> Response(p.req, "router"), seen |-> seen, next |-> "WRITING_RESPONSE", file |-> 0]}
    \cup {[resp |-> Response(p.req, "router"), seen |-> seen, next |-> "SENDING_FILE", file |-> f] :
             f \in IF KindOf(p.req).len = 0 THEN 0 .. MaxFile ELSE {}}
    \cup {[resp |-> Response(p.req, "400"), seen |-> << >>, next |-> "WRITING_RESPONSE", file |-> 0] :
             ok \in IF committed THEN Finish \ {TRUE} ELSE {}}

\* Mutant: writing is not enabled.
DispatchSilently(p, ctx, before) ==
    \E r \in OnRequest(p, ctx) :
        /\ output' = output \o before \o <<r.resp>>
        /\ handled' = handled \o r.seen
        /\ st' = r.next
        /\ file' = r.file
        /\ upload' = None
        /\ parser' = [p EXCEPT !.state = "DONE"]
        /\ UNCHANGED channelVars

\* Dispatch of a whole request; before are the responses sent already.
Dispatch(p, ctx, before) ==
    \E r \in OnRequest(p, ctx) :
        /\ output' = output \o before \o <<r.resp>>
        /\ handled' = handled \o r.seen
        /\ st' = r.next
        /\ file' = r.file
        /\ upload' = None
        /\ parser' = [p EXCEPT !.state = "DONE"]
        /\ Update(events \cup {"out"})

\* Mutant: the connection goes on reading.
SendErrorKeepsReading(p, code) ==
    /\ output' = Append(output, Response(p.req, code))
    /\ parser' = p
    /\ Update(events \cup {"out"})
    /\ UNCHANGED <<st, file, upload, handled>>

\* Send of an error response by the connection itself.
SendError(p, code) ==
    /\ output' = Append(output, Response(p.req, code))
    /\ st' = "WRITING_RESPONSE"
    /\ parser' = p
    /\ Update(events \cup {"out"})
    /\ UNCHANGED <<file, upload, handled>>

NothingYet(p, in, next) ==
    /\ parser' = p
    /\ input' = in
    /\ st' = next
    /\ UNCHANGED <<output, file, events, added, upload, handled, closes>>

\* Streamed processing of what is in the buffer: the callback, Retrieve,
\* ConsumeBody, and the request callback when the body is complete, also when
\* the data callback has failed and queued a ForceClose.
ProcessBody(p, in) ==
    LET n == IF Len(in) < p.rem THEN Len(in) ELSE p.rem
        complete == n >= p.rem IN
    /\ input' = SubSeq(in, n + 1, Len(in))
    /\ \E o \in OnBodyData(p, n) :
          LET q == [p EXCEPT !.body = o.body, !.rem = @ - n]
              failure == IF o.ok THEN << >> ELSE <<Response(p.req, "500")>> IN
          /\ closes' = IF o.ok THEN closes ELSE closes + 1
          /\ \/ /\ complete
                /\ Dispatch(q, o.upload, failure)
             \/ /\ ~complete
                /\ parser' = q
                /\ upload' = o.upload
                /\ output' = output \o failure
                /\ st' = IF o.ok THEN "READING_BODY_STREAM" ELSE "WRITING_RESPONSE"
                /\ Update(IF o.ok THEN events ELSE events \cup {"out"})
                /\ UNCHANGED <<file, handled>>

\* ProcessHeaders
ProcessHeaders(in) ==
    LET r == Parse(parser, in)
        tooBig == r.res = "HEADERS_COMPLETE" /\ KindOf(r.p.req).fault = "big" IN
    \/ /\ r.res = "NEED_MORE_DATA"
       /\ NothingYet(r.p, r.in, st)
    \/ /\ r.res = "HEADERS_COMPLETE" /\ ~tooBig /\ r.in = << >>
       /\ NothingYet(r.p, r.in, "READING_BODY_STREAM")
    \/ /\ r.res = "HEADERS_COMPLETE" /\ ~tooBig /\ r.in # << >>
       /\ ProcessBody(r.p, r.in)
    \/ /\ tooBig
       /\ SendError([r.p EXCEPT !.keep = FALSE], "413")
       /\ input' = r.in
       /\ UNCHANGED closes
    \/ /\ r.res = "MESSAGE_COMPLETE"
       /\ Dispatch(r.p, upload, << >>)
       /\ input' = r.in
       /\ UNCHANGED closes
    \/ /\ r.res = "ERROR"
       /\ SendError(r.p, "400")
       /\ input' = r.in
       /\ UNCHANGED closes

----------------------------------------------------------------------------
(***************************************************************************)
(* Channel::HandleEventWithGuard                                           *)
(***************************************************************************)

\* The callbacks of the event run in this order.
Calls(callback) ==
    /\ revents # {}
    /\ callback = (IF "error" \in revents THEN "error"
                   ELSE IF "in" \in revents THEN "in" ELSE "out")
    /\ revents' = revents \ {callback}

HandleError ==
    /\ Calls("error")
    /\ HandleClose
    /\ UNCHANGED <<socketVars, bufferVars, handled, tick, closes, gen>>

\* HandleRead with data: the timer is refreshed, everything is read.
HandleReadData ==
    /\ Calls("in")
    /\ sock # << >>
    /\ sock' = << >>
    /\ tick' = (tick /\ ~timer)
    /\ LET in == input \o sock IN
       \/ st = "READING_HEADERS" /\ ProcessHeaders(in)
       \/ st = "READING_BODY_STREAM" /\ ProcessBody(parser, in)
       \/ /\ st \notin {"READING_HEADERS", "READING_BODY_STREAM"}
          /\ NothingYet(parser, in, st)
    /\ UNCHANGED <<kinds, toSend, eof, rst, received, timer, registered, gen>>

\* HandleRead without data: end of file or an error closes the connection.
HandleReadEnd ==
    /\ Calls("in")
    /\ sock = << >>
    /\ tick' = (tick /\ ~timer)
    /\ HandleClose
    /\ UNCHANGED <<socketVars, bufferVars, handled, closes, gen>>

\* Mutant: the body of the request is not reset.
ResponseDoneKeepsBody ==
    LET ev == events \ {"out"} IN
    \/ /\ parser.keep
       /\ Update(ev)
       /\ parser' = [Fresh EXCEPT !.body = parser.body]
       /\ st' = "READING_HEADERS"
       /\ UNCHANGED <<timer, registered, upload>>
    \/ /\ ~parser.keep
       /\ CloseAfter(ev, AddedAfter(added, ev))
       /\ UNCHANGED parser

\* Mutant: sendfile's count is taken off twice.
SendFileTwice ==
    /\ Calls("out")
    /\ st = "SENDING_FILE"
    /\ output' = << >>
    /\ file' = file - 2
    /\ UNCHANGED <<st, parser, channelVars, timer, registered, upload, received>>
    /\ UNCHANGED <<kinds, toSend, sock, eof, rst, input, handled, tick, closes, gen>>

\* The response is out: keep the connection for the next request or close it.
ResponseDone ==
    LET ev == events \ {"out"} IN
    \/ /\ parser.keep
       /\ Update(ev)
       /\ parser' = Fresh
       /\ st' = "READING_HEADERS"
       /\ UNCHANGED <<timer, registered, upload>>
    \/ /\ ~parser.keep
       /\ CloseAfter(ev, AddedAfter(added, ev))
       /\ UNCHANGED parser

\* n responses of the output buffer go out.
WriteOut(n) ==
    /\ output' = SubSeq(output, n + 1, Len(output))
    /\ received' = received \o SubSeq(output, 1, n)

\* SendInLoop: the end of the response is noticed at the event after the one
\* that wrote the last byte.
SendInLoop ==
    /\ Calls("out")
    /\ st # "SENDING_FILE"
    /\ \/ /\ output = << >>
          /\ ResponseDone
          /\ UNCHANGED <<output, received>>
       \/ /\ output # << >> /\ ~rst
          /\ \E n \in 1 .. Len(output) : WriteOut(n)
          /\ UNCHANGED <<st, parser, channelVars, timer, registered, upload>>
       \/ /\ output # << >> /\ rst
          /\ HandleClose
          /\ UNCHANGED <<output, received, parser>>
    /\ UNCHANGED <<kinds, toSend, sock, eof, rst, input, file, handled, tick, closes, gen>>

\* SendFileInLoop: the headers, then some of the file, or the end.  The client
\* has the response when the last unit of the file, or the headers of an empty
\* file, have gone out.
SendFileInLoop ==
    /\ Calls("out")
    /\ st = "SENDING_FILE"
    /\ \/ /\ ~rst
          /\ file = 0
          /\ output' = << >>
          /\ received' = received \o output
          /\ ResponseDone
          /\ UNCHANGED file
       \/ /\ ~rst
          /\ file > 0
          /\ output' = << >>
          /\ \E n \in 1 .. file : file' = file - n
          /\ received' = IF file' = 0 THEN Append(received, Response(parser.req, "router"))
                         ELSE received
          /\ UNCHANGED <<st, parser, channelVars, timer, registered, upload>>
       \/ /\ rst
          /\ HandleClose
          /\ UNCHANGED <<output, received, parser, file>>
    /\ UNCHANGED <<kinds, toSend, sock, eof, rst, input, handled, tick, closes, gen>>

----------------------------------------------------------------------------
(***************************************************************************)
(* The loop's iteration: epoll_wait, the timer, the queued functors        *)
(***************************************************************************)

Ready ==
    (IF rst /\ added THEN {"error"} ELSE {})
    \cup (IF "in" \in events /\ (sock # << >> \/ eof \/ rst) THEN {"in"} ELSE {})

Iterating == revents # {} \/ tick \/ closes > 0

\* epoll_wait returns with an event of the socket (writable or not yet), of
\* the timer, or of both.
EpollReturns(out, due) ==
    /\ ~Iterating
    /\ registered
    /\ out => "out" \in events
    /\ due => timer
    /\ revents' = Ready \cup (IF out THEN {"out"} ELSE {})
    /\ tick' = due
    /\ revents' # {} \/ due
    /\ UNCHANGED <<socketVars, st, bufferVars, channelVars, timer, serverVars, closes, gen>>

\* Mutant: a connection that is being served is not closed.
IdleTimeoutSparesBusy ==
    /\ tick
    /\ tick' = FALSE
    /\ timer' = FALSE
    /\ closes' = IF timer /\ st = "READING_HEADERS" THEN closes + 1 ELSE closes
    /\ UNCHANGED <<socketVars, st, bufferVars, channelVars, serverVars, revents, gen>>

\* The idle timer's callback, before or after the socket's event.
IdleTimeout ==
    /\ tick
    /\ tick' = FALSE
    /\ timer' = FALSE
    /\ closes' = IF timer THEN closes + 1 ELSE closes
    /\ UNCHANGED <<socketVars, st, bufferVars, channelVars, serverVars, revents, gen>>

\* DoPendingFunctors: the functor of a ForceClose.
RunForceClose ==
    /\ revents = {} /\ ~tick /\ closes > 0
    /\ closes' = closes - 1
    /\ HandleClose
    /\ UNCHANGED <<socketVars, bufferVars, handled, revents, tick, gen>>

\* Nobody holds the connection any more: the socket is closed, and its number
\* given to the next connection.
Accept ==
    /\ ~registered /\ ~Iterating
    /\ gen < MaxConns
    /\ gen' = gen + 1
    /\ kinds' = << >> /\ toSend' = << >> /\ sock' = << >> /\ received' = << >>
    /\ eof' = FALSE /\ rst' = FALSE
    /\ st' = "READING_HEADERS"
    /\ parser' = Fresh
    /\ input' = << >> /\ output' = << >> /\ file' = 0
    /\ events' = {"in"} /\ added' = TRUE
    /\ timer' = TRUE
    /\ registered' = TRUE /\ handled' = << >>
    /\ UNCHANGED <<upload, revents, tick, closes>>

Over ==
    /\ ~registered /\ ~Iterating
    /\ gen = MaxConns
    /\ UNCHANGED vars

Callback ==
    \/ HandleError
    \/ HandleReadData
    \/ HandleReadEnd
    \/ SendInLoop
    \/ SendFileInLoop

Next ==
    \/ registered /\ ClientStep
    \/ \E out \in BOOLEAN, due \in BOOLEAN : EpollReturns(out, due)
    \/ Callback
    \/ IdleTimeout
    \/ RunForceClose
    \/ Accept
    \/ Over

Spec == Init /\ [][Next]_vars

\* The loop runs: it waits for ready sockets, calls their callbacks and runs
\* what has been queued; no timer need be due.  Of clients it is assumed that
\* they read what they are sent, or reset: a socket the loop wants to write to
\* becomes writable.
FairSpec ==
    /\ Spec
    /\ WF_vars(EpollReturns(TRUE, FALSE) \/ EpollReturns(FALSE, FALSE))
    /\ WF_vars(Callback)
    /\ WF_vars(IdleTimeout)
    /\ WF_vars(RunForceClose)

----------------------------------------------------------------------------
(***************************************************************************)
(* Properties                                                              *)
(***************************************************************************)

Token == [req : 1 .. MaxRequests, part : {"top", "cut", "line", "end", "body"}]
Responses == [req : 1 .. MaxRequests, code : {"router", "400", "413", "500"}]
Parsers == [state : {"REQUEST_LINE", "HEADERS", "BODY", "DONE", "ERROR"},
            req : 0 .. MaxRequests, keep : BOOLEAN, rem : Nat, body : Nat]
Contexts == [gen : 1 .. MaxConns, req : 1 .. MaxRequests, session : BOOLEAN, bytes : Nat]
Handled == [req : 1 .. MaxRequests, body : Nat, stored : BOOLEAN]

ConnTypeOK ==
    /\ kinds \in Seq(Kinds)
    /\ toSend \in Seq(Token) /\ sock \in Seq(Token) /\ input \in Seq(Token)
    /\ received \in Seq(Responses) /\ output \in Seq(Responses)
    /\ st \in {"READING_HEADERS", "READING_BODY_STREAM", "WRITING_RESPONSE",
               "SENDING_FILE", "CLOSED"}
    /\ parser \in Parsers
    /\ upload \in Contexts \cup {None} /\ handled \in Seq(Handled)
    /\ file \in 0 .. MaxFile
    /\ events \subseteq {"in", "out"}
    /\ revents \subseteq {"error", "in", "out"}
    /\ {eof, rst, added, timer, registered, tick} \subseteq BOOLEAN
    /\ closes \in 0 .. 2
    /\ gen \in 1 .. MaxConns

\* uploads_ is keyed by the socket's number, which is used again.  A context
\* in it is of the connection that has the number now and of the request that
\* is being read: no request is given the file of another, however the one
\* before it ended.
UploadContextIsOwn ==
    upload # None =>
        /\ registered
        /\ upload.gen = gen
        /\ upload.req = parser.req

WriteFailed(n) == \E i \in 1 .. Len(output) : output[i] = Response(n, "500")

\* Requests whose body the server reads: those it does not reject for good.
BodyIsRead(k) == k.fault \in {"none", "again", "long"}

\* Requests reach the router in the order they were sent, each at most once,
\* with exactly their own body: however the bytes are split over reads,
\* whatever follows in the same read, and also when a line of the request had
\* been rejected before.  (After a failed write of an upload the router still
\* sees the request, without all of its body.)
HandledInOrderWithBody ==
    /\ \A i \in 1 .. Len(handled) - 1 : handled[i].req < handled[i + 1].req
    /\ \A i \in 1 .. Len(handled) :
         LET k == KindOf(handled[i].req) IN
         BodyIsRead(k) => handled[i].body = k.len \/ WriteFailed(handled[i].req)

\* The parser cannot get past a bad request line, a bad header, or a body it has
\* not read because it is chunked or its length bad.
Sticks(k) ==
    \/ k.fault \in {"line", "header"}
    \/ k.fault \in {"length", "chunked"} /\ k.len > 0

\* Requests that may be answered more than once: those, and the ones of which
\* the parser has rejected a line it then reads again.
Repeats(k) == Sticks(k) \/ k.fault = "again" \/ k.cut > 0

\* The client pairs responses with its requests by their order.  Responses come
\* in the order of the requests, none is left out, also when the client
\* pipelines, and only a request that may be answered more than once is: the
\* i-th response is for the i-th request unless there is such a request before
\* it.  Nothing is answered behind a request the parser cannot get past.
ResponsesPaired ==
    \A i \in 1 .. Len(received) :
        LET n == received[i].req
            previous == IF i = 1 THEN 0 ELSE received[i - 1].req IN
        \/ n = previous + 1 /\ (previous > 0 => ~Sticks(KindOf(previous)))
        \/ n = previous /\ n > 0 /\ Repeats(KindOf(n))

\* A connection the server holds has its idle timer set or a ForceClose queued,
\* so that a silent client cannot keep it for ever.
HeldConnectionIsTimed == registered => timer \/ closes > 0

FirstRequestSent == kinds # << >> /\ (toSend = << >> \/ Len(kinds) > 1)

\* The first request of a connection is answered, or the connection closed,
\* without the help of the idle timer.
FirstRequestAnswered ==
    FirstRequestSent ~> (received # << >> \/ ~registered)

\* When a write of an upload has failed the server answers "Failed to write
\* upload" and drops the connection.  What the request has written so far is
\* nevertheless stored, as if it were the object, when the failed write was
\* the one that completed the body.
StoredUploadIsWhole ==
    \A i \in 1 .. Len(handled) :
        handled[i].stored /\ KindOf(handled[i].req).fault = "none"
            => handled[i].body = KindOf(handled[i].req).len

=============================================================================
