----------------------------- MODULE HttpServer -----------------------------
(***************************************************************************)
(* One connection of Lute::http::HttpServer (app/http): the client's bytes *)
(* reach the connection's input Buffer in TCP segments of any size, and    *)
(* every segment runs HttpServer::onMessage, which drives                  *)
(* HttpContext::parseRequest over the buffer, answers a malformed request  *)
(* line with a 400 and shutdown(), and hands a complete request to         *)
(* onRequest, which builds the response, sends it and shuts down when it   *)
(* asks to close.                                                          *)
(*                                                                         *)
(* Bytes are abstracted to atoms: a word (a run of characters with no      *)
(* space, '?', ':' or CR LF in it, such as "GET" or "/a"), SP, QM, COLON  *)
(* and CRLF.  std::find of ' ', '?' or ':' and findCRLF() find the atom;   *)
(* a segment boundary inside a word or between CR and LF parses like one   *)
(* just before it, so segments are cut between atoms.                      *)
(***************************************************************************)
EXTENDS Naturals, Sequences, SequencesExt, TLC

CONSTANTS
    Requests,       \* requests the client may send (see Serialize)
    MaxRequests,    \* bound: requests the client sends on the connection
    Callback,       \* "default" (detail::defaultHttpCallback) or "app"
    PathHas(_, _)   \* std::string::find: whether path word p contains the text s

ASSUME Callback \in {"default", "app"}

SP == " "
QM == "?"
COLON == ":"
CRLF == "\r\n"

VARIABLES
    sent,           \* requests the client has written, in order
    wire,           \* atoms written by the client and not yet read
    buf,            \* the connection's input Buffer (readable atoms)
    state_,         \* HttpContext::state_
    request_,       \* HttpContext::request_
    conn,           \* TCPConnection state: "kConnected" or "kDisconnecting"
    handled,        \* requests onRequest handed to httpCallback_
    responses,      \* what the server sent while connected
    aborted         \* an assert() failed

vars == <<sent, wire, buf, state_, request_, conn, handled, responses, aborted>>

(***************************************************************************)
(* The client's request: method, path, optional query word, version word, *)
(* header lines [field, value, padL, padR] (whitespace around the value)  *)
(* and body atoms, written out as HTTP/1.x text.                          *)
(***************************************************************************)
HeaderLine(h) ==
    <<h.field, COLON>> \o (IF h.padL THEN <<SP>> ELSE <<>>)
        \o <<h.value>> \o (IF h.padR THEN <<SP>> ELSE <<>>)

Serialize(r) ==
    <<r.method, SP, r.path>> \o (IF r.query = <<>> THEN <<>> ELSE <<QM>> \o r.query)
        \o <<SP, r.version, CRLF>>
        \o FlattenSeq([i \in 1..Len(r.headers) |-> HeaderLine(r.headers[i]) \o <<CRLF>>])
        \o <<CRLF>> \o r.body

(***************************************************************************)
(* HttpRequest.                                                           *)
(***************************************************************************)
MethodTable ==
    "GET" :> "kGet" @@ "POST" :> "kPost" @@ "HEAD" :> "kHead"
        @@ "PUT" :> "kPut" @@ "DELETE" :> "kDelete"

\* The method the string made of the atoms ws names (setMethod).
MethodOf(ws) ==
    IF Len(ws) = 1 /\ ws[1] \in DOMAIN MethodTable THEN MethodTable[ws[1]]
    ELSE "kInvalid"

\* The version the atoms after the second space name: exactly 8 characters
\* "HTTP/1." followed by '1' or '0'.
VersionTable == "HTTP/1.1" :> "kHttp11" @@ "HTTP/1.0" :> "kHttp10"

FreshRequest ==
    [method |-> "kInvalid", version |-> "kUnknown", path |-> <<>>,
     query |-> <<>>, headers |-> <<>>, body |-> <<>>]

IsSP(a) == a = SP
IsCRLF(a) == a = CRLF

\* Mutant: addHeader skips the whitespace before the value but keeps the
\* whitespace after it.
AddHeaderNoTrailingTrim(rq, line, colon) ==
    LET rest  == SubSeq(line, colon + 1, Len(line))
        first == SelectInSeq(rest, LAMBDA a : a # SP)
        value == IF first = 0 THEN <<>> ELSE SubSeq(rest, first, Len(rest))
    IN  [rq EXCEPT !.headers = (SubSeq(line, 1, colon - 1) :> value) @@ @]

\* HttpRequest::addHeader(start, colon, end): the field before the colon,
\* the value after it with leading and trailing whitespace removed.
AddHeader(rq, line, colon) ==
    LET rest  == SubSeq(line, colon + 1, Len(line))
        first == SelectInSeq(rest, LAMBDA a : a # SP)
        last  == SelectLastInSeq(rest, LAMBDA a : a # SP)
        value == IF first = 0 THEN <<>> ELSE SubSeq(rest, first, last)
    IN  [rq EXCEPT !.headers = (SubSeq(line, 1, colon - 1) :> value) @@ @]

\* HttpRequest::getHeader(field)
GetHeader(rq, field) ==
    IF field \in DOMAIN rq.headers THEN rq.headers[field] ELSE <<>>

(***************************************************************************)
(* HttpContext.                                                           *)
(***************************************************************************)

\* HttpContext::processRequestLine(begin, end) on the atoms of one line:
\* METHOD SP PATH[?QUERY] SP VERSION.  setMethod asserts the request has no
\* method yet; `abort` records that assert failing.
ProcessRequestLine(rq, line) ==
    LET sp1 == SelectInSeq(line, IsSP)
        m   == MethodOf(SubSeq(line, 1, sp1 - 1))
        rq1 == [rq EXCEPT !.method = m]
        rest == SubSeq(line, sp1 + 1, Len(line))
        sp2 == SelectInSeq(rest, IsSP)
        target == SubSeq(rest, 1, sp2 - 1)
        q   == SelectInSeq(target, LAMBDA a : a = QM)
        rq2 == IF q # 0
               THEN [rq1 EXCEPT !.path = SubSeq(target, 1, q - 1),
                                !.query = SubSeq(target, q, Len(target))]
               ELSE [rq1 EXCEPT !.path = target]
        ver == SubSeq(rest, sp2 + 1, Len(rest))
        ok  == Len(ver) = 1 /\ ver[1] \in DOMAIN VersionTable
    IN  CASE sp1 = 0 -> [ok |-> FALSE, req |-> rq, abort |-> FALSE]
          [] m = "kInvalid" \/ sp2 = 0 ->
                [ok |-> FALSE, req |-> rq1, abort |-> rq.method # "kInvalid"]
          [] OTHER ->
                [ok |-> ok, abort |-> rq.method # "kInvalid",
                 req |-> IF ok THEN [rq2 EXCEPT !.version = VersionTable[ver[1]]]
                         ELSE rq2]

\* Mutant: the header branch leaves the loop after each header line.
RECURSIVE ParseLoopStopsAfterHeader(_)
ParseLoopStopsAfterHeader(p) ==
    LET crlf == SelectInSeq(p.buf, IsCRLF)
        line == SubSeq(p.buf, 1, crlf - 1)
        rest == SubSeq(p.buf, crlf + 1, Len(p.buf))
        colon == SelectInSeq(line, LAMBDA a : a = COLON)
        r == ProcessRequestLine(p.req, line)
    IN  CASE p.state = "kExpectRequestLine" ->
               IF crlf = 0 THEN p
               ELSE IF r.abort THEN [p EXCEPT !.abort = TRUE]
               ELSE IF r.ok
                    THEN ParseLoopStopsAfterHeader([p EXCEPT !.req = r.req, !.buf = rest,
                                                            !.state = "kExpectHeaders"])
                    ELSE [p EXCEPT !.req = r.req, !.ok = FALSE]
          [] p.state = "kExpectHeaders" ->
               IF crlf = 0 THEN p
               ELSE IF colon # 0
                    THEN [p EXCEPT !.req = AddHeader(p.req, line, colon), !.buf = rest]
                    ELSE ParseLoopStopsAfterHeader([p EXCEPT !.state = "kExpectBody", !.buf = rest])
          [] p.state = "kExpectBody" ->
               [p EXCEPT !.req = IF p.buf # <<>> THEN [p.req EXCEPT !.body = p.buf]
                                 ELSE p.req,
                         !.buf = <<>>, !.state = "kGotAll"]

\* The `while (hasMore)` loop of HttpContext::parseRequest on the record
\* p = [state, req, buf, ok, abort].  A line is what precedes the first
\* CRLF; retrieveUntil(crlf + 2) drops it with its CRLF.  A header line
\* with no colon ends the headers; the body is whatever is readable.
\* (A call in kGotAll would spin forever; onMessage never makes one.)
RECURSIVE ParseLoop(_)
ParseLoop(p) ==
    LET crlf == SelectInSeq(p.buf, IsCRLF)
        line == SubSeq(p.buf, 1, crlf - 1)
        rest == SubSeq(p.buf, crlf + 1, Len(p.buf))
        colon == SelectInSeq(line, LAMBDA a : a = COLON)
        r == ProcessRequestLine(p.req, line)
    IN  CASE p.state = "kExpectRequestLine" ->
               IF crlf = 0 THEN p
               ELSE IF r.abort THEN [p EXCEPT !.abort = TRUE]
               ELSE IF r.ok
                    THEN ParseLoop([p EXCEPT !.req = r.req, !.buf = rest,
                                             !.state = "kExpectHeaders"])
                    ELSE [p EXCEPT !.req = r.req, !.ok = FALSE]
          [] p.state = "kExpectHeaders" ->
               IF crlf = 0 THEN p
               ELSE IF colon # 0
                    THEN ParseLoop([p EXCEPT !.req = AddHeader(p.req, line, colon),
                                             !.buf = rest])
                    ELSE ParseLoop([p EXCEPT !.state = "kExpectBody", !.buf = rest])
          [] p.state = "kExpectBody" ->
               [p EXCEPT !.req = IF p.buf # <<>> THEN [p.req EXCEPT !.body = p.buf]
                                 ELSE p.req,
                         !.buf = <<>>, !.state = "kGotAll"]

\* Mutant: reset() clears the request but leaves the parse state alone.
ResetKeepsState(rq) ==
    [state |-> "kGotAll", req |-> FreshRequest]

\* Mutant: reset() returns to kExpectRequestLine but keeps the old request.
ResetKeepsRequest(rq) ==
    [state |-> "kExpectRequestLine", req |-> rq]

\* HttpContext::reset(): back to kExpectRequestLine with a fresh request.
Reset(rq) ==
    [state |-> "kExpectRequestLine", req |-> FreshRequest]

(***************************************************************************)
(* HttpServer.                                                            *)
(***************************************************************************)

\* Mutant: only "Connection: close" closes; HTTP/1.0 is kept alive too.
CloseRequestedHeaderOnly(rq) ==
    GetHeader(rq, <<"Connection">>) = <<"close">>

\* HttpServer::onRequest: keep-alive unless "Connection: close", or
\* HTTP/1.0 without "Connection: Keep-Alive".
CloseRequested(rq) ==
    \/ GetHeader(rq, <<"Connection">>) = <<"close">>
    \/ rq.version = "kHttp10" /\ GetHeader(rq, <<"Connection">>) # <<"Keep-Alive">>

(* Application::onRequest's routing (app.cc): the pages "/",            *)
(* "/index.html", "/register" and "/welcome", any path containing ".jpg" *)
(* and a GET of a path containing "/login" are answered 200 (whatever the *)
(* file, form or database lookup gives for the body); anything else gets  *)
(* 404.  The body is not modelled.                                        *)
AppStatus(rq) ==
    IF \/ rq.path \in {<<"/">>, <<"/index.html">>, <<"/register">>, <<"/welcome">>}
       \/ \E i \in DOMAIN rq.path : PathHas(rq.path[i], ".jpg")
       \/ rq.method = "kGet" /\ \E i \in DOMAIN rq.path : PathHas(rq.path[i], "/login")
    THEN 200 ELSE 404

\* The response the callback builds, starting from onRequest's
\* HttpResponse(close): detail::defaultHttpCallback answers 404 and forces
\* close; the application sets the status of its route and forces close
\* on its 404 page (setCloseConnection(true)).
Respond(rq) ==
    IF Callback = "default" THEN [status |-> 404, close |-> TRUE]
    ELSE LET st == AppStatus(rq)
         IN  [status |-> st, close |-> CloseRequested(rq) \/ st = 404]

\* TCPConnection::send queues data only while kConnected; shutdown()
\* moves kConnected to kDisconnecting.
Send(r) == IF conn = "kConnected" THEN Append(responses, r) ELSE responses

Init ==
    /\ sent = <<>>
    /\ wire = <<>>
    /\ buf = <<>>
    /\ state_ = "kExpectRequestLine"
    /\ request_ = FreshRequest
    /\ conn = "kConnected"
    /\ handled = <<>>
    /\ responses = <<>>
    /\ aborted = FALSE

\* The client writes request r once every earlier request was answered and
\* no answer asked to close (it does not pipeline).
ClientSend(r) ==
    /\ Len(sent) < MaxRequests
    /\ Len(responses) = Len(sent)
    /\ \A i \in 1..Len(responses) : responses[i].status # 400 /\ ~responses[i].close
    /\ sent' = Append(sent, r)
    /\ wire' = wire \o Serialize(r)
    /\ UNCHANGED <<buf, state_, request_, conn, handled, responses, aborted>>

\* A segment of the first k atoms on the wire is read into the input
\* buffer (TCPConnection::handleRead) and HttpServer::onMessage runs:
\* parseRequest; on failure send a 400 and shutdown(); when the request is
\* complete, onRequest (callback, send, shutdown on close) and reset().
onMessage ==
    /\ ~aborted
    /\ \E k \in 1..Len(wire) :
        LET p == ParseLoop([state |-> state_, req |-> request_, ok |-> TRUE,
                            abort |-> FALSE, buf |-> buf \o SubSeq(wire, 1, k)])
            resp == Respond(p.req)
            next == IF p.ok /\ p.state = "kGotAll" THEN Reset(p.req)
                    ELSE [state |-> p.state, req |-> p.req]
        IN  /\ wire' = SubSeq(wire, k + 1, Len(wire))
            /\ buf' = p.buf
            /\ aborted' = p.abort
            /\ state_' = next.state
            /\ request_' = next.req
            /\ CASE p.abort ->
                      UNCHANGED <<conn, handled, responses>>
                 [] ~p.ok ->
                      /\ responses' = Send([status |-> 400, close |-> TRUE])
                      /\ conn' = "kDisconnecting"
                      /\ UNCHANGED handled
                 [] p.state = "kGotAll" ->
                      /\ handled' = Append(handled, p.req)
                      /\ responses' = Send(resp)
                      /\ conn' = IF resp.close THEN "kDisconnecting" ELSE conn
                 [] OTHER ->
                      UNCHANGED <<conn, handled, responses>>
    /\ UNCHANGED sent

Next ==
    \/ \E r \in Requests : ClientSend(r)
    \/ onMessage

\* The steps that read atoms off the wire.  Under [][Next]_vars these are
\* exactly the onMessage steps (ClientSend only lengthens the wire), and
\* both are enabled exactly when the wire is non-empty and nothing has
\* aborted, so WF_wire(ReadsWire) is WF_vars(onMessage); it is stated this
\* way so that TLC need not run the parser to decide enabledness.
ReadsWire == ~aborted /\ \E k \in 1..Len(wire) : wire' = SubSeq(wire, k + 1, Len(wire))

\* The loop thread reads every segment that arrives (weak fairness of the
\* poller and the read handler).
Spec == Init /\ [][Next]_vars /\ WF_wire(ReadsWire)

(***************************************************************************)
(* What the client meant: the request of spec.md's grammar                *)
(*   METHOD SP PATH[?QUERY] SP HTTP/1.X CRLF (FIELD ":" OWS VALUE OWS      *)
(*   CRLF)* CRLF BODY?                                                     *)
(* read off the record the client wrote, independent of the parser.      *)
(***************************************************************************)
Valid(r) == r.method \in DOMAIN MethodTable /\ r.version \in DOMAIN VersionTable

Meant(r) ==
    [method  |-> MethodTable[r.method],
     version |-> VersionTable[r.version],
     path    |-> <<r.path>>,
     query   |-> IF r.query = <<>> THEN <<>> ELSE <<QM>> \o r.query,
     headers |-> FoldLeft(LAMBDA acc, h : (<<h.field>> :> <<h.value>>) @@ acc,
                          <<>>, r.headers),
     body    |-> r.body]

\* The value of the last "Connection" header the client wrote.
ConnectionHeader(r) ==
    LET i == SelectLastInSeq(r.headers, LAMBDA h : h.field = "Connection")
    IN  IF i = 0 THEN "" ELSE r.headers[i].value

\* The status the route the client wrote calls for (app.cc's routes read
\* off the client's record).
MeantStatus(r) ==
    IF Callback = "default" THEN 404
    ELSE IF \/ r.path \in {"/", "/index.html", "/register", "/welcome"}
            \/ PathHas(r.path, ".jpg")
            \/ r.method = "GET" /\ PathHas(r.path, "/login")
         THEN 200 ELSE 404

\* spec.md: close when the response mandates it (every 404 here), the
\* request says "Connection: close", or it is HTTP/1.0 without
\* "Connection: Keep-Alive".
MeantClose(r) ==
    \/ MeantStatus(r) = 404
    \/ ConnectionHeader(r) = "close"
    \/ r.version = "HTTP/1.0" /\ ConnectionHeader(r) # "Keep-Alive"

(***************************************************************************)
(* Properties.                                                            *)
(***************************************************************************)
TypeOK ==
    /\ sent \in Seq(Requests)
    /\ state_ \in {"kExpectRequestLine", "kExpectHeaders", "kExpectBody"}
    /\ conn \in {"kConnected", "kDisconnecting"}
    /\ \A i \in 1..Len(responses) :
         responses[i] \in [status : {200, 400, 404}, close : BOOLEAN]
    /\ aborted \in BOOLEAN

\* No assert() fires in the parser (setMethod's "no method yet").
NoAbort == ~aborted

\* The requests HttpContext hands to the callback are exactly the
\* well-formed requests the client wrote, in order, with the method, path,
\* query, version, trimmed header values and body the client put in them,
\* however TCP cut the bytes into segments.
RequestsFaithful ==
    LET valid == SelectSeq(sent, Valid)
    IN  /\ Len(handled) <= Len(valid)
        /\ \A i \in 1..Len(handled) : handled[i] = Meant(valid[i])

\* The i-th response the client receives answers its i-th request: a 400
\* exactly for a malformed request line, otherwise the status of the route
\* the client asked for, with the connection closed exactly when the
\* request or the 404 page asked for it (HttpServer::onRequest's
\* keep-alive rule and the application's setCloseConnection).
ResponsesMatch ==
    /\ Len(responses) <= Len(sent)
    /\ \A i \in 1..Len(responses) :
         /\ responses[i].status = 400 <=> ~Valid(sent[i])
         /\ Valid(sent[i]) => /\ responses[i].status = MeantStatus(sent[i])
                              /\ responses[i].close = MeantClose(sent[i])

\* Every request the client writes is eventually answered: parseRequest
\* never leaves a complete request sitting in the input buffer.
EveryRequestAnswered ==
    \A n \in 1..MaxRequests : Len(sent) >= n ~> Len(responses) >= n
=============================================================================
