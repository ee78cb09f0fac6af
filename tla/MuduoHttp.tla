------------------------------- MODULE MuduoHttp -------------------------------
(***************************************************************************)
(* muduo/net/http: HttpContext parses the requests of one connection from  *)
(* a buffer that TCP fills in pieces, HttpServer answers them with the     *)
(* callback of tests/HttpServer_test.cc.  A line of the stream is two      *)
(* tokens, its text and its CRLF, and a piece may end after either.        *)
(***************************************************************************)
EXTENDS Integers, Sequences, SequencesExt

CONSTANTS Streams   \* the sequences of lines a client may send

\* The lines.  Only the parts that the parser tells apart are kept: a request
\* line has no colon, a header line no valid method.
RequestLine(method, path, version) ==
  [kind |-> "request", method |-> method, path |-> path, version |-> version]
HeaderLine(field, value) == [kind |-> "header", field |-> field, value |-> value]
EmptyLine == [kind |-> "empty"]
CRLF == [kind |-> "crlf"]

VARIABLES stream,    \* the lines the client sends
          wire,      \* the tokens that have not been received
          conn,      \* the buffer, the HttpContext and the socket
          answers,   \* what the server has sent
          burst      \* history: some piece called for more than one answer

httpVars == <<stream, wire, conn, answers, burst>>

NoRequest == [method |-> "invalid", path |-> "", version |-> "unknown", connection |-> ""]

\* onConnection: a new context.
HttpInit ==
  /\ stream \in Streams
  /\ wire = FlattenSeq([k \in DOMAIN stream |-> <<stream[k], CRLF>>])
  /\ conn = [buf |-> << >>, state |-> "line", request |-> NoRequest,
             down |-> FALSE, aborted |-> FALSE]
  /\ answers = << >> /\ burst = FALSE

----------------------------------------------------------------------------
(* HttpContext *)

Methods == {"GET", "POST", "HEAD", "PUT", "DELETE"}

\* setMethod asserts that there is no method yet, and leaves one even when
\* the rest of the line is bad.
ProcessRequestLine(request, line) ==
  LET method == IF line.kind = "request" /\ line.method \in Methods THEN line.method ELSE "invalid"
      ok     == method # "invalid" /\ line.version \in {"1.0", "1.1"}
  IN  [ok |-> ok, aborted |-> request.method # "invalid",
       request |-> IF method = "invalid" THEN [request EXCEPT !.method = method]
                   ELSE [request EXCEPT !.method = method, !.path = line.path,
                                        !.version = IF ok THEN line.version ELSE @]]

AddHeader(request, line) ==
  IF line.field = "Connection" THEN [request EXCEPT !.connection = line.value] ELSE request

\* Mutant: a request that has begun is parsed from its next line as a new one.
RECURSIVE ParseRequestForgets(_)
ParseRequestForgets(c) ==
  IF Len(c.buf) < 2 \/ c.aborted THEN [ctx |-> [c EXCEPT !.state = "line", !.request = NoRequest], ok |-> TRUE]
  ELSE IF c.state = "line"
  THEN LET p == ProcessRequestLine(c.request, c.buf[1])
           d == [c EXCEPT !.request = p.request, !.aborted = p.aborted]
       IN  IF ~p.ok THEN [ctx |-> d, ok |-> FALSE]
           ELSE ParseRequestForgets([d EXCEPT !.buf = SubSeq(@, 3, Len(@)), !.state = "headers"])
  ELSE LET line == c.buf[1]
           d    == [c EXCEPT !.buf = SubSeq(@, 3, Len(@))]
       IN  IF line.kind = "header" THEN ParseRequestForgets([d EXCEPT !.request = AddHeader(@, line)])
           ELSE [ctx |-> [d EXCEPT !.state = "all"], ok |-> TRUE]

\* parseRequest: the buffer holds no whole line, or begins with a line and its
\* CRLF.  A bad request line stays in the buffer.
RECURSIVE ParseRequest(_)
ParseRequest(c) ==
  IF Len(c.buf) < 2 \/ c.aborted THEN [ctx |-> c, ok |-> TRUE]
  ELSE IF c.state = "line"
  THEN LET p == ProcessRequestLine(c.request, c.buf[1])
           d == [c EXCEPT !.request = p.request, !.aborted = p.aborted]
       IN  IF ~p.ok THEN [ctx |-> d, ok |-> FALSE]
           ELSE ParseRequest([d EXCEPT !.buf = SubSeq(@, 3, Len(@)), !.state = "headers"])
  ELSE LET line == c.buf[1]
           d    == [c EXCEPT !.buf = SubSeq(@, 3, Len(@))]
       IN  IF line.kind = "header" THEN ParseRequest([d EXCEPT !.request = AddHeader(@, line)])
           ELSE [ctx |-> [d EXCEPT !.state = "all"], ok |-> TRUE]

ResetContext(c) == [c EXCEPT !.state = "line", !.request = NoRequest]

----------------------------------------------------------------------------
(* HttpServer *)

\* The callback of the test server, on a response that closes or not.
OnHttp(request, close) ==
  IF request.path \in {"/", "/favicon.ico", "/hello"}
  THEN [status |-> 200, close |-> close, path |-> request.path]
  ELSE [status |-> 404, close |-> TRUE, path |-> request.path]

BadRequest == [status |-> 400, close |-> TRUE, path |-> ""]

\* HttpServer::onRequest up to the response.
OnRequest(request) ==
  OnHttp(request, \/ request.connection = "close"
                  \/ request.version = "1.0" /\ request.connection # "Keep-Alive")

\* appendToBuffer, send and shutdown.  After a shutdown nothing is sent.
SendAnswer(out, down, answer) == IF down THEN out ELSE Append(out, answer)

HttpMessage(piece) ==
  LET parsed == ParseRequest([conn EXCEPT !.buf = @ \o piece])
      ctx    == parsed.ctx
      out1   == IF parsed.ok THEN answers ELSE SendAnswer(answers, conn.down, BadRequest)
      down1  == conn.down \/ ~parsed.ok
      answer == OnRequest(ctx.request)
  IN  IF ctx.aborted THEN conn' = ctx /\ UNCHANGED answers
      ELSE IF ctx.state = "all"
      THEN /\ answers' = SendAnswer(out1, down1, answer)
           /\ conn' = [ResetContext(ctx) EXCEPT !.down = down1 \/ answer.close]
      ELSE answers' = out1 /\ conn' = [ctx EXCEPT !.down = down1]

\* What a server that sees these lines all at once answers.
RECURSIVE ReferenceAnswers(_)
ReferenceAnswers(lines) ==
  IF lines = << >> THEN << >>
  ELSE LET first == Head(lines)
           ends  == {k \in 2 .. Len(lines) : lines[k].kind # "header"}
           last  == CHOOSE k \in ends : \A j \in ends : k =< j
           said  == {k \in 2 .. last - 1 : lines[k].field = "Connection"}
           final == lines[CHOOSE k \in said : \A j \in said : j =< k].value
           reply == OnRequest([method |-> first.method, path |-> first.path, version |-> first.version,
                               connection |-> IF said = {} THEN "" ELSE final])
       IN  IF first.kind # "request" THEN <<BadRequest>>
           ELSE IF first.method \notin Methods \/ first.version \notin {"1.0", "1.1"} THEN <<BadRequest>>
           ELSE IF ends = {} THEN << >>
           ELSE IF reply.close THEN <<reply>>
           ELSE <<reply>> \o ReferenceAnswers(SubSeq(lines, last + 1, Len(lines)))

LinesOf(tokens) == SelectSeq(tokens, LAMBDA t : t.kind # "crlf")
Received(tokens) == LinesOf(SubSeq(tokens, 1, 2 * (Len(tokens) \div 2)))

All == FlattenSeq([k \in DOMAIN stream |-> <<stream[k], CRLF>>])
Got == Received(SubSeq(All, 1, Len(All) - Len(wire)))

Receive(n) ==
  /\ ~conn.aborted /\ n =< Len(wire)
  /\ UNCHANGED stream
  /\ HttpMessage(SubSeq(wire, 1, n))
  /\ wire' = SubSeq(wire, n + 1, Len(wire))
  /\ burst' = (burst \/ Len(ReferenceAnswers(Got')) > Len(ReferenceAnswers(Got)) + 1)

HttpNext == \E n \in 1 .. Len(wire) : Receive(n)

----------------------------------------------------------------------------
(* Properties *)

(* However the stream is cut into pieces, the answers are those to its     *)
(* requests taken one after the other: nothing of one request (its method, *)
(* a Connection header) reaches the next (HttpContext.cc:55, HttpServer.cc:68). *)
CutsDoNotMatter == IsPrefix(answers, ReferenceAnswers(LinesOf(All)))

(* Unless a piece calls for two answers, every complete request has been  *)
(* answered when onMessage returns; with pipelining the server parses only *)
(* one request per call and the rest waits for more data.                  *)
AnsweredAtOnce == ~burst /\ ~conn.aborted => answers = ReferenceAnswers(Got)

(* The assertion of setMethod (HttpRequest.h:55) fails only on a           *)
(* connection the server has shut down already: a bad line stays in the    *)
(* buffer with its method set, and is parsed again when more data arrives. *)
AbortsOnlyWhenDown == conn.aborted => conn.down

(* The same requests are answered wherever the stream is cut, at once, and *)
(* the assertions of HttpRequest fail only behind an answer that has ended *)
(* the connection (HttpContext.cc:64, HttpServer.cc:63-85).                *)
HttpExact == CutsDoNotMatter /\ AnsweredAtOnce /\ AbortsOnlyWhenDown
=============================================================================
