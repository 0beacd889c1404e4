---------------------------- MODULE Http1Exchange ----------------------------
(***************************************************************************)
(* The HTTP/1.1 keep-alive loop of every program that has one: HandleClient *)
(* for plain requests, proxyExchange and Http1Engine::process for those of *)
(* a decrypted connection.  One thread reads a request, sends it on, reads *)
(* the response, sends it back, and decides whether to go on.  It never    *)
(* reads from both sides at once.  Where the programs differ is said by    *)
(* the records of Http1Loops; the lines below are mapped to the program    *)
(* that shows them best.                                                   *)
(*                                                                         *)
(* What travels are pieces of messages: the head, the pieces of the body,  *)
(* and the last chunk of a chunked body.  What a SockReader has read ahead *)
(* and what is still in the kernel are one queue.  The peers frame their   *)
(* messages correctly; they may end, answer early or fall silent.  A body  *)
(* is text that holds no header and no head of its own.                    *)
(***************************************************************************)
EXTENDS Integers, Sequences, FiniteSets, Http1Loops

CONSTANTS
    Checked,    \* the programs of Http1Loops
    Host,       \* the hosts that requests name
    MaxReq,     \* requests on one client connection
    Requests,   \* the requests a client may send
    Responses,  \* the responses an origin may give
    Cap,        \* capture limit of SockReader, in pieces
    Peer        \* "info": the origin may send a 1xx response first

VARIABLES
    program,
    pc,         \* where the loop is
    cur,        \* the request the loop is at
    left,       \* pieces of the body still to forward; 1 until the last chunk
    resp,       \* the response head that was read
    up,         \* the connection to the origin
    cin,        \* the pieces from the client not read yet
    cl,         \* the client: requests begun, pieces of the last one sent, gone
    reqs,       \* the requests the client has begun
    resps,      \* the response to each request, once the origin has begun it
    got,        \* everything the client was sent
    seen,       \* everything the origins were sent
    captured,   \* the pieces of the request body captured so far
    log         \* the calls of TrafficAnalyzer, or of logUpload

vars == <<program, pc, cur, left, resp, up, cin, cl, reqs, resps, got, seen, captured, log>>

Msg == 1..MaxReq

(* A message: mode is what its headers say about the body ("error": a head *)
(* that this program refuses), len the pieces, target the host, conn its   *)
(* Connection header ("1.0": none, and HTTP/1.0).  POST stands for an       *)
(* upload: a method with a body, and multipart/form-data.                  *)
Connections == {"keep", "close", "1.0"}
Target == Host \cup {"tunnel", ""}
Request == [method : {"GET", "HEAD", "POST"}, mode : {"none", "length", "chunked", "error"},
            len : Nat, target : Target, conn : Connections]
Response == [status : {"info", "empty", "ok"}, mode : {"length", "chunked", "until"},
             len : Nat, conn : Connections]

ASSUME ExchangeAssumption ==
    /\ Checked \subseteq Programs /\ Peer \subseteq {"info"}
    /\ MaxReq \in Nat /\ Cap \in Nat
    /\ Requests \subseteq Request /\ Responses \subseteq Response
    /\ \A r \in Responses : r.status # "info"

noRequest == [method |-> "GET", mode |-> "none", len |-> 0, target |-> "", conn |-> "keep"]
info == [status |-> "info", mode |-> "length", len |-> 0, conn |-> "keep"]

Piece(i, kind, n) == [msg |-> i, kind |-> kind, n |-> n]
errorReply == Piece(0, "error", 0)

Self == LoopOf[program]

\* Mutant: no receive timeout is set.
HasTimeout_None(side) == FALSE
\* The connections that have SO_RCVTIMEO.
HasTimeout(side) == side \in Self.timeouts

\* The pieces that follow a head, and the n-th of them.
Pieces(m) == IF m.mode = "chunked" THEN m.len + 1
             ELSE IF m.mode \in {"length", "until"} THEN m.len ELSE 0
PieceOf(i, m, n) ==
    Piece(i, IF m.mode = "chunked" /\ n > m.len THEN "last" ELSE "data", n)

\* A response to HEAD, and 1xx, 204 and 304, have no body whatever they say.
Bodiless(req, r) == req.method = "HEAD" \/ r.status # "ok"
SentPieces(i) == IF Bodiless(reqs[i], resps[i]) THEN 0 ELSE Pieces(resps[i])

newConnection(t) == [st |-> "open", target |-> t, todo |-> <<>>, ans |-> 0, sent |-> 0,
                     out |-> <<>>, fin |-> FALSE, informed |-> FALSE]
noConnection == [newConnection("") EXCEPT !.st = "none"]

\* Inside a TLS session the connection to the origin is there.
Init ==
    /\ program \in Representatives(Checked)
    /\ pc = "reqHead" /\ cur = 0 /\ left = 0 /\ resp = info
    /\ up = IF Self.upstream = "session" THEN newConnection("tunnel") ELSE noConnection
    /\ cin = <<>> /\ cl = [n |-> 0, sent |-> 0, gone |-> FALSE]
    /\ reqs = [i \in Msg |-> noRequest] /\ resps = [i \in Msg |-> info]
    /\ got = <<>> /\ seen = <<>> /\ captured = 0 /\ log = <<>>

-----------------------------------------------------------------------------
(* The request.                                                            *)

\* Mutant: the connection is kept whatever host it leads to.
NeedsConnect_Once(r) == up.st = "none"
NeedsConnect(r) == Self.upstream # "session" /\ (up.st = "none" \/ up.target # r.target)

HeadRead == pc = "reqHead" /\ cin # <<>> /\ Head(cin).kind = "head"

\* readHead, the framing, and a connection to the right origin.
TakeRequest ==
    LET i == Head(cin).msg
        r == reqs[i]
    IN
    /\ HeadRead /\ r.mode # "error"
    /\ pc' = "sendHead" /\ cur' = i /\ cin' = Tail(cin)
    /\ up' = IF NeedsConnect(r) THEN newConnection(r.target) ELSE up
    /\ UNCHANGED <<program, left, resp, cl, reqs, resps, got, seen, captured, log>>

\* Mutant: the loop goes on to the next request after the reply.
Closed_Continue(reply) ==
    /\ pc' = "reqHead"
    /\ got' = IF cl.gone THEN got ELSE got \o reply
    /\ UNCHANGED <<program, cur, left, resp, up, cin, cl, reqs, resps, seen, captured, log>>
\* The connection is given up.  The client may be told why.
Closed(reply) ==
    /\ pc' = "done"
    /\ got' = IF cl.gone THEN got ELSE got \o reply
    /\ UNCHANGED <<program, cur, left, resp, up, cin, cl, reqs, resps, seen, captured, log>>
Reply(failure) == IF Self.fails[failure] \in {"400", "502"} THEN <<errorReply>> ELSE <<>>

\* The loop is at the rest of a body that it did not send on.  It may wait there
\* for the end of a line, or for the line after the last chunk.
Unread == pc = "reqHead" /\ cin # <<>> /\ ~HeadRead
Unended == Unread /\ (Len(cin) = 1 \/ \A k \in 1..Len(cin) : cin[k].kind = "data")

\* readHead takes that rest, and the next request's start line, for one line: the
\* method is one that nobody knows, for which GET stands.  An empty line, which
\* may be all that is left of the last chunk, it skips.
TakeUnread ==
    \E k \in 2..Len(cin) :
        LET i == cur + 1 IN
        /\ Unread /\ cin[k] = Piece(i, "head", 0)
        /\ k = 2 \/ \A j \in 1..k - 1 : cin[j].kind = "data"
        /\ reqs[i].mode # "error"
        /\ pc' = "sendHead" /\ cur' = i /\ cin' = SubSeq(cin, k + 1, Len(cin))
        /\ up' = IF NeedsConnect(reqs[i]) THEN newConnection(reqs[i].target) ELSE up
        /\ reqs' = IF cin[1].kind = "last" THEN reqs ELSE [reqs EXCEPT ![i].method = "GET"]
        /\ UNCHANGED <<program, left, resp, cl, resps, got, seen, captured, log>>

\* readHead gives up silently, also on the rest of a body; a bad request and a
\* failed connect may be answered.
RefuseRequest ==
    /\ pc = "reqHead" /\ cin # <<>> /\ ~Unended
    /\ LET r == reqs[Head(cin).msg] IN
       \/ (r.mode = "error" \/ ~HeadRead) /\ Closed(<<>>)
       \/ HeadRead /\ r.mode = "error" /\ Closed(Reply("framing"))
       \/ HeadRead /\ r.mode # "error" /\ NeedsConnect(r) /\ Closed(Reply("connect"))
\* The rest of a body may hold lines, which are no head.
RefuseUnended == Unended /\ Closed(<<>>)

\* A piece for the origin; one that has closed does not answer it.
SendUp(piece) ==
    /\ seen' = Append(seen, [to |-> up.target, piece |-> piece])
    /\ up' = IF up.fin \/ piece.kind # "head" THEN up
             ELSE [up EXCEPT !.todo = Append(@, piece.msg)]

Inspected(i) == Self.inspects = "all" \/ (Self.inspects = "uploads" /\ reqs[i].method = "POST")

\* Mutant: the capture counts as whole when its last piece was the last that fits.
Truncated_Later(r, n) == n > Cap
\* logUpload: is the capture, of n pieces, said to be cut?
Truncated(r, n) ==
    n >= Cap /\ (Self.truncated = "longer" => r.mode = "chunked" \/ r.len > Cap)

\* Mutant: the analyzer is not called for a request.
Analyzed_Never(i, n) == log
\* analyzeRequest and logUpload, once the request was sent.
Analyzed(i, n) ==
    IF Inspected(i)
    THEN Append(log, [of |-> "request", msg |-> i, n |-> n, cut |-> Truncated(reqs[i], n)])
    ELSE log

SendHead ==
    LET r == reqs[cur]
        whole == Pieces(r) = 0
    IN
    /\ pc = "sendHead" /\ SendUp(Piece(cur, "head", 0))
    /\ pc' = IF whole THEN "respHead" ELSE "reqBody"
    /\ left' = IF r.mode = "length" THEN r.len ELSE 1
    /\ captured' = 0
    /\ log' = IF whole THEN Analyzed(cur, 0) ELSE log
    /\ UNCHANGED <<program, cur, resp, cin, cl, reqs, resps, got>>

\* One piece less; a chunked body ends with its last chunk.
After(mode, piece) ==
    IF mode = "length" THEN left - 1 ELSE IF piece.kind = "last" THEN 0 ELSE 1

\* Mutant: the limit is not looked at.
Captured_All(piece) == IF piece.kind = "data" THEN captured + 1 ELSE captured
\* The first pieces of the body are kept.
Captured(piece) == IF Inspected(cur) /\ piece.kind = "data" /\ captured < Cap THEN captured + 1
                   ELSE captured

\* forwardExact, forwardChunked.
ForwardRequest ==
    LET piece == Head(cin)
        rest == After(reqs[cur].mode, piece)
        cap == Captured(piece)
    IN
    /\ pc = "reqBody" /\ cin # <<>> /\ SendUp(piece)
    /\ cin' = Tail(cin) /\ left' = rest /\ captured' = cap
    /\ pc' = IF rest = 0 THEN "respHead" ELSE "reqBody"
    /\ log' = IF rest = 0 THEN Analyzed(cur, cap) ELSE log
    /\ UNCHANGED <<program, cur, resp, cl, reqs, resps, got>>

\* The body did not get through.  Where that is not looked at, what came of it
\* is logged, and the loop goes on to the response.
BodyFailed ==
    \/ Self.fails["reqBody"] = "close" /\ Closed(<<>>)
    \/ /\ Self.fails["reqBody"] = "goOn"
       /\ pc' = "respHead" /\ log' = Analyzed(cur, captured)
       /\ UNCHANGED <<program, cur, left, resp, up, cin, cl, reqs, resps, got, seen, captured>>

\* The client has gone, or fell silent for 30 s.
RequestEnds ==
    /\ (cin = <<>> \/ Unended) /\ (cl.gone \/ HasTimeout("client"))
    /\ \/ pc = "reqHead" /\ Closed(<<>>)
       \/ pc = "reqBody" /\ BodyFailed

\* A write to an origin that has closed may fail.
SendFails ==
    /\ up.fin
    /\ \/ pc = "sendHead" /\ Closed(<<>>)
       \/ pc = "reqBody" /\ cin # <<>> /\ BodyFailed

-----------------------------------------------------------------------------
(* The response.                                                           *)

\* responseBodyMode.
HasNoBody(req, r) == r.status # "ok" \/ (Self.method /\ req.method = "HEAD")
BodyMode(req, r) == IF HasNoBody(req, r) THEN "none" ELSE r.mode

\* Mutant: only the request is asked.
WantsClose_Request(m, isReq) == isReq /\ m.conn = "close"
\* wantsClose.
WantsClose(m, isReq) == m.conn = "close" \/ (Self.version /\ m.conn = "1.0")

\* The end of an exchange: analyzeResponse, the connection that was made for it,
\* and the keep-alive decision.
Ended(r, mode, connection) ==
    /\ pc' = IF mode = "until" \/ WantsClose(reqs[cur], TRUE) \/ WantsClose(r, FALSE)
             THEN "done" ELSE "reqHead"
    /\ up' = IF Self.upstream = "fresh" THEN noConnection ELSE connection
    /\ log' = IF Self.inspects # "all" THEN log
              ELSE Append(log, [of |-> "response", msg |-> cur, n |-> 0, cut |-> FALSE])

SendDown(piece) == got' = IF cl.gone THEN got ELSE Append(got, piece)

\* After a 1xx response the loop may read a piece it does not expect.  What the
\* parsers make of its bytes is left open: the connection is given up.
Ready(kinds) == up.out # <<>> /\ Head(up.out).kind \in kinds
Rest == [up EXCEPT !.out = Tail(@)]
UpEnds(kinds) == IF up.out = <<>> THEN up.fin \/ HasTimeout("origin") ELSE ~Ready(kinds)

TakeResponse ==
    LET piece == Head(up.out)
        r == IF piece.kind = "info" THEN info ELSE resps[piece.msg]
        mode == BodyMode(reqs[cur], r)
    IN
    /\ pc = "respHead" /\ Ready({"head", "info"}) /\ SendDown(piece)
    /\ resp' = r
    /\ left' = IF mode = "length" THEN r.len ELSE 1
    /\ IF mode = "none" \/ (mode = "length" /\ r.len = 0) THEN Ended(r, mode, Rest)
       ELSE pc' = "respBody" /\ up' = Rest /\ log' = log
    /\ UNCHANGED <<program, cur, cin, cl, reqs, resps, seen, captured>>

ForwardResponse ==
    LET piece == Head(up.out)
        mode == BodyMode(reqs[cur], resp)
        rest == After(mode, piece)
    IN
    /\ pc = "respBody" /\ Ready({"data", "last"}) /\ SendDown(piece)
    /\ left' = rest
    /\ IF rest = 0 THEN Ended(resp, mode, Rest) ELSE pc' = "respBody" /\ up' = Rest /\ log' = log
    /\ UNCHANGED <<program, cur, resp, cin, cl, reqs, resps, seen, captured>>

\* No response head: it may be answered with 502.
NoResponse == pc = "respHead" /\ UpEnds({"head", "info"}) /\ Closed(Reply("respHead"))

\* Mutant: what forwardExact returns is ignored.
GoesOn_Always == TRUE
\* The body of a response ends early.  Of forwardUntilClose the result is never
\* looked at.
GoesOn == Self.fails["respBody"] = "goOn" \/ BodyMode(reqs[cur], resp) = "until"
ResponseStops ==
    \/ GoesOn /\ Ended(resp, BodyMode(reqs[cur], resp), up)
    \/ ~GoesOn /\ pc' = "done" /\ UNCHANGED <<up, log>>

\* The origin is over, or fell silent for 30 s.
ResponseEnds ==
    /\ pc = "respBody" /\ UpEnds({"data", "last"}) /\ ResponseStops
    /\ UNCHANGED <<program, cur, left, resp, cin, cl, reqs, resps, got, seen, captured>>

\* A write to a client that has gone may fail.
ReplyFails ==
    /\ cl.gone
    /\ \/ pc = "respHead" /\ Ready({"head", "info"}) /\ Closed(<<>>)
       \/ pc = "respBody" /\ Ready({"data", "last"}) /\ ResponseStops
          /\ UNCHANGED <<program, cur, left, resp, cin, cl, reqs, resps, got, seen, captured>>

-----------------------------------------------------------------------------
(* The client and the origins.                                             *)

Whole == IF cl.n = 0 THEN TRUE ELSE cl.sent = Pieces(reqs[cl.n])

\* The next request may follow before the answer to the last one.
ClientBegins(r) ==
    /\ ~cl.gone /\ Whole /\ cl.n < MaxReq /\ pc # "done"
    /\ cl' = [cl EXCEPT !.n = @ + 1, !.sent = 0]
    /\ reqs' = [reqs EXCEPT ![cl.n + 1] = r]
    /\ cin' = Append(cin, Piece(cl.n + 1, "head", 0))
    /\ UNCHANGED <<program, pc, cur, left, resp, up, resps, got, seen, captured, log>>

ClientSends ==
    /\ ~cl.gone /\ ~Whole /\ pc # "done"
    /\ cl' = [cl EXCEPT !.sent = @ + 1]
    /\ cin' = Append(cin, PieceOf(cl.n, reqs[cl.n], cl.sent + 1))
    /\ UNCHANGED <<program, pc, cur, left, resp, up, reqs, resps, got, seen, captured, log>>

ClientGoes ==
    /\ ~cl.gone /\ pc # "done"
    /\ cl' = [cl EXCEPT !.gone = TRUE]
    /\ UNCHANGED <<program, pc, cur, left, resp, up, cin, reqs, resps, got, seen, captured, log>>

OriginUp == up.st = "open" /\ ~up.fin /\ pc # "done"
Idle == up.ans = 0

OriginInforms ==
    /\ OriginUp /\ Idle /\ up.todo # <<>> /\ ~up.informed /\ "info" \in Peer
    /\ up' = [up EXCEPT !.informed = TRUE, !.out = Append(@, Piece(Head(up.todo), "info", 0))]
    /\ UNCHANGED <<program, pc, cur, left, resp, cin, cl, reqs, resps, got, seen, captured, log>>

\* It may answer before it has the whole request.
OriginAnswers(r) ==
    LET i == Head(up.todo) IN
    /\ OriginUp /\ Idle /\ up.todo # <<>>
    /\ resps' = [resps EXCEPT ![i] = r]
    /\ up' = [up EXCEPT !.todo = Tail(@), !.out = Append(@, Piece(i, "head", 0)), !.sent = 0,
                        !.ans = IF Bodiless(reqs[i], r) \/ Pieces(r) + (IF r.mode = "until" THEN 1 ELSE 0) = 0
                                THEN 0 ELSE i]
    /\ UNCHANGED <<program, pc, cur, left, resp, cin, cl, reqs, got, seen, captured, log>>

OriginSends ==
    LET i == up.ans
        n == up.sent + 1
    IN
    /\ OriginUp /\ ~Idle /\ up.sent < Pieces(resps[i])
    /\ up' = [up EXCEPT !.sent = n, !.out = Append(@, PieceOf(i, resps[i], n)),
                        !.ans = IF n = Pieces(resps[i]) /\ resps[i].mode # "until" THEN 0 ELSE @]
    /\ UNCHANGED <<program, pc, cur, left, resp, cin, cl, reqs, resps, got, seen, captured, log>>

OriginCloses ==
    /\ OriginUp
    /\ up' = [up EXCEPT !.fin = TRUE]
    /\ UNCHANGED <<program, pc, cur, left, resp, cin, cl, reqs, resps, got, seen, captured, log>>

-----------------------------------------------------------------------------
Exchange ==
    \/ TakeRequest \/ TakeUnread \/ RefuseRequest \/ SendHead \/ ForwardRequest \/ RequestEnds \/ SendFails
    \/ TakeResponse \/ ForwardResponse \/ NoResponse \/ ResponseEnds \/ ReplyFails

Client == (\E r \in Requests : ClientBegins(r)) \/ ClientSends \/ ClientGoes
Answer == (\E r \in Responses : OriginAnswers(r)) \/ OriginSends
Origin == Answer \/ OriginInforms \/ OriginCloses

Terminated == pc = "done" /\ UNCHANGED vars

Next == Exchange \/ RefuseUnended \/ Client \/ Origin \/ Terminated

Spec == Init /\ [][Next]_vars

\* The thread runs.  Without a receive timeout the origin has to answer, and to
\* close where that ends its response.
FairSpec ==
    /\ Spec /\ WF_vars(Exchange)
    /\ WF_vars(~HasTimeout("origin") /\ Answer)
    /\ WF_vars(~HasTimeout("origin") /\ up.ans # 0 /\ up.sent = Pieces(resps[up.ans]) /\ OriginCloses)

-----------------------------------------------------------------------------
(* Types.                                                                  *)

AnyPiece == [msg : 0..MaxReq, kind : {"head", "data", "last", "info", "error"}, n : Nat]
Connection == [st : {"none", "open"}, target : Target, todo : Seq(Msg), ans : 0..MaxReq, sent : Nat,
               out : Seq(AnyPiece), fin : BOOLEAN, informed : BOOLEAN]
LogEntry == [of : {"request", "response"}, msg : Msg, n : 0..Cap, cut : BOOLEAN]

TypeOK ==
    /\ program \in Checked
    /\ pc \in {"reqHead", "sendHead", "reqBody", "respHead", "respBody", "done"}
    /\ cur \in 0..MaxReq /\ left \in Nat /\ resp \in Response
    /\ up \in Connection
    /\ cin \in Seq(AnyPiece) /\ cl \in [n : 0..MaxReq, sent : Nat, gone : BOOLEAN]
    /\ reqs \in [Msg -> Request] /\ resps \in [Msg -> Response]
    /\ got \in Seq(AnyPiece) /\ seen \in Seq([to : Target, piece : AnyPiece])
    /\ captured \in 0..Cap /\ log \in Seq(LogEntry)

-----------------------------------------------------------------------------
(* What the loop promises.                                                 *)

Checks(failure) == Self.fails[failure] # "goOn"

\* Each request is sent on whole before the next one begins.
WholeBeforeNext ==
    \A n \in 1..Len(seen) - 1 : seen[n + 1].piece.kind = "head" =>
        seen[n].piece.n = Pieces(reqs[seen[n].piece.msg])

\* What the client gets for its k-th request is the response to that request,
\* and after an error nothing, also when it pipelines them, changes the host
\* between them, or an origin is slow.  It is lost once the client was sent a 1xx
\* response, which the loop takes for the answer, and nothing is claimed after
\* the loop took the rest of a body for the beginning of a head.
Told == \E n \in 1..Len(got) : got[n].kind = "info"
Heads(n) == Cardinality({m \in 1..n : got[m].kind = "head"})
InTurn ==
    \A n \in 1..Len(got) : /\ got[n].kind = "head" => got[n].msg = Heads(n)
                           /\ got[n].kind = "error" => n = Len(got)
Paired == Told \/ ~WholeBeforeNext \/ InTurn

\* Whatever the client gets after a response, another one or a 502, follows a
\* response that arrived whole: a response that was cut is the last thing on the
\* connection, so the client can tell.  The plain loops of plan B and of the
\* pure programs, which make a connection for each request and do not look
\* whether a body got through, do not keep this, and no loop does after a 1xx.
Delivered(i) == Cardinality({n \in 1..Len(got) : got[n].msg = i /\ got[n].kind \in {"data", "last"}})
Visible == Checks("respBody") \/ Self.upstream = "session"
CutIsVisible ==
    Visible /\ ~Told =>
        \A a, b \in 1..Len(got) :
            a < b /\ got[a].kind = "head" /\ got[b].kind \in {"head", "error"} =>
                Delivered(got[a].msg) = SentPieces(got[a].msg)

\* Every request reaches the host it names, the requests reach their origins in
\* the order of the client and the pieces of a request in order.  Where the loop
\* looks whether a body got through, a request is whole before the next begins;
\* the plain loops of plan B and of the pure programs may begin the next one with
\* what they did not send of the last.
Follows(p, q) ==
    IF q.kind = "head" THEN q.msg = p.msg + 1 ELSE q.msg = p.msg /\ q.n = p.n + 1
RightOrigin ==
    /\ Self.upstream # "session" =>
          \A n \in 1..Len(seen) : seen[n].to = reqs[seen[n].piece.msg].target
    /\ \A n \in 1..Len(seen) - 1 : Follows(seen[n].piece, seen[n + 1].piece)
    /\ Checks("reqBody") => WholeBeforeNext

\* After a message that asks for it, in whatever direction, no further request
\* is sent on.  (Http1Engine and the pure programs do not take HTTP/1.0 for it.)
Asks(m) == m.conn = "close" \/ (Self.version /\ m.conn = "1.0")
CloseIsHonoured ==
    [][seen' # seen /\ seen'[Len(seen')].piece.kind = "head" =>
          /\ \A n \in 1..Len(seen) : ~Asks(reqs[seen[n].piece.msg])
          /\ \A k \in 1..Len(got) : got[k].kind = "head" => ~Asks(resps[got[k].msg])]_vars

\* The analyzer gets each request it is to get once, with the first pieces of
\* its body, after the origin was sent all of it and before the client gets an
\* answer to it.
BodyLen(r) == IF r.mode = "none" THEN 0 ELSE r.len
FirstPieces(i) == IF BodyLen(reqs[i]) < Cap THEN BodyLen(reqs[i]) ELSE Cap
Logged(kind) == {log[k].msg : k \in {n \in 1..Len(log) : log[n].of = kind}}
AnalyzedInOrder ==
    /\ \A j, k \in 1..Len(log) :
          j < k => log[j].msg < log[k].msg \/ (log[j].of = "request" /\ log[k].of = "response"
                                                 /\ log[j].msg = log[k].msg)
    /\ Logged("response") \subseteq Logged("request")
    /\ \A k \in 1..Len(log) : log[k].of = "request" /\ Checks("reqBody") =>
          log[k].n = FirstPieces(log[k].msg)
    /\ \A k \in 1..Len(got) : got[k].kind = "head" /\ Inspected(got[k].msg) =>
          got[k].msg \in Logged("request")

\* A log line of an upload whose capture is not all of the body says so.  Plan B
\* in its plain loop is the exception: it logs what came of a body that broke off.
CutCaptureIsTold ==
    Self.inspects = "uploads" /\ Checks("reqBody") =>
        \A k \in 1..Len(log) : log[k].n < BodyLen(reqs[log[k].msg]) => log[k].cut

\* Every request a client has sent whole is answered whole, or the connection is
\* closed.  A loop without timeouts waits for ever for the body of a response to
\* HEAD (Http1Engine), for the request after a 1xx response, and, where a cut
\* response is not noticed, for the client that waits for the rest of it.
SentWhole(i) == cl.n > i \/ (cl.n = i /\ Whole)
Answered(i) == (\E k \in 1..Len(got) : got[k].kind = "head" /\ got[k].msg = i)
               /\ Delivered(i) = SentPieces(i)
CutUnnoticed == pc \in {"reqHead", "reqBody"} /\ ~Checks("respBody")
                /\ \E k \in 1..Len(got) : got[k].kind = "head" /\ ~Answered(got[k].msg)
Stuck ==
    Self.timeouts = {} /\ (up.informed \/ Told \/ CutUnnoticed
                           \/ (~Self.method /\ \E i \in Msg : reqs[i].method = "HEAD"))
EveryRequestSettles ==
    \A i \in Msg : SentWhole(i) ~> (Answered(i) \/ pc = "done" \/ Stuck)
-----------------------------------------------------------------------------
(* Why they hold: what is true of every state, and kept by every step.     *)

\* The n-th piece of a message, its head the 0-th; a 1xx response comes before.
RequestPiece(i, n) == IF n = 0 THEN Piece(i, "head", 0) ELSE PieceOf(i, reqs[i], n)
ResponsePiece(i, n) ==
    IF n = -1 THEN Piece(i, "info", 0) ELSE IF n = 0 THEN Piece(i, "head", 0)
    ELSE PieceOf(i, resps[i], n)

\* What was read last from the client, and what it follows: the pieces the loop
\* has not read go on from there to where the client is.
Taken == IF pc = "sendHead" \/ seen = <<>> THEN Piece(cur, "head", 0) ELSE seen[Len(seen)].piece
Before(k) == IF k = 1 THEN Taken ELSE cin[k - 1]
Succeeds(p, q) ==
    IF q.n = 0 THEN q.msg = p.msg + 1 /\ (p.msg # 0 => p.n = Pieces(reqs[p.msg]))
    ELSE q.msg = p.msg /\ q.n = p.n + 1
ClientInLine ==
    /\ cur <= cl.n
    /\ IF cl.n = 0 THEN cl.sent = 0 ELSE cl.sent <= Pieces(reqs[cl.n])
    /\ pc # "done" =>
          /\ Taken.msg = cur
          /\ \A k \in 1..Len(cin) :
                /\ cin[k].msg \in 1..cl.n /\ cin[k].n <= Pieces(reqs[cin[k].msg])
                /\ cin[k] = RequestPiece(cin[k].msg, cin[k].n)
                /\ Succeeds(Before(k), cin[k])
          /\ Before(Len(cin) + 1).msg = cl.n /\ Before(Len(cin) + 1).n = cl.sent

\* The request the loop is at.
Smaller(a, b) == IF a < b THEN a ELSE b
AtRequest ==
    /\ cur = 0 => pc \in {"reqHead", "done"} /\ seen = <<>>
    /\ cur # 0 => reqs[cur].mode # "error"
    /\ pc = "sendHead" /\ seen # <<>> =>
          LET p == seen[Len(seen)].piece IN
          /\ Follows(p, Piece(cur, "head", 0))
          /\ Checks("reqBody") => p.n = Pieces(reqs[p.msg])
    /\ Checks("reqBody") /\ cur # 0 /\ pc \in {"reqHead", "respHead", "respBody"} =>
          Taken.n = Pieces(reqs[cur])
    /\ pc \in {"sendHead", "reqBody"} /\ Self.upstream # "session" => up.target = reqs[cur].target
    /\ pc = "reqBody" =>
          /\ seen # <<>> /\ Taken.n < Pieces(reqs[cur])
          /\ left = IF reqs[cur].mode = "length" THEN reqs[cur].len - Taken.n ELSE 1
          /\ Inspected(cur) => captured = Smaller(Taken.n, Cap)
    /\ pc = "respBody" => left > 0

\* A request is answered once, in its turn, and only when its head was sent.
SentUpTo == IF pc = "sendHead" THEN cur - 1 ELSE cur
OriginInLine ==
    /\ \A k \in 1..Len(seen) : seen[k].piece.msg \in 1..SentUpTo
    /\ up.ans <= SentUpTo
    /\ \A k \in 1..Len(up.out) : up.out[k].msg \in 1..SentUpTo /\ up.out[k].kind # "error"
    /\ \A k \in 1..Len(got) : got[k].msg <= SentUpTo /\ (got[k].kind # "error" => got[k].msg > 0)
    /\ \A t \in 1..Len(up.todo) :
          /\ up.todo[t] <= SentUpTo /\ up.ans < up.todo[t]
          /\ \A s \in 1..Len(up.todo) : s < t => up.todo[s] < up.todo[t]
          /\ \A k \in 1..Len(up.out) : up.out[k].kind # "info" => up.out[k].msg < up.todo[t]
          /\ \A k \in 1..Len(got) : got[k].kind # "info" => got[k].msg < up.todo[t]

\* Nobody has asked for the end of the connection, but in the exchange the loop
\* is at.
Settled == IF pc = "reqHead" THEN cur ELSE cur - 1
NobodyAsked ==
    pc # "done" =>
        /\ \A i \in 1..Settled : ~Asks(reqs[i])
        /\ \A k \in 1..Len(got) : got[k].kind = "head" =>
              ~Asks(resps[got[k].msg]) \/ (pc = "respBody" /\ resps[got[k].msg] = resp)

\* The log is as far as the loop.
Over(of) == IF pc \in {"sendHead", "reqBody"} \/ (of = "response" /\ pc \in {"respHead", "respBody"})
            THEN cur - 1 ELSE cur
LogInLine ==
    /\ \A k \in 1..Len(log) : log[k].msg <= Over(log[k].of)
    /\ pc # "done" => \A i \in 1..Over("request") : Inspected(i) => i \in Logged("request")
    /\ \A k \in 1..Len(log) :
          IF log[k].of = "request" THEN log[k].cut = Truncated(reqs[log[k].msg], log[k].n)
          ELSE Self.inspects = "all"

\* The connection to the origin, while no 1xx was passed on and the client is
\* there: nothing is on its way; or the request was sent into a connection that
\* has ended; or it is not answered yet; or the answer is on its way from its
\* n-th piece.
Silent == up.todo = <<>> /\ up.out = <<>> /\ up.ans = 0
Dead == up.todo = <<>> /\ up.out = <<>> /\ up.fin
Unanswered == /\ up.todo = <<cur>> /\ up.ans = 0
              /\ IF up.informed THEN up.out \in {<<>>, <<Piece(cur, "info", 0)>>} ELSE up.out = <<>>
AnswerFrom(n) ==
    /\ up.todo = <<>>
    /\ Len(up.out) = up.sent + 1 - n /\ \A k \in 1..Len(up.out) : up.out[k] = ResponsePiece(cur, n + k - 1)
    /\ up.sent <= SentPieces(cur)
    /\ IF up.ans = 0 THEN up.sent = SentPieces(cur)
       ELSE /\ up.ans = cur /\ ~Bodiless(reqs[cur], resps[cur])
            /\ up.sent < SentPieces(cur) \/ resps[cur].mode = "until"

Behind == IF pc \in {"reqHead", "respBody"} THEN cur ELSE cur - 1
InStep ==
    ~Told /\ ~cl.gone /\ pc # "done" =>
        /\ pc \in {"reqHead", "sendHead"} => Silent \/ Dead
        /\ pc \in {"reqBody", "respHead"} => Dead \/ Unanswered \/ \E n \in {-1, 0} : AnswerFrom(n)
        /\ pc = "respBody" =>
              /\ AnswerFrom(Delivered(cur) + 1)
              /\ resp = resps[cur] /\ BodyMode(reqs[cur], resp) # "none"
              /\ left = IF BodyMode(reqs[cur], resp) = "length" THEN resp.len - Delivered(cur) ELSE 1
        /\ Heads(Len(got)) = Behind
        /\ \A k \in 1..Len(got) : got[k].msg <= Behind /\ got[k].kind # "error"
        /\ Visible =>
              \/ Dead /\ Self.fails["respBody"] = "goOn"
              \/ \A k \in 1..Len(got) : got[k].kind = "head" /\ (pc = "respBody" => got[k].msg # cur) =>
                    Delivered(got[k].msg) = SentPieces(got[k].msg)

ExchangeInv ==
    /\ TypeOK
    /\ ClientInLine /\ AtRequest /\ OriginInLine /\ NobodyAsked /\ LogInLine /\ InStep
    /\ Told \/ InTurn
    /\ CutIsVisible /\ RightOrigin /\ AnalyzedInOrder
=============================================================================
