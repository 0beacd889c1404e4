-------------------------- MODULE Http1ExchangeProofs --------------------------
(***************************************************************************)
(* What the HTTP/1.1 loops promise, for any number of requests, any        *)
(* messages and any capture limit: ExchangeInv is inductive.               *)
(***************************************************************************)
EXTENDS Http1Exchange, SequenceTheorems, FiniteSetTheorems, TLAPS

-----------------------------------------------------------------------------
(* The programs.                                                           *)

LEMMA ProgramNames ==
  Programs = {"v2", "v3", "v4", "v4Tls", "planA", "planATls", "planB", "planBTls", "pureM2",
              "noMitm", "mitmPure", "mitmPureTls", "engine"}
  BY DEF Programs, LoopOf

\* What the proofs need of the records of Http1Loops: a program that does not look
\* whether the body of a response got through answers no error, and keeps no
\* connection but that of a TLS session, on which it sets no timeout.
Lax(loop) == loop.fails["respBody"] = "goOn"
LEMMA LaxPrograms ==
  ASSUME NEW p \in Programs, Lax(LoopOf[p])
  PROVE  /\ LoopOf[p].upstream \in {"fresh", "session"} /\ "origin" \notin LoopOf[p].timeouts
         /\ \A f \in Failure : LoopOf[p].fails[f] \notin {"400", "502"}
  <1> USE DEF Lax, LoopOf, Failure, Strict, Both
  <1>1. /\ Answering["respBody"] = "close" /\ Strict["respBody"] = "close"
    BY DEF Answering
  <1>2. /\ ~Lax(ProxyV2) /\ ~Lax(ProxyV3) /\ ~Lax(ProxyV4) /\ ~Lax(ProxyV4Tls) /\ ~Lax(PlanA)
        /\ ~Lax(PlanATls) /\ ~Lax(PlanBTls) /\ ~Lax(Engine)
    BY <1>1 DEF ProxyV2, ProxyV3, ProxyV4, ProxyV4Tls, PlanA, PlanATls, PlanBTls, Engine
  <1>3. /\ PlanB.upstream = "fresh" /\ PlanB.timeouts = {"client"}
        /\ \A f \in Failure : PlanB.fails[f] \in {"close", "goOn"}
    BY DEF PlanB
  <1>4. /\ PureM2.upstream = "fresh" /\ PureM2.timeouts = {}
        /\ \A f \in Failure : PureM2.fails[f] \in {"close", "goOn"}
    BY <1>3 DEF PureM2, PlanB
  <1>5. /\ MitmPureTls.upstream = "session" /\ MitmPureTls.timeouts = {}
        /\ \A f \in Failure : MitmPureTls.fails[f] \in {"close", "goOn"}
    BY DEF MitmPureTls, MitmPure, PureM2, PlanB
  <1>6. p \in {"planB", "pureM2", "noMitm", "mitmPure", "mitmPureTls"}
    BY <1>2, ProgramNames
  <1>7. CASE p = "planB" BY <1>3, <1>7
  <1>8. CASE p \in {"pureM2", "noMitm", "mitmPure"} BY <1>4, <1>8 DEF NoMitm, MitmPure
  <1>9. CASE p = "mitmPureTls" BY <1>5, <1>9
  <1> QED BY <1>6, <1>7, <1>8, <1>9

LEMMA RepresentativesChecked == Representatives(Checked) \subseteq Checked
  <1> SUFFICES ASSUME NEW l \in {LoopOf[p] : p \in Checked}
               PROVE  (CHOOSE p \in Checked : LoopOf[p] = l) \in Checked
    BY DEF Representatives
  <1> PICK p \in Checked : LoopOf[p] = l OBVIOUS
  <1> QED OBVIOUS

LEMMA SelfIsLoop ==
  ASSUME TypeOK
  PROVE  /\ program \in Programs
         /\ Lax(Self) => /\ Self.upstream \in {"fresh", "session"} /\ ~HasTimeout("origin")
                         /\ \A f \in {"framing", "connect", "respHead"} : Reply(f) = <<>>
  BY LaxPrograms, ExchangeAssumption DEF TypeOK, Self, HasTimeout, Reply, Failure

-----------------------------------------------------------------------------
(* Messages and their pieces.                                              *)

LEMMA PieceFields ==
  ASSUME NEW i, NEW kind, NEW n
  PROVE  Piece(i, kind, n).msg = i /\ Piece(i, kind, n).kind = kind /\ Piece(i, kind, n).n = n
  BY DEF Piece

LEMMA PieceType ==
  ASSUME NEW i \in 0..MaxReq, NEW kind \in {"head", "data", "last", "info", "error"}, NEW n \in Nat
  PROVE  Piece(i, kind, n) \in AnyPiece
  BY DEF Piece, AnyPiece

LEMMA ErrorType == errorReply \in AnyPiece /\ errorReply.kind = "error" /\ errorReply.msg = 0
  BY PieceType, ExchangeAssumption DEF errorReply, Piece

LEMMA PieceOfFields ==
  ASSUME NEW i, NEW m, NEW n
  PROVE  /\ PieceOf(i, m, n).msg = i /\ PieceOf(i, m, n).n = n
         /\ PieceOf(i, m, n).kind = IF m.mode = "chunked" /\ n > m.len THEN "last" ELSE "data"
  BY DEF PieceOf, Piece

LEMMA PieceOfType ==
  ASSUME NEW i \in 0..MaxReq, NEW m, NEW n \in Nat
  PROVE  PieceOf(i, m, n) \in AnyPiece
  <1>1. CASE m.mode = "chunked" /\ n > m.len
    BY <1>1, PieceType DEF PieceOf
  <1>2. CASE ~(m.mode = "chunked" /\ n > m.len)
    BY <1>2, PieceType DEF PieceOf
  <1> QED BY <1>1, <1>2

LEMMA RequestPieces ==
  ASSUME NEW r \in Request
  PROVE  /\ r.len \in Nat /\ r.mode \in {"none", "length", "chunked", "error"}
         /\ r.target \in Target
         /\ Pieces(r) \in Nat
         /\ Pieces(r) = IF r.mode = "chunked" THEN r.len + 1 ELSE IF r.mode = "length" THEN r.len ELSE 0
  BY DEF Request, Pieces

LEMMA ResponsePieces ==
  ASSUME NEW r \in Response
  PROVE  /\ r.len \in Nat /\ r.mode \in {"length", "chunked", "until"}
         /\ r.status \in {"info", "empty", "ok"}
         /\ Pieces(r) \in Nat
         /\ Pieces(r) = IF r.mode = "chunked" THEN r.len + 1 ELSE r.len
  BY DEF Response, Pieces

LEMMA RequestPieceFields ==
  ASSUME NEW i, NEW n
  PROVE  /\ RequestPiece(i, n).msg = i /\ RequestPiece(i, n).n = n
         /\ RequestPiece(i, n).kind = IF n = 0 THEN "head"
               ELSE IF reqs[i].mode = "chunked" /\ n > reqs[i].len THEN "last" ELSE "data"
  BY PieceFields, PieceOfFields DEF RequestPiece

LEMMA ResponsePieceFields ==
  ASSUME NEW i, NEW n \in Int, n >= 0
  PROVE  /\ ResponsePiece(i, n).msg = i /\ ResponsePiece(i, n).n = n
         /\ ResponsePiece(i, n).kind = IF n = 0 THEN "head"
               ELSE IF resps[i].mode = "chunked" /\ n > resps[i].len THEN "last" ELSE "data"
  BY PieceFields, PieceOfFields DEF ResponsePiece

-----------------------------------------------------------------------------
(* Connections.                                                            *)

LEMMA NewConnection ==
  ASSUME NEW t \in Target
  PROVE  /\ newConnection(t) \in Connection
         /\ newConnection(t).target = t
         /\ newConnection(t).todo = <<>> /\ newConnection(t).out = <<>> /\ newConnection(t).ans = 0
  BY ExchangeAssumption DEF newConnection, Connection, Msg

LEMMA NoConnection ==
  /\ noConnection \in Connection
  /\ noConnection.todo = <<>> /\ noConnection.out = <<>> /\ noConnection.ans = 0
  <1>0. "" \in Target BY DEF Target
  <1>1. /\ newConnection("") \in Connection
        /\ newConnection("").todo = <<>> /\ newConnection("").out = <<>> /\ newConnection("").ans = 0
    BY <1>0, NewConnection
  <1>2. noConnection \in Connection BY <1>1 DEF noConnection, Connection
  <1>3. /\ noConnection.todo = newConnection("").todo /\ noConnection.out = newConnection("").out
        /\ noConnection.ans = newConnection("").ans
    BY DEF noConnection, newConnection
  <1> QED BY <1>1, <1>2, <1>3

-----------------------------------------------------------------------------
(* The kinds of steps.                                                     *)

\* The loop ends, and tells the client or not.
GivesUp ==
    /\ pc' = "done"
    /\ \/ got' = got
       \/ /\ got' = Append(got, errorReply)
          /\ ~cl.gone /\ pc \in {"reqHead", "respHead"} /\ ~Lax(Self)
    /\ UNCHANGED <<program, cur, left, resp, up, cin, cl, reqs, resps, seen, captured, log>>

\* The body of the request did not get through, and the loop goes on.
GoesOnAnyway ==
    /\ pc = "reqBody" /\ ~Checks("reqBody") /\ pc' = "respHead" /\ log' = Analyzed(cur, captured)
    /\ UNCHANGED <<program, cur, left, resp, up, cin, cl, reqs, resps, got, seen, captured>>

\* The body of the response did not get through, and the loop goes on.
Abandons ==
    /\ pc = "respBody" /\ GoesOn /\ Ended(resp, BodyMode(reqs[cur], resp), up)
    /\ cl.gone \/ UpEnds({"data", "last"})
    /\ UNCHANGED <<program, cur, left, resp, cin, cl, reqs, resps, got, seen, captured>>

\* The next request is taken, with what was left unread of the last one or without.
Takes == TakeRequest \/ TakeUnread

LEMMA ClosedGivesUp ==
  ASSUME TypeOK, NEW reply, Closed(reply),
         reply = <<>> \/ \E f \in {"framing", "connect", "respHead"} : reply = Reply(f),
         reply = <<>> \/ pc \in {"reqHead", "respHead"}
  PROVE  GivesUp
  <1>1. got \in Seq(AnyPiece) /\ got \o <<>> = got BY DEF TypeOK
  <1>2. got \o <<errorReply>> = Append(got, errorReply) BY <1>1, ErrorType, AppendIsConcat
  <1>3. CASE reply = <<>>
    BY <1>1, <1>3 DEF Closed, GivesUp
  <1>4. CASE reply # <<>>
    <2>1. reply = <<errorReply>> /\ ~Lax(Self)
      BY <1>4, SelfIsLoop DEF Reply
    <2> QED BY <1>1, <1>2, <1>4, <2>1 DEF Closed, GivesUp
  <1> QED BY <1>3, <1>4

LEMMA StopsOrGoesOn ==
  ASSUME TypeOK, pc = "respBody", ResponseStops, cl.gone \/ UpEnds({"data", "last"}),
         UNCHANGED <<program, cur, left, resp, cin, cl, reqs, resps, got, seen, captured>>
  PROVE  GivesUp \/ Abandons
  <1>1. CASE GoesOn /\ Ended(resp, BodyMode(reqs[cur], resp), up)
    BY <1>1 DEF Abandons
  <1>2. CASE ~GoesOn /\ pc' = "done" /\ UNCHANGED <<up, log>>
    BY <1>2 DEF GivesUp
  <1> QED BY <1>1, <1>2 DEF ResponseStops

LEMMA BodyFailedKinds ==
  ASSUME TypeOK, pc = "reqBody", BodyFailed
  PROVE  GivesUp \/ GoesOnAnyway
  <1>1. CASE Closed(<<>>) BY <1>1, ClosedGivesUp
  <1>2. CASE ~Closed(<<>>) BY <1>2 DEF BodyFailed, GoesOnAnyway, Checks
  <1> QED BY <1>1, <1>2

LEMMA StepKinds ==
  ASSUME TypeOK, [Next]_vars
  PROVE  \/ GivesUp \/ GoesOnAnyway \/ Abandons
         \/ Takes \/ SendHead \/ ForwardRequest \/ TakeResponse \/ ForwardResponse
         \/ Client \/ Origin \/ UNCHANGED vars
  <1>1. CASE RefuseRequest \/ RefuseUnended
    <2>1. PICK reply : /\ Closed(reply)
                       /\ reply = <<>> \/ \E f \in {"framing", "connect"} : reply = Reply(f)
      BY <1>1 DEF RefuseRequest, RefuseUnended
    <2>2. pc = "reqHead" BY <1>1 DEF RefuseRequest, RefuseUnended, Unended, Unread
    <2> QED BY <2>1, <2>2, ClosedGivesUp
  <1>2. CASE RequestEnds
    <2>1. CASE pc = "reqHead" /\ Closed(<<>>) BY <2>1, ClosedGivesUp
    <2>2. CASE pc = "reqBody" /\ BodyFailed BY <2>2, BodyFailedKinds
    <2> QED BY <1>2, <2>1, <2>2 DEF RequestEnds
  <1>3. CASE SendFails
    <2>1. CASE pc = "sendHead" /\ Closed(<<>>) BY <2>1, ClosedGivesUp
    <2>2. CASE pc = "reqBody" /\ BodyFailed BY <2>2, BodyFailedKinds
    <2> QED BY <1>3, <2>1, <2>2 DEF SendFails
  <1>4. CASE NoResponse
    <2>1. pc = "respHead" /\ Closed(Reply("respHead")) BY <1>4 DEF NoResponse
    <2> QED BY <2>1, ClosedGivesUp
  <1>5. CASE ResponseEnds
    BY <1>5, StopsOrGoesOn DEF ResponseEnds
  <1>6. CASE ReplyFails
    <2>1. CASE pc = "respHead" /\ Closed(<<>>) BY <2>1, ClosedGivesUp
    <2>2. CASE pc = "respBody" /\ ~Closed(<<>>)
      BY <1>6, <2>2, StopsOrGoesOn DEF ReplyFails
    <2>3. CASE pc = "respBody" /\ Closed(<<>>)
      BY <2>3, ClosedGivesUp
    <2> QED BY <1>6, <2>1, <2>2, <2>3 DEF ReplyFails
  <1>7. CASE TakeRequest \/ TakeUnread \/ SendHead \/ ForwardRequest \/ TakeResponse \/ ForwardResponse
             \/ Client \/ Origin
    BY <1>7 DEF Takes
  <1>8. CASE Terminated \/ UNCHANGED vars BY <1>8 DEF Terminated
  <1> QED BY <1>1, <1>2, <1>3, <1>4, <1>5, <1>6, <1>7, <1>8 DEF Next, Exchange

-----------------------------------------------------------------------------
(* What a step does, and that it keeps the types.                          *)

LEMMA SendUpEffect ==
  ASSUME TypeOK, NEW piece \in AnyPiece, piece.kind = "head" => piece.msg \in Msg, SendUp(piece)
  PROVE  /\ seen' = Append(seen, [to |-> up.target, piece |-> piece])
         /\ seen' \in Seq([to : Target, piece : AnyPiece])
         /\ Len(seen') = Len(seen) + 1 /\ \A k \in 1..Len(seen) : seen'[k] = seen[k]
         /\ seen'[Len(seen')].to = up.target /\ seen'[Len(seen')].piece = piece
         /\ seen' # <<>>
         /\ up' \in Connection
         /\ up'.target = up.target /\ up'.ans = up.ans /\ up'.sent = up.sent /\ up'.out = up.out
         /\ up'.fin = up.fin /\ up'.informed = up.informed
         /\ up'.todo = IF up.fin \/ piece.kind # "head" THEN up.todo ELSE Append(up.todo, piece.msg)
  <1>1. up \in Connection /\ seen \in Seq([to : Target, piece : AnyPiece]) BY DEF TypeOK
  <1>2. [to |-> up.target, piece |-> piece] \in [to : Target, piece : AnyPiece]
    BY <1>1 DEF Connection
  <1>3. /\ seen' = Append(seen, [to |-> up.target, piece |-> piece])
        /\ up' = IF up.fin \/ piece.kind # "head" THEN up ELSE [up EXCEPT !.todo = Append(@, piece.msg)]
    BY DEF SendUp
  <1>4. /\ Len(seen') = Len(seen) + 1 /\ \A k \in 1..Len(seen) : seen'[k] = seen[k]
        /\ seen'[Len(seen')] = [to |-> up.target, piece |-> piece]
        /\ seen' \in Seq([to : Target, piece : AnyPiece]) /\ seen' # <<>>
    BY <1>1, <1>2, <1>3, AppendProperties
  <1>5. CASE up.fin \/ piece.kind # "head"
    BY <1>1, <1>3, <1>4, <1>5
  <1>6. CASE ~(up.fin \/ piece.kind # "head")
    <2>1. up.todo \in Seq(Msg) BY <1>1 DEF Connection
    <2>2. Append(up.todo, piece.msg) \in Seq(Msg) BY <2>1, <1>6, AppendProperties
    <2>3. up' = [up EXCEPT !.todo = Append(up.todo, piece.msg)] BY <1>3, <1>6
    <2>4. up' \in Connection BY <1>1, <2>2, <2>3 DEF Connection
    <2> QED BY <1>1, <1>3, <1>4, <1>6, <2>3, <2>4 DEF Connection
  <1> QED BY <1>5, <1>6

\* up.out without its first piece.
LEMMA RestFields ==
  ASSUME TypeOK, up.out # <<>>
  PROVE  /\ Rest \in Connection
         /\ Rest.target = up.target /\ Rest.ans = up.ans /\ Rest.sent = up.sent
         /\ Rest.todo = up.todo /\ Rest.fin = up.fin /\ Rest.informed = up.informed
         /\ Rest.out = Tail(up.out) /\ Len(Rest.out) = Len(up.out) - 1
         /\ \A k \in 1..Len(Rest.out) : Rest.out[k] = up.out[k + 1]
         /\ Head(up.out) = up.out[1] /\ Head(up.out) \in AnyPiece /\ 1 \in 1..Len(up.out)
  <1>1. up \in Connection BY DEF TypeOK
  <1>2. up.out \in Seq(AnyPiece) BY <1>1 DEF Connection
  <1>3. /\ Tail(up.out) \in Seq(AnyPiece) /\ Len(Tail(up.out)) = Len(up.out) - 1
        /\ \A k \in 1..Len(Tail(up.out)) : Tail(up.out)[k] = up.out[k + 1]
        /\ Head(up.out) \in AnyPiece
    BY <1>2, HeadTailProperties
  <1>4. Head(up.out) = up.out[1] /\ 1 \in 1..Len(up.out) BY <1>2, EmptySeq
  <1> QED BY <1>1, <1>3, <1>4 DEF Rest, Connection

LEMMA EndedEffect ==
  ASSUME TypeOK, AtRequest, pc \in {"respHead", "respBody"}, NEW r, NEW mode, NEW c \in Connection,
         Ended(r, mode, c)
  PROVE  /\ pc' \in {"done", "reqHead"}
         /\ pc' = "reqHead" => mode # "until" /\ ~Asks(reqs[cur]) /\ ~Asks(r)
         /\ up' = IF Self.upstream = "fresh" THEN noConnection ELSE c
         /\ up' \in Connection
         /\ log' = IF Self.inspects # "all" THEN log
                   ELSE Append(log, [of |-> "response", msg |-> cur, n |-> 0, cut |-> FALSE])
         /\ log' \in Seq(LogEntry)
  <1>1. cur \in Msg BY DEF TypeOK, AtRequest, Msg
  <1>2. [of |-> "response", msg |-> cur, n |-> 0, cut |-> FALSE] \in LogEntry
    BY <1>1, ExchangeAssumption DEF LogEntry
  <1>3. log \in Seq(LogEntry) BY DEF TypeOK
  <1>4. Append(log, [of |-> "response", msg |-> cur, n |-> 0, cut |-> FALSE]) \in Seq(LogEntry)
    BY <1>2, <1>3, AppendProperties
  <1> QED BY <1>3, <1>4, NoConnection DEF Ended, WantsClose, Asks

LEMMA SendDownEffect ==
  ASSUME TypeOK, NEW piece \in AnyPiece, SendDown(piece)
  PROVE  /\ got' \in Seq(AnyPiece)
         /\ cl.gone => got' = got
         /\ ~cl.gone => /\ got' = Append(got, piece) /\ Len(got') = Len(got) + 1
                        /\ \A k \in 1..Len(got) : got'[k] = got[k]
                        /\ got'[Len(got) + 1] = piece
  <1>1. got \in Seq(AnyPiece) BY DEF TypeOK
  <1> QED BY <1>1, AppendProperties DEF SendDown

LEMMA AnalyzedEffect ==
  ASSUME TypeOK, AtRequest, cur # 0, NEW n \in 0..Cap
  PROVE  LET entry == [of |-> "request", msg |-> cur, n |-> n, cut |-> Truncated(reqs[cur], n)] IN
         /\ Analyzed(cur, n) \in Seq(LogEntry)
         /\ Analyzed(cur, n) = IF Inspected(cur) THEN Append(log, entry) ELSE log
  <1> DEFINE entry == [of |-> "request", msg |-> cur, n |-> n, cut |-> Truncated(reqs[cur], n)]
  <1>1. Truncated(reqs[cur], n) \in BOOLEAN BY DEF Truncated
  <1>2. cur \in Msg BY DEF TypeOK, Msg
  <1>3. entry \in LogEntry BY <1>1, <1>2 DEF LogEntry
  <1>4. log \in Seq(LogEntry) BY DEF TypeOK
  <1>5. Append(log, entry) \in Seq(LogEntry) BY <1>3, <1>4, AppendProperties
  <1> QED BY <1>4, <1>5 DEF Analyzed

\* The loop reads the next piece from the client.
LEMMA ReadClient ==
  ASSUME TypeOK, ClientInLine, pc # "done", cin # <<>>
  PROVE  /\ Head(cin) = cin[1] /\ cin[1] \in AnyPiece
         /\ cin[1].msg \in 1..cl.n /\ cin[1].msg \in Msg /\ reqs[cin[1].msg] \in Request
         /\ cin[1].n \in Nat /\ cin[1].n <= Pieces(reqs[cin[1].msg])
         /\ cin[1] = RequestPiece(cin[1].msg, cin[1].n)
         /\ Succeeds(Taken, cin[1])
         /\ Tail(cin) \in Seq(AnyPiece) /\ Len(Tail(cin)) = Len(cin) - 1
         /\ \A k \in 1..Len(Tail(cin)) : Tail(cin)[k] = cin[k + 1]
         /\ cin[1].kind = "head" <=> cin[1].n = 0
         /\ cin[1].kind = "head" => cin[1].msg = cur + 1
         /\ cin[1].kind # "head" => cin[1].msg = cur /\ cin[1].n = Taken.n + 1
  <1>1. cin \in Seq(AnyPiece) BY DEF TypeOK
  <1>2. 1 \in 1..Len(cin) /\ Head(cin) = cin[1] BY <1>1, EmptySeq
  <1>3. cin[1] \in AnyPiece BY <1>1, <1>2, ElementOfSeq
  <1>4. /\ cin[1].msg \in 1..cl.n /\ cin[1].n <= Pieces(reqs[cin[1].msg])
        /\ cin[1] = RequestPiece(cin[1].msg, cin[1].n)
        /\ Succeeds(Taken, cin[1])
    BY <1>2 DEF ClientInLine, Before
  <1>5. cl.n \in 0..MaxReq /\ MaxReq \in Nat BY ExchangeAssumption DEF TypeOK
  <1>6. cin[1].msg \in Msg BY <1>4, <1>5 DEF Msg
  <1>7. reqs[cin[1].msg] \in Request BY <1>6 DEF TypeOK
  <1>8. cin[1].n \in Nat BY <1>3 DEF AnyPiece
  <1>9. cin[1].kind = "head" <=> cin[1].n = 0
    <2>1. cin[1].kind = RequestPiece(cin[1].msg, cin[1].n).kind BY <1>4
    <2> QED BY <2>1, RequestPieceFields
  <1>10. Taken.msg = cur BY DEF ClientInLine
  <1>11. /\ cin[1].kind = "head" => cin[1].msg = cur + 1
         /\ cin[1].kind # "head" => cin[1].msg = cur /\ cin[1].n = Taken.n + 1
    BY <1>4, <1>9, <1>10 DEF Succeeds
  <1>12. /\ Tail(cin) \in Seq(AnyPiece) /\ Len(Tail(cin)) = Len(cin) - 1
         /\ \A k \in 1..Len(Tail(cin)) : Tail(cin)[k] = cin[k + 1]
    BY <1>1, HeadTailProperties
  <1> QED BY <1>2, <1>3, <1>4, <1>6, <1>7, <1>8, <1>9, <1>11, <1>12

LEMMA TakesIsRead ==
  ASSUME TypeOK, ClientInLine, Takes
  PROVE  \E k \in 1..Len(cin) :
            /\ pc = "reqHead" /\ pc' = "sendHead" /\ cin[k] = Piece(cur + 1, "head", 0)
            /\ reqs[cur + 1].mode # "error" /\ cur' = cur + 1 /\ cin' = SubSeq(cin, k + 1, Len(cin))
            /\ up' = IF NeedsConnect(reqs[cur + 1]) THEN newConnection(reqs[cur + 1].target) ELSE up
            /\ reqs' = reqs \/ reqs' = [reqs EXCEPT ![cur + 1].method = "GET"]
            /\ UNCHANGED <<program, left, resp, cl, resps, got, seen, captured, log>>
  <1>1. CASE TakeRequest
    <2>1. /\ pc = "reqHead" /\ cin # <<>> /\ Head(cin).kind = "head" /\ pc' = "sendHead"
          /\ cur' = Head(cin).msg /\ cin' = Tail(cin) /\ reqs[Head(cin).msg].mode # "error"
          /\ up' = IF NeedsConnect(reqs[Head(cin).msg]) THEN newConnection(reqs[Head(cin).msg].target)
                   ELSE up
          /\ UNCHANGED <<program, left, resp, cl, reqs, resps, got, seen, captured, log>>
      BY <1>1 DEF TakeRequest, HeadRead
    <2>2. Head(cin) = cin[1] /\ cin[1].msg = cur + 1 /\ cin[1].n = 0
          /\ cin[1] = RequestPiece(cin[1].msg, cin[1].n)
      BY <2>1, ReadClient
    <2>3. cin[1] = Piece(cur + 1, "head", 0) BY <2>2 DEF RequestPiece
    <2>4. cin \in Seq(AnyPiece) BY DEF TypeOK
    <2>5. 1 \in 1..Len(cin) /\ Tail(cin) = SubSeq(cin, 2, Len(cin)) BY <2>1, <2>4, EmptySeq, TailIsSubSeq
    <2>6. /\ reqs[cur + 1].mode # "error" /\ cur' = cur + 1
          /\ up' = IF NeedsConnect(reqs[cur + 1]) THEN newConnection(reqs[cur + 1].target) ELSE up
      BY <2>1, <2>2
    <2>7. cin' = SubSeq(cin, 1 + 1, Len(cin)) BY <2>1, <2>5
    <2> QED BY <2>1, <2>3, <2>5, <2>6, <2>7
  <1>2. CASE TakeUnread
    <2>1. PICK k \in 2..Len(cin) :
            /\ pc = "reqHead" /\ pc' = "sendHead" /\ cin[k] = Piece(cur + 1, "head", 0)
            /\ reqs[cur + 1].mode # "error" /\ cur' = cur + 1 /\ cin' = SubSeq(cin, k + 1, Len(cin))
            /\ up' = IF NeedsConnect(reqs[cur + 1]) THEN newConnection(reqs[cur + 1].target) ELSE up
            /\ reqs' = IF cin[1].kind = "last" THEN reqs ELSE [reqs EXCEPT ![cur + 1].method = "GET"]
            /\ UNCHANGED <<program, left, resp, cl, resps, got, seen, captured, log>>
      BY <1>2 DEF TakeUnread, Unread
    <2>2. k \in 1..Len(cin) OBVIOUS
    <2> QED BY <2>1, <2>2
  <1> QED BY <1>1, <1>2 DEF Takes

\* The requests rs and ss are the same but for the methods.
Alike(rs, ss) ==
    \A j \in Msg : /\ ss[j].mode = rs[j].mode /\ ss[j].len = rs[j].len
                   /\ ss[j].target = rs[j].target /\ ss[j].conn = rs[j].conn

LEMMA TakesEffect ==
  ASSUME TypeOK, ClientInLine, Takes
  PROVE  /\ pc = "reqHead" /\ pc' = "sendHead"
         /\ \E k \in 1..Len(cin) : /\ cin[k] = Piece(cur', "head", 0) /\ Len(cin') = Len(cin) - k
                                   /\ \A j \in 1..Len(cin') : cin'[j] = cin[j + k]
         /\ cin' \in Seq(AnyPiece)
         /\ cur' = cur + 1 /\ cur' <= cl.n /\ cur' \in Msg
         /\ reqs' \in [Msg -> Request] /\ Alike(reqs, reqs') /\ \A j \in 1..cur : reqs'[j] = reqs[j]
         /\ reqs'[cur'].mode # "error" /\ reqs[cur'].target \in Target
         /\ \/ up' = newConnection(reqs[cur'].target) /\ Self.upstream # "session"
            \/ up' = up
         /\ up' \in Connection
         /\ Self.upstream # "session" => up'.target = reqs'[cur'].target
         /\ UNCHANGED <<program, left, resp, cl, resps, got, seen, captured, log>>
  <1>1. PICK k \in 1..Len(cin) :
            /\ pc = "reqHead" /\ pc' = "sendHead" /\ cin[k] = Piece(cur + 1, "head", 0)
            /\ reqs[cur + 1].mode # "error" /\ cur' = cur + 1 /\ cin' = SubSeq(cin, k + 1, Len(cin))
            /\ up' = IF NeedsConnect(reqs[cur + 1]) THEN newConnection(reqs[cur + 1].target) ELSE up
            /\ reqs' = reqs \/ reqs' = [reqs EXCEPT ![cur + 1].method = "GET"]
            /\ UNCHANGED <<program, left, resp, cl, resps, got, seen, captured, log>>
    BY TakesIsRead
  <1>2. /\ cin \in Seq(AnyPiece) /\ Len(cin) \in Nat /\ k \in Nat
        /\ cl.n \in 0..MaxReq /\ MaxReq \in Nat /\ cur \in Nat /\ cur \in 0..MaxReq
    BY ExchangeAssumption DEF TypeOK
  <1>3. cur' <= cl.n /\ cur' \in Msg
    <2>1. cin[k].msg \in 1..cl.n BY <1>1 DEF ClientInLine
    <2>2. cin[k].msg = cur + 1 BY <1>1, PieceFields
    <2> QED BY <1>1, <1>2, <2>1, <2>2 DEF Msg
  <1>4. /\ cin' \in Seq(AnyPiece) /\ Len(cin') = Len(cin) - k
        /\ \A j \in 1..Len(cin') : cin'[j] = cin[j + k]
    <2>1. \A j \in k + 1..Len(cin) : cin[j] \in AnyPiece BY <1>2, ElementOfSeq
    <2>2. /\ SubSeq(cin, k + 1, Len(cin)) \in Seq(AnyPiece)
          /\ Len(SubSeq(cin, k + 1, Len(cin))) = IF k + 1 <= Len(cin) THEN Len(cin) - (k + 1) + 1 ELSE 0
          /\ \A j \in 1..Len(cin) - (k + 1) + 1 :
                SubSeq(cin, k + 1, Len(cin))[j] = cin[k + 1 + j - 1]
      BY <1>2, <2>1, SubSeqProperties
    <2>3. Len(cin') = Len(cin) - k BY <1>1, <1>2, <2>2
    <2>4. ASSUME NEW j \in 1..Len(cin') PROVE cin'[j] = cin[j + k]
      <3>1. j \in 1..Len(cin) - (k + 1) + 1 /\ k + 1 + j - 1 = j + k BY <1>2, <2>3
      <3> QED BY <1>1, <2>2, <3>1
    <2> QED BY <1>1, <2>2, <2>3, <2>4
  <1>5. reqs \in [Msg -> Request] /\ reqs[cur'] \in Request BY <1>3 DEF TypeOK
  <1>6. reqs' \in [Msg -> Request] /\ Alike(reqs, reqs') /\ \A j \in 1..cur : reqs'[j] = reqs[j]
    <2>1. CASE reqs' = reqs BY <1>5, <2>1 DEF Alike
    <2>2. CASE reqs' = [reqs EXCEPT ![cur'].method = "GET"]
      <3>1. [reqs[cur'] EXCEPT !.method = "GET"] \in Request BY <1>5 DEF Request
      <3>2. reqs' = [reqs EXCEPT ![cur'] = [reqs[cur'] EXCEPT !.method = "GET"]] BY <2>2
      <3>3. reqs' \in [Msg -> Request] BY <1>5, <3>1, <3>2
      <3>4. reqs'[cur'] = [reqs[cur'] EXCEPT !.method = "GET"] /\ \A j \in Msg : j # cur' => reqs'[j] = reqs[j]
        BY <1>3, <1>5, <3>2
      <3>5. Alike(reqs, reqs') BY <1>5, <3>4 DEF Alike, Request
      <3>6. \A j \in 1..cur : j \in Msg /\ j # cur' BY <1>1, <1>2 DEF Msg
      <3> QED BY <3>3, <3>4, <3>5, <3>6
    <2> QED BY <1>1, <2>1, <2>2
  <1>7. reqs'[cur'].mode # "error" /\ reqs'[cur'].target = reqs[cur'].target /\ reqs[cur'].target \in Target
    BY <1>1, <1>3, <1>5, <1>6, RequestPieces DEF Alike
  <1>8. up \in Connection BY DEF TypeOK
  <1>9. /\ \/ up' = newConnection(reqs[cur'].target) /\ Self.upstream # "session"
           \/ up' = up /\ (Self.upstream # "session" => up.target = reqs[cur'].target)
        /\ up' \in Connection /\ (Self.upstream # "session" => up'.target = reqs[cur'].target)
    BY <1>1, <1>7, <1>8, NewConnection DEF NeedsConnect
  <1> QED BY <1>1, <1>3, <1>4, <1>6, <1>7, <1>9

LEMMA SendHeadEffect ==
  ASSUME TypeOK, AtRequest, SendHead
  PROVE  /\ pc = "sendHead" /\ cur # 0 /\ cur \in Msg /\ reqs[cur] \in Request
         /\ SendUp(Piece(cur, "head", 0)) /\ Piece(cur, "head", 0) \in AnyPiece
         /\ IF Pieces(reqs[cur]) = 0 THEN pc' = "respHead" /\ log' = Analyzed(cur, 0)
            ELSE pc' = "reqBody" /\ log' = log
         /\ left' = IF reqs[cur].mode = "length" THEN reqs[cur].len ELSE 1
         /\ captured' = 0
         /\ UNCHANGED <<program, cur, resp, cin, cl, reqs, resps, got>>
  <1>1. pc = "sendHead" BY DEF SendHead
  <1>2. cur # 0 /\ cur \in Msg BY <1>1 DEF AtRequest, TypeOK, Msg
  <1>3. reqs[cur] \in Request BY <1>2 DEF TypeOK
  <1>4. Piece(cur, "head", 0) \in AnyPiece BY PieceType DEF TypeOK
  <1> QED BY <1>1, <1>2, <1>3, <1>4 DEF SendHead

LEMMA ForwardRequestEffect ==
  ASSUME TypeOK, ClientInLine, AtRequest, ForwardRequest
  PROVE  /\ pc = "reqBody" /\ cur # 0 /\ cur \in Msg /\ reqs[cur] \in Request /\ cin # <<>>
         /\ reqs[cur].mode \in {"length", "chunked"}
         /\ SendUp(cin[1]) /\ cin[1] \in AnyPiece /\ cin' = Tail(cin)
         /\ Taken.n \in Nat /\ cin[1].kind # "head" /\ cin[1].msg = cur /\ cin[1].n = Taken.n + 1
         /\ cin[1].n <= Pieces(reqs[cur])
         /\ left' \in Nat
         /\ IF cin[1].n = Pieces(reqs[cur])
            THEN left' = 0 /\ pc' = "respHead" /\ log' = Analyzed(cur, captured')
            ELSE /\ left' = IF reqs[cur].mode = "length" THEN reqs[cur].len - cin[1].n ELSE 1
                 /\ pc' = "reqBody" /\ log' = log
         /\ captured' \in 0..Cap
         /\ captured' = IF Inspected(cur) /\ cin[1].kind = "data" /\ captured < Cap
                        THEN captured + 1 ELSE captured
         /\ cin[1].kind = IF reqs[cur].mode = "chunked" /\ cin[1].n > reqs[cur].len THEN "last"
                          ELSE "data"
         /\ UNCHANGED <<program, cur, resp, cl, reqs, resps, got>>
  <1>1. /\ pc = "reqBody" /\ cin # <<>> /\ SendUp(Head(cin)) /\ cin' = Tail(cin)
        /\ left' = After(reqs[cur].mode, Head(cin)) /\ captured' = Captured(Head(cin))
        /\ pc' = IF left' = 0 THEN "respHead" ELSE "reqBody"
        /\ log' = IF left' = 0 THEN Analyzed(cur, captured') ELSE log
        /\ UNCHANGED <<program, cur, resp, cl, reqs, resps, got>>
    BY DEF ForwardRequest
  <1>2. cur # 0 /\ cur \in Msg BY <1>1 DEF AtRequest, TypeOK, Msg
  <1>3. reqs[cur] \in Request BY <1>2 DEF TypeOK
  <1>4. /\ Head(cin) = cin[1] /\ cin[1] \in AnyPiece
        /\ cin[1].n \in Nat /\ cin[1].n <= Pieces(reqs[cin[1].msg])
        /\ cin[1] = RequestPiece(cin[1].msg, cin[1].n)
        /\ cin[1].kind = "head" <=> cin[1].n = 0
        /\ cin[1].kind # "head" => cin[1].msg = cur /\ cin[1].n = Taken.n + 1
        /\ Succeeds(Taken, cin[1])
    BY <1>1, ReadClient
  <1>5. /\ seen # <<>> /\ Taken.n < Pieces(reqs[cur])
        /\ left = IF reqs[cur].mode = "length" THEN reqs[cur].len - Taken.n ELSE 1
    BY <1>1 DEF AtRequest
  <1>6. Taken.n \in Nat
    <2>1. seen[Len(seen)].piece \in AnyPiece
      <3>1. seen \in Seq([to : Target, piece : AnyPiece]) BY DEF TypeOK
      <3>2. Len(seen) \in 1..Len(seen) BY <1>5, <3>1, EmptySeq
      <3>3. seen[Len(seen)] \in [to : Target, piece : AnyPiece] BY <3>1, <3>2, ElementOfSeq
      <3> QED BY <3>3
    <2>2. Taken = seen[Len(seen)].piece BY <1>1, <1>5 DEF Taken
    <2> QED BY <2>1, <2>2 DEF AnyPiece
  <1>7. cin[1].kind # "head"
    <2> SUFFICES ASSUME cin[1].n = 0 PROVE FALSE BY <1>4
    <2>1. Taken.msg = cur BY <1>1 DEF ClientInLine
    <2>2. Taken.n = Pieces(reqs[cur]) BY <1>2, <1>4, <2>1 DEF Succeeds
    <2> QED BY <1>5, <1>6, <2>2
  <1>8. /\ Pieces(reqs[cur]) = IF reqs[cur].mode = "chunked" THEN reqs[cur].len + 1
                               ELSE IF reqs[cur].mode = "length" THEN reqs[cur].len ELSE 0
        /\ reqs[cur].len \in Nat
    BY <1>3, RequestPieces
  <1>9. reqs[cur].mode \in {"length", "chunked"} BY <1>5, <1>6, <1>8
  <1>10. cin[1].kind = IF reqs[cur].mode = "chunked" /\ cin[1].n > reqs[cur].len THEN "last"
                       ELSE "data"
    <2>1. cin[1].kind = RequestPiece(cin[1].msg, cin[1].n).kind BY <1>4
    <2> QED BY <1>4, <1>7, <2>1, RequestPieceFields
  <1>11. left' = IF reqs[cur].mode = "length" THEN left - 1
                 ELSE IF cin[1].kind = "last" THEN 0 ELSE 1
    BY <1>1, <1>4 DEF After
  <1>12. IF cin[1].n = Pieces(reqs[cur]) THEN left' = 0
         ELSE left' = (IF reqs[cur].mode = "length" THEN reqs[cur].len - cin[1].n ELSE 1) /\ left' # 0
    <2>1. CASE reqs[cur].mode = "length"
      BY <1>4, <1>5, <1>6, <1>7, <1>8, <1>11, <2>1
    <2>2. CASE reqs[cur].mode = "chunked"
      BY <1>4, <1>5, <1>6, <1>7, <1>8, <1>10, <1>11, <2>2
    <2> QED BY <1>9, <2>1, <2>2
  <1>13. left' \in Nat
    BY <1>4, <1>7, <1>8, <1>12
  <1>14. captured' = (IF Inspected(cur) /\ cin[1].kind = "data" /\ captured < Cap
                      THEN captured + 1 ELSE captured) /\ captured' \in 0..Cap
    BY <1>1, <1>4, ExchangeAssumption, SMTT(60) DEF Captured, TypeOK
  <1> QED BY <1>1, <1>2, <1>3, <1>4, <1>6, <1>7, <1>9, <1>10, <1>12, <1>13, <1>14

\* Facts about the answer that is read; that it is there says up.out # <<>>.
LEMMA TakeResponseEffect ==
  ASSUME TypeOK, AtRequest, OriginInLine, TakeResponse
  PROVE  LET piece == up.out[1]
             r == IF piece.kind = "info" THEN info ELSE resps[piece.msg]
             mode == BodyMode(reqs[cur], r)
         IN /\ pc = "respHead" /\ cur \in Msg /\ reqs[cur] \in Request
            /\ up.out # <<>> /\ piece \in AnyPiece /\ piece.kind \in {"head", "info"}
            /\ piece.msg \in Msg /\ piece.msg <= cur /\ SendDown(piece)
            /\ r \in Response /\ resp' = r
            /\ left' = (IF mode = "length" THEN r.len ELSE 1) /\ left' \in Nat
            /\ IF mode = "none" \/ (mode = "length" /\ r.len = 0) THEN Ended(r, mode, Rest)
               ELSE pc' = "respBody" /\ up' = Rest /\ log' = log /\ left' > 0
            /\ UNCHANGED <<program, cur, cin, cl, reqs, resps, seen, captured>>
  <1> DEFINE piece == up.out[1]
             r == IF piece.kind = "info" THEN info ELSE resps[piece.msg]
             mode == BodyMode(reqs[cur], r)
  <1>1. pc = "respHead" /\ up.out # <<>> /\ Head(up.out).kind \in {"head", "info"}
    BY DEF TakeResponse, Ready
  <1>2. piece = Head(up.out) /\ piece \in AnyPiece /\ 1 \in 1..Len(up.out) BY <1>1, RestFields
  <1>3. cur \in Msg BY <1>1 DEF AtRequest, TypeOK, Msg
  <1>4. reqs[cur] \in Request BY <1>3 DEF TypeOK
  <1>5. piece.msg \in 1..cur BY <1>1, <1>2 DEF OriginInLine, SentUpTo
  <1>6. piece.msg \in Msg BY <1>3, <1>5, ExchangeAssumption DEF Msg
  <1>7. info \in Response BY DEF info, Response, Connections
  <1>8. r \in Response BY <1>6, <1>7 DEF TypeOK
  <1>9. r.len \in Nat BY <1>8, ResponsePieces
  <1>10. /\ SendDown(piece) /\ resp' = r
         /\ left' = IF mode = "length" THEN r.len ELSE 1
         /\ IF mode = "none" \/ (mode = "length" /\ r.len = 0) THEN Ended(r, mode, Rest)
            ELSE pc' = "respBody" /\ up' = Rest /\ log' = log
         /\ UNCHANGED <<program, cur, cin, cl, reqs, resps, seen, captured>>
    BY <1>2 DEF TakeResponse
  <1>11. left' \in Nat /\ ~(mode = "none" \/ (mode = "length" /\ r.len = 0)) => left' > 0
    BY <1>9, <1>10
  <1>12. left' \in Nat BY <1>9, <1>10
  <1> HIDE DEF r, mode
  <1> QED BY <1>1, <1>2, <1>3, <1>4, <1>5, <1>6, <1>8, <1>10, <1>11, <1>12 DEF r, mode

LEMMA ForwardResponseEffect ==
  ASSUME TypeOK, AtRequest, OriginInLine, ForwardResponse
  PROVE  LET piece == up.out[1]
             mode == BodyMode(reqs[cur], resp)
         IN /\ pc = "respBody" /\ cur \in Msg /\ reqs[cur] \in Request
            /\ up.out # <<>> /\ piece \in AnyPiece /\ piece.kind \in {"data", "last"}
            /\ piece.msg \in Msg /\ piece.msg <= cur /\ SendDown(piece)
            /\ left' = (IF mode = "length" THEN left - 1 ELSE IF piece.kind = "last" THEN 0 ELSE 1)
            /\ left' \in Nat
            /\ IF left' = 0 THEN Ended(resp, mode, Rest)
               ELSE pc' = "respBody" /\ up' = Rest /\ log' = log
            /\ UNCHANGED <<program, cur, resp, cin, cl, reqs, resps, seen, captured>>
  <1> DEFINE piece == up.out[1]
             mode == BodyMode(reqs[cur], resp)
  <1>1. pc = "respBody" /\ up.out # <<>> /\ Head(up.out).kind \in {"data", "last"}
    BY DEF ForwardResponse, Ready
  <1>2. piece = Head(up.out) /\ piece \in AnyPiece /\ 1 \in 1..Len(up.out) BY <1>1, RestFields
  <1>3. cur \in Msg BY <1>1 DEF AtRequest, TypeOK, Msg
  <1>4. reqs[cur] \in Request BY <1>3 DEF TypeOK
  <1>5. piece.msg \in 1..cur BY <1>1, <1>2 DEF OriginInLine, SentUpTo
  <1>6. piece.msg \in Msg BY <1>3, <1>5, ExchangeAssumption DEF Msg
  <1>7. /\ SendDown(piece)
        /\ left' = IF mode = "length" THEN left - 1 ELSE IF piece.kind = "last" THEN 0 ELSE 1
        /\ IF left' = 0 THEN Ended(resp, mode, Rest)
           ELSE pc' = "respBody" /\ up' = Rest /\ log' = log
        /\ UNCHANGED <<program, cur, resp, cin, cl, reqs, resps, seen, captured>>
    BY <1>2 DEF ForwardResponse, After
  <1>8. left \in Nat /\ left > 0 BY <1>1 DEF TypeOK, AtRequest
  <1>9. left' \in Nat BY <1>7, <1>8
  <1> HIDE DEF mode
  <1> QED BY <1>1, <1>2, <1>3, <1>4, <1>5, <1>6, <1>7, <1>9 DEF mode

\* The client.
LEMMA ClientEffect ==
  ASSUME TypeOK, ClientInLine, Client
  PROVE  /\ pc # "done" /\ ~cl.gone
         /\ UNCHANGED <<program, pc, cur, left, resp, up, resps, got, seen, captured, log>>
         /\ \/ /\ cl' = [cl EXCEPT !.gone = TRUE] /\ UNCHANGED <<cin, reqs>>
            \/ \E i \in Msg, n \in Nat :
                  /\ cl' = [n |-> i, sent |-> n, gone |-> FALSE]
                  /\ reqs' \in [Msg -> Request]
                  /\ \A j \in 1..cl.n : reqs'[j] = reqs[j]
                  /\ IF n = 0 THEN i = cl.n + 1 /\ (cl.n # 0 => cl.sent = Pieces(reqs[cl.n]))
                              ELSE i = cl.n /\ n = cl.sent + 1 /\ reqs' = reqs
                  /\ n <= Pieces(reqs'[i])
                  /\ LET piece == IF n = 0 THEN Piece(i, "head", 0) ELSE PieceOf(i, reqs'[i], n)
                     IN piece \in AnyPiece /\ cin' = Append(cin, piece)
  <1>1. cl \in [n : 0..MaxReq, sent : Nat, gone : BOOLEAN] /\ reqs \in [Msg -> Request] BY DEF TypeOK
  <1>2. CASE \E r \in Requests : ClientBegins(r)
    <2>1. PICK r \in Requests : ClientBegins(r) BY <1>2
    <2>2. /\ ~cl.gone /\ Whole /\ cl.n < MaxReq /\ pc # "done"
          /\ cl' = [cl EXCEPT !.n = @ + 1, !.sent = 0]
          /\ reqs' = [reqs EXCEPT ![cl.n + 1] = r]
          /\ cin' = Append(cin, Piece(cl.n + 1, "head", 0))
          /\ UNCHANGED <<program, pc, cur, left, resp, up, resps, got, seen, captured, log>>
      BY <2>1 DEF ClientBegins
    <2> DEFINE i == cl.n + 1
    <2>3. i \in Msg /\ i \in 0..MaxReq BY <1>1, <2>2, ExchangeAssumption DEF Msg
    <2>4. r \in Request BY ExchangeAssumption
    <2>5. reqs' \in [Msg -> Request] /\ \A j \in 1..cl.n : reqs'[j] = reqs[j]
      BY <1>1, <2>2, <2>3, <2>4
    <2>6. cl' = [n |-> i, sent |-> 0, gone |-> FALSE]
      BY <1>1, <2>2
    <2>7. cl.n # 0 => cl.sent = Pieces(reqs[cl.n]) BY <2>2 DEF Whole
    <2>9. Piece(i, "head", 0) \in AnyPiece BY <2>3, PieceType
    <2>10. 0 <= Pieces(reqs'[i]) BY <2>3, <2>5, RequestPieces
    <2> QED BY <2>2, <2>3, <2>5, <2>6, <2>7, <2>9, <2>10
  <1>3. CASE ClientSends
    <2>1. /\ ~cl.gone /\ ~Whole /\ pc # "done"
          /\ cl' = [cl EXCEPT !.sent = @ + 1]
          /\ cin' = Append(cin, PieceOf(cl.n, reqs[cl.n], cl.sent + 1))
          /\ UNCHANGED <<program, pc, cur, left, resp, up, reqs, resps, got, seen, captured, log>>
      BY <1>3 DEF ClientSends
    <2> DEFINE n == cl.sent + 1
    <2>2. cl.n # 0 /\ cl.sent # Pieces(reqs[cl.n]) BY <2>1 DEF Whole
    <2>3. cl.n \in Msg /\ cl.n \in 0..MaxReq BY <1>1, <2>2, ExchangeAssumption DEF Msg
    <2>4. cl.sent <= Pieces(reqs[cl.n]) /\ Pieces(reqs[cl.n]) \in Nat
      BY <1>1, <2>2, <2>3, RequestPieces DEF ClientInLine
    <2>5. n \in Nat /\ n # 0 /\ n <= Pieces(reqs[cl.n]) BY <1>1, <2>2, <2>4
    <2>6. cl' = [n |-> cl.n, sent |-> n, gone |-> FALSE]
      BY <1>1, <2>1
    <2>8. PieceOf(cl.n, reqs[cl.n], n) \in AnyPiece BY <2>3, <2>5, PieceOfType
    <2>9. cin' = Append(cin, PieceOf(cl.n, reqs'[cl.n], n)) /\ reqs' = reqs
      BY <2>1 DEF n
    <2>10. PieceOf(cl.n, reqs'[cl.n], n) \in AnyPiece BY <2>8, <2>9
    <2>11. n = cl.sent + 1 BY DEF n
    <2>12. UNCHANGED <<program, pc, cur, left, resp, up, resps, got, seen, captured, log>> BY <2>1
    <2> HIDE DEF n
    <2> QED BY <1>1, <2>1, <2>3, <2>5, <2>6, <2>9, <2>10, <2>11, <2>12
  <1>4. CASE ClientGoes
    BY <1>4 DEF ClientGoes
  <1> QED BY <1>2, <1>3, <1>4 DEF Client

\* The origin.  Its messages are those of up.todo, whose heads were sent.
LEMMA TodoHead ==
  ASSUME TypeOK, up.todo # <<>>
  PROVE  /\ 1 \in 1..Len(up.todo) /\ Head(up.todo) = up.todo[1] /\ up.todo[1] \in Msg
         /\ up.todo[1] \in 0..MaxReq
         /\ Tail(up.todo) \in Seq(Msg) /\ Len(Tail(up.todo)) = Len(up.todo) - 1
         /\ \A t \in 1..Len(Tail(up.todo)) : Tail(up.todo)[t] = up.todo[t + 1]
  <1>1. up.todo \in Seq(Msg) BY DEF TypeOK, Connection
  <1>2. 1 \in 1..Len(up.todo) /\ Head(up.todo) = up.todo[1] BY <1>1, EmptySeq
  <1>3. up.todo[1] \in Msg BY <1>1, <1>2, ElementOfSeq
  <1>4. up.todo[1] \in 0..MaxReq BY <1>3, ExchangeAssumption DEF Msg
  <1> QED BY <1>1, <1>2, <1>3, <1>4, HeadTailProperties

\* A piece more on its way.
LEMMA OutAppend ==
  ASSUME TypeOK, NEW piece \in AnyPiece
  PROVE  /\ Append(up.out, piece) \in Seq(AnyPiece) /\ Len(Append(up.out, piece)) = Len(up.out) + 1
         /\ \A k \in 1..Len(up.out) : Append(up.out, piece)[k] = up.out[k]
         /\ Append(up.out, piece)[Len(up.out) + 1] = piece
  <1>1. up.out \in Seq(AnyPiece) BY DEF TypeOK, Connection
  <1> QED BY <1>1, AppendProperties

OriginFrame == UNCHANGED <<program, pc, cur, left, resp, cin, cl, reqs, got, seen, captured, log>>

LEMMA InformsEffect ==
  ASSUME TypeOK, OriginInforms
  PROVE  /\ OriginFrame /\ resps' = resps /\ pc # "done" /\ ~up.fin
         /\ up.todo # <<>> /\ up.ans = 0 /\ ~up.informed
         /\ Piece(up.todo[1], "info", 0) \in AnyPiece
         /\ up'.out = Append(up.out, Piece(up.todo[1], "info", 0)) /\ up'.informed
         /\ up'.todo = up.todo /\ up'.ans = up.ans /\ up'.sent = up.sent /\ up'.fin = up.fin
         /\ up'.target = up.target /\ up' \in Connection
  <1>1. /\ OriginFrame /\ resps' = resps /\ pc # "done" /\ ~up.fin
        /\ up.todo # <<>> /\ up.ans = 0 /\ ~up.informed
        /\ up' = [up EXCEPT !.informed = TRUE, !.out = Append(@, Piece(Head(up.todo), "info", 0))]
    BY DEF OriginInforms, OriginFrame, OriginUp, Idle
  <1>2. Piece(up.todo[1], "info", 0) \in AnyPiece /\ Head(up.todo) = up.todo[1]
    BY <1>1, TodoHead, PieceType
  <1>3. Append(up.out, Piece(up.todo[1], "info", 0)) \in Seq(AnyPiece) BY <1>2, OutAppend
  <1>4. up \in Connection BY DEF TypeOK
  <1>5. up' = [up EXCEPT !.informed = TRUE, !.out = Append(up.out, Piece(up.todo[1], "info", 0))]
    BY <1>1, <1>2
  <1> HIDE DEF OriginFrame
  <1> QED BY <1>1, <1>2, <1>3, <1>4, <1>5 DEF Connection

LEMMA AnswersEffect ==
  ASSUME TypeOK, NEW r \in Responses, OriginAnswers(r)
  PROVE  LET i == up.todo[1] IN
         /\ OriginFrame /\ pc # "done" /\ ~up.fin /\ up.todo # <<>> /\ up.ans = 0
         /\ i \in Msg /\ r \in Response /\ r.status # "info"
         /\ resps' = [resps EXCEPT ![i] = r] /\ resps' \in [Msg -> Response]
         /\ Piece(i, "head", 0) \in AnyPiece
         /\ up'.out = Append(up.out, Piece(i, "head", 0)) /\ up'.todo = Tail(up.todo)
         /\ up'.sent = 0
         /\ up'.ans = IF Bodiless(reqs[i], r) \/ (Pieces(r) = 0 /\ r.mode # "until") THEN 0 ELSE i
         /\ up'.fin = up.fin /\ up'.informed = up.informed
         /\ up'.target = up.target /\ up' \in Connection
  <1> DEFINE i == up.todo[1]
             whole == Bodiless(reqs[i], r) \/ (Pieces(r) = 0 /\ r.mode # "until")
  <1>1. /\ OriginFrame /\ pc # "done" /\ ~up.fin /\ up.todo # <<>> /\ up.ans = 0
        /\ resps' = [resps EXCEPT ![Head(up.todo)] = r]
        /\ up' = [up EXCEPT !.todo = Tail(@), !.out = Append(@, Piece(Head(up.todo), "head", 0)), !.sent = 0,
                  !.ans = IF Bodiless(reqs[Head(up.todo)], r)
                             \/ Pieces(r) + (IF r.mode = "until" THEN 1 ELSE 0) = 0
                          THEN 0 ELSE Head(up.todo)]
    BY DEF OriginAnswers, OriginFrame, OriginUp, Idle
  <1>2. /\ i \in Msg /\ i \in 0..MaxReq /\ Head(up.todo) = i /\ Tail(up.todo) \in Seq(Msg)
    BY <1>1, TodoHead
  <1>3. r \in Response /\ r.status # "info" BY ExchangeAssumption
  <1>4. resps' \in [Msg -> Response] BY <1>1, <1>2, <1>3 DEF TypeOK
  <1>5. Piece(i, "head", 0) \in AnyPiece BY <1>2, PieceType
  <1>6. Append(up.out, Piece(i, "head", 0)) \in Seq(AnyPiece) BY <1>5, OutAppend
  <1>7. Pieces(r) + (IF r.mode = "until" THEN 1 ELSE 0) = 0 <=> Pieces(r) = 0 /\ r.mode # "until"
    BY <1>3, ResponsePieces
  <1>8. up' = [up EXCEPT !.todo = Tail(up.todo), !.out = Append(up.out, Piece(i, "head", 0)),
                         !.sent = 0, !.ans = IF whole THEN 0 ELSE i]
    BY <1>1, <1>2, <1>7
  <1>9. up \in Connection /\ (IF whole THEN 0 ELSE i) \in 0..MaxReq
    BY <1>2, ExchangeAssumption DEF TypeOK
  <1> HIDE DEF OriginFrame, whole
  <1>10. /\ up'.out = Append(up.out, Piece(i, "head", 0)) /\ up'.todo = Tail(up.todo)
         /\ up'.sent = 0 /\ up'.ans = (IF whole THEN 0 ELSE i)
         /\ up'.fin = up.fin /\ up'.informed = up.informed /\ up'.target = up.target
    BY <1>8, <1>9 DEF Connection
  <1>11. up' \in Connection BY <1>2, <1>6, <1>8, <1>9 DEF Connection
  <1> QED BY <1>1, <1>2, <1>3, <1>4, <1>5, <1>10, <1>11 DEF whole

LEMMA SendsEffect ==
  ASSUME TypeOK, OriginSends
  PROVE  LET i == up.ans
             n == up.sent + 1
             piece == PieceOf(i, resps[i], n)
         IN /\ OriginFrame /\ resps' = resps /\ pc # "done" /\ ~up.fin
            /\ i # 0 /\ i \in Msg /\ up.sent \in Nat /\ up.sent < Pieces(resps[i])
            /\ piece \in AnyPiece /\ up'.out = Append(up.out, piece)
            /\ up'.sent = n
            /\ up'.ans = IF n = Pieces(resps[i]) /\ resps[i].mode # "until" THEN 0 ELSE i
            /\ up'.todo = up.todo /\ up'.fin = up.fin /\ up'.informed = up.informed
            /\ up'.target = up.target /\ up' \in Connection
  <1> DEFINE i == up.ans
             n == up.sent + 1
             piece == PieceOf(i, resps[i], n)
             ans == IF n = Pieces(resps[i]) /\ resps[i].mode # "until" THEN 0 ELSE i
  <1>1. /\ OriginFrame /\ resps' = resps /\ pc # "done" /\ ~up.fin
        /\ i # 0 /\ up.sent < Pieces(resps[i])
        /\ up' = [up EXCEPT !.sent = n, !.out = Append(@, piece), !.ans = ans]
    BY DEF OriginSends, OriginFrame, OriginUp, Idle
  <1>2. up \in Connection /\ up.sent \in Nat /\ i \in 0..MaxReq BY DEF TypeOK, Connection
  <1>3. i \in Msg BY <1>1, <1>2, ExchangeAssumption DEF Msg
  <1>4. piece \in AnyPiece BY <1>2, PieceOfType
  <1>5. Append(up.out, piece) \in Seq(AnyPiece) BY <1>4, OutAppend
  <1>6. ans \in 0..MaxReq BY <1>2, ExchangeAssumption
  <1>7. n \in Nat BY <1>2
  <1>8. up' = [up EXCEPT !.sent = n, !.out = Append(up.out, piece), !.ans = ans] BY <1>1
  <1> HIDE DEF OriginFrame, piece, ans, n
  <1>9. /\ up'.out = Append(up.out, piece) /\ up'.sent = n /\ up'.ans = ans
        /\ up'.todo = up.todo /\ up'.fin = up.fin /\ up'.informed = up.informed
        /\ up'.target = up.target
    BY <1>2, <1>8 DEF Connection
  <1>10. up' \in Connection BY <1>2, <1>5, <1>6, <1>7, <1>8 DEF Connection
  <1> QED BY <1>1, <1>2, <1>3, <1>4, <1>9, <1>10 DEF piece, ans, n

LEMMA ClosesEffect ==
  ASSUME TypeOK, OriginCloses
  PROVE  /\ OriginFrame /\ resps' = resps /\ pc # "done"
         /\ up'.todo = up.todo /\ up'.ans = up.ans /\ up'.sent = up.sent /\ up'.out = up.out
         /\ up'.fin /\ up'.informed = up.informed
         /\ up'.target = up.target /\ up' \in Connection
  <1>1. up \in Connection BY DEF TypeOK
  <1>2. OriginFrame /\ resps' = resps /\ pc # "done" /\ up' = [up EXCEPT !.fin = TRUE]
    BY DEF OriginCloses, OriginFrame, OriginUp
  <1> HIDE DEF OriginFrame
  <1> QED BY <1>1, <1>2 DEF Connection

-----------------------------------------------------------------------------
(* A step keeps the types.                                                 *)

LEMMA OriginKinds ==
  ASSUME TypeOK, Origin
  PROVE  /\ OriginFrame /\ pc # "done" /\ up' \in Connection /\ resps' \in [Msg -> Response]
         /\ \/ OriginInforms \/ OriginSends \/ OriginCloses
            \/ \E r \in Responses : OriginAnswers(r)
  <1>1. resps \in [Msg -> Response] BY DEF TypeOK
  <1>2. CASE \E r \in Responses : OriginAnswers(r)
    <2>1. PICK r \in Responses : OriginAnswers(r) BY <1>2
    <2>2. OriginFrame /\ pc # "done" /\ up' \in Connection /\ resps' \in [Msg -> Response]
      BY <2>1, AnswersEffect
    <2> QED BY <1>2, <2>2
  <1>3. CASE OriginInforms BY <1>1, <1>3, InformsEffect
  <1>4. CASE OriginSends BY <1>1, <1>4, SendsEffect
  <1>5. CASE OriginCloses BY <1>1, <1>5, ClosesEffect
  <1> QED BY <1>2, <1>3, <1>4, <1>5 DEF Origin, Answer

LEMMA TypeStep ==
  ASSUME TypeOK, ClientInLine, AtRequest, OriginInLine, [Next]_vars
  PROVE  TypeOK'
  <1>0. /\ up \in Connection /\ got \in Seq(AnyPiece) /\ cin \in Seq(AnyPiece)
        /\ cl \in [n : 0..MaxReq, sent : Nat, gone : BOOLEAN]
        /\ captured \in 0..Cap /\ log \in Seq(LogEntry)
    BY DEF TypeOK
  <1>1. CASE GivesUp
    <2>0. errorReply \in AnyPiece BY ErrorType
    <2>1. Append(got, errorReply) \in Seq(AnyPiece) BY <1>0, <2>0, AppendProperties
    <2>2. got' \in Seq(AnyPiece) BY <1>0, <1>1, <2>1 DEF GivesUp
    <2> QED BY <1>1, <2>2 DEF TypeOK, GivesUp
  <1>2. CASE GoesOnAnyway
    <2>1. cur # 0 BY <1>2 DEF AtRequest, GoesOnAnyway
    <2>2. log' \in Seq(LogEntry) BY <1>0, <1>2, <2>1, AnalyzedEffect DEF GoesOnAnyway
    <2> QED BY <1>2, <2>2 DEF TypeOK, GoesOnAnyway
  <1>3. CASE Abandons
    <2>1. pc' \in {"done", "reqHead"} /\ up' \in Connection /\ log' \in Seq(LogEntry)
      BY <1>0, <1>3, EndedEffect DEF Abandons
    <2> QED BY <1>3, <2>1 DEF TypeOK, Abandons
  <1>4. CASE Takes
    <2>1. cur' \in 0..MaxReq BY <1>4, TakesEffect, ExchangeAssumption DEF Msg
    <2> QED BY <1>4, <2>1, TakesEffect DEF TypeOK
  <1>5. CASE SendHead
    <2>1. /\ SendUp(Piece(cur, "head", 0)) /\ Piece(cur, "head", 0) \in AnyPiece /\ cur \in Msg
          /\ cur # 0 /\ reqs[cur] \in Request
          /\ log' = log \/ log' = Analyzed(cur, 0)
          /\ pc' \in {"respHead", "reqBody"}
          /\ left' = IF reqs[cur].mode = "length" THEN reqs[cur].len ELSE 1
          /\ captured' = 0
          /\ UNCHANGED <<program, cur, resp, cin, cl, reqs, resps, got>>
      BY <1>5, SendHeadEffect
    <2>6. Piece(cur, "head", 0).msg = cur BY PieceFields
    <2>2. seen' \in Seq([to : Target, piece : AnyPiece]) /\ up' \in Connection
      BY <2>1, <2>6, SendUpEffect
    <2>3. 0 \in 0..Cap BY ExchangeAssumption
    <2>4. log' \in Seq(LogEntry) BY <1>0, <2>1, <2>3, AnalyzedEffect
    <2>5. left' \in Nat BY <2>1, RequestPieces
    <2> QED BY <2>1, <2>2, <2>3, <2>4, <2>5 DEF TypeOK
  <1>6. CASE ForwardRequest
    <2>1. /\ SendUp(cin[1]) /\ cin[1] \in AnyPiece /\ cur # 0 /\ cin' = Tail(cin) /\ pc = "reqBody"
          /\ cin # <<>> /\ cin[1].kind # "head"
          /\ log' = log \/ log' = Analyzed(cur, captured')
          /\ pc' \in {"respHead", "reqBody"} /\ left' \in Nat /\ captured' \in 0..Cap
          /\ UNCHANGED <<program, cur, resp, cl, reqs, resps, got>>
      BY <1>6, ForwardRequestEffect
    <2>2. seen' \in Seq([to : Target, piece : AnyPiece]) /\ up' \in Connection
      BY <2>1, SendUpEffect
    <2>3. log' \in Seq(LogEntry) BY <1>0, <2>1, AnalyzedEffect
    <2>4. cin' \in Seq(AnyPiece) BY <2>1, ReadClient
    <2> QED BY <2>1, <2>2, <2>3, <2>4 DEF TypeOK
  <1>7. CASE TakeResponse
    <2>1. PICK piece \in AnyPiece, r \in Response :
             /\ pc = "respHead" /\ up.out # <<>> /\ SendDown(piece) /\ resp' = r /\ left' \in Nat
             /\ Ended(r, BodyMode(reqs[cur], r), Rest) \/ (pc' = "respBody" /\ up' = Rest /\ log' = log)
             /\ UNCHANGED <<program, cur, cin, cl, reqs, resps, seen, captured>>
      BY <1>7, TakeResponseEffect
    <2>2. got' \in Seq(AnyPiece) BY <1>0, <2>1, SendDownEffect
    <2>3. pc' \in {"done", "reqHead", "respBody"} /\ up' \in Connection /\ log' \in Seq(LogEntry)
      BY <1>0, <2>1, EndedEffect, RestFields
    <2> QED BY <2>1, <2>2, <2>3 DEF TypeOK
  <1>8. CASE ForwardResponse
    <2>1. PICK piece \in AnyPiece :
             /\ pc = "respBody" /\ up.out # <<>> /\ SendDown(piece) /\ left' \in Nat
             /\ Ended(resp, BodyMode(reqs[cur], resp), Rest) \/ (pc' = "respBody" /\ up' = Rest /\ log' = log)
             /\ UNCHANGED <<program, cur, resp, cin, cl, reqs, resps, seen, captured>>
      BY <1>8, ForwardResponseEffect
    <2>2. got' \in Seq(AnyPiece) BY <1>0, <2>1, SendDownEffect
    <2>3. pc' \in {"done", "reqHead", "respBody"} /\ up' \in Connection /\ log' \in Seq(LogEntry)
      BY <1>0, <2>1, EndedEffect, RestFields
    <2> QED BY <2>1, <2>2, <2>3 DEF TypeOK
  <1>9. CASE Client
    <2>1. /\ UNCHANGED <<program, pc, cur, left, resp, up, resps, got, seen, captured, log>>
          /\ \/ cl' = [cl EXCEPT !.gone = TRUE] /\ UNCHANGED <<cin, reqs>>
             \/ \E i \in Msg, n \in Nat, piece \in AnyPiece :
                   /\ cl' = [n |-> i, sent |-> n, gone |-> FALSE]
                   /\ reqs' \in [Msg -> Request] /\ cin' = Append(cin, piece)
      BY <1>9, ClientEffect
    <2>2. CASE cl' = [cl EXCEPT !.gone = TRUE] /\ UNCHANGED <<cin, reqs>>
      BY <1>0, <2>1, <2>2 DEF TypeOK
    <2>3. CASE \E i \in Msg, n \in Nat, piece \in AnyPiece :
                   /\ cl' = [n |-> i, sent |-> n, gone |-> FALSE]
                   /\ reqs' \in [Msg -> Request] /\ cin' = Append(cin, piece)
      <3>1. PICK i \in Msg, n \in Nat, piece \in AnyPiece :
                   /\ cl' = [n |-> i, sent |-> n, gone |-> FALSE]
                   /\ reqs' \in [Msg -> Request] /\ cin' = Append(cin, piece)
        BY <2>3
      <3>2. cin' \in Seq(AnyPiece) BY <1>0, <3>1, AppendProperties
      <3>3. i \in 0..MaxReq BY ExchangeAssumption DEF Msg
      <3>4. cl' \in [n : 0..MaxReq, sent : Nat, gone : BOOLEAN] BY <3>1, <3>3
      <3> QED BY <2>1, <3>1, <3>2, <3>4 DEF TypeOK
    <2> QED BY <2>1, <2>2, <2>3
  <1>10. CASE Origin
    BY <1>10, OriginKinds DEF TypeOK, OriginFrame
  <1>11. CASE UNCHANGED vars
    BY <1>11 DEF TypeOK, vars
  <1> QED BY <1>1, <1>2, <1>3, <1>4, <1>5, <1>6, <1>7, <1>8, <1>9, <1>10, <1>11, StepKinds

-----------------------------------------------------------------------------
(* ClientInLine.                                                           *)

LEMMA TakenKept ==
  ASSUME pc # "sendHead", pc' # "sendHead", seen' = seen, cur' = cur
  PROVE  Taken' = Taken
  BY DEF Taken

\* The same of any requests rs, of which the client has begun the first top, and any
\* queue s that follows the piece p.
PieceIn(rs, i, n) == IF n = 0 THEN Piece(i, "head", 0) ELSE PieceOf(i, rs[i], n)
SucceedsIn(rs, p, q) ==
    IF q.n = 0 THEN q.msg = p.msg + 1 /\ (p.msg # 0 => p.n = Pieces(rs[p.msg]))
    ELSE q.msg = p.msg /\ q.n = p.n + 1
BeforeIn(p, s, k) == IF k = 1 THEN p ELSE s[k - 1]
InLine(rs, top, p, q) ==
    /\ q.msg \in 1..top /\ q.n <= Pieces(rs[q.msg]) /\ q = PieceIn(rs, q.msg, q.n)
    /\ SucceedsIn(rs, p, q)
QueueInLine(rs, top, p, s) == \A k \in 1..Len(s) : InLine(rs, top, BeforeIn(p, s, k), s[k])
LastIn(p, s) == BeforeIn(p, s, Len(s) + 1)
Agree(rs, ss, top) == \A j \in 1..top : ss[j] = rs[j]

LEMMA ClientInLineIs ==
  /\ ClientInLine <=>
       /\ cur <= cl.n
       /\ IF cl.n = 0 THEN cl.sent = 0 ELSE cl.sent <= Pieces(reqs[cl.n])
       /\ pc # "done" =>
             /\ Taken.msg = cur /\ QueueInLine(reqs, cl.n, Taken, cin)
             /\ LastIn(Taken, cin).msg = cl.n /\ LastIn(Taken, cin).n = cl.sent
  /\ ClientInLine' <=>
       /\ cur' <= cl'.n
       /\ IF cl'.n = 0 THEN cl'.sent = 0 ELSE cl'.sent <= Pieces(reqs'[cl'.n])
       /\ pc' # "done" =>
             /\ Taken'.msg = cur' /\ QueueInLine(reqs', cl'.n, Taken', cin')
             /\ LastIn(Taken', cin').msg = cl'.n /\ LastIn(Taken', cin').n = cl'.sent
  <1> HIDE DEF Taken, Pieces
  <1> QED
    BY DEF ClientInLine, QueueInLine, InLine, LastIn, BeforeIn, Before, SucceedsIn, Succeeds,
           PieceIn, RequestPiece

LEMMA ClientInLineKept ==
  ASSUME ClientInLine, pc' # "done" => pc # "done" /\ Taken' = Taken /\ cin' = cin,
         UNCHANGED <<cur, reqs>>, cl'.n = cl.n, cl'.sent = cl.sent
  PROVE  ClientInLine'
  BY ClientInLineIs

LEMMA QueueTail ==
  ASSUME NEW s \in Seq(AnyPiece), s # <<>>, NEW rs, NEW top, NEW p, QueueInLine(rs, top, p, s)
  PROVE  QueueInLine(rs, top, s[1], Tail(s)) /\ LastIn(s[1], Tail(s)) = LastIn(p, s)
  <1>1. /\ Len(Tail(s)) = Len(s) - 1 /\ \A k \in 1..Len(Tail(s)) : Tail(s)[k] = s[k + 1]
        /\ Len(s) \in Nat /\ Len(s) # 0
    BY HeadTailProperties, EmptySeq
  <1>2. \A k \in 1..Len(Tail(s)) + 1 : BeforeIn(s[1], Tail(s), k) = BeforeIn(p, s, k + 1)
    BY <1>1 DEF BeforeIn
  <1>3. LastIn(s[1], Tail(s)) = LastIn(p, s) BY <1>1, <1>2 DEF LastIn
  <1>4. \A k \in 1..Len(Tail(s)) : InLine(rs, top, BeforeIn(p, s, k + 1), s[k + 1])
    BY <1>1 DEF QueueInLine
  <1> QED BY <1>1, <1>2, <1>3, <1>4 DEF QueueInLine

\* The sequence q is s without its first k elements.
IsRest(q, s, k) == Len(q) = Len(s) - k /\ \A j \in 1..Len(q) : q[j] = s[j + k]

\* The first k pieces are taken, and the methods of requests may change.
LEMMA QueueDrop ==
  ASSUME NEW s \in Seq(AnyPiece), NEW rs, NEW ss, Alike(rs, ss), NEW top \in 0..MaxReq,
         NEW p, QueueInLine(rs, top, p, s), NEW k \in 1..Len(s),
         NEW q \in Seq(AnyPiece), IsRest(q, s, k)
  PROVE  QueueInLine(ss, top, s[k], q) /\ LastIn(s[k], q) = LastIn(p, s)
  <1>0. Len(q) = Len(s) - k /\ \A j \in 1..Len(q) : q[j] = s[j + k] BY DEF IsRest
  <1>1. Len(s) \in Nat /\ Len(q) \in Nat /\ k \in Nat /\ k # 0 BY <1>0, LenProperties
  <1>2. ASSUME NEW j \in 1..Len(q) + 1 PROVE BeforeIn(s[k], q, j) = BeforeIn(p, s, j + k)
    <2>1. CASE j = 1
      <3>1. j + k # 1 /\ j + k - 1 = k BY <1>1, <2>1
      <3> QED BY <1>0, <2>1, <3>1 DEF BeforeIn
    <2>2. CASE j # 1
      <3>1. j - 1 \in 1..Len(q) /\ j + k # 1 /\ (j - 1) + k = j + k - 1 BY <1>1, <2>2
      <3>2. q[j - 1] = s[j + k - 1] BY <1>0, <3>1
      <3> QED BY <2>2, <3>1, <3>2 DEF BeforeIn
    <2> QED BY <2>1, <2>2
  <1>3. LastIn(s[k], q) = LastIn(p, s)
    <2>1. Len(q) + 1 \in 1..Len(q) + 1 /\ Len(q) + 1 + k = Len(s) + 1 BY <1>0, <1>1
    <2> QED BY <1>2, <2>1 DEF LastIn
  <1>4. ASSUME NEW j \in 1..Len(q) PROVE InLine(ss, top, BeforeIn(s[k], q, j), q[j])
    <2>1. j + k \in 1..Len(s) /\ j + k - 1 \in 1..Len(s) /\ j + k # 1 /\ j \in 1..Len(q) + 1 BY <1>0, <1>1
    <2>2. InLine(rs, top, s[j + k - 1], s[j + k])
      <3>1. BeforeIn(p, s, j + k) = s[j + k - 1] BY <2>1 DEF BeforeIn
      <3> QED BY <2>1, <3>1 DEF QueueInLine
    <2>3. s[j + k - 1].msg \in 1..top /\ s[j + k].msg \in 1..top
      BY <2>1 DEF QueueInLine, InLine
    <2>4. s[j + k - 1].msg \in Msg /\ s[j + k].msg \in Msg
      <3>1. MaxReq \in Nat /\ \A i \in 1..top : i \in 1..MaxReq BY ExchangeAssumption
      <3> QED BY <2>3, <3>1 DEF Msg
    <2>5. \A i \in Msg : Pieces(ss[i]) = Pieces(rs[i]) /\ \A n : PieceIn(ss, i, n) = PieceIn(rs, i, n)
      BY DEF Alike, Pieces, PieceIn, PieceOf
    <2>6. InLine(ss, top, s[j + k - 1], s[j + k]) BY <2>2, <2>4, <2>5 DEF InLine, SucceedsIn
    <2>7. BeforeIn(s[k], q, j) = s[j + k - 1]
      BY <1>2, <2>1 DEF BeforeIn
    <2>8. q[j] = s[j + k] BY <1>0
    <2> QED BY <2>6, <2>7, <2>8
  <1> QED BY <1>3, <1>4 DEF QueueInLine

LEMMA QueueAppend ==
  ASSUME NEW s \in Seq(AnyPiece), NEW rs, NEW ss, NEW top \in Nat, NEW next \in Nat, top <= next,
         Agree(rs, ss, top), NEW p, p.msg \in 0..top, NEW q \in AnyPiece,
         QueueInLine(rs, top, p, s), InLine(ss, next, LastIn(p, s), q)
  PROVE  QueueInLine(ss, next, p, Append(s, q)) /\ LastIn(p, Append(s, q)) = q
  <1>1. /\ Len(Append(s, q)) = Len(s) + 1 /\ \A k \in 1..Len(s) : Append(s, q)[k] = s[k]
        /\ Append(s, q)[Len(s) + 1] = q /\ Len(s) \in Nat
    BY AppendProperties
  <1>2. \A k \in 1..Len(s) + 1 : BeforeIn(p, Append(s, q), k) = BeforeIn(p, s, k)
    BY <1>1 DEF BeforeIn
  <1>3. LastIn(p, Append(s, q)) = q BY <1>1 DEF LastIn, BeforeIn
  <1>4. ASSUME NEW k \in 1..Len(s) PROVE InLine(ss, next, BeforeIn(p, s, k), s[k])
    <2>1. InLine(rs, top, BeforeIn(p, s, k), s[k]) BY DEF QueueInLine
    <2>2. s[k].msg \in 1..top /\ ss[s[k].msg] = rs[s[k].msg] BY <2>1 DEF InLine, Agree
    <2>3. BeforeIn(p, s, k).msg \in 0..top
      <3>1. CASE k = 1 BY <3>1 DEF BeforeIn
      <3>2. CASE k # 1
        <4>1. k - 1 \in 1..Len(s) BY <1>1, <3>2
        <4>2. s[k - 1].msg \in 1..top BY <4>1 DEF QueueInLine, InLine
        <4> QED BY <3>2, <4>2 DEF BeforeIn
      <3> QED BY <3>1, <3>2
    <2>4. BeforeIn(p, s, k).msg # 0 => ss[BeforeIn(p, s, k).msg] = rs[BeforeIn(p, s, k).msg]
      BY <2>3 DEF Agree
    <2>5. SucceedsIn(ss, BeforeIn(p, s, k), s[k]) BY <2>1, <2>4 DEF InLine, SucceedsIn
    <2>6. s[k] = PieceIn(ss, s[k].msg, s[k].n) BY <2>1, <2>2 DEF InLine, PieceIn
    <2>7. s[k].n <= Pieces(ss[s[k].msg]) BY <2>1, <2>2 DEF InLine
    <2>8. s[k].msg \in 1..next BY <2>2
    <2> QED BY <2>5, <2>6, <2>7, <2>8 DEF InLine
  <1>5. InLine(ss, next, BeforeIn(p, s, Len(s) + 1), q) BY DEF LastIn
  <1>6. ASSUME NEW k \in 1..Len(Append(s, q))
        PROVE  InLine(ss, next, BeforeIn(p, Append(s, q), k), Append(s, q)[k])
    <2>1. CASE k \in 1..Len(s) BY <1>1, <1>2, <1>4, <2>1
    <2>2. CASE k = Len(s) + 1 BY <1>1, <1>2, <1>5, <2>2
    <2> QED BY <1>1, <2>1, <2>2
  <1> QED BY <1>3, <1>6 DEF QueueInLine

\* The loop has read cin[1].
LEMMA ClientInLineRead ==
  ASSUME TypeOK, ClientInLine, pc # "done", cin # <<>>, Taken' = cin[1], cin' = Tail(cin),
         cur' = cin[1].msg, UNCHANGED <<cl, reqs>>
  PROVE  ClientInLine'
  <1>1. cin[1].msg <= cl.n BY ReadClient DEF TypeOK
  <1>2. cin \in Seq(AnyPiece) BY DEF TypeOK
  <1>3. QueueInLine(reqs, cl.n, cin[1], Tail(cin)) /\ LastIn(cin[1], Tail(cin)) = LastIn(Taken, cin)
    BY <1>2, QueueTail, ClientInLineIs
  <1> QED BY <1>1, <1>3, ClientInLineIs

LEMMA ClientInLineClient ==
  ASSUME TypeOK, ClientInLine, Client
  PROVE  ClientInLine'
  <1>1. /\ pc # "done" /\ UNCHANGED <<pc, cur, seen>> /\ Taken' = Taken
    BY ClientEffect DEF Taken
  <1>2. CASE cl' = [cl EXCEPT !.gone = TRUE] /\ UNCHANGED <<cin, reqs>>
    <2>1. cl'.n = cl.n /\ cl'.sent = cl.sent BY <1>2 DEF TypeOK
    <2> QED BY <1>1, <1>2, <2>1, ClientInLineKept
  <1>3. ASSUME NEW i \in Msg, NEW n \in Nat, NEW piece \in AnyPiece,
               cl' = [n |-> i, sent |-> n, gone |-> FALSE],
               \A j \in 1..cl.n : reqs'[j] = reqs[j],
               IF n = 0 THEN i = cl.n + 1 /\ (cl.n # 0 => cl.sent = Pieces(reqs[cl.n]))
                        ELSE i = cl.n /\ n = cl.sent + 1 /\ reqs' = reqs,
               n <= Pieces(reqs'[i]),
               piece = IF n = 0 THEN Piece(i, "head", 0) ELSE PieceOf(i, reqs'[i], n),
               cin' = Append(cin, piece)
        PROVE  ClientInLine'
    <2>1. /\ cin \in Seq(AnyPiece) /\ cl.n \in 0..MaxReq /\ cl.n \in Nat
          /\ cur \in 0..MaxReq /\ i \in 1..MaxReq /\ i \in Nat /\ cl.n <= i
      BY <1>3, ExchangeAssumption DEF TypeOK, Msg
    <2>2. piece.msg = i /\ piece.n = n BY <1>3, PieceFields, PieceOfFields
    <2>3. /\ LastIn(Taken, cin).msg = cl.n /\ LastIn(Taken, cin).n = cl.sent
          /\ cur <= cl.n /\ Taken.msg = cur /\ QueueInLine(reqs, cl.n, Taken, cin)
      BY <1>1, ClientInLineIs
    <2>4. cl'.n = i /\ cl'.sent = n BY <1>3
    <2>5. InLine(reqs', i, LastIn(Taken, cin), piece)
      <3>1. piece = PieceIn(reqs', piece.msg, piece.n) BY <1>3, <2>2 DEF PieceIn
      <3>2. n = 0 /\ cl.n # 0 => reqs'[cl.n] = reqs[cl.n] BY <1>3, <2>1
      <3>3. SucceedsIn(reqs', LastIn(Taken, cin), piece)
        BY <1>3, <2>2, <2>3, <3>2 DEF SucceedsIn
      <3> QED BY <1>3, <2>1, <2>2, <3>1, <3>3 DEF InLine
    <2>6. Taken.msg \in 0..cl.n BY <2>1, <2>3
    <2>7. QueueInLine(reqs', i, Taken, cin') /\ LastIn(Taken, cin') = piece
      <3>1. Agree(reqs, reqs', cl.n) BY <1>3 DEF Agree
      <3>2. /\ QueueInLine(reqs', i, Taken, Append(cin, piece))
            /\ LastIn(Taken, Append(cin, piece)) = piece
        BY <2>1, <2>3, <2>5, <2>6, <3>1, QueueAppend
      <3> QED BY <1>3, <3>2
    <2>8. cur' <= cl'.n BY <1>1, <2>1, <2>3, <2>4
    <2> QED BY <1>1, <1>3, <2>1, <2>2, <2>3, <2>4, <2>7, <2>8, ClientInLineIs
  <1> QED BY <1>2, <1>3, ClientEffect

LEMMA ClientInLineStep ==
  ASSUME TypeOK, ClientInLine, AtRequest, OriginInLine, [Next]_vars
  PROVE  ClientInLine'
  <1>1. CASE GivesUp BY <1>1, ClientInLineKept DEF GivesUp
  <1>2. CASE GoesOnAnyway BY <1>2, ClientInLineKept, TakenKept DEF GoesOnAnyway
  <1>3. CASE Abandons
    <2>1. pc' \in {"done", "reqHead"} BY <1>3, EndedEffect DEF Abandons, TypeOK
    <2> QED BY <1>3, <2>1, ClientInLineKept, TakenKept DEF Abandons
  <1>4. CASE Takes
    <2>1. Taken' = Piece(cur', "head", 0) /\ Taken'.msg = cur' BY <1>4, TakesEffect, PieceFields DEF Taken
    <2>2. PICK k \in 1..Len(cin) : cin[k] = Taken' /\ IsRest(cin', cin, k)
      BY <1>4, <2>1, TakesEffect DEF IsRest
    <2>3. /\ cin \in Seq(AnyPiece) /\ cin' \in Seq(AnyPiece) /\ Alike(reqs, reqs') /\ cl.n \in 0..MaxReq
          /\ pc # "done" /\ cl' = cl /\ cur' <= cl.n
      BY <1>4, TakesEffect DEF TypeOK
    <2>4. QueueInLine(reqs, cl.n, Taken, cin) BY <2>3, ClientInLineIs
    <2>5. QueueInLine(reqs', cl.n, cin[k], cin') /\ LastIn(cin[k], cin') = LastIn(Taken, cin)
      BY <2>2, <2>3, <2>4, QueueDrop
    <2>6. cl.n # 0 => Pieces(reqs'[cl.n]) = Pieces(reqs[cl.n])
      <3>1. cl.n # 0 => cl.n \in Msg BY <2>3, ExchangeAssumption DEF Msg
      <3> QED BY <2>3, <3>1 DEF Alike, Pieces
    <2>7. IF cl.n = 0 THEN cl.sent = 0 ELSE cl.sent <= Pieces(reqs'[cl.n]) BY <2>6, ClientInLineIs
    <2> HIDE DEF Taken
    <2> QED BY <2>1, <2>2, <2>3, <2>5, <2>7, ClientInLineIs
  <1>5. CASE SendHead
    <2>1. /\ SendUp(Piece(cur, "head", 0)) /\ Piece(cur, "head", 0) \in AnyPiece /\ cur \in Msg
          /\ pc = "sendHead" /\ pc' \in {"respHead", "reqBody"} /\ UNCHANGED <<cur, cin, cl, reqs>>
      BY <1>5, SendHeadEffect
    <2>2. Piece(cur, "head", 0).msg = cur BY PieceFields
    <2>3. seen'[Len(seen')].piece = Piece(cur, "head", 0) /\ seen' # <<>> BY <2>1, <2>2, SendUpEffect
    <2>4. Taken' = Taken BY <2>1, <2>3 DEF Taken
    <2> QED BY <2>1, <2>4, ClientInLineKept
  <1>6. CASE ForwardRequest
    <2>1. /\ SendUp(cin[1]) /\ cin[1] \in AnyPiece /\ pc = "reqBody" /\ cin # <<>> /\ cin[1].kind # "head"
          /\ cin' = Tail(cin) /\ cin[1].msg = cur
          /\ pc' \in {"respHead", "reqBody"} /\ UNCHANGED <<cur, cl, reqs>>
      BY <1>6, ForwardRequestEffect
    <2>2. seen'[Len(seen')].piece = cin[1] /\ seen' # <<>> BY <2>1, SendUpEffect
    <2>3. Taken' = cin[1] BY <2>1, <2>2 DEF Taken
    <2> QED BY <2>1, <2>3, ClientInLineRead
  <1>7. CASE TakeResponse
    <2>1. /\ pc = "respHead" /\ pc' \in {"done", "reqHead", "respBody"}
          /\ UNCHANGED <<cur, cin, cl, reqs, seen>>
      <3>1. PICK r \in Response :
             /\ pc = "respHead" /\ up.out # <<>>
             /\ Ended(r, BodyMode(reqs[cur], r), Rest) \/ pc' = "respBody"
             /\ UNCHANGED <<program, cur, cin, cl, reqs, resps, seen, captured>>
        BY <1>7, TakeResponseEffect
      <3> QED BY <3>1, EndedEffect, RestFields
    <2> QED BY <2>1, ClientInLineKept, TakenKept
  <1>8. CASE ForwardResponse
    <2>1. /\ pc = "respBody" /\ pc' \in {"done", "reqHead", "respBody"}
          /\ UNCHANGED <<cur, cin, cl, reqs, seen>>
      <3>1. /\ pc = "respBody" /\ up.out # <<>>
            /\ Ended(resp, BodyMode(reqs[cur], resp), Rest) \/ pc' = "respBody"
            /\ UNCHANGED <<program, cur, cin, cl, reqs, resps, seen, captured>>
        BY <1>8, ForwardResponseEffect
      <3> QED BY <3>1, EndedEffect, RestFields
    <2> QED BY <2>1, ClientInLineKept, TakenKept
  <1>9. CASE Client BY <1>9, ClientInLineClient
  <1>10. CASE Origin BY <1>10, OriginKinds, ClientInLineKept DEF OriginFrame, Taken
  <1>11. CASE UNCHANGED vars BY <1>11, ClientInLineKept DEF vars, Taken
  <1> QED BY <1>1, <1>2, <1>3, <1>4, <1>5, <1>6, <1>7, <1>8, <1>9, <1>10, <1>11, StepKinds

-----------------------------------------------------------------------------
(* AtRequest.                                                              *)

LEMMA SeenElement ==
  ASSUME TypeOK, OriginInLine, NEW k \in 1..Len(seen)
  PROVE  /\ seen[k] \in [to : Target, piece : AnyPiece] /\ seen[k].piece \in AnyPiece
         /\ seen[k].piece.n \in Nat /\ seen[k].piece.msg \in 1..cur /\ seen[k].piece.msg \in 1..SentUpTo
         /\ seen[k].piece.msg \in Msg
  <1>1. seen \in Seq([to : Target, piece : AnyPiece]) BY DEF TypeOK
  <1>2. seen[k] \in [to : Target, piece : AnyPiece] BY <1>1, ElementOfSeq
  <1>3. seen[k].piece.msg \in 1..SentUpTo BY DEF OriginInLine
  <1>4. SentUpTo <= cur /\ SentUpTo \in Int /\ cur \in 0..MaxReq BY DEF SentUpTo, TypeOK
  <1>5. seen[k].piece.n \in Nat /\ seen[k].piece \in AnyPiece BY <1>2 DEF AnyPiece
  <1>6. seen[k].piece.msg \in 1..cur /\ seen[k].piece.msg \in Msg
    BY <1>3, <1>4, ExchangeAssumption DEF Msg
  <1> QED BY <1>2, <1>3, <1>5, <1>6

LEMMA SeenLast ==
  ASSUME TypeOK, seen # <<>>
  PROVE  Len(seen) \in 1..Len(seen) /\ Len(seen) \in Nat
  <1>1. seen \in Seq([to : Target, piece : AnyPiece]) BY DEF TypeOK
  <1> QED BY <1>1, EmptySeq

\* What the client has begun stays.
LEMMA BegunKept ==
  ASSUME TypeOK, ClientInLine, Client
  PROVE  /\ \A j \in 1..cur : reqs'[j] = reqs[j]
         /\ pc # "done" /\ UNCHANGED <<program, pc, cur, left, resp, up, resps, got, seen, captured, log>>
         /\ ~cl.gone
  <1>1. \A j \in 1..cl.n : reqs'[j] = reqs[j] BY ClientEffect
  <1>2. cur <= cl.n /\ cl.n \in Nat /\ cur \in Nat BY DEF ClientInLine, TypeOK
  <1>3. \A j \in 1..cur : j \in 1..cl.n BY <1>2
  <1> QED BY <1>1, <1>3, ClientEffect

LEMMA InspectedIs ==
  ASSUME NEW i, program' = program, reqs'[i] = reqs[i]
  PROVE  /\ Inspected(i)' <=> Inspected(i)
         /\ Self' = Self
  BY DEF Inspected, Self

\* Steps that leave the request alone.
LEMMA AtRequestKept ==
  ASSUME TypeOK, AtRequest, OriginInLine, UNCHANGED <<program, cur, seen, captured>>,
         \A j \in 1..cur : reqs'[j] = reqs[j],
         \/ pc' \in {"done", "reqHead", "respHead", "respBody"} /\ pc # "reqHead" /\ pc # "done"
         \/ pc' \in {pc, "done"} /\ left' = left
         \/ pc' \in {"done"},
         up'.target = up.target \/ pc' \notin {"sendHead", "reqBody"},
         pc' = "respBody" => left' > 0,
         pc' \in {"reqHead", "respHead", "respBody"} =>
            pc \in {"reqHead", "respHead", "respBody"} \/ ~Checks("reqBody")
  PROVE  AtRequest'
  <1>1. cur # 0 => reqs'[cur] = reqs[cur] /\ (Inspected(cur)' <=> Inspected(cur)) /\ Self' = Self
    BY InspectedIs DEF TypeOK
  <1>2. ASSUME seen # <<>>
        PROVE  reqs'[seen[Len(seen)].piece.msg] = reqs[seen[Len(seen)].piece.msg]
    BY <1>2, SeenElement, SeenLast
  <1>3. pc' = "sendHead" => pc = "sendHead" OBVIOUS
  <1>4. pc' = "reqBody" => pc = "reqBody" /\ left' = left /\ Taken' = Taken BY DEF Taken
  <1>5. cur = 0 => pc' \in {"reqHead", "done"} /\ seen = <<>> BY DEF AtRequest
  <1>6. pc' = "sendHead" /\ seen # <<>> =>
          /\ Follows(seen[Len(seen)].piece, Piece(cur, "head", 0))
          /\ Checks("reqBody") =>
               seen[Len(seen)].piece.n = Pieces(reqs'[seen[Len(seen)].piece.msg])
    BY <1>2, <1>3 DEF AtRequest
  <1>7. pc' \in {"sendHead", "reqBody"} /\ Self'.upstream # "session" => up'.target = reqs'[cur].target
    BY <1>1, <1>3, <1>4, <1>5 DEF AtRequest
  <1>8. pc' = "reqBody" =>
          /\ seen # <<>> /\ Taken'.n < Pieces(reqs'[cur])
          /\ left' = IF reqs'[cur].mode = "length" THEN reqs'[cur].len - Taken'.n ELSE 1
          /\ Inspected(cur)' => captured = Smaller(Taken'.n, Cap)
    BY <1>1, <1>4, <1>5 DEF AtRequest
  <1>9. cur # 0 => reqs'[cur].mode # "error" BY <1>1 DEF AtRequest
  <1>10. Checks("reqBody") /\ cur # 0 /\ pc' \in {"reqHead", "respHead", "respBody"} =>
            Taken'.n = Pieces(reqs'[cur])
    <2>1. pc \in {"reqHead", "respHead", "respBody"} /\ pc' \in {"reqHead", "respHead", "respBody"} =>
             Taken' = Taken
      BY DEF Taken
    <2> HIDE DEF Taken
    <2> QED BY <1>1, <2>1 DEF AtRequest
  <1>11. Checks("reqBody")' <=> Checks("reqBody") BY DEF Checks, Self
  <1> HIDE DEF Taken, Checks
  <1> QED BY <1>5, <1>6, <1>7, <1>8, <1>9, <1>10, <1>11 DEF AtRequest, Smaller

LEMMA AtRequestStep ==
  ASSUME TypeOK, ClientInLine, AtRequest, OriginInLine, [Next]_vars
  PROVE  AtRequest'
  <1>1. CASE GivesUp BY <1>1, AtRequestKept DEF GivesUp
  <1>2. CASE GoesOnAnyway BY <1>2, AtRequestKept DEF GoesOnAnyway
  <1>3. CASE Abandons
    <2>1. pc' \in {"done", "reqHead"} BY <1>3, EndedEffect DEF Abandons, TypeOK
    <2> QED BY <1>3, <2>1, AtRequestKept DEF Abandons
  <1>4. CASE Takes
    <2>1. /\ pc = "reqHead" /\ pc' = "sendHead" /\ cur' = cur + 1 /\ cur' # 0 /\ reqs'[cur'].mode # "error"
          /\ Self.upstream # "session" => up'.target = reqs'[cur'].target
          /\ UNCHANGED <<program, seen>> /\ \A j \in 1..cur : reqs'[j] = reqs[j]
      BY <1>4, TakesEffect DEF TypeOK
    <2>2. ASSUME seen # <<>>
          PROVE  LET p == seen[Len(seen)].piece IN
                 /\ Follows(p, Piece(cur', "head", 0)) /\ (Checks("reqBody") => p.n = Pieces(reqs'[p.msg]))
      <3> DEFINE p == seen[Len(seen)].piece
      <3>1. Taken = p BY <2>1, <2>2 DEF Taken
      <3>2. p.msg = cur /\ p.msg \in 1..cur
        BY <2>1, <2>2, <3>1, SeenElement, SeenLast DEF ClientInLine
      <3>3. Follows(p, Piece(cur', "head", 0)) BY <2>1, <3>2, PieceFields DEF Follows
      <3>4. cur # 0 BY <2>2 DEF AtRequest, TypeOK
      <3>5. Checks("reqBody") => p.n = Pieces(reqs[cur]) BY <2>1, <3>1, <3>4 DEF AtRequest
      <3> QED BY <2>1, <3>2, <3>3, <3>5
    <2>3. Self' = Self /\ (Checks("reqBody")' <=> Checks("reqBody")) BY <2>1 DEF Self, Checks
    <2> HIDE DEF Self, Checks, Follows
    <2> QED BY <2>1, <2>2, <2>3 DEF AtRequest
  <1>5. CASE SendHead
    <2>1. /\ SendUp(Piece(cur, "head", 0)) /\ Piece(cur, "head", 0) \in AnyPiece /\ cur \in Msg
          /\ pc = "sendHead" /\ pc' \in {"respHead", "reqBody"}
          /\ pc' = "reqBody" <=> Pieces(reqs[cur]) # 0
          /\ left' = IF reqs[cur].mode = "length" THEN reqs[cur].len ELSE 1
          /\ captured' = 0 /\ cur # 0 /\ reqs[cur] \in Request
          /\ UNCHANGED <<program, cur, reqs>>
      BY <1>5, SendHeadEffect
    <2>2. Piece(cur, "head", 0).msg = cur /\ Piece(cur, "head", 0).n = 0 BY PieceFields
    <2>3. seen'[Len(seen')].piece = Piece(cur, "head", 0) /\ seen' # <<>> /\ up'.target = up.target
      BY <2>1, <2>2, SendUpEffect
    <2>4. Taken' = Piece(cur, "head", 0) BY <2>1, <2>3 DEF Taken
    <2>5. Taken'.n = 0 BY <2>2, <2>4
    <2>6. /\ Pieces(reqs[cur]) \in Nat /\ reqs[cur].len \in Nat BY <2>1, RequestPieces
    <2>7. Smaller(0, Cap) = 0 BY ExchangeAssumption DEF Smaller
    <2>8. reqs[cur].mode # "error" /\ (Self.upstream # "session" => up.target = reqs[cur].target)
      BY <2>1 DEF AtRequest
    <2>9. left' = IF reqs[cur].mode = "length" THEN reqs[cur].len - Taken'.n ELSE 1
      BY <2>1, <2>5, <2>6
    <2>10. captured' = Smaller(Taken'.n, Cap) BY <2>1, <2>5, <2>7
    <2>11. Self' = Self BY <2>1 DEF Self
    <2>12. /\ pc' = "reqBody" => Taken'.n < Pieces(reqs[cur])
           /\ pc' # "reqBody" => Taken'.n = Pieces(reqs[cur])
      BY <2>1, <2>5, <2>6
    <2> HIDE DEF Taken, Smaller, Self
    <2> QED BY <2>1, <2>3, <2>8, <2>9, <2>10, <2>11, <2>12 DEF AtRequest, Smaller
  <1>6. CASE ForwardRequest
    <2>1. /\ SendUp(cin[1]) /\ cin[1] \in AnyPiece /\ pc = "reqBody" /\ cin # <<>> /\ cin[1].kind # "head"
          /\ cin[1].msg = cur /\ cur # 0 /\ reqs[cur] \in Request
          /\ pc' \in {"respHead", "reqBody"} /\ UNCHANGED <<program, cur, reqs>>
          /\ cin[1].n <= Pieces(reqs[cur]) /\ Taken.n \in Nat /\ cin[1].n = Taken.n + 1
          /\ pc' = "reqBody" <=> cin[1].n # Pieces(reqs[cur])
          /\ pc' = "reqBody" =>
               /\ left' = IF reqs[cur].mode = "length" THEN reqs[cur].len - cin[1].n ELSE 1
          /\ captured' = IF Inspected(cur) /\ cin[1].kind = "data" /\ captured < Cap
                         THEN captured + 1 ELSE captured
          /\ cin[1].kind = IF reqs[cur].mode = "chunked" /\ cin[1].n > reqs[cur].len THEN "last"
                           ELSE "data"
      BY <1>6, ForwardRequestEffect
    <2>2. seen'[Len(seen')].piece = cin[1] /\ seen' # <<>> /\ up'.target = up.target
      BY <2>1, SendUpEffect
    <2>3. Taken' = cin[1] BY <2>1, <2>2 DEF Taken
    <2>4. /\ Pieces(reqs[cur]) \in Nat /\ reqs[cur].len \in Nat
          /\ Pieces(reqs[cur]) = IF reqs[cur].mode = "chunked" THEN reqs[cur].len + 1
                                 ELSE IF reqs[cur].mode = "length" THEN reqs[cur].len ELSE 0
      BY <2>1, RequestPieces
    <2>5. /\ reqs[cur].mode # "error" /\ (Self.upstream # "session" => up.target = reqs[cur].target)
          /\ Inspected(cur) => captured = Smaller(Taken.n, Cap)
      BY <2>1 DEF AtRequest
    <2>6. pc' = "reqBody" => cin[1].n < Pieces(reqs[cur]) BY <2>1, <2>4
    <2>7. pc' = "reqBody" => cin[1].kind = "data" BY <2>1, <2>4, <2>6
    <2>8. pc' = "reqBody" /\ Inspected(cur) => captured' = Smaller(Taken.n + 1, Cap)
      <3> SUFFICES ASSUME pc' = "reqBody", Inspected(cur) PROVE captured' = Smaller(Taken.n + 1, Cap)
        OBVIOUS
      <3>1. captured' = IF captured < Cap THEN captured + 1 ELSE captured BY <2>1, <2>7
      <3>2. captured = (IF Taken.n < Cap THEN Taken.n ELSE Cap) /\ Taken.n \in Nat /\ Cap \in Nat
        BY <2>1, <2>5, ExchangeAssumption DEF Smaller
      <3> HIDE DEF Taken
      <3> QED BY <3>1, <3>2 DEF Smaller
    <2>9. Self' = Self /\ (Inspected(cur)' <=> Inspected(cur)) BY <2>1 DEF Self, Inspected
    <2> QED BY <2>1, <2>2, <2>3, <2>5, <2>6, <2>8, <2>9 DEF AtRequest, Smaller
  <1>7. CASE TakeResponse
    <2>1. /\ pc = "respHead" /\ pc' \in {"done", "reqHead", "respBody"}
          /\ pc' = "respBody" => left' > 0
          /\ UNCHANGED <<program, cur, reqs, seen, captured>>
      <3>1. PICK r \in Response :
             /\ pc = "respHead" /\ up.out # <<>>
             /\ Ended(r, BodyMode(reqs[cur], r), Rest) \/ (pc' = "respBody" /\ left' > 0)
             /\ UNCHANGED <<program, cur, cin, cl, reqs, resps, seen, captured>>
        BY <1>7, TakeResponseEffect
      <3> QED BY <3>1, EndedEffect, RestFields
    <2> QED BY <2>1, AtRequestKept
  <1>8. CASE ForwardResponse
    <2>1. /\ pc = "respBody" /\ pc' \in {"done", "reqHead", "respBody"}
          /\ pc' = "respBody" => left' > 0
          /\ UNCHANGED <<program, cur, reqs, seen, captured>>
      <3>1. /\ pc = "respBody" /\ up.out # <<>> /\ left' \in Nat
            /\ Ended(resp, BodyMode(reqs[cur], resp), Rest) \/ (pc' = "respBody" /\ left' # 0)
            /\ UNCHANGED <<program, cur, resp, cin, cl, reqs, resps, seen, captured>>
        BY <1>8, ForwardResponseEffect
      <3> QED BY <3>1, EndedEffect, RestFields DEF TypeOK
    <2> QED BY <2>1, AtRequestKept
  <1>9. CASE Client
    <2>1. pc = "respBody" => left > 0 BY DEF AtRequest
    <2> QED BY <1>9, <2>1, BegunKept, AtRequestKept
  <1>10. CASE Origin
    <2>1. pc = "respBody" => left > 0 BY DEF AtRequest
    <2>2. up'.target = up.target
      <3>1. ASSUME NEW r \in Responses, OriginAnswers(r) PROVE up'.target = up.target
        BY <3>1, AnswersEffect
      <3> QED BY <1>10, <3>1, OriginKinds, InformsEffect, SendsEffect, ClosesEffect
    <2> QED BY <1>10, <2>1, <2>2, OriginKinds, AtRequestKept DEF OriginFrame
  <1>11. CASE UNCHANGED vars
    <2>1. pc = "respBody" => left > 0 BY DEF AtRequest
    <2> QED BY <1>11, <2>1, AtRequestKept DEF vars
  <1> QED BY <1>1, <1>2, <1>3, <1>4, <1>5, <1>6, <1>7, <1>8, <1>9, <1>10, <1>11, StepKinds

-----------------------------------------------------------------------------
(* OriginInLine.                                                           *)

\* The same of any connection c, pieces s that origins and g that the client were
\* sent, when the requests up to m were sent.
SeenIn(m, s) == \A k \in 1..Len(s) : s[k].piece.msg \in 1..m
GotIn(m, g) == \A k \in 1..Len(g) : g[k].msg <= m /\ (g[k].kind # "error" => g[k].msg > 0)
OutIn(m, out) == \A k \in 1..Len(out) : out[k].msg \in 1..m /\ out[k].kind # "error"
Past(g, i) == \A k \in 1..Len(g) : g[k].kind # "info" => g[k].msg < i
TodoIn(m, todo, ans, out, g) ==
    \A t \in 1..Len(todo) :
        /\ todo[t] <= m /\ ans < todo[t]
        /\ \A s \in 1..Len(todo) : s < t => todo[s] < todo[t]
        /\ Past(out, todo[t]) /\ Past(g, todo[t])
Below(i, todo) == \A t \in 1..Len(todo) : i < todo[t]
Extends(r, s) == Len(r) = Len(s) + 1 /\ \A k \in 1..Len(s) : r[k] = s[k]
OriginIn(m, s, c, g) ==
    /\ SeenIn(m, s) /\ c.ans <= m /\ OutIn(m, c.out) /\ GotIn(m, g)
    /\ TodoIn(m, c.todo, c.ans, c.out, g)

LEMMA OriginInLineIs ==
  /\ OriginInLine <=> OriginIn(SentUpTo, seen, up, got)
  /\ OriginInLine' <=> OriginIn(SentUpTo', seen', up', got')
  BY DEF OriginInLine, OriginIn, SeenIn, GotIn, OutIn, Past, TodoIn

LEMMA PieceMsgs ==
  ASSUME NEW g \in Seq(AnyPiece), NEW k \in 1..Len(g)
  PROVE  g[k] \in AnyPiece /\ g[k].msg \in 0..MaxReq /\ g[k].msg \in Nat /\ g[k].n \in Nat
  <1>1. g[k] \in AnyPiece BY ElementOfSeq
  <1> QED BY <1>1, ExchangeAssumption DEF AnyPiece

LEMMA OriginInGrows ==
  ASSUME NEW m \in Int, NEW n \in Int, m <= n, NEW s, NEW c \in Connection, NEW g \in Seq(AnyPiece),
         OriginIn(m, s, c, g)
  PROVE  OriginIn(n, s, c, g)
  <1>1. c.ans \in 0..MaxReq /\ c.todo \in Seq(Msg) /\ c.out \in Seq(AnyPiece) BY DEF Connection
  <1>2. \A k \in 1..Len(c.todo) : c.todo[k] \in 1..MaxReq BY <1>1, ElementOfSeq DEF Msg
  <1>3. \A k \in 1..Len(g) : g[k].msg \in 0..MaxReq BY PieceMsgs
  <1>4. SeenIn(n, s) BY DEF OriginIn, SeenIn
  <1>5. c.ans <= n BY <1>1, ExchangeAssumption DEF OriginIn
  <1>6. OutIn(n, c.out) BY DEF OriginIn, OutIn
  <1>7. GotIn(n, g) BY <1>3, ExchangeAssumption DEF OriginIn, GotIn
  <1>8. TodoIn(n, c.todo, c.ans, c.out, g) BY <1>2, ExchangeAssumption DEF OriginIn, TodoIn
  <1> QED BY <1>4, <1>5, <1>6, <1>7, <1>8 DEF OriginIn

\* The client is sent a piece, or an error.
LEMMA OriginInGot ==
  ASSUME NEW m \in Int, NEW s, NEW c \in Connection, NEW g \in Seq(AnyPiece), OriginIn(m, s, c, g),
         NEW piece \in AnyPiece, piece.msg <= m, piece.kind # "error" => piece.msg > 0,
         piece.kind # "info" => Below(piece.msg, c.todo)
  PROVE  OriginIn(m, s, c, Append(g, piece))
  <1>1. /\ Len(Append(g, piece)) = Len(g) + 1 /\ \A k \in 1..Len(g) : Append(g, piece)[k] = g[k]
        /\ Append(g, piece)[Len(g) + 1] = piece /\ Len(g) \in Nat
    BY AppendProperties
  <1>2. GotIn(m, Append(g, piece)) BY <1>1 DEF OriginIn, GotIn
  <1>3. ASSUME NEW t \in 1..Len(c.todo) PROVE Past(Append(g, piece), c.todo[t])
    BY <1>1 DEF OriginIn, TodoIn, Past, Below
  <1>4. TodoIn(m, c.todo, c.ans, c.out, Append(g, piece)) BY <1>3 DEF OriginIn, TodoIn
  <1> QED BY <1>2, <1>4 DEF OriginIn

\* The next piece is taken from c.out.
LEMMA OriginInRest ==
  ASSUME NEW m \in Int, NEW s, NEW c \in Connection, NEW g, OriginIn(m, s, c, g), c.out # <<>>,
         NEW d \in Connection, d.todo = c.todo, d.ans = c.ans, d.out = Tail(c.out)
  PROVE  OriginIn(m, s, d, g)
  <1>1. c.out \in Seq(AnyPiece) BY DEF Connection
  <1>2. /\ Len(Tail(c.out)) = Len(c.out) - 1 /\ \A k \in 1..Len(Tail(c.out)) : Tail(c.out)[k] = c.out[k + 1]
        /\ Len(c.out) \in Nat
    BY <1>1, HeadTailProperties
  <1>3. \A k \in 1..Len(Tail(c.out)) : k + 1 \in 1..Len(c.out) BY <1>2
  <1>4. OutIn(m, d.out) BY <1>2, <1>3 DEF OriginIn, OutIn
  <1>5. ASSUME NEW i, Past(c.out, i) PROVE Past(d.out, i) BY <1>2, <1>3, <1>5 DEF Past
  <1>6. TodoIn(m, d.todo, d.ans, d.out, g) BY <1>5 DEF OriginIn, TodoIn
  <1> QED BY <1>4, <1>6 DEF OriginIn

\* A piece more is on its way.
LEMMA OriginInOut ==
  ASSUME NEW m \in Int, NEW s, NEW c \in Connection, NEW g, OriginIn(m, s, c, g),
         NEW piece \in AnyPiece, piece.msg \in 1..m, piece.kind # "error",
         NEW d \in Connection, d.todo = c.todo, d.ans \in {0, c.ans}, d.out = Append(c.out, piece),
         piece.kind # "info" => Below(piece.msg, c.todo)
  PROVE  OriginIn(m, s, d, g)
  <1>1. c.out \in Seq(AnyPiece) /\ c.ans \in Nat /\ c.todo \in Seq(Msg)
    BY ExchangeAssumption DEF Connection
  <1>2. /\ Len(d.out) = Len(c.out) + 1 /\ \A k \in 1..Len(c.out) : d.out[k] = c.out[k]
        /\ d.out[Len(c.out) + 1] = piece /\ Len(c.out) \in Nat
    BY <1>1, AppendProperties
  <1>3. OutIn(m, d.out) BY <1>2 DEF OriginIn, OutIn
  <1>4. ASSUME NEW t \in 1..Len(c.todo) PROVE Past(d.out, c.todo[t])
    BY <1>2 DEF OriginIn, TodoIn, Past, Below
  <1>5. \A t \in 1..Len(c.todo) : c.todo[t] \in 1..MaxReq BY <1>1, ElementOfSeq DEF Msg
  <1>6. \A t \in 1..Len(c.todo) : d.ans < c.todo[t]
    BY <1>1, <1>5, ExchangeAssumption, SMTT(60) DEF OriginIn, TodoIn
  <1>7. TodoIn(m, d.todo, d.ans, d.out, g) BY <1>4, <1>6 DEF OriginIn, TodoIn
  <1>8. d.ans <= m BY <1>1 DEF OriginIn
  <1> QED BY <1>3, <1>7, <1>8 DEF OriginIn

\* The origin answers the first of its requests.
LEMMA OriginInAnswer ==
  ASSUME NEW m \in Int, NEW s, NEW c \in Connection, NEW g, OriginIn(m, s, c, g), c.todo # <<>>,
         NEW d \in Connection, d.todo = Tail(c.todo), d.ans \in {0, c.todo[1]},
         d.out = Append(c.out, Piece(c.todo[1], "head", 0))
  PROVE  OriginIn(m, s, d, g)
  <1>1. c.out \in Seq(AnyPiece) /\ c.ans \in Nat /\ c.todo \in Seq(Msg)
    BY ExchangeAssumption DEF Connection
  <1>2. /\ 1 \in 1..Len(c.todo) /\ Len(Tail(c.todo)) = Len(c.todo) - 1 /\ Len(c.todo) \in Nat
        /\ \A t \in 1..Len(Tail(c.todo)) : Tail(c.todo)[t] = c.todo[t + 1] /\ t + 1 \in 1..Len(c.todo)
    BY <1>1, HeadTailProperties, EmptySeq
  <1>3. \A t \in 1..Len(c.todo) : c.todo[t] \in 1..MaxReq BY <1>1, ElementOfSeq DEF Msg
  <1>4. /\ c.todo[1] \in 1..m /\ c.todo[1] \in 0..MaxReq
        /\ \A t \in 1..Len(d.todo) : c.todo[1] < c.todo[t + 1]
    BY <1>2, <1>3, ExchangeAssumption DEF OriginIn, TodoIn
  <1> DEFINE piece == Piece(c.todo[1], "head", 0)
  <1>5. piece \in AnyPiece /\ piece.msg = c.todo[1] /\ piece.kind = "head"
    BY <1>4, PieceType, PieceFields
  <1> HIDE DEF piece
  <1>6. /\ Len(d.out) = Len(c.out) + 1 /\ \A k \in 1..Len(c.out) : d.out[k] = c.out[k]
        /\ d.out[Len(c.out) + 1] = piece /\ Len(c.out) \in Nat
    BY <1>1, <1>5, AppendProperties DEF piece
  <1>7. OutIn(m, d.out) BY <1>4, <1>5, <1>6 DEF OriginIn, OutIn
  <1>8. ASSUME NEW t \in 1..Len(d.todo) PROVE Past(d.out, d.todo[t])
    <2>1. Past(c.out, c.todo[t + 1]) BY <1>2 DEF OriginIn, TodoIn
    <2>2. c.todo[1] < c.todo[t + 1] /\ d.todo[t] = c.todo[t + 1] BY <1>2, <1>4
    <2> QED BY <1>5, <1>6, <2>1, <2>2 DEF Past
  <1>9. ASSUME NEW t \in 1..Len(d.todo)
        PROVE  /\ d.todo[t] <= m /\ d.ans < d.todo[t] /\ Past(g, d.todo[t])
               /\ \A r \in 1..Len(d.todo) : r < t => d.todo[r] < d.todo[t]
    <2>1. d.todo[t] = c.todo[t + 1] /\ t + 1 \in 1..Len(c.todo) BY <1>2
    <2>2. c.todo[t + 1] <= m /\ Past(g, c.todo[t + 1]) BY <2>1 DEF OriginIn, TodoIn
    <2>3. d.ans < c.todo[t + 1] BY <1>3, <1>4, <2>1, ExchangeAssumption
    <2>4. ASSUME NEW r \in 1..Len(d.todo), r < t PROVE d.todo[r] < d.todo[t]
      <3>1. d.todo[r] = c.todo[r + 1] /\ r + 1 \in 1..Len(c.todo) /\ r + 1 < t + 1 BY <1>2, <2>4
      <3> QED BY <2>1, <3>1 DEF OriginIn, TodoIn
    <2> QED BY <2>1, <2>2, <2>3, <2>4
  <1>10. TodoIn(m, d.todo, d.ans, d.out, g) BY <1>8, <1>9 DEF TodoIn
  <1>11. d.ans <= m BY <1>4
  <1> QED BY <1>7, <1>10, <1>11 DEF OriginIn

\* The head of request m + 1 is sent.
LEMMA OriginInSent ==
  ASSUME NEW m \in Nat, m + 1 \in Msg, NEW s, NEW c \in Connection, NEW g \in Seq(AnyPiece),
         OriginIn(m, s, c, g),
         OriginIn(m + 1, s, c, g), NEW r, Len(s) \in Nat,
         Extends(r, s), r[Len(s) + 1].piece.msg = m + 1,
         NEW d \in Connection, d.ans = c.ans, d.out = c.out,
         d.todo = c.todo \/ d.todo = Append(c.todo, m + 1)
  PROVE  OriginIn(m + 1, r, d, g)
  <1>1. SeenIn(m + 1, r) BY DEF OriginIn, SeenIn, Extends
  <1>2. CASE d.todo = c.todo BY <1>1, <1>2 DEF OriginIn
  <1>3. CASE d.todo = Append(c.todo, m + 1)
    <2>1. c.todo \in Seq(Msg) BY DEF Connection
    <2>2. /\ Len(d.todo) = Len(c.todo) + 1 /\ \A t \in 1..Len(c.todo) : d.todo[t] = c.todo[t]
          /\ d.todo[Len(c.todo) + 1] = m + 1 /\ Len(c.todo) \in Nat
      BY <1>3, <2>1, AppendProperties
    <2>3. \A t \in 1..Len(c.todo) : c.todo[t] \in Nat
      <3>1. \A t \in 1..Len(c.todo) : c.todo[t] \in Msg BY <2>1, ElementOfSeq
      <3> QED BY <3>1, ExchangeAssumption DEF Msg
    <2>4. c.ans < m + 1 BY DEF OriginIn, Connection
    <2>5. Past(c.out, m + 1) BY DEF OriginIn, OutIn, Past
    <2>6. Past(g, m + 1) BY PieceMsgs DEF OriginIn, GotIn, Past
    <2>7. ASSUME NEW t \in 1..Len(c.todo)
          PROVE  /\ d.todo[t] <= m + 1 /\ c.ans < d.todo[t]
                 /\ \A q \in 1..Len(d.todo) : q < t => d.todo[q] < d.todo[t]
                 /\ Past(c.out, d.todo[t]) /\ Past(g, d.todo[t])
      <3>1. /\ c.todo[t] <= m + 1 /\ c.ans < c.todo[t]
            /\ \A q \in 1..Len(c.todo) : q < t => c.todo[q] < c.todo[t]
            /\ Past(c.out, c.todo[t]) /\ Past(g, c.todo[t])
        BY DEF OriginIn, TodoIn
      <3>2. \A q \in 1..Len(d.todo) : q < t => q \in 1..Len(c.todo) BY <2>2
      <3> QED BY <2>2, <3>1, <3>2
    <2>8. \A q \in 1..Len(c.todo) : c.todo[q] < m + 1
      BY <2>3 DEF OriginIn, TodoIn
    <2>9. ASSUME NEW t \in 1..Len(d.todo)
          PROVE  /\ d.todo[t] <= m + 1 /\ c.ans < d.todo[t]
                 /\ \A q \in 1..Len(d.todo) : q < t => d.todo[q] < d.todo[t]
                 /\ Past(c.out, d.todo[t]) /\ Past(g, d.todo[t])
      <3>1. CASE t \in 1..Len(c.todo) BY <2>7, <3>1
      <3>2. CASE t = Len(c.todo) + 1
        <4>1. \A q \in 1..Len(d.todo) : q < t => q \in 1..Len(c.todo) BY <2>2, <3>2
        <4> QED BY <2>2, <2>4, <2>5, <2>6, <2>8, <3>2, <4>1
      <3>3. t \in 1..Len(c.todo) \/ t = Len(c.todo) + 1 BY <2>2
      <3> QED BY <3>1, <3>2, <3>3
    <2>10. TodoIn(m + 1, d.todo, d.ans, d.out, g) BY <2>9 DEF TodoIn
    <2> QED BY <1>1, <2>10 DEF OriginIn
  <1> QED BY <1>2, <1>3

\* A connection on which nothing happened yet.
LEMMA OriginInEmpty ==
  ASSUME NEW m \in Nat, NEW s, NEW c, NEW g, OriginIn(m, s, c, g),
         NEW d, d.todo = <<>>, d.out = <<>>, d.ans = 0
  PROVE  OriginIn(m, s, d, g)
  <1>1. OutIn(m, d.out) /\ TodoIn(m, d.todo, d.ans, d.out, g) BY DEF OutIn, TodoIn
  <1> QED BY <1>1 DEF OriginIn

LEMMA SentType ==
  ASSUME TypeOK, AtRequest
  PROVE  SentUpTo \in Nat /\ SentUpTo <= cur /\ cur \in Nat
         /\ (pc = "sendHead" => SentUpTo = cur - 1) /\ (pc # "sendHead" => SentUpTo = cur)
  BY DEF SentUpTo, AtRequest, TypeOK

\* The loop has read an answer.
LEMMA OriginInResponse ==
  ASSUME TypeOK, AtRequest, OriginInLine, pc # "sendHead", pc' # "sendHead", up.out # <<>>,
         SendDown(up.out[1]), up' = Rest \/ up' = noConnection, UNCHANGED <<cur, seen>>
  PROVE  OriginInLine'
  <1> DEFINE piece == up.out[1]
  <1>1. /\ piece \in AnyPiece /\ 1 \in 1..Len(up.out) /\ Rest \in Connection
        /\ Rest.todo = up.todo /\ Rest.ans = up.ans /\ Rest.out = Tail(up.out)
    BY RestFields
  <1>2. OriginIn(cur, seen, up, got) /\ SentUpTo' = cur BY OriginInLineIs DEF SentUpTo
  <1>3. up \in Connection /\ got \in Seq(AnyPiece) /\ cur \in Nat BY DEF TypeOK
  <1>4. /\ piece.msg <= cur /\ piece.msg > 0 /\ piece.kind # "error"
        /\ piece.kind # "info" => Below(piece.msg, up.todo)
    BY <1>1, <1>2, <1>3 DEF OriginIn, OutIn, TodoIn, Past, Below
  <1>5. OriginIn(cur, seen, up, got')
    <2>1. CASE cl.gone BY <1>1, <1>2, <2>1, SendDownEffect
    <2>2. CASE ~cl.gone
      <3>1. OriginIn(cur, seen, up, Append(got, piece))
        BY <1>1, <1>2, <1>3, <1>4, OriginInGot
      <3> QED BY <1>1, <2>2, <3>1, SendDownEffect
    <2> QED BY <2>1, <2>2
  <1>6. OriginIn(cur, seen, up', got')
    <2>1. CASE up' = Rest BY <1>1, <1>3, <1>5, <2>1, OriginInRest
    <2>2. CASE up' = noConnection BY <1>3, <1>5, <2>2, NoConnection, OriginInEmpty
    <2> QED BY <2>1, <2>2
  <1> QED BY <1>2, <1>6, OriginInLineIs

LEMMA OriginInLineOrigin ==
  ASSUME TypeOK, AtRequest, OriginInLine, Origin
  PROVE  OriginInLine'
  <1> DEFINE m == SentUpTo
  <1>1. OriginIn(m, seen, up, got) /\ m \in Nat BY OriginInLineIs, SentType
  <1>2. up \in Connection /\ up' \in Connection BY OriginKinds DEF TypeOK
  <1>3. SentUpTo' = m /\ seen' = seen /\ got' = got BY OriginKinds DEF OriginFrame, SentUpTo
  <1> HIDE DEF m
  <1>4. (\A t \in 1..Len(up.todo) : up.todo[t] <= m) /\ Below(up.ans, up.todo)
    BY <1>1 DEF OriginIn, TodoIn, Below
  <1>5. CASE OriginInforms
    <2> DEFINE piece == Piece(up.todo[1], "info", 0)
    <2>1. /\ piece \in AnyPiece /\ up'.todo = up.todo /\ up'.ans = up.ans /\ up'.out = Append(up.out, piece)
          /\ up.todo # <<>>
      BY <1>5, InformsEffect
    <2>2. up.todo[1] \in 1..m
      BY <1>1, <1>4, <2>1, TodoHead, ExchangeAssumption DEF Msg
    <2>3. piece.msg = up.todo[1] /\ piece.kind = "info" BY PieceFields
    <2> HIDE DEF piece
    <2>4. up'.ans \in {0, up.ans} /\ (piece.kind # "info" => Below(piece.msg, up.todo)) /\ piece.kind # "error" /\ piece.msg \in 1..m
      BY <2>1, <2>2, <2>3
    <2>5. OriginIn(m, seen, up', got) BY <1>1, <1>2, <2>1, <2>4, OriginInOut, SMTT(60)
    <2> QED BY <1>3, <2>5, OriginInLineIs
  <1>6. CASE OriginSends
    <2> DEFINE piece == PieceOf(up.ans, resps[up.ans], up.sent + 1)
    <2>1. /\ piece \in AnyPiece /\ up'.todo = up.todo /\ up'.ans \in {0, up.ans}
          /\ up'.out = Append(up.out, piece) /\ up.ans \in Msg
      BY <1>6, SendsEffect
    <2>2. up.ans \in 1..m BY <1>1, <2>1, ExchangeAssumption DEF OriginIn, Msg
    <2>3. piece.msg = up.ans /\ piece.kind \in {"data", "last"} BY PieceOfFields
    <2> HIDE DEF piece
    <2>4. OriginIn(m, seen, up', got) BY <1>1, <1>2, <1>4, <2>1, <2>2, <2>3, OriginInOut
    <2> QED BY <1>3, <2>4, OriginInLineIs
  <1>7. ASSUME NEW r \in Responses, OriginAnswers(r) PROVE OriginInLine'
    <2>1. /\ up'.todo = Tail(up.todo) /\ up'.ans \in {0, up.todo[1]} /\ up.todo # <<>>
          /\ up'.out = Append(up.out, Piece(up.todo[1], "head", 0))
      BY <1>7, AnswersEffect
    <2>2. OriginIn(m, seen, up', got) BY <1>1, <1>2, <2>1, OriginInAnswer
    <2> QED BY <1>3, <2>2, OriginInLineIs
  <1>8. CASE OriginCloses
    <2>1. up'.todo = up.todo /\ up'.ans = up.ans /\ up'.out = up.out BY <1>8, ClosesEffect
    <2>2. OriginIn(m, seen, up', got) BY <1>1, <2>1 DEF OriginIn
    <2> QED BY <1>3, <2>2, OriginInLineIs
  <1> QED BY <1>5, <1>6, <1>7, <1>8, OriginKinds

LEMMA OriginInLineStep ==
  ASSUME TypeOK, ClientInLine, AtRequest, OriginInLine, [Next]_vars
  PROVE  OriginInLine'
  <1>0. /\ OriginIn(SentUpTo, seen, up, got) /\ SentUpTo \in Nat /\ SentUpTo <= cur /\ cur \in Nat
        /\ up \in Connection /\ got \in Seq(AnyPiece) /\ seen \in Seq([to : Target, piece : AnyPiece])
    BY OriginInLineIs, SentType DEF TypeOK
  <1>1. CASE GivesUp
    <2>1. OriginIn(cur, seen, up, got) /\ SentUpTo' = cur
      BY <1>0, <1>1, OriginInGrows DEF GivesUp, SentUpTo
    <2>2. errorReply \in AnyPiece /\ errorReply.kind = "error" /\ errorReply.msg = 0 BY ErrorType
    <2>3. Below(0, up.todo)
      <3>1. up.todo \in Seq(Msg) BY <1>0 DEF Connection
      <3>2. \A t \in 1..Len(up.todo) : up.todo[t] \in Msg BY <3>1, ElementOfSeq
      <3> QED BY <3>2, ExchangeAssumption DEF Msg, Below
    <2>4. OriginIn(cur, seen, up, Append(got, errorReply))
      BY <1>0, <2>1, <2>2, <2>3, OriginInGot
    <2> QED BY <1>1, <2>1, <2>4, OriginInLineIs DEF GivesUp
  <1>2. CASE GoesOnAnyway
    BY <1>0, <1>2, OriginInLineIs DEF GoesOnAnyway, SentUpTo
  <1>3. CASE Abandons
    <2>1. pc' \in {"done", "reqHead"} /\ up' \in {noConnection, up}
      BY <1>0, <1>3, EndedEffect DEF Abandons
    <2>2. SentUpTo' = cur /\ SentUpTo = cur BY <1>3, <2>1 DEF Abandons, SentUpTo
    <2>3. OriginIn(cur, seen, up', got) BY <1>0, <2>1, <2>2, NoConnection, OriginInEmpty
    <2> QED BY <1>3, <2>2, <2>3, OriginInLineIs DEF Abandons
  <1>4. CASE Takes
    <2>1. /\ pc = "reqHead" /\ pc' = "sendHead" /\ cur' = cur + 1 /\ UNCHANGED <<seen, got>>
          /\ up' = up \/ up' = newConnection(reqs[cur'].target)
          /\ reqs[cur'].target \in Target
      BY <1>4, TakesEffect
    <2>2. SentUpTo' = cur /\ SentUpTo = cur BY <1>0, <2>1 DEF SentUpTo
    <2>3. OriginIn(cur, seen, up', got) BY <1>0, <2>1, <2>2, NewConnection, OriginInEmpty
    <2> QED BY <2>1, <2>2, <2>3, OriginInLineIs
  <1>5. CASE SendHead
    <2>1. /\ SendUp(Piece(cur, "head", 0)) /\ Piece(cur, "head", 0) \in AnyPiece /\ cur \in Msg
          /\ pc = "sendHead" /\ pc' \in {"respHead", "reqBody"} /\ UNCHANGED <<cur, got>>
      BY <1>5, SendHeadEffect
    <2>2. Piece(cur, "head", 0).msg = cur BY PieceFields
    <2>3. /\ Len(seen) \in Nat /\ Extends(seen', seen)
          /\ seen'[Len(seen) + 1].piece.msg = cur /\ up' \in Connection
          /\ up'.ans = up.ans /\ up'.out = up.out
          /\ up'.todo = up.todo \/ up'.todo = Append(up.todo, cur)
      BY <1>0, <2>1, <2>2, SendUpEffect, LenProperties DEF Extends
    <2>4. SentUpTo' = cur /\ SentUpTo = cur - 1 BY <2>1 DEF SentUpTo
    <2>5. OriginIn(cur, seen, up, got) BY <1>0, OriginInGrows
    <2> DEFINE m == cur - 1
    <2>6. m \in Nat /\ m + 1 = cur /\ OriginIn(m, seen, up, got) BY <1>0, <2>4
    <2> HIDE DEF m
    <2>7. OriginIn(m + 1, seen', up', got)
      BY <1>0, <2>1, <2>3, <2>5, <2>6, OriginInSent
    <2> QED BY <2>1, <2>4, <2>6, <2>7, OriginInLineIs
  <1>6. CASE ForwardRequest
    <2>1. /\ SendUp(cin[1]) /\ cin[1] \in AnyPiece /\ pc = "reqBody" /\ cin[1].kind # "head"
          /\ cin[1].msg = cur /\ cur \in Msg
          /\ pc' \in {"respHead", "reqBody"} /\ UNCHANGED <<cur, got>>
      BY <1>6, ForwardRequestEffect
    <2>2. /\ Len(seen') = Len(seen) + 1 /\ \A k \in 1..Len(seen) : seen'[k] = seen[k]
          /\ seen'[Len(seen')].piece.msg = cur
          /\ up'.ans = up.ans /\ up'.out = up.out /\ up'.todo = up.todo
      BY <2>1, SendUpEffect
    <2>3. SentUpTo' = cur /\ SentUpTo = cur BY <2>1 DEF SentUpTo
    <2>4. cur \in 1..cur BY <2>1, ExchangeAssumption DEF Msg
    <2>5. Len(seen) \in Nat BY <1>0, LenProperties
    <2>6. SeenIn(cur, seen') BY <1>0, <2>2, <2>3, <2>4, <2>5 DEF OriginIn, SeenIn
    <2>7. OriginIn(cur, seen', up', got) BY <1>0, <2>2, <2>3, <2>6 DEF OriginIn
    <2> QED BY <2>1, <2>3, <2>7, OriginInLineIs
  <1>7. CASE TakeResponse
    <2>1. /\ pc = "respHead" /\ pc' \in {"done", "reqHead", "respBody"}
          /\ up.out # <<>> /\ SendDown(up.out[1])
          /\ up' = Rest \/ up' = noConnection
          /\ UNCHANGED <<cur, seen>>
      <3>1. PICK r \in Response :
             /\ pc = "respHead" /\ up.out # <<>> /\ SendDown(up.out[1])
             /\ Ended(r, BodyMode(reqs[cur], r), Rest) \/ (pc' = "respBody" /\ up' = Rest)
             /\ UNCHANGED <<program, cur, cin, cl, reqs, resps, seen, captured>>
        BY <1>7, TakeResponseEffect
      <3> QED BY <3>1, EndedEffect, RestFields
    <2> QED BY <2>1, OriginInResponse
  <1>8. CASE ForwardResponse
    <2>1. /\ pc = "respBody" /\ pc' \in {"done", "reqHead", "respBody"}
          /\ up.out # <<>> /\ SendDown(up.out[1])
          /\ up' = Rest \/ up' = noConnection
          /\ UNCHANGED <<cur, seen>>
      <3>1. /\ pc = "respBody" /\ up.out # <<>> /\ SendDown(up.out[1])
            /\ Ended(resp, BodyMode(reqs[cur], resp), Rest) \/ (pc' = "respBody" /\ up' = Rest)
            /\ UNCHANGED <<program, cur, resp, cin, cl, reqs, resps, seen, captured>>
        BY <1>8, ForwardResponseEffect
      <3> QED BY <3>1, EndedEffect, RestFields
    <2> QED BY <2>1, OriginInResponse
  <1>9. CASE Client
    BY <1>0, <1>9, BegunKept, OriginInLineIs DEF SentUpTo
  <1>10. CASE Origin BY <1>10, OriginInLineOrigin
  <1>11. CASE UNCHANGED vars
    BY <1>0, <1>11, OriginInLineIs DEF SentUpTo, vars
  <1> QED BY <1>1, <1>2, <1>3, <1>4, <1>5, <1>6, <1>7, <1>8, <1>9, <1>10, <1>11, StepKinds

-----------------------------------------------------------------------------
(* RightOrigin.                                                            *)

\* The pieces s are those of the requests rs in order, p next to q.
NextIn(loop, rs, p, q) ==
    /\ Follows(p, q)
    /\ loop.fails["reqBody"] # "goOn" /\ q.kind = "head" => p.n = Pieces(rs[p.msg])
RightIn(loop, rs, s) ==
    /\ loop.upstream # "session" => \A n \in 1..Len(s) : s[n].to = rs[s[n].piece.msg].target
    /\ \A n \in 1..Len(s) - 1 : NextIn(loop, rs, s[n].piece, s[n + 1].piece)
LEMMA RightOriginIs ==
  /\ RightOrigin <=> RightIn(Self, reqs, seen)
  /\ RightOrigin' <=> RightIn(Self', reqs', seen')
  BY DEF RightOrigin, RightIn, NextIn, WholeBeforeNext, Follows, Checks

\* One piece more.
LEMMA RightInExtends ==
  ASSUME NEW loop, NEW rs, NEW s, Len(s) \in Nat, NEW r, RightIn(loop, rs, s), Extends(r, s),
         loop.upstream # "session" => r[Len(s) + 1].to = rs[r[Len(s) + 1].piece.msg].target,
         Len(s) # 0 => NextIn(loop, rs, s[Len(s)].piece, r[Len(s) + 1].piece)
  PROVE  RightIn(loop, rs, r)
  <1>1. ASSUME loop.upstream # "session", NEW n \in 1..Len(r)
        PROVE  r[n].to = rs[r[n].piece.msg].target
    <2>1. CASE n \in 1..Len(s) BY <1>1, <2>1 DEF RightIn, Extends
    <2>2. CASE n = Len(s) + 1 BY <1>1, <2>2
    <2> QED BY <2>1, <2>2 DEF Extends
  <1>2. ASSUME NEW n \in 1..Len(r) - 1 PROVE NextIn(loop, rs, r[n].piece, r[n + 1].piece)
    <2>1. CASE n \in 1..Len(s) - 1
      <3>1. n \in 1..Len(s) /\ n + 1 \in 1..Len(s) BY <2>1
      <3>2. NextIn(loop, rs, s[n].piece, s[n + 1].piece) BY <2>1 DEF RightIn
      <3> QED BY <3>1, <3>2 DEF Extends
    <2>2. CASE n = Len(s) /\ n # 0
      <3>1. r[n] = s[n] BY <2>2 DEF Extends
      <3> QED BY <2>2, <3>1
    <2> QED BY <2>1, <2>2 DEF Extends
  <1> QED BY <1>1, <1>2 DEF RightIn

LEMMA RightOriginStep ==
  ASSUME TypeOK, ClientInLine, AtRequest, OriginInLine, RightOrigin, [Next]_vars
  PROVE  RightOrigin'
  <1>0. RightIn(Self, reqs, seen) BY RightOriginIs
  <1>1. CASE SendHead
    <2>1. /\ SendUp(Piece(cur, "head", 0)) /\ Piece(cur, "head", 0) \in AnyPiece /\ cur \in Msg
          /\ pc = "sendHead" /\ UNCHANGED <<program, reqs>>
      BY <1>1, SendHeadEffect
    <2>2. Piece(cur, "head", 0).msg = cur BY PieceFields
    <2>3. /\ Len(seen) \in Nat /\ Extends(seen', seen)
          /\ seen'[Len(seen) + 1].piece = Piece(cur, "head", 0) /\ seen'[Len(seen) + 1].to = up.target
      BY <2>1, <2>2, SendUpEffect, LenProperties DEF Extends, TypeOK
    <2>4. Self.upstream # "session" => up.target = reqs[cur].target BY <2>1 DEF AtRequest
    <2>5. Len(seen) # 0 => NextIn(Self, reqs, seen[Len(seen)].piece, Piece(cur, "head", 0))
      <3>1. Len(seen) # 0 => seen # <<>> BY EmptySeq DEF TypeOK
      <3> QED BY <2>1, <3>1 DEF AtRequest, NextIn, Checks
    <2>6. RightIn(Self, reqs, seen') BY <1>0, <2>2, <2>3, <2>4, <2>5, RightInExtends
    <2> QED BY <2>1, <2>6, RightOriginIs DEF Self
  <1>2. CASE ForwardRequest
    <2>1. /\ SendUp(cin[1]) /\ cin[1] \in AnyPiece /\ pc = "reqBody" /\ cin[1].kind # "head"
          /\ cin[1].msg = cur /\ cin[1].n = Taken.n + 1 /\ UNCHANGED <<program, reqs>>
      BY <1>2, ForwardRequestEffect
    <2>2. /\ Len(seen) \in Nat /\ Extends(seen', seen)
          /\ seen'[Len(seen) + 1].piece = cin[1] /\ seen'[Len(seen) + 1].to = up.target
      BY <2>1, SendUpEffect, LenProperties DEF Extends, TypeOK
    <2>3. Self.upstream # "session" => up.target = reqs[cur].target BY <2>1 DEF AtRequest
    <2>4. seen # <<>> /\ Taken = seen[Len(seen)].piece /\ Taken.msg = cur
      BY <2>1 DEF AtRequest, ClientInLine, Taken
    <2>5. NextIn(Self, reqs, seen[Len(seen)].piece, cin[1]) BY <2>1, <2>4 DEF NextIn, Follows
    <2>6. RightIn(Self, reqs, seen') BY <1>0, <2>1, <2>2, <2>3, <2>5, RightInExtends
    <2> QED BY <2>1, <2>6, RightOriginIs DEF Self
  <1>3. CASE Client \/ Takes
    <2>1. /\ \A j \in 1..cur : reqs'[j] = reqs[j]
          /\ UNCHANGED <<program, seen>>
      BY <1>3, BegunKept, TakesEffect
    <2>2. \A n \in 1..Len(seen) : reqs'[seen[n].piece.msg] = reqs[seen[n].piece.msg]
      BY <2>1, SeenElement
    <2>3. Len(seen) \in Nat BY LenProperties DEF TypeOK
    <2>4. \A n \in 1..Len(seen) - 1 : n \in 1..Len(seen) BY <2>3
    <2>5. RightIn(Self, reqs', seen) BY <1>0, <2>2, <2>4 DEF RightIn, NextIn
    <2> QED BY <2>1, <2>5, RightOriginIs DEF Self
  <1>4. CASE UNCHANGED <<program, reqs, seen>>
    BY <1>0, <1>4, RightOriginIs DEF Self
  <1>5. CASE GivesUp \/ GoesOnAnyway \/ Abandons BY <1>4, <1>5 DEF GivesUp, GoesOnAnyway, Abandons
  <1>6. CASE TakeResponse \/ ForwardResponse
    BY <1>4, <1>6 DEF TakeResponse, ForwardResponse
  <1>7. CASE Origin BY <1>4, <1>7, OriginKinds DEF OriginFrame
  <1>8. CASE UNCHANGED vars BY <1>4, <1>8 DEF vars
  <1> QED BY <1>1, <1>2, <1>3, <1>5, <1>6, <1>7, <1>8, StepKinds

-----------------------------------------------------------------------------
(* NobodyAsked, and CloseIsHonoured.                                       *)

AsksIn(loop, m) == m.conn = "close" \/ (loop.version /\ m.conn = "1.0")
\* Of the requests rs up to m, nobody asked.
RequestsGoOn(loop, rs, m) == \A i \in 1..m : ~AsksIn(loop, rs[i])
\* Of the responses ps that the client got, at most r asks.
ResponsesGoOn(loop, ps, g, in, r) ==
    \A k \in 1..Len(g) : g[k].kind = "head" =>
        ~AsksIn(loop, ps[g[k].msg]) \/ (in /\ ps[g[k].msg] = r)
LEMMA NobodyAskedIs ==
  /\ NobodyAsked <=> (pc # "done" => /\ RequestsGoOn(Self, reqs, Settled)
                                     /\ ResponsesGoOn(Self, resps, got, pc = "respBody", resp))
  /\ NobodyAsked' <=> (pc' # "done" => /\ RequestsGoOn(Self', reqs', Settled')
                                       /\ ResponsesGoOn(Self', resps', got', pc' = "respBody", resp'))
  BY DEF NobodyAsked, RequestsGoOn, ResponsesGoOn, Asks, AsksIn

\* An exchange is over.
LEMMA NobodyAskedEnds ==
  ASSUME NEW loop, NEW rs, NEW m \in Nat, m # 0, RequestsGoOn(loop, rs, m - 1), ~AsksIn(loop, rs[m]),
         NEW ps, NEW g, NEW in \in BOOLEAN, NEW r, ~AsksIn(loop, r), ResponsesGoOn(loop, ps, g, in, r),
         NEW r2
  PROVE  RequestsGoOn(loop, rs, m) /\ ResponsesGoOn(loop, ps, g, FALSE, r2)
  <1>1. RequestsGoOn(loop, rs, m)
    <2>1. \A i \in 1..m : i \in 1..m - 1 \/ i = m OBVIOUS
    <2> QED BY <2>1 DEF RequestsGoOn
  <1> QED BY <1>1 DEF ResponsesGoOn

\* A response r is sent on.
LEMMA NobodyAskedSends ==
  ASSUME NEW loop, NEW ps, NEW g \in Seq(AnyPiece), NEW in \in BOOLEAN, NEW r, ResponsesGoOn(loop, ps, g, in, r),
         NEW piece \in AnyPiece, NEW r2, piece.kind = "head" => r2 = ps[piece.msg],
         in => r2 = r
  PROVE  ResponsesGoOn(loop, ps, Append(g, piece), TRUE, r2) /\ ResponsesGoOn(loop, ps, g, TRUE, r2)
  <1>1. /\ Len(Append(g, piece)) = Len(g) + 1 /\ \A k \in 1..Len(g) : Append(g, piece)[k] = g[k]
        /\ Append(g, piece)[Len(g) + 1] = piece /\ Len(g) \in Nat
    BY AppendProperties
  <1> QED BY <1>1 DEF ResponsesGoOn

LEMMA NobodyAskedOrigin ==
  ASSUME TypeOK, AtRequest, OriginInLine, Origin
  PROVE  \A k \in 1..Len(got) : got[k].kind # "info" => resps'[got[k].msg] = resps[got[k].msg]
  <1>1. CASE resps' = resps BY <1>1
  <1>2. ASSUME NEW r \in Responses, OriginAnswers(r)
        PROVE  \A k \in 1..Len(got) : got[k].kind # "info" => resps'[got[k].msg] = resps[got[k].msg]
    <2>1. resps' = [resps EXCEPT ![up.todo[1]] = r] /\ up.todo # <<>> /\ up.todo[1] \in Msg
      BY <1>2, AnswersEffect
    <2>2. 1 \in 1..Len(up.todo) BY <2>1, TodoHead
    <2>3. \A k \in 1..Len(got) : got[k].kind # "info" => got[k].msg < up.todo[1]
      BY <2>2 DEF OriginInLine
    <2>4. \A k \in 1..Len(got) : got[k].msg \in Nat BY PieceMsgs DEF TypeOK
    <2>5. \A k \in 1..Len(got) : got[k].kind # "info" => got[k].msg # up.todo[1]
      BY <2>1, <2>3, <2>4, ExchangeAssumption DEF Msg
    <2> QED BY <2>1, <2>5 DEF TypeOK
  <1> QED BY <1>1, <1>2, OriginKinds, InformsEffect, SendsEffect, ClosesEffect

LEMMA NobodyAskedStep ==
  ASSUME TypeOK, ClientInLine, AtRequest, OriginInLine, NobodyAsked, [Next]_vars
  PROVE  NobodyAsked'
  <1>0. /\ pc # "done" => /\ RequestsGoOn(Self, reqs, Settled)
                          /\ ResponsesGoOn(Self, resps, got, pc = "respBody", resp)
        /\ cur \in Nat /\ got \in Seq(AnyPiece)
    BY NobodyAskedIs DEF TypeOK
  <1>1. CASE GivesUp BY <1>1, NobodyAskedIs DEF GivesUp
  <1>2. CASE GoesOnAnyway BY <1>0, <1>2, NobodyAskedIs DEF GoesOnAnyway, Settled, Self
  <1>3. CASE Abandons
    <2>1. /\ pc' \in {"done", "reqHead"} /\ pc = "respBody" /\ cur # 0
          /\ pc' = "reqHead" => ~Asks(reqs[cur]) /\ ~Asks(resp)
          /\ UNCHANGED <<program, cur, reqs, resps, got>>
      BY <1>3, EndedEffect DEF Abandons, AtRequest, TypeOK
    <2> SUFFICES ASSUME pc' = "reqHead" PROVE NobodyAsked'
      BY <2>1, NobodyAskedIs
    <2>2. RequestsGoOn(Self, reqs, cur - 1) /\ ResponsesGoOn(Self, resps, got, TRUE, resp)
          /\ ~AsksIn(Self, reqs[cur]) /\ ~AsksIn(Self, resp)
      BY <1>0, <2>1 DEF Settled, Asks, AsksIn
    <2>3. RequestsGoOn(Self, reqs, cur) /\ ResponsesGoOn(Self, resps, got, FALSE, resp')
      BY <1>0, <2>1, <2>2, NobodyAskedEnds
    <2> QED BY <2>1, <2>3, NobodyAskedIs DEF Settled, Self
  <1>4. CASE Takes
    <2>1. /\ pc = "reqHead" /\ pc' = "sendHead" /\ cur' = cur + 1 /\ UNCHANGED <<program, resps, got>>
          /\ \A j \in 1..cur : reqs'[j] = reqs[j]
      BY <1>4, TakesEffect
    <2>2. ResponsesGoOn(Self, resps, got, FALSE, resp') BY <1>0, <2>1 DEF ResponsesGoOn
    <2>3. Settled' = cur /\ Settled = cur BY <1>0, <2>1 DEF Settled
    <2>4. RequestsGoOn(Self, reqs', cur) BY <1>0, <2>1, <2>3 DEF RequestsGoOn
    <2> QED BY <1>0, <2>1, <2>2, <2>3, <2>4, NobodyAskedIs DEF Self
  <1>5. CASE SendHead
    BY <1>0, <1>5, SendHeadEffect, NobodyAskedIs DEF Settled, Self
  <1>6. CASE ForwardRequest
    BY <1>0, <1>6, ForwardRequestEffect, NobodyAskedIs DEF Settled, Self
  <1>7. CASE TakeResponse
    <2>1. PICK piece \in AnyPiece, r \in Response :
             /\ pc = "respHead" /\ up.out # <<>> /\ SendDown(piece) /\ resp' = r /\ cur \in Msg
             /\ piece.kind = "head" => r = resps[piece.msg]
             /\ Ended(r, BodyMode(reqs[cur], r), Rest) \/ (pc' = "respBody" /\ up' = Rest /\ log' = log)
             /\ UNCHANGED <<program, cur, cin, cl, reqs, resps, seen, captured>>
      BY <1>7, TakeResponseEffect
    <2>2. RequestsGoOn(Self, reqs, cur - 1) /\ ResponsesGoOn(Self, resps, got, FALSE, resp)
      BY <1>0, <2>1 DEF Settled
    <2>3. ResponsesGoOn(Self, resps, got', TRUE, r)
      <3>1. /\ ResponsesGoOn(Self, resps, Append(got, piece), TRUE, r)
            /\ ResponsesGoOn(Self, resps, got, TRUE, r)
        BY <1>0, <2>1, <2>2, NobodyAskedSends
      <3>2. got' \in {got, Append(got, piece)} BY <2>1, SendDownEffect
      <3> QED BY <3>1, <3>2
    <2>4. CASE pc' = "respBody"
      <3>1. Settled' = cur - 1 BY <2>1, <2>4 DEF Settled
      <3> QED BY <2>1, <2>2, <2>3, <2>4, <3>1, NobodyAskedIs DEF Self
    <2>5. CASE Ended(r, BodyMode(reqs[cur], r), Rest)
      <3>1. /\ pc' \in {"done", "reqHead"}
            /\ pc' = "reqHead" => ~AsksIn(Self, reqs[cur]) /\ ~AsksIn(Self, r)
        BY <2>1, <2>5, EndedEffect, RestFields DEF Asks, AsksIn
      <3> SUFFICES ASSUME pc' = "reqHead" PROVE NobodyAsked'
        BY <3>1, NobodyAskedIs
      <3>2. cur # 0 BY <2>1, ExchangeAssumption DEF Msg
      <3>3. RequestsGoOn(Self, reqs, cur) /\ ResponsesGoOn(Self, resps, got', FALSE, resp')
        BY <1>0, <2>2, <2>3, <3>1, <3>2, NobodyAskedEnds
      <3> QED BY <2>1, <3>3, NobodyAskedIs DEF Settled, Self
    <2> QED BY <2>1, <2>4, <2>5
  <1>8. CASE ForwardResponse
    <2>1. PICK piece \in AnyPiece :
             /\ pc = "respBody" /\ up.out # <<>> /\ SendDown(piece) /\ cur \in Msg
             /\ piece.kind # "head"
             /\ Ended(resp, BodyMode(reqs[cur], resp), Rest) \/ (pc' = "respBody" /\ up' = Rest /\ log' = log)
             /\ UNCHANGED <<program, cur, resp, cin, cl, reqs, resps, seen, captured>>
      BY <1>8, ForwardResponseEffect
    <2>2. RequestsGoOn(Self, reqs, cur - 1) /\ ResponsesGoOn(Self, resps, got, TRUE, resp)
      BY <1>0, <2>1 DEF Settled
    <2>3. ResponsesGoOn(Self, resps, got', TRUE, resp)
      BY <1>0, <2>1, <2>2, NobodyAskedSends, SendDownEffect, ZenonT(60)
    <2>4. CASE pc' = "respBody"
      <3>1. Settled' = cur - 1 BY <2>1, <2>4 DEF Settled
      <3> QED BY <2>1, <2>2, <2>3, <2>4, <3>1, NobodyAskedIs DEF Self
    <2>5. CASE Ended(resp, BodyMode(reqs[cur], resp), Rest)
      <3>1. /\ pc' \in {"done", "reqHead"}
            /\ pc' = "reqHead" => ~AsksIn(Self, reqs[cur]) /\ ~AsksIn(Self, resp)
        BY <2>1, <2>5, EndedEffect, RestFields DEF Asks, AsksIn, TypeOK
      <3> SUFFICES ASSUME pc' = "reqHead" PROVE NobodyAsked'
        BY <3>1, NobodyAskedIs
      <3>2. cur # 0 BY <2>1, ExchangeAssumption DEF Msg
      <3>3. RequestsGoOn(Self, reqs, cur) /\ ResponsesGoOn(Self, resps, got', FALSE, resp')
        BY <1>0, <2>2, <2>3, <3>1, <3>2, NobodyAskedEnds
      <3> QED BY <2>1, <3>3, NobodyAskedIs DEF Settled, Self
    <2> QED BY <2>1, <2>4, <2>5
  <1>9. CASE Client
    <2>1. /\ \A j \in 1..cur : reqs'[j] = reqs[j]
          /\ UNCHANGED <<program, pc, cur, resp, resps, got>> /\ pc # "done"
      BY <1>9, BegunKept
    <2>2. \A j \in 1..Settled : j \in 1..cur BY <1>0 DEF Settled
    <2>3. RequestsGoOn(Self, reqs', Settled) BY <1>0, <2>1, <2>2 DEF RequestsGoOn
    <2>4. Settled' = Settled BY <2>1 DEF Settled
    <2> QED BY <1>0, <2>1, <2>3, <2>4, NobodyAskedIs DEF Self
  <1>10. CASE Origin
    <2>1. UNCHANGED <<program, pc, cur, resp, reqs, got>> /\ pc # "done"
      BY <1>10, OriginKinds DEF OriginFrame
    <2>2. ResponsesGoOn(Self, resps', got, pc = "respBody", resp)
      BY <1>0, <1>10, <2>1, NobodyAskedOrigin DEF ResponsesGoOn
    <2>3. Settled' = Settled BY <2>1 DEF Settled
    <2> QED BY <1>0, <2>1, <2>2, <2>3, NobodyAskedIs DEF Self
  <1>11. CASE UNCHANGED vars
    BY <1>0, <1>11, NobodyAskedIs DEF Settled, Self, vars
  <1> QED BY <1>1, <1>2, <1>3, <1>4, <1>5, <1>6, <1>7, <1>8, <1>9, <1>10, <1>11, StepKinds

\* The head of a request is sent on by SendHead alone.
LEMMA CloseIsHonouredStep ==
  ASSUME TypeOK, ClientInLine, AtRequest, OriginInLine, NobodyAsked, [Next]_vars,
         seen' # seen, seen'[Len(seen')].piece.kind = "head"
  PROVE  /\ \A n \in 1..Len(seen) : ~Asks(reqs[seen[n].piece.msg])
         /\ \A k \in 1..Len(got) : got[k].kind = "head" => ~Asks(resps[got[k].msg])
  <1>1. CASE SendHead
    <2>1. pc = "sendHead" BY <1>1, SendHeadEffect
    <2>2. Settled = SentUpTo BY <2>1 DEF Settled, SentUpTo
    <2> QED BY <2>1, <2>2, SeenElement DEF NobodyAsked
  <1>2. CASE ForwardRequest
    <2>1. SendUp(cin[1]) /\ cin[1] \in AnyPiece /\ cin[1].kind # "head" BY <1>2, ForwardRequestEffect
    <2>2. seen'[Len(seen')].piece = cin[1] BY <2>1, SendUpEffect
    <2> QED BY <2>1, <2>2
  <1>3. CASE Client BY <1>3, BegunKept
  <1>4. CASE Origin BY <1>4, OriginKinds DEF OriginFrame
  <1>5. CASE GivesUp \/ GoesOnAnyway \/ Abandons BY <1>5 DEF GivesUp, GoesOnAnyway, Abandons
  <1>6. CASE Takes \/ TakeResponse \/ ForwardResponse
    BY <1>6, TakesEffect DEF TakeResponse, ForwardResponse
  <1>7. CASE UNCHANGED vars BY <1>7 DEF vars
  <1> QED BY <1>1, <1>2, <1>3, <1>4, <1>5, <1>6, <1>7, StepKinds

-----------------------------------------------------------------------------
(* LogInLine and AnalyzedInOrder.                                          *)

InspectedIn(loop, r) == loop.inspects = "all" \/ (loop.inspects = "uploads" /\ r.method = "POST")
TruncatedIn(loop, r, n) == n >= Cap /\ (loop.truncated = "longer" => r.mode = "chunked" \/ r.len > Cap)
FirstPiecesIn(r) == IF BodyLen(r) < Cap THEN BodyLen(r) ELSE Cap
IsLogged(l, kind, i) == \E k \in 1..Len(l) : l[k].of = kind /\ l[k].msg = i

\* What the log l says is right; it holds requests up to a and responses up to b.
LogGood(loop, rs, e) ==
    /\ e.of = "request" => /\ e.cut = TruncatedIn(loop, rs[e.msg], e.n)
                           /\ loop.fails["reqBody"] # "goOn" => e.n = FirstPiecesIn(rs[e.msg])
    /\ e.of = "response" => loop.inspects = "all"
EntryUpTo(a, b, e) == (e.of = "request" => e.msg <= a) /\ (e.of = "response" => e.msg <= b)
LaterThan(d, e) == d.msg < e.msg \/ (d.of = "request" /\ e.of = "response" /\ d.msg = e.msg)
LogIn(loop, rs, a, b, l) ==
    /\ \A k \in 1..Len(l) : LogGood(loop, rs, l[k]) /\ EntryUpTo(a, b, l[k])
    /\ \A j, k \in 1..Len(l) : j < k => LaterThan(l[j], l[k])
    /\ \A k \in 1..Len(l) : l[k].of = "response" => IsLogged(l, "request", l[k].msg)
AllLogged(loop, rs, l, m) == \A i \in 1..m : InspectedIn(loop, rs[i]) => IsLogged(l, "request", i)
GotLogged(loop, rs, l, g) ==
    \A k \in 1..Len(g) : g[k].kind = "head" /\ InspectedIn(loop, rs[g[k].msg]) =>
        IsLogged(l, "request", g[k].msg)
LogState(loop, rs, a, b, l, g, going) ==
    LogIn(loop, rs, a, b, l) /\ (going => AllLogged(loop, rs, l, a)) /\ GotLogged(loop, rs, l, g)

LEMMA LogEntries ==
  ASSUME NEW l \in Seq(LogEntry), NEW k \in 1..Len(l)
  PROVE  l[k] \in LogEntry /\ l[k].of \in {"request", "response"} /\ l[k].msg \in Msg
         /\ l[k].msg \in Nat /\ l[k].msg > 0
  <1>1. l[k] \in LogEntry BY ElementOfSeq
  <1> QED BY <1>1, ExchangeAssumption DEF LogEntry, Msg

LEMMA LogIs ==
  ASSUME TypeOK
  PROVE  LogInLine /\ AnalyzedInOrder <=>
           LogState(Self, reqs, Over("request"), Over("response"), log, got, pc # "done")
  <1>1. \A k \in 1..Len(log) : log[k].of \in {"request", "response"} BY LogEntries DEF TypeOK
  <1>2. \A i : Inspected(i) <=> InspectedIn(Self, reqs[i]) BY DEF Inspected, InspectedIn
  <1>3. \A i, kind : i \in Logged(kind) <=> IsLogged(log, kind, i) BY DEF Logged, IsLogged
  <1>4. \A r, n : Truncated(r, n) <=> TruncatedIn(Self, r, n) BY DEF Truncated, TruncatedIn
  <1>5. \A i : FirstPieces(i) = FirstPiecesIn(reqs[i]) BY DEF FirstPieces, FirstPiecesIn
  <1>6. Logged("response") \subseteq Logged("request") <=>
          \A k \in 1..Len(log) : log[k].of = "response" => IsLogged(log, "request", log[k].msg)
    <2>1. ASSUME Logged("response") \subseteq Logged("request"), NEW k \in 1..Len(log),
                 log[k].of = "response"
          PROVE  IsLogged(log, "request", log[k].msg)
      <3>1. IsLogged(log, "response", log[k].msg) BY <2>1 DEF IsLogged
      <3> QED BY <1>3, <2>1, <3>1
    <2>2. ASSUME \A k \in 1..Len(log) : log[k].of = "response" => IsLogged(log, "request", log[k].msg),
                 NEW i \in Logged("response")
          PROVE  i \in Logged("request")
      <3>1. PICK k \in 1..Len(log) : log[k].of = "response" /\ log[k].msg = i
        BY <1>3 DEF IsLogged
      <3> QED BY <1>3, <2>2, <3>1
    <2> QED BY <2>1, <2>2
  <1>7. LogInLine <=>
          /\ \A k \in 1..Len(log) : EntryUpTo(Over("request"), Over("response"), log[k])
          /\ pc # "done" => AllLogged(Self, reqs, log, Over("request"))
          /\ \A k \in 1..Len(log) :
                /\ log[k].of = "request" => log[k].cut = Truncated(reqs[log[k].msg], log[k].n)
                /\ log[k].of = "response" => Self.inspects = "all"
    <2>1. (\A k \in 1..Len(log) : log[k].msg <= Over(log[k].of)) <=>
             \A k \in 1..Len(log) : EntryUpTo(Over("request"), Over("response"), log[k])
      BY <1>1 DEF EntryUpTo
    <2>2. (\A i \in 1..Over("request") : Inspected(i) => i \in Logged("request")) <=>
            AllLogged(Self, reqs, log, Over("request"))
      BY <1>2, <1>3 DEF AllLogged
    <2>3. (\A k \in 1..Len(log) :
             IF log[k].of = "request" THEN log[k].cut = Truncated(reqs[log[k].msg], log[k].n)
             ELSE Self.inspects = "all") <=>
          \A k \in 1..Len(log) :
                /\ log[k].of = "request" => log[k].cut = Truncated(reqs[log[k].msg], log[k].n)
                /\ log[k].of = "response" => Self.inspects = "all"
      BY <1>1
    <2> QED BY <2>1, <2>2, <2>3 DEF LogInLine
  <1>8. AnalyzedInOrder <=>
          /\ \A j, k \in 1..Len(log) : j < k => LaterThan(log[j], log[k])
          /\ \A k \in 1..Len(log) : log[k].of = "response" => IsLogged(log, "request", log[k].msg)
          /\ \A k \in 1..Len(log) : log[k].of = "request" /\ Checks("reqBody") =>
                log[k].n = FirstPieces(log[k].msg)
          /\ GotLogged(Self, reqs, log, got)
    BY <1>2, <1>3, <1>6 DEF AnalyzedInOrder, LaterThan, GotLogged
  <1>9. (\A k \in 1..Len(log) : LogGood(Self, reqs, log[k])) <=>
          /\ \A k \in 1..Len(log) :
                /\ log[k].of = "request" => log[k].cut = Truncated(reqs[log[k].msg], log[k].n)
                /\ log[k].of = "response" => Self.inspects = "all"
          /\ \A k \in 1..Len(log) : log[k].of = "request" /\ Checks("reqBody") =>
                log[k].n = FirstPieces(log[k].msg)
    <2>1. \A k \in 1..Len(log) : log[k].of = "request" =>
             (log[k].cut = Truncated(reqs[log[k].msg], log[k].n)
                <=> log[k].cut = TruncatedIn(Self, reqs[log[k].msg], log[k].n))
      BY DEF Truncated, TruncatedIn
    <2> QED BY <2>1, <1>5 DEF LogGood, Checks
  <1> QED BY <1>7, <1>8, <1>9 DEF LogState, LogIn

\* The same of the next state.
LEMMA LogIsNext ==
  (TypeOK => (LogInLine /\ AnalyzedInOrder <=>
                LogState(Self, reqs, Over("request"), Over("response"), log, got, pc # "done")))'
  BY LogIs, PTL

LEMMA LoggedAppend ==
  ASSUME NEW l \in Seq(LogEntry), NEW e \in LogEntry
  PROVE  /\ Append(l, e) \in Seq(LogEntry) /\ Len(Append(l, e)) = Len(l) + 1 /\ Len(l) \in Nat
         /\ \A k \in 1..Len(l) : Append(l, e)[k] = l[k]
         /\ Append(l, e)[Len(l) + 1] = e
         /\ \A kind, i : IsLogged(Append(l, e), kind, i) <=> IsLogged(l, kind, i) \/ (e.of = kind /\ e.msg = i)
  <1>1. /\ Append(l, e) \in Seq(LogEntry) /\ Len(Append(l, e)) = Len(l) + 1 /\ Len(l) \in Nat
        /\ \A k \in 1..Len(l) : Append(l, e)[k] = l[k]
        /\ Append(l, e)[Len(l) + 1] = e
    BY AppendProperties
  <1> QED BY <1>1 DEF IsLogged

\* A call for the message m + 1.
LEMMA LogAppend ==
  ASSUME NEW loop, NEW rs, NEW m \in Nat, NEW a \in Nat, a \in {m, m + 1}, NEW l \in Seq(LogEntry), NEW e \in LogEntry,
         LogIn(loop, rs, a, m, l), LogGood(loop, rs, e), e.msg = m + 1,
         \/ e.of = "request" /\ a = m
         \/ e.of = "response" /\ a = m + 1 /\ IsLogged(l, "request", m + 1)
  PROVE  LogIn(loop, rs, m + 1, IF e.of = "request" THEN m ELSE m + 1, Append(l, e))
  <1> DEFINE b == IF e.of = "request" THEN m ELSE m + 1
             q == Append(l, e)
  <1>1. /\ Len(q) = Len(l) + 1 /\ Len(l) \in Nat
        /\ \A k \in 1..Len(l) : q[k] = l[k]
        /\ q[Len(l) + 1] = e
        /\ \A kind, i : IsLogged(q, kind, i) <=> IsLogged(l, kind, i) \/ (e.of = kind /\ e.msg = i)
    BY LoggedAppend
  <1> HIDE DEF q
  <1>2. ASSUME NEW k \in 1..Len(l)
        PROVE  /\ LogGood(loop, rs, l[k]) /\ EntryUpTo(a, m, l[k])
               /\ l[k].msg \in Nat /\ l[k].of \in {"request", "response"}
    BY LogEntries DEF LogIn
  <1>3. ASSUME NEW k \in 1..Len(l) PROVE EntryUpTo(m + 1, b, l[k]) /\ LaterThan(l[k], e)
    BY <1>2 DEF EntryUpTo, LaterThan
  <1>4. EntryUpTo(m + 1, b, e) BY DEF EntryUpTo
  <1>5. \A k \in 1..Len(q) : LogGood(loop, rs, q[k]) /\ EntryUpTo(m + 1, b, q[k])
    BY <1>1, <1>2, <1>3, <1>4
  <1>6. ASSUME NEW j \in 1..Len(q), NEW k \in 1..Len(q), j < k PROVE LaterThan(q[j], q[k])
    <2>1. j \in 1..Len(l) BY <1>1, <1>6
    <2>2. CASE k \in 1..Len(l) BY <1>1, <1>6, <2>1, <2>2 DEF LogIn
    <2>3. CASE k = Len(l) + 1 BY <1>1, <1>3, <2>1, <2>3
    <2> QED BY <1>1, <2>2, <2>3
  <1>7. ASSUME NEW k \in 1..Len(q), q[k].of = "response" PROVE IsLogged(q, "request", q[k].msg)
    <2>1. CASE k \in 1..Len(l) BY <1>1, <1>7, <2>1 DEF LogIn
    <2>2. CASE k = Len(l) + 1 BY <1>1, <1>7, <2>2
    <2> QED BY <1>1, <2>1, <2>2
  <1> QED BY <1>5, <1>6, <1>7 DEF LogIn, q

LEMMA LogGrows ==
  ASSUME NEW loop, NEW rs, NEW a \in Nat, NEW b \in Nat, NEW c \in Nat, NEW d \in Nat, a <= c, b <= d,
         NEW l \in Seq(LogEntry), LogIn(loop, rs, a, b, l)
  PROVE  LogIn(loop, rs, c, d, l)
  <1>1. \A k \in 1..Len(l) : EntryUpTo(a, b, l[k]) => EntryUpTo(c, d, l[k])
    BY LogEntries DEF EntryUpTo
  <1> QED BY <1>1 DEF LogIn

\* The request m + 1 was sent.
LEMMA LogRequest ==
  ASSUME NEW loop, NEW rs, NEW m \in Nat, NEW l \in Seq(LogEntry), NEW g, LogState(loop, rs, m, m, l, g, TRUE),
         NEW e \in LogEntry, e.of = "request", e.msg = m + 1, LogGood(loop, rs, e), NEW q,
         q = IF InspectedIn(loop, rs[m + 1]) THEN Append(l, e) ELSE l
  PROVE  LogState(loop, rs, m + 1, m, q, g, TRUE)
  <1>1. LogIn(loop, rs, m, m, l) /\ AllLogged(loop, rs, l, m) /\ GotLogged(loop, rs, l, g) BY DEF LogState
  <1>2. \A i \in 1..m + 1 : i \in 1..m \/ i = m + 1 OBVIOUS
  <1>3. CASE InspectedIn(loop, rs[m + 1])
    <2>1. LogIn(loop, rs, m + 1, m, q) BY <1>1, <1>3, LogAppend
    <2>2. \A kind, i : IsLogged(q, kind, i) <=> IsLogged(l, kind, i) \/ (e.of = kind /\ e.msg = i)
      BY <1>3, LoggedAppend
    <2>3. AllLogged(loop, rs, q, m + 1) BY <1>1, <1>2, <2>2 DEF AllLogged
    <2>4. GotLogged(loop, rs, q, g) BY <1>1, <2>2 DEF GotLogged
    <2> QED BY <2>1, <2>3, <2>4 DEF LogState
  <1>4. CASE ~InspectedIn(loop, rs[m + 1])
    <2>1. LogIn(loop, rs, m + 1, m, q) BY <1>1, <1>4, LogGrows
    <2>2. AllLogged(loop, rs, q, m + 1) BY <1>1, <1>2, <1>4 DEF AllLogged
    <2> QED BY <1>1, <1>4, <2>1, <2>2 DEF LogState
  <1> QED BY <1>3, <1>4

\* The response m is over.
LEMMA LogResponse ==
  ASSUME NEW loop, NEW rs, NEW m \in Nat, m # 0, NEW l \in Seq(LogEntry), NEW g,
         LogState(loop, rs, m, m - 1, l, g, TRUE),
         NEW e \in LogEntry, e.of = "response", e.msg = m, NEW q,
         q = IF loop.inspects # "all" THEN l ELSE Append(l, e)
  PROVE  LogState(loop, rs, m, m, q, g, TRUE)
  <1> DEFINE n == m - 1
  <1>1. n \in Nat /\ n + 1 = m OBVIOUS
  <1>2. LogIn(loop, rs, m, n, l) /\ AllLogged(loop, rs, l, m) /\ GotLogged(loop, rs, l, g) BY DEF LogState
  <1> HIDE DEF n
  <1>3. CASE loop.inspects # "all"
    <2>1. LogIn(loop, rs, m, m, q) BY <1>1, <1>2, <1>3, LogGrows
    <2> QED BY <1>2, <1>3, <2>1 DEF LogState
  <1>4. CASE loop.inspects = "all"
    <2>1. IsLogged(l, "request", m) BY <1>2, <1>4 DEF AllLogged, InspectedIn
    <2>2. LogGood(loop, rs, e) BY <1>4 DEF LogGood
    <2>3. LogIn(loop, rs, n + 1, n + 1, q) BY <1>1, <1>2, <1>4, <2>1, <2>2, LogAppend
    <2>4. \A kind, i : IsLogged(q, kind, i) <=> IsLogged(l, kind, i) \/ (e.of = kind /\ e.msg = i)
      BY <1>4, LoggedAppend
    <2>5. AllLogged(loop, rs, q, m) BY <1>2, <2>4 DEF AllLogged
    <2>6. GotLogged(loop, rs, q, g) BY <1>2, <2>4 DEF GotLogged
    <2> QED BY <1>1, <2>3, <2>5, <2>6 DEF LogState
  <1> QED BY <1>3, <1>4

\* The client is sent a piece of a message whose request was sent.
LEMMA LogGot ==
  ASSUME NEW loop, NEW rs, NEW a, NEW b, NEW l, NEW g \in Seq(AnyPiece), LogState(loop, rs, a, b, l, g, TRUE),
         NEW piece \in AnyPiece, piece.kind = "head" => piece.msg \in 1..a
  PROVE  LogState(loop, rs, a, b, l, Append(g, piece), TRUE)
  <1>1. /\ Len(Append(g, piece)) = Len(g) + 1 /\ \A k \in 1..Len(g) : Append(g, piece)[k] = g[k]
        /\ Append(g, piece)[Len(g) + 1] = piece /\ Len(g) \in Nat
    BY AppendProperties
  <1>2. GotLogged(loop, rs, l, Append(g, piece)) BY <1>1 DEF LogState, GotLogged, AllLogged
  <1> QED BY <1>2 DEF LogState

\* The loop gives up.
LEMMA LogGivesUp ==
  ASSUME NEW loop, NEW rs, NEW a, NEW b, NEW c, NEW l, NEW g \in Seq(AnyPiece), LogState(loop, rs, a, b, l, g, c)
  PROVE  LogState(loop, rs, a, b, l, g, FALSE) /\ LogState(loop, rs, a, b, l, Append(g, errorReply), FALSE)
  <1>1. errorReply \in AnyPiece /\ errorReply.kind = "error" BY ErrorType
  <1>2. /\ Len(Append(g, errorReply)) = Len(g) + 1 /\ \A k \in 1..Len(g) : Append(g, errorReply)[k] = g[k]
        /\ Append(g, errorReply)[Len(g) + 1] = errorReply /\ Len(g) \in Nat
    BY <1>1, AppendProperties
  <1>3. GotLogged(loop, rs, l, Append(g, errorReply)) BY <1>1, <1>2 DEF LogState, GotLogged
  <1> QED BY <1>3 DEF LogState

LEMMA OverIs ==
  ASSUME TypeOK, AtRequest
  PROVE  /\ Over("request") \in Nat /\ Over("response") \in Nat
         /\ Over("request") <= cur /\ Over("response") <= cur
         /\ pc \in {"sendHead", "reqBody"} => Over("request") = cur - 1 /\ Over("response") = cur - 1
         /\ pc \in {"respHead", "respBody"} => Over("request") = cur /\ Over("response") = cur - 1
         /\ pc \in {"reqHead", "done"} => Over("request") = cur /\ Over("response") = cur
         /\ cur \in Nat /\ (pc \in {"sendHead", "reqBody", "respHead", "respBody"} => cur # 0 /\ cur \in Msg)
  BY ExchangeAssumption DEF Over, AtRequest, TypeOK, Msg
LEMMA OverIsNext ==
  (TypeOK /\ AtRequest =>
     /\ Over("request") \in Nat /\ Over("response") \in Nat
     /\ Over("request") <= cur /\ Over("response") <= cur
     /\ pc \in {"sendHead", "reqBody"} => Over("request") = cur - 1 /\ Over("response") = cur - 1
     /\ pc \in {"respHead", "respBody"} => Over("request") = cur /\ Over("response") = cur - 1
     /\ pc \in {"reqHead", "done"} => Over("request") = cur /\ Over("response") = cur)'
  BY OverIs, PTL

\* The entry for a request that was sent, or that broke off.
LEMMA LogAnalyzed ==
  ASSUME TypeOK, AtRequest, pc \in {"sendHead", "reqBody"}, LogInLine, AnalyzedInOrder,
         NEW n \in 0..Cap, Checks("reqBody") => n = FirstPieces(cur)
  PROVE  LogState(Self, reqs, cur, cur - 1, Analyzed(cur, n), got, TRUE)
  <1>1. LogState(Self, reqs, cur - 1, cur - 1, log, got, TRUE) /\ cur - 1 \in Nat /\ cur # 0
    BY LogIs, OverIs
  <1> DEFINE entry == [of |-> "request", msg |-> cur, n |-> n, cut |-> Truncated(reqs[cur], n)]
             m == cur - 1
  <1>2. entry \in LogEntry
    <2>1. Truncated(reqs[cur], n) \in BOOLEAN BY DEF Truncated
    <2> QED BY <2>1, OverIs DEF LogEntry
  <1>3. /\ entry.of = "request" /\ entry.msg = cur /\ entry.n = n
        /\ entry.cut = TruncatedIn(Self, reqs[cur], n)
    BY DEF Truncated, TruncatedIn
  <1>4. Checks("reqBody") => entry.n = FirstPiecesIn(reqs[cur])
    BY <1>3 DEF FirstPieces, FirstPiecesIn
  <1>5. Analyzed(cur, n) = IF InspectedIn(Self, reqs[cur]) THEN Append(log, entry) ELSE log
    BY DEF Analyzed, Inspected, InspectedIn
  <1>6. m \in Nat /\ m + 1 = cur BY <1>1, OverIs
  <1>7. log \in Seq(LogEntry) BY DEF TypeOK
  <1> HIDE DEF entry, m
  <1>8. LogGood(Self, reqs, entry) BY <1>3, <1>4 DEF LogGood, Checks
  <1>9. LogState(Self, reqs, m, m, log, got, TRUE) BY <1>1 DEF m
  <1>10. LogState(Self, reqs, m + 1, m, Analyzed(cur, n), got, TRUE)
    BY <1>2, <1>3, <1>5, <1>6, <1>7, <1>8, <1>9, LogRequest
  <1> QED BY <1>6, <1>10 DEF m

\* The log after an exchange.
LEMMA LogEnded ==
  ASSUME TypeOK, AtRequest, pc \in {"respHead", "respBody"}, NEW r, NEW mode, NEW c \in Connection, Ended(r, mode, c),
         NEW g, LogState(Self, reqs, cur, cur - 1, log, g, TRUE)
  PROVE  LogState(Self, reqs, cur, cur, log', g, TRUE)
  <1> DEFINE entry == [of |-> "response", msg |-> cur, n |-> 0, cut |-> FALSE]
  <1>1. log' = IF Self.inspects # "all" THEN log ELSE Append(log, entry)
    BY EndedEffect
  <1>2. entry \in LogEntry BY OverIs, ExchangeAssumption DEF LogEntry
  <1>3. entry.of = "response" /\ entry.msg = cur OBVIOUS
  <1>4. log \in Seq(LogEntry) /\ cur \in Nat /\ cur # 0 BY OverIs DEF TypeOK
  <1> HIDE DEF entry
  <1> QED BY <1>1, <1>2, <1>3, <1>4, LogResponse

\* The requests the loop has come to do not change.
LEMMA LogRequestsKept ==
  ASSUME TypeOK, AtRequest, OriginInLine, \A j \in 1..cur : reqs'[j] = reqs[j], NEW c \in BOOLEAN,
         LogState(Self, reqs, Over("request"), Over("response"), log, got, c)
  PROVE  LogState(Self, reqs', Over("request"), Over("response"), log, got, c)
  <1>0. got \in Seq(AnyPiece) /\ log \in Seq(LogEntry) /\ cur \in Nat BY DEF TypeOK
  <1>1. \A k \in 1..Len(log) : log[k].msg \in 1..cur
    <2>1. LogIn(Self, reqs, Over("request"), Over("response"), log) BY DEF LogState
    <2>2. ASSUME NEW k \in 1..Len(log) PROVE log[k].msg <= cur
      <3>1. EntryUpTo(Over("request"), Over("response"), log[k]) BY <2>1 DEF LogIn
      <3>2. log[k].of \in {"request", "response"} /\ log[k].msg \in Nat BY <1>0, LogEntries
      <3> QED BY <3>1, <3>2, OverIs DEF EntryUpTo
    <2> QED BY <1>0, <2>2, LogEntries
  <1>2. \A k \in 1..Len(got) : got[k].kind = "head" => got[k].msg \in 1..cur
    <2>1. \A k \in 1..Len(got) : got[k].kind = "head" => got[k].msg <= SentUpTo /\ got[k].msg > 0
      BY DEF OriginInLine
    <2> QED BY <1>0, <2>1, SentType, PieceMsgs
  <1>3. \A i \in 1..Over("request") : reqs'[i] = reqs[i] BY <1>0, OverIs
  <1> HIDE DEF Self, Over
  <1> QED BY <1>1, <1>2, <1>3 DEF LogState, LogIn, LogGood, AllLogged, GotLogged

LEMMA LogStep ==
  ASSUME TypeOK, ClientInLine, AtRequest, OriginInLine, LogInLine, AnalyzedInOrder, [Next]_vars,
         TypeOK', AtRequest'
  PROVE  LogInLine' /\ AnalyzedInOrder'
  <1>0. /\ LogState(Self, reqs, Over("request"), Over("response"), log, got, pc # "done")
        /\ got \in Seq(AnyPiece) /\ log \in Seq(LogEntry) /\ cur \in Nat
    <2>1. LogState(Self, reqs, Over("request"), Over("response"), log, got, pc # "done") BY LogIs
    <2>2. got \in Seq(AnyPiece) /\ log \in Seq(LogEntry) /\ cur \in Nat BY DEF TypeOK
    <2> QED BY <2>1, <2>2
  <1> SUFFICES LogState(Self', reqs', Over("request")', Over("response")', log', got', pc' # "done")
    BY LogIsNext
  <1> HIDE DEF Self
  <1>1. CASE GivesUp
    <2>1. /\ Self' = Self /\ cur' = cur /\ UNCHANGED <<reqs, log>> /\ pc' = "done"
          /\ got' = got \/ got' = Append(got, errorReply)
      BY <1>1 DEF GivesUp, Self
    <2>2. Over("request")' = cur /\ Over("response")' = cur BY <2>1, OverIsNext
    <2>3. LogIn(Self, reqs, cur, cur, log)
      BY <1>0, OverIs, LogGrows DEF LogState
    <2>4. LogState(Self, reqs, cur, cur, log, got, FALSE) BY <1>0, <2>3 DEF LogState
    <2> QED BY <1>0, <2>1, <2>2, <2>4, LogGivesUp
  <1>2. CASE GoesOnAnyway
    <2>1. /\ Self' = Self /\ cur' = cur /\ UNCHANGED <<reqs, got>> /\ pc = "reqBody" /\ pc' = "respHead"
          /\ ~Checks("reqBody") /\ log' = Analyzed(cur, captured) /\ captured \in 0..Cap
      BY <1>2 DEF GoesOnAnyway, Self, TypeOK
    <2>2. Over("request")' = cur /\ Over("response")' = cur - 1 BY <2>1, OverIsNext
    <2>3. LogState(Self, reqs, cur, cur - 1, log', got, TRUE) BY <2>1, LogAnalyzed
    <2> QED BY <2>1, <2>2, <2>3
  <1>3. CASE Abandons
    <2>1. /\ Self' = Self /\ cur' = cur /\ UNCHANGED <<reqs, got>> /\ pc = "respBody"
          /\ pc' \in {"done", "reqHead"} /\ up \in Connection
          /\ Ended(resp, BodyMode(reqs[cur], resp), up)
      BY <1>3, EndedEffect DEF Abandons, Self, TypeOK
    <2>2. Over("request")' = cur /\ Over("response")' = cur BY <2>1, OverIsNext
    <2>3. LogState(Self, reqs, cur, cur - 1, log, got, TRUE) BY <1>0, <2>1, OverIs
    <2>4. LogState(Self, reqs, cur, cur, log', got, TRUE) BY <2>1, <2>3, LogEnded
    <2> QED BY <2>1, <2>2, <2>4 DEF LogState
  <1>4. CASE Takes
    <2>1. /\ Self' = Self /\ cur' = cur + 1 /\ UNCHANGED <<got, log>> /\ pc = "reqHead"
          /\ pc' = "sendHead" /\ \A j \in 1..cur : reqs'[j] = reqs[j]
      BY <1>4, TakesEffect DEF Self
    <2>2. Over("request")' = cur /\ Over("response")' = cur BY <1>0, <2>1, OverIsNext
    <2>3. LogState(Self, reqs', Over("request"), Over("response"), log, got, TRUE)
      BY <1>0, <2>1, LogRequestsKept
    <2> QED BY <2>1, <2>2, <2>3, OverIs
  <1>5. CASE SendHead
    <2>1. /\ Self' = Self /\ cur' = cur /\ UNCHANGED <<reqs, got>> /\ pc = "sendHead"
          /\ reqs[cur] \in Request /\ reqs[cur].mode # "error"
          /\ IF Pieces(reqs[cur]) = 0 THEN pc' = "respHead" /\ log' = Analyzed(cur, 0)
             ELSE pc' = "reqBody" /\ log' = log
      BY <1>5, SendHeadEffect DEF Self, AtRequest
    <2>2. CASE Pieces(reqs[cur]) = 0
      <3>1. BodyLen(reqs[cur]) = 0 BY <2>1, <2>2, RequestPieces DEF BodyLen
      <3>2. FirstPieces(cur) = 0 /\ 0 \in 0..Cap BY <3>1, ExchangeAssumption DEF FirstPieces
      <3>3. LogState(Self, reqs, cur, cur - 1, log', got, TRUE) BY <2>1, <2>2, <3>2, LogAnalyzed
      <3>4. Over("request")' = cur /\ Over("response")' = cur - 1 BY <2>1, <2>2, OverIsNext
      <3> QED BY <2>1, <2>2, <3>3, <3>4
    <2>3. CASE Pieces(reqs[cur]) # 0
      <3>1. Over("request")' = cur - 1 /\ Over("response")' = cur - 1 BY <2>1, <2>3, OverIsNext
      <3> QED BY <1>0, <2>1, <2>3, <3>1, OverIs
    <2> QED BY <2>2, <2>3
  <1>6. CASE ForwardRequest
    <2>1. /\ Self' = Self /\ cur' = cur /\ UNCHANGED <<reqs, got>> /\ pc = "reqBody"
          /\ reqs[cur] \in Request /\ reqs[cur].mode \in {"length", "chunked"}
          /\ captured' \in 0..Cap /\ Taken.n \in Nat /\ cin[1].n = Taken.n + 1
          /\ captured' = IF Inspected(cur) /\ cin[1].kind = "data" /\ captured < Cap
                         THEN captured + 1 ELSE captured
          /\ cin[1].kind = IF reqs[cur].mode = "chunked" /\ cin[1].n > reqs[cur].len THEN "last"
                           ELSE "data"
          /\ IF cin[1].n = Pieces(reqs[cur]) THEN pc' = "respHead" /\ log' = Analyzed(cur, captured')
             ELSE pc' = "reqBody" /\ log' = log
      BY <1>6, ForwardRequestEffect DEF Self
    <2>2. CASE cin[1].n = Pieces(reqs[cur])
      <3>1. Inspected(cur) => captured = Smaller(Taken.n, Cap) BY <2>1 DEF AtRequest
      <3>2. /\ Pieces(reqs[cur]) = IF reqs[cur].mode = "chunked" THEN reqs[cur].len + 1 ELSE reqs[cur].len
            /\ reqs[cur].len \in Nat
        BY <2>1, RequestPieces
      <3>3. BodyLen(reqs[cur]) = reqs[cur].len BY <2>1 DEF BodyLen
      <3>4. Inspected(cur) => captured' = FirstPieces(cur)
        <4> SUFFICES ASSUME Inspected(cur) PROVE captured' = FirstPieces(cur) OBVIOUS
        <4>1. captured = (IF Taken.n < Cap THEN Taken.n ELSE Cap) BY <3>1 DEF Smaller
        <4>2. FirstPieces(cur) = IF reqs[cur].len < Cap THEN reqs[cur].len ELSE Cap
          BY <3>3 DEF FirstPieces
        <4>3. CASE reqs[cur].mode = "length"
          <5>1. captured' = IF captured < Cap THEN captured + 1 ELSE captured BY <2>1, <4>3
          <5>2. reqs[cur].len = Taken.n + 1 BY <2>1, <2>2, <3>2, <4>3
          <5> QED BY <2>1, <4>1, <4>2, <5>1, <5>2, ExchangeAssumption
        <4>4. CASE reqs[cur].mode = "chunked"
          <5>1. reqs[cur].len = Taken.n BY <2>1, <2>2, <3>2, <4>4
          <5>2. captured' = captured BY <2>1, <4>4, <5>1
          <5> QED BY <4>1, <4>2, <5>1, <5>2
        <4> QED BY <2>1, <4>3, <4>4
      <3>5. LogState(Self, reqs, cur, cur - 1, log', got, TRUE)
        <4>1. CASE Inspected(cur) BY <2>1, <2>2, <3>4, <4>1, LogAnalyzed
        <4>2. CASE ~Inspected(cur)
          <5>1. Analyzed(cur, captured') = log /\ \A n : Analyzed(cur, n) = log BY <4>2 DEF Analyzed
          <5>2. FirstPieces(cur) \in 0..Cap BY <3>2, <3>3, ExchangeAssumption DEF FirstPieces
          <5>3. LogState(Self, reqs, cur, cur - 1, Analyzed(cur, FirstPieces(cur)), got, TRUE)
            BY <2>1, <5>2, LogAnalyzed
          <5> QED BY <2>1, <2>2, <5>1, <5>3
        <4> QED BY <4>1, <4>2
      <3>6. Over("request")' = cur /\ Over("response")' = cur - 1 BY <2>1, <2>2, OverIsNext
      <3> QED BY <2>1, <2>2, <3>5, <3>6
    <2>3. CASE cin[1].n # Pieces(reqs[cur])
      <3>1. Over("request")' = cur - 1 /\ Over("response")' = cur - 1 BY <2>1, <2>3, OverIsNext
      <3> QED BY <1>0, <2>1, <2>3, <3>1, OverIs
    <2> QED BY <2>2, <2>3
  <1>7. CASE TakeResponse \/ ForwardResponse
    <2>1. PICK piece \in AnyPiece, r \in Response :
             /\ pc \in {"respHead", "respBody"} /\ SendDown(piece)
             /\ piece.msg \in Msg /\ piece.msg <= cur
             /\ Ended(r, BodyMode(reqs[cur], r), Rest) \/ (pc' = "respBody" /\ log' = log)
             /\ up.out # <<>> /\ UNCHANGED <<program, cur, reqs>>
      <3>1. CASE TakeResponse BY <3>1, TakeResponseEffect
      <3>2. CASE ForwardResponse
        <4>1. resp \in Response BY DEF TypeOK
        <4> QED BY <3>2, <4>1, ForwardResponseEffect
      <3> QED BY <1>7, <3>1, <3>2
    <2>2. LogState(Self, reqs, cur, cur - 1, log, got, TRUE) BY <1>0, <2>1, OverIs
    <2>3. piece.msg \in 1..cur BY <1>0, <2>1 DEF Msg
    <2>4. LogState(Self, reqs, cur, cur - 1, log, got', TRUE)
      <3>1. LogState(Self, reqs, cur, cur - 1, log, Append(got, piece), TRUE) BY <1>0, <2>2, <2>3, LogGot
      <3>2. got' \in {got, Append(got, piece)} BY <2>1, SendDownEffect
      <3> QED BY <2>2, <3>1, <3>2
    <2>5. Self' = Self BY <2>1 DEF Self
    <2>6. CASE pc' = "respBody" /\ log' = log
      <3>1. Over("request")' = cur /\ Over("response")' = cur - 1 BY <2>1, <2>6, OverIsNext
      <3> QED BY <2>1, <2>4, <2>5, <2>6, <3>1
    <2>7. CASE Ended(r, BodyMode(reqs[cur], r), Rest)
      <3>1. pc' \in {"done", "reqHead"} /\ Rest \in Connection BY <2>1, <2>7, EndedEffect, RestFields
      <3>2. Over("request")' = cur /\ Over("response")' = cur BY <2>1, <3>1, OverIsNext
      <3>3. LogState(Self, reqs, cur, cur, log', got', TRUE) BY <2>1, <2>4, <2>7, <3>1, LogEnded
      <3> QED BY <2>1, <2>5, <3>2, <3>3 DEF LogState
    <2> QED BY <2>1, <2>6, <2>7
  <1>8. CASE Client
    <2>1. /\ \A j \in 1..cur : reqs'[j] = reqs[j]
          /\ UNCHANGED <<program, pc, cur, got, log>> /\ pc # "done"
      BY <1>8, BegunKept
    <2>2. Self' = Self /\ Over("request")' = Over("request") /\ Over("response")' = Over("response")
      BY <2>1 DEF Self, Over
    <2>3. LogState(Self, reqs', Over("request"), Over("response"), log, got, TRUE)
      BY <1>0, <2>1, LogRequestsKept
    <2> QED BY <2>1, <2>2, <2>3
  <1>9. CASE Origin
    BY <1>0, <1>9, OriginKinds DEF OriginFrame, Self, Over
  <1>10. CASE UNCHANGED vars
    BY <1>0, <1>10 DEF Self, Over, vars
  <1> QED BY <1>1, <1>2, <1>3, <1>4, <1>5, <1>6, <1>7, <1>8, <1>9, <1>10, StepKinds

-----------------------------------------------------------------------------
(* Counting what the client got.                                           *)

ToldIn(g) == \E k \in 1..Len(g) : g[k].kind = "info"
HeadsIn(g, n) == Cardinality({m \in 1..n : g[m].kind = "head"})
Body(piece, i) == piece.msg = i /\ piece.kind \in {"data", "last"}
DeliveredIn(g, i) == Cardinality({n \in 1..Len(g) : Body(g[n], i)})

LEMMA SubsetFinite ==
  ASSUME NEW n \in Nat, NEW S, S \subseteq 1..n
  PROVE  IsFiniteSet(S) /\ Cardinality(S) \in Nat /\ n + 1 \notin S
  <1>1. IsFiniteSet(1..n) BY FS_Interval
  <1>2. IsFiniteSet(S) BY <1>1, FS_Subset
  <1>3. Cardinality(S) \in Nat BY <1>2, FS_CardinalityType
  <1> QED BY <1>2, <1>3

LEMMA CountNat ==
  ASSUME NEW g \in Seq(AnyPiece), NEW i, NEW n \in Nat
  PROVE  HeadsIn(g, n) \in Nat /\ DeliveredIn(g, i) \in Nat
  <1>1. Len(g) \in Nat BY LenProperties
  <1>2. HeadsIn(g, n) \in Nat BY SubsetFinite DEF HeadsIn
  <1>3. DeliveredIn(g, i) \in Nat BY <1>1, SubsetFinite DEF DeliveredIn
  <1> QED BY <1>2, <1>3

LEMMA HeadsAppend ==
  ASSUME NEW g \in Seq(AnyPiece), NEW piece \in AnyPiece
  PROVE  /\ HeadsIn(Append(g, piece), Len(g) + 1) =
              IF piece.kind = "head" THEN HeadsIn(g, Len(g)) + 1 ELSE HeadsIn(g, Len(g))
         /\ \A n \in 1..Len(g) : HeadsIn(Append(g, piece), n) = HeadsIn(g, n)
  <1> DEFINE q == Append(g, piece)
             S == {m \in 1..Len(g) : g[m].kind = "head"}
  <1>1. Len(q) = Len(g) + 1 /\ (\A k \in 1..Len(g) : q[k] = g[k]) /\ q[Len(g) + 1] = piece /\ Len(g) \in Nat
    BY AppendProperties
  <1> HIDE DEF q
  <1>2. IsFiniteSet(S) /\ Cardinality(S) \in Nat /\ Len(g) + 1 \notin S BY <1>1, SubsetFinite
  <1>3. ASSUME piece.kind = "head" PROVE HeadsIn(q, Len(g) + 1) = HeadsIn(g, Len(g)) + 1
    <2>1. {m \in 1..Len(g) + 1 : q[m].kind = "head"} = S \cup {Len(g) + 1} BY <1>1, <1>3
    <2>2. Cardinality(S \cup {Len(g) + 1}) = Cardinality(S) + 1 BY <1>2, FS_AddElement
    <2> QED BY <2>1, <2>2 DEF HeadsIn
  <1>4. ASSUME piece.kind # "head" PROVE HeadsIn(q, Len(g) + 1) = HeadsIn(g, Len(g))
    <2>1. {m \in 1..Len(g) + 1 : q[m].kind = "head"} = S BY <1>1, <1>4
    <2> QED BY <2>1 DEF HeadsIn
  <1>5. ASSUME NEW n \in 1..Len(g) PROVE HeadsIn(q, n) = HeadsIn(g, n)
    <2>1. {m \in 1..n : q[m].kind = "head"} = {m \in 1..n : g[m].kind = "head"} BY <1>1
    <2> QED BY <2>1 DEF HeadsIn
  <1> QED BY <1>3, <1>4, <1>5 DEF q

LEMMA DeliveredAppend ==
  ASSUME NEW g \in Seq(AnyPiece), NEW piece \in AnyPiece, NEW i
  PROVE  DeliveredIn(Append(g, piece), i) =
           IF Body(piece, i) THEN DeliveredIn(g, i) + 1 ELSE DeliveredIn(g, i)
  <1> DEFINE q == Append(g, piece)
             S == {n \in 1..Len(g) : Body(g[n], i)}
  <1>1. Len(q) = Len(g) + 1 /\ (\A k \in 1..Len(g) : q[k] = g[k]) /\ q[Len(g) + 1] = piece /\ Len(g) \in Nat
    BY AppendProperties
  <1> HIDE DEF q
  <1>2. IsFiniteSet(S) /\ Cardinality(S) \in Nat /\ Len(g) + 1 \notin S BY <1>1, SubsetFinite
  <1>3. CASE Body(piece, i)
    <2>1. {n \in 1..Len(q) : Body(q[n], i)} = S \cup {Len(g) + 1} BY <1>1, <1>3
    <2>2. Cardinality(S \cup {Len(g) + 1}) = Cardinality(S) + 1 BY <1>2, FS_AddElement
    <2> QED BY <1>3, <2>1, <2>2 DEF DeliveredIn, q
  <1>4. CASE ~Body(piece, i)
    <2>1. {n \in 1..Len(q) : Body(q[n], i)} = S BY <1>1, <1>4
    <2> QED BY <1>4, <2>1 DEF DeliveredIn, q
  <1> QED BY <1>3, <1>4 DEF q

LEMMA DeliveredNone ==
  ASSUME NEW g, NEW i, \A k \in 1..Len(g) : ~Body(g[k], i)
  PROVE  DeliveredIn(g, i) = 0
  <1>1. {n \in 1..Len(g) : Body(g[n], i)} = {} OBVIOUS
  <1> QED BY <1>1, FS_EmptySet DEF DeliveredIn

LEMMA GotAppend ==
  ASSUME NEW g \in Seq(AnyPiece), NEW piece \in AnyPiece
  PROVE  /\ Append(g, piece) \in Seq(AnyPiece) /\ Len(Append(g, piece)) = Len(g) + 1 /\ Len(g) \in Nat
         /\ \A k \in 1..Len(g) : Append(g, piece)[k] = g[k]
         /\ Append(g, piece)[Len(g) + 1] = piece
         /\ ToldIn(Append(g, piece)) <=> ToldIn(g) \/ piece.kind = "info"
  <1>1. /\ Append(g, piece) \in Seq(AnyPiece) /\ Len(Append(g, piece)) = Len(g) + 1 /\ Len(g) \in Nat
        /\ \A k \in 1..Len(g) : Append(g, piece)[k] = g[k]
        /\ Append(g, piece)[Len(g) + 1] = piece
    BY AppendProperties
  <1> QED BY <1>1 DEF ToldIn

-----------------------------------------------------------------------------
(* What the client got is right.                                           *)

SentIn(rq, rp) == IF Bodiless(rq, rp) THEN 0 ELSE Pieces(rp)
PairedIn(g) ==
    \A n \in 1..Len(g) : /\ g[n].kind = "head" => g[n].msg = HeadsIn(g, n)
                         /\ g[n].kind = "error" => n = Len(g)
WholeIn(g, rs, ps, i) == DeliveredIn(g, i) = SentIn(rs[i], ps[i])
CutVisibleIn(g, rs, ps) ==
    \A a, b \in 1..Len(g) :
        a < b /\ g[a].kind = "head" /\ g[b].kind \in {"head", "error"} => WholeIn(g, rs, ps, g[a].msg)
\* It is as far as the loop: i responses have begun, and all are whole but that to
\* the request e.
TurnIn(g, i) ==
    /\ HeadsIn(g, Len(g)) = i
    /\ \A k \in 1..Len(g) : g[k].msg <= i /\ g[k].kind # "error"
AllWhole(g, rs, ps, e) ==
    \A k \in 1..Len(g) : g[k].kind = "head" /\ g[k].msg # e => WholeIn(g, rs, ps, g[k].msg)

\* The head of the next response, or an error.
LEMMA PairedAppend ==
  ASSUME NEW g \in Seq(AnyPiece), NEW i \in Nat, PairedIn(g), TurnIn(g, i), NEW piece \in AnyPiece,
         piece.kind = "head" => piece.msg = i + 1
  PROVE  PairedIn(Append(g, piece))
  <1> DEFINE q == Append(g, piece)
  <1>1. Len(q) = Len(g) + 1 /\ (\A k \in 1..Len(g) : q[k] = g[k]) /\ q[Len(g) + 1] = piece /\ Len(g) \in Nat
    BY GotAppend
  <1>2. HeadsIn(q, Len(g) + 1) = IF piece.kind = "head" THEN HeadsIn(g, Len(g)) + 1 ELSE HeadsIn(g, Len(g))
    BY HeadsAppend
  <1>3. \A n \in 1..Len(g) : HeadsIn(q, n) = HeadsIn(g, n) BY HeadsAppend
  <1> HIDE DEF q
  <1>4. ASSUME NEW n \in 1..Len(q)
        PROVE  (q[n].kind = "head" => q[n].msg = HeadsIn(q, n)) /\ (q[n].kind = "error" => n = Len(q))
    <2>1. CASE n \in 1..Len(g) BY <1>1, <1>3, <2>1 DEF PairedIn, TurnIn
    <2>2. CASE n = Len(g) + 1 BY <1>1, <1>2, <2>2 DEF TurnIn
    <2> QED BY <1>1, <2>1, <2>2
  <1> QED BY <1>4 DEF PairedIn, q

LEMMA TurnAppend ==
  ASSUME NEW g \in Seq(AnyPiece), NEW i \in Nat, TurnIn(g, i), NEW piece \in AnyPiece, piece.kind # "error",
         piece.kind = "head" => piece.msg = i + 1, piece.kind # "head" => piece.msg <= i
  PROVE  TurnIn(Append(g, piece), IF piece.kind = "head" THEN i + 1 ELSE i)
  <1> DEFINE q == Append(g, piece)
             j == IF piece.kind = "head" THEN i + 1 ELSE i
  <1>1. Len(q) = Len(g) + 1 /\ (\A k \in 1..Len(g) : q[k] = g[k]) /\ q[Len(g) + 1] = piece /\ Len(g) \in Nat
    BY GotAppend
  <1>2. HeadsIn(q, Len(g) + 1) = IF piece.kind = "head" THEN HeadsIn(g, Len(g)) + 1 ELSE HeadsIn(g, Len(g))
    BY HeadsAppend
  <1> HIDE DEF q
  <1>3. \A k \in 1..Len(g) : g[k].msg \in Nat BY PieceMsgs
  <1>4. ASSUME NEW k \in 1..Len(q) PROVE q[k].msg <= j /\ q[k].kind # "error"
    <2>1. CASE k \in 1..Len(g) BY <1>1, <1>3, <2>1 DEF TurnIn
    <2>2. CASE k = Len(g) + 1 BY <1>1, <2>2
    <2> QED BY <1>1, <2>1, <2>2
  <1> QED BY <1>1, <1>2, <1>4 DEF TurnIn, q

\* A piece that is not of a body: what was whole stays whole.
LEMMA WholeHead ==
  ASSUME NEW g \in Seq(AnyPiece), NEW rs, NEW ps, NEW e, AllWhole(g, rs, ps, e), NEW piece \in AnyPiece,
         piece.kind \in {"head", "error"}, piece.kind = "head" => piece.msg = e
  PROVE  AllWhole(Append(g, piece), rs, ps, e)
  <1>1. \A i : DeliveredIn(Append(g, piece), i) = DeliveredIn(g, i) BY DeliveredAppend DEF Body
  <1>2. /\ Len(Append(g, piece)) = Len(g) + 1 /\ Len(g) \in Nat
        /\ \A k \in 1..Len(g) : Append(g, piece)[k] = g[k]
        /\ Append(g, piece)[Len(g) + 1] = piece
    BY GotAppend
  <1> QED BY <1>1, <1>2 DEF AllWhole, WholeIn

LEMMA WholeBody ==
  ASSUME NEW g \in Seq(AnyPiece), NEW rs, NEW ps, NEW e, AllWhole(g, rs, ps, e), NEW piece \in AnyPiece,
         Body(piece, e)
  PROVE  AllWhole(Append(g, piece), rs, ps, e)
  <1>1. \A i : i # e => DeliveredIn(Append(g, piece), i) = DeliveredIn(g, i) BY DeliveredAppend DEF Body
  <1>2. /\ Len(Append(g, piece)) = Len(g) + 1 /\ Len(g) \in Nat
        /\ \A k \in 1..Len(g) : Append(g, piece)[k] = g[k]
        /\ Append(g, piece)[Len(g) + 1] = piece
    BY GotAppend
  <1> QED BY <1>1, <1>2 DEF AllWhole, WholeIn, Body

LEMMA CutVisibleHead ==
  ASSUME NEW g \in Seq(AnyPiece), NEW rs, NEW ps, CutVisibleIn(g, rs, ps), AllWhole(g, rs, ps, 0),
         \A k \in 1..Len(g) : g[k].kind = "head" => g[k].msg # 0, NEW piece \in AnyPiece,
         piece.kind \in {"head", "error"}
  PROVE  CutVisibleIn(Append(g, piece), rs, ps)
  <1>1. \A i : DeliveredIn(Append(g, piece), i) = DeliveredIn(g, i) BY DeliveredAppend DEF Body
  <1>2. /\ Len(Append(g, piece)) = Len(g) + 1 /\ Len(g) \in Nat
        /\ \A k \in 1..Len(g) : Append(g, piece)[k] = g[k]
        /\ Append(g, piece)[Len(g) + 1] = piece
    BY GotAppend
  <1> QED BY <1>1, <1>2 DEF AllWhole, WholeIn, CutVisibleIn

LEMMA CutVisibleBody ==
  ASSUME NEW g \in Seq(AnyPiece), NEW rs, NEW ps, CutVisibleIn(g, rs, ps), NEW piece \in AnyPiece,
         NEW e, Body(piece, e), ~WholeIn(g, rs, ps, e)
  PROVE  CutVisibleIn(Append(g, piece), rs, ps)
  <1>1. \A i : i # e => DeliveredIn(Append(g, piece), i) = DeliveredIn(g, i) BY DeliveredAppend DEF Body
  <1>2. /\ Len(Append(g, piece)) = Len(g) + 1 /\ Len(g) \in Nat
        /\ \A k \in 1..Len(g) : Append(g, piece)[k] = g[k]
        /\ Append(g, piece)[Len(g) + 1] = piece
    BY GotAppend
  <1> DEFINE q == Append(g, piece)
  <1> HIDE DEF q
  <1>3. ASSUME NEW a \in 1..Len(q), NEW b \in 1..Len(q), a < b, q[a].kind = "head", q[b].kind \in {"head", "error"}
        PROVE  WholeIn(q, rs, ps, q[a].msg)
    <2>1. a \in 1..Len(g) /\ b \in 1..Len(g) BY <1>2, <1>3 DEF q, Body
    <2>2. q[a] = g[a] /\ q[b] = g[b] BY <1>2, <2>1 DEF q
    <2>3. WholeIn(g, rs, ps, g[a].msg) BY <1>3, <2>1, <2>2 DEF CutVisibleIn
    <2>4. g[a].msg # e BY <2>3
    <2> QED BY <1>1, <2>2, <2>3, <2>4 DEF WholeIn, q
  <1> QED BY <1>3 DEF CutVisibleIn, q

-----------------------------------------------------------------------------
(* The connection to the origin is in step.                                *)

SilentIn(c) == c.todo = <<>> /\ c.out = <<>> /\ c.ans = 0
DeadIn(c) == c.todo = <<>> /\ c.out = <<>> /\ c.fin
UnansweredIn(c, i) ==
    /\ c.todo = <<i>> /\ c.ans = 0
    /\ IF c.informed THEN c.out \in {<<>>, <<Piece(i, "info", 0)>>} ELSE c.out = <<>>
ResponsePieceIn(i, rp, n) ==
    IF n = -1 THEN Piece(i, "info", 0) ELSE IF n = 0 THEN Piece(i, "head", 0) ELSE PieceOf(i, rp, n)
\* The pieces of the response rp to the request i, from the n-th on, are on their way.
QueueFrom(c, i, rp, n) ==
    /\ Len(c.out) = c.sent + 1 - n
    /\ \A k \in 1..Len(c.out) : c.out[k] = ResponsePieceIn(i, rp, n + k - 1)
Progress(c, i, rq, rp) ==
    /\ c.sent <= SentIn(rq, rp)
    /\ IF c.ans = 0 THEN c.sent = SentIn(rq, rp)
       ELSE /\ c.ans = i /\ ~Bodiless(rq, rp)
            /\ c.sent < SentIn(rq, rp) \/ rp.mode = "until"
AnswerIn(c, i, rq, rp, n) == c.todo = <<>> /\ QueueFrom(c, i, rp, n) /\ Progress(c, i, rq, rp)
BodyModeIn(loop, rq, rp) ==
    IF rp.status # "ok" \/ (loop.method /\ rq.method = "HEAD") THEN "none" ELSE rp.mode

\* The three phases of an exchange.
Waiting(c) == SilentIn(c) \/ DeadIn(c)
Asked(c, i, rq, rp) == DeadIn(c) \/ UnansweredIn(c, i) \/ \E n \in {-1, 0} : AnswerIn(c, i, rq, rp, n)
Replying(loop, c, i, rq, rp, r, rest, d) ==
    /\ AnswerIn(c, i, rq, rp, d + 1) /\ r = rp /\ BodyModeIn(loop, rq, rp) # "none"
    /\ rest = IF BodyModeIn(loop, rq, rp) = "length" THEN rp.len - d ELSE 1

LEMMA ConnectionFields ==
  ASSUME NEW c \in Connection
  PROVE  /\ c.todo \in Seq(Msg) /\ c.out \in Seq(AnyPiece) /\ Len(c.out) \in Nat
         /\ c.ans \in 0..MaxReq /\ c.sent \in Nat /\ c.fin \in BOOLEAN /\ c.informed \in BOOLEAN
  BY LenProperties DEF Connection

LEMMA SentInType ==
  ASSUME NEW rq \in Request, NEW rp \in Response
  PROVE  SentIn(rq, rp) \in Nat
  BY ResponsePieces DEF SentIn

\* The origin begins to answer.
LEMMA AnswerBegins ==
  ASSUME NEW c \in Connection, NEW i \in Msg, UnansweredIn(c, i), NEW rq \in Request, NEW rp \in Response,
         NEW d \in Connection, d.todo = Tail(c.todo), d.out = Append(c.out, Piece(i, "head", 0)), d.sent = 0,
         d.ans = IF Bodiless(rq, rp) \/ (Pieces(rp) = 0 /\ rp.mode # "until") THEN 0 ELSE i
  PROVE  \E n \in {-1, 0} : AnswerIn(d, i, rq, rp, n)
  <1> DEFINE p == Piece(i, "info", 0)
             h == Piece(i, "head", 0)
  <1>1. p = ResponsePieceIn(i, rp, -1) /\ h = ResponsePieceIn(i, rp, 0) BY DEF ResponsePieceIn
  <1>2. d.todo = <<>> BY DEF UnansweredIn
  <1>3. Progress(d, i, rq, rp)
    <2>1. i # 0 /\ SentIn(rq, rp) \in Nat /\ Pieces(rp) \in Nat
      BY SentInType, ResponsePieces, ExchangeAssumption DEF Msg
    <2> QED BY <2>1 DEF Progress, SentIn
  <1> HIDE DEF p, h
  <1>4. CASE c.out = <<>>
    <2>1. d.out = <<h>> BY <1>4 DEF h
    <2>2. QueueFrom(d, i, rp, 0)
      <3>1. Len(d.out) = d.sent + 1 - 0 BY <2>1
      <3>2. ASSUME NEW k \in 1..Len(d.out) PROVE d.out[k] = ResponsePieceIn(i, rp, 0 + k - 1)
        <4>1. k = 1 BY <2>1
        <4>2. d.out[1] = h BY <2>1
        <4> QED BY <1>1, <4>1, <4>2
      <3> QED BY <3>1, <3>2 DEF QueueFrom
    <2> QED BY <1>2, <1>3, <2>2 DEF AnswerIn
  <1>5. CASE c.out = <<p>>
    <2>1. Len(d.out) = 2 /\ d.out[1] = p /\ d.out[2] = h
      <3>1. c.out \in Seq(AnyPiece) /\ h \in AnyPiece
        BY ConnectionFields, PieceType, ExchangeAssumption DEF h, Msg
      <3>2. Len(c.out) = 1 /\ c.out[1] = p BY <1>5
      <3>3. d.out = Append(c.out, h) BY DEF h
      <3> QED BY <3>1, <3>2, <3>3, AppendProperties
    <2>2. QueueFrom(d, i, rp, -1)
      <3>1. Len(d.out) = d.sent + 1 - (-1) BY <2>1
      <3>2. ASSUME NEW k \in 1..Len(d.out) PROVE d.out[k] = ResponsePieceIn(i, rp, (-1) + k - 1)
        <4>1. k = 1 \/ k = 2 BY <2>1
        <4>2. d.out[1] = p /\ d.out[2] = h BY <2>1
        <4> QED BY <1>1, <4>1, <4>2
      <3> QED BY <3>1, <3>2 DEF QueueFrom
    <2> QED BY <1>2, <1>3, <2>2 DEF AnswerIn
  <1> QED BY <1>4, <1>5 DEF UnansweredIn, p

\* It goes on.
LEMMA AnswerSends ==
  ASSUME NEW c \in Connection, NEW i \in Msg, NEW rq \in Request, NEW rp \in Response, NEW n \in Int,
         AnswerIn(c, i, rq, rp, n), c.ans # 0, c.sent < Pieces(rp),
         NEW d \in Connection, d.todo = c.todo, d.out = Append(c.out, PieceOf(i, rp, c.sent + 1)),
         d.sent = c.sent + 1,
         d.ans = IF c.sent + 1 = Pieces(rp) /\ rp.mode # "until" THEN 0 ELSE i
  PROVE  AnswerIn(d, i, rq, rp, n)
  <1>1. c.out \in Seq(AnyPiece) /\ Len(c.out) \in Nat /\ c.sent \in Nat BY ConnectionFields
  <1>2. PieceOf(i, rp, c.sent + 1) \in AnyPiece BY <1>1, PieceOfType, ExchangeAssumption DEF Msg
  <1>3. /\ Len(d.out) = Len(c.out) + 1 /\ \A k \in 1..Len(c.out) : d.out[k] = c.out[k]
        /\ d.out[Len(c.out) + 1] = PieceOf(i, rp, c.sent + 1)
    BY <1>1, <1>2, GotAppend
  <1>4. Len(c.out) = c.sent + 1 - n BY DEF AnswerIn, QueueFrom
  <1>5. ASSUME NEW k \in 1..Len(d.out) PROVE d.out[k] = ResponsePieceIn(i, rp, n + k - 1)
    <2>1. CASE k \in 1..Len(c.out) BY <1>3, <2>1 DEF AnswerIn, QueueFrom
    <2>2. CASE k = Len(c.out) + 1
      <3>1. n + k - 1 = c.sent + 1 BY <1>1, <1>4, <2>2, SMTT(60)
      <3>2. c.sent + 1 # 0 /\ c.sent + 1 # -1 BY <1>1
      <3> QED BY <1>3, <2>2, <3>1, <3>2 DEF ResponsePieceIn
    <2> QED BY <1>1, <1>3, <2>1, <2>2
  <1>6. QueueFrom(d, i, rp, n) BY <1>1, <1>3, <1>4, <1>5 DEF QueueFrom
  <1>7. Progress(d, i, rq, rp)
    <2>1. ~Bodiless(rq, rp) /\ SentIn(rq, rp) = Pieces(rp) /\ Pieces(rp) \in Nat
      BY ResponsePieces DEF AnswerIn, Progress, SentIn
    <2>2. i # 0 BY ExchangeAssumption DEF Msg
    <2> QED BY <1>1, <2>1, <2>2 DEF Progress
  <1> QED BY <1>6, <1>7 DEF AnswerIn

\* The loop reads the next piece.
LEMMA AnswerRest ==
  ASSUME NEW c \in Connection, NEW i \in Msg, NEW rq \in Request, NEW rp \in Response, NEW n \in Int,
         AnswerIn(c, i, rq, rp, n), c.out # <<>>,
         NEW d \in Connection, d.todo = c.todo, d.out = Tail(c.out), d.sent = c.sent, d.ans = c.ans
  PROVE  /\ c.out[1] = ResponsePieceIn(i, rp, n) /\ n <= c.sent
         /\ AnswerIn(d, i, rq, rp, n + 1)
         /\ c.sent = n => d.out = <<>>
  <1>1. c.out \in Seq(AnyPiece) /\ Len(c.out) \in Nat /\ c.sent \in Nat BY ConnectionFields
  <1>2. /\ Len(d.out) = Len(c.out) - 1 /\ \A k \in 1..Len(d.out) : d.out[k] = c.out[k + 1]
        /\ 1 \in 1..Len(c.out) /\ d.out \in Seq(AnyPiece)
    BY <1>1, HeadTailProperties, EmptySeq
  <1>3. Len(c.out) = c.sent + 1 - n BY DEF AnswerIn, QueueFrom
  <1>4. c.out[1] = ResponsePieceIn(i, rp, n + 1 - 1) BY <1>2 DEF AnswerIn, QueueFrom
  <1>5. n + 1 - 1 = n OBVIOUS
  <1>6. n <= c.sent BY <1>1, <1>2, <1>3
  <1>7. ASSUME NEW k \in 1..Len(d.out) PROVE d.out[k] = ResponsePieceIn(i, rp, (n + 1) + k - 1)
    <2>1. k + 1 \in 1..Len(c.out) /\ d.out[k] = c.out[k + 1] BY <1>1, <1>2
    <2>2. c.out[k + 1] = ResponsePieceIn(i, rp, n + (k + 1) - 1) BY <2>1 DEF AnswerIn, QueueFrom
    <2>3. n + (k + 1) - 1 = (n + 1) + k - 1 OBVIOUS
    <2> QED BY <2>1, <2>2, <2>3
  <1>8. Len(d.out) = d.sent + 1 - (n + 1) BY <1>1, <1>2, <1>3
  <1>9. Progress(d, i, rq, rp) BY DEF AnswerIn, Progress
  <1>10. c.sent = n => d.out = <<>>
    <2>1. c.sent = n => Len(d.out) = 0 BY <1>1, <1>2, <1>3
    <2> QED BY <1>2, <2>1, EmptySeq
  <1>11. c.out[1] = ResponsePieceIn(i, rp, n) BY <1>4, <1>5
  <1> QED BY <1>6, <1>7, <1>8, <1>9, <1>10, <1>11 DEF AnswerIn, QueueFrom

-----------------------------------------------------------------------------
(* InStep, InTurn and CutIsVisible in these words.                         *)

LoopStops == Self.fails["respBody"] # "goOn"
Steady ==
    /\ pc \in {"reqHead", "sendHead"} => Waiting(up)
    /\ pc \in {"reqBody", "respHead"} => Asked(up, cur, reqs[cur], resps[cur])
    /\ pc = "respBody" => Replying(Self, up, cur, reqs[cur], resps[cur], resp, left, DeliveredIn(got, cur))
    /\ TurnIn(got, Behind)
    /\ Visible => \/ DeadIn(up) /\ ~LoopStops
                  \/ AllWhole(got, reqs, resps, IF pc = "respBody" THEN cur ELSE 0)

LEMMA PairedIs ==
  /\ Told <=> ToldIn(got)
  /\ Told \/ InTurn <=> (ToldIn(got) \/ PairedIn(got))
  /\ CutIsVisible <=> (Visible /\ ~ToldIn(got) => CutVisibleIn(got, reqs, resps))
  <1>1. Told <=> ToldIn(got) BY DEF Told, ToldIn
  <1>2. \A n : Heads(n) = HeadsIn(got, n) BY DEF Heads, HeadsIn
  <1>3. \A i : Delivered(i) = DeliveredIn(got, i) BY DEF Delivered, DeliveredIn, Body
  <1>4. \A i : SentPieces(i) = SentIn(reqs[i], resps[i]) BY DEF SentPieces, SentIn
  <1>5. InTurn <=> PairedIn(got) BY <1>2 DEF InTurn, PairedIn
  <1>6. CutIsVisible <=> (Visible /\ ~ToldIn(got) => CutVisibleIn(got, reqs, resps))
    BY <1>1, <1>3, <1>4 DEF CutIsVisible, CutVisibleIn, WholeIn
  <1> QED BY <1>1, <1>5, <1>6
LEMMA PairedIsNext ==
  (/\ Told <=> ToldIn(got)
   /\ Told \/ InTurn <=> (ToldIn(got) \/ PairedIn(got))
   /\ CutIsVisible <=> (Visible /\ ~ToldIn(got) => CutVisibleIn(got, reqs, resps)))'
  BY PairedIs, PTL

LEMMA AnswerFromIs ==
  ASSUME NEW n
  PROVE  AnswerFrom(n) <=> AnswerIn(up, cur, reqs[cur], resps[cur], n)
  <1>1. \A m : ResponsePiece(cur, m) = ResponsePieceIn(cur, resps[cur], m)
    BY DEF ResponsePiece, ResponsePieceIn
  <1>2. SentPieces(cur) = SentIn(reqs[cur], resps[cur]) BY DEF SentPieces, SentIn
  <1> QED BY <1>1, <1>2 DEF AnswerFrom, AnswerIn, QueueFrom, Progress

LEMMA InStepIs ==
  ASSUME TypeOK, OriginInLine
  PROVE  InStep <=> (~ToldIn(got) /\ ~cl.gone /\ pc # "done" => Steady)
  <1>1. Told <=> ToldIn(got) BY PairedIs
  <1>2. \A n : Heads(n) = HeadsIn(got, n) BY DEF Heads, HeadsIn
  <1>3. \A i : Delivered(i) = DeliveredIn(got, i) BY DEF Delivered, DeliveredIn, Body
  <1>4. \A i : SentPieces(i) = SentIn(reqs[i], resps[i]) BY DEF SentPieces, SentIn
  <1>5. Silent \/ Dead <=> Waiting(up) BY DEF Silent, Dead, Waiting, SilentIn, DeadIn
  <1>6. (Dead \/ Unanswered \/ \E n \in {-1, 0} : AnswerFrom(n)) <=> Asked(up, cur, reqs[cur], resps[cur])
    BY AnswerFromIs DEF Asked, Dead, DeadIn, Unanswered, UnansweredIn
  <1>7. (/\ AnswerFrom(Delivered(cur) + 1)
         /\ resp = resps[cur] /\ BodyMode(reqs[cur], resp) # "none"
         /\ left = IF BodyMode(reqs[cur], resp) = "length" THEN resp.len - Delivered(cur) ELSE 1)
        <=> Replying(Self, up, cur, reqs[cur], resps[cur], resp, left, DeliveredIn(got, cur))
    <2>1. Delivered(cur) = DeliveredIn(got, cur) BY <1>3
    <2>2. BodyMode(reqs[cur], resp) = BodyModeIn(Self, reqs[cur], resp)
      BY DEF BodyMode, BodyModeIn, HasNoBody
    <2>3. AnswerFrom(Delivered(cur) + 1) <=>
             AnswerIn(up, cur, reqs[cur], resps[cur], DeliveredIn(got, cur) + 1)
      BY <2>1, AnswerFromIs
    <2>4. CASE resp = resps[cur] BY <2>1, <2>2, <2>3, <2>4 DEF Replying
    <2>5. CASE resp # resps[cur] BY <2>5 DEF Replying
    <2> QED BY <2>4, <2>5
  <1>8. (/\ Heads(Len(got)) = Behind
         /\ \A k \in 1..Len(got) : got[k].msg <= Behind /\ got[k].kind # "error") <=> TurnIn(got, Behind)
    BY <1>2 DEF TurnIn
  <1>9. (\A k \in 1..Len(got) : got[k].kind = "head" /\ (pc = "respBody" => got[k].msg # cur) =>
                    Delivered(got[k].msg) = SentPieces(got[k].msg))
        <=> AllWhole(got, reqs, resps, IF pc = "respBody" THEN cur ELSE 0)
    <2>1. \A k \in 1..Len(got) : got[k].kind = "head" => got[k].msg # 0
      <3>1. \A k \in 1..Len(got) : got[k].kind = "head" => got[k].msg > 0 BY DEF OriginInLine
      <3> QED BY <3>1
    <2> QED BY <1>3, <1>4, <2>1 DEF AllWhole, WholeIn
  <1>10. (Dead /\ Self.fails["respBody"] = "goOn") <=> (DeadIn(up) /\ ~LoopStops)
    BY DEF Dead, DeadIn, LoopStops
  <1> HIDE DEF Waiting, Asked, Replying, TurnIn, AllWhole, DeadIn, LoopStops, Visible, Behind
  <1> QED BY <1>1, <1>5, <1>6, <1>7, <1>8, <1>9, <1>10 DEF InStep, Steady
LEMMA InStepIsNext ==
  (TypeOK /\ OriginInLine => (InStep <=> (~ToldIn(got) /\ ~cl.gone /\ pc # "done" => Steady)))'
  BY InStepIs, PTL

-----------------------------------------------------------------------------
(* A step keeps in step.                                                   *)

\* What was so stays so: what the client was told, that it has gone, the end.
LEMMA StaysSo ==
  ASSUME TypeOK, ClientInLine, AtRequest, OriginInLine, [Next]_vars
  PROVE  /\ got' = got \/ \E piece \in AnyPiece : got' = Append(got, piece)
         /\ ToldIn(got) => ToldIn(got')
         /\ cl.gone => cl'.gone
         /\ pc = "done" => pc' = "done"
         /\ program' = program
  <1>1. CASE GivesUp
    <2>1. got' \in {got, Append(got, errorReply)} /\ pc' = "done" /\ cl' = cl /\ program' = program
      BY <1>1 DEF GivesUp
    <2>2. got \in Seq(AnyPiece) /\ errorReply \in AnyPiece BY ErrorType DEF TypeOK
    <2>3. ToldIn(got) => ToldIn(Append(got, errorReply)) BY <2>2, GotAppend
    <2>4. ToldIn(got) => ToldIn(got')
      <3>1. CASE got' = got BY <3>1
      <3>2. CASE got' = Append(got, errorReply) BY <2>3, <3>2
      <3> QED BY <2>1, <3>1, <3>2
    <2> HIDE DEF errorReply
    <2> QED BY <2>1, <2>2, <2>4
  <1>2. CASE GoesOnAnyway \/ Abandons BY <1>2 DEF GoesOnAnyway, Abandons
  <1>3. CASE Takes BY <1>3, TakesEffect
  <1>4. CASE SendHead BY <1>4, SendHeadEffect
  <1>5. CASE ForwardRequest BY <1>5, ForwardRequestEffect
  <1>6. CASE TakeResponse \/ ForwardResponse
    <2>1. PICK piece \in AnyPiece : SendDown(piece) /\ cl' = cl /\ pc # "done" /\ program' = program
      BY <1>6, TakeResponseEffect, ForwardResponseEffect
    <2>2. got' \in {got, Append(got, piece)} BY <2>1, SendDownEffect
    <2>3. got \in Seq(AnyPiece) BY DEF TypeOK
    <2>4. ToldIn(got) => ToldIn(Append(got, piece)) BY <2>1, <2>3, GotAppend
    <2>5. ToldIn(got) => ToldIn(got')
      <3>1. CASE got' = got BY <3>1
      <3>2. CASE got' = Append(got, piece) BY <2>4, <3>2
      <3> QED BY <2>2, <3>1, <3>2
    <2> QED BY <2>1, <2>2, <2>5
  <1>7. CASE Client BY <1>7, BegunKept
  <1>8. CASE Origin BY <1>8, OriginKinds DEF OriginFrame
  <1>9. CASE UNCHANGED vars BY <1>9 DEF vars
  <1> QED BY <1>1, <1>2, <1>3, <1>4, <1>5, <1>6, <1>7, <1>8, <1>9, StepKinds

LEMMA HeadMsgs ==
  ASSUME TypeOK, OriginInLine, NEW k \in 1..Len(got), got[k].kind = "head"
  PROVE  got[k].msg \in 1..cur /\ got[k].msg # 0
  <1>1. got[k].msg <= SentUpTo /\ got[k].msg > 0 BY DEF OriginInLine
  <1>2. got[k].msg \in Nat BY PieceMsgs DEF TypeOK
  <1> QED BY <1>1, <1>2 DEF SentUpTo, TypeOK

\* The messages that what the client got belongs to do not change.
Settle(g, rs, ps, ss, qs) ==
    \A k \in 1..Len(g) : g[k].kind = "head" => ss[g[k].msg] = rs[g[k].msg] /\ qs[g[k].msg] = ps[g[k].msg]
LEMMA WholeKept ==
  ASSUME NEW g, NEW rs, NEW ps, NEW ss, NEW qs, Settle(g, rs, ps, ss, qs)
  PROVE  /\ CutVisibleIn(g, rs, ps) => CutVisibleIn(g, ss, qs)
         /\ \A e : AllWhole(g, rs, ps, e) => AllWhole(g, ss, qs, e)
  BY DEF Settle, CutVisibleIn, AllWhole, WholeIn

LEMMA SettleNext ==
  ASSUME TypeOK, ClientInLine, AtRequest, OriginInLine, [Next]_vars
  PROVE  Settle(got, reqs, resps, reqs', resps')
  <1>1. CASE UNCHANGED <<reqs, resps>> BY <1>1 DEF Settle
  <1>2. CASE Client \/ Takes BY <1>2, BegunKept, TakesEffect, HeadMsgs DEF Settle
  <1>3. CASE Origin
    <2>1. reqs' = reqs BY <1>3, OriginKinds DEF OriginFrame
    <2> QED BY <1>3, <2>1, NobodyAskedOrigin DEF Settle
  <1>4. CASE GivesUp \/ GoesOnAnyway \/ Abandons \/ SendHead \/ ForwardRequest
             \/ TakeResponse \/ ForwardResponse
    BY <1>1, <1>4 DEF GivesUp, GoesOnAnyway, Abandons, SendHead, ForwardRequest,
                      TakeResponse, ForwardResponse
  <1>5. CASE UNCHANGED vars BY <1>1, <1>5 DEF vars
  <1> QED BY <1>2, <1>3, <1>4, <1>5, StepKinds

\* The loop is at a request, once it has sent one.
LEMMA CurFields ==
  ASSUME TypeOK, AtRequest, pc \in {"sendHead", "reqBody", "respHead", "respBody"}
  PROVE  cur \in Msg /\ cur # 0 /\ cur \in Nat /\ reqs[cur] \in Request /\ resps[cur] \in Response
  <1>1. cur # 0 /\ cur \in Msg /\ cur \in Nat BY DEF AtRequest, TypeOK, Msg
  <1> QED BY <1>1 DEF TypeOK

\* The body of the response broke off, and the loop takes the next request.
LEMMA SteadyAbandons ==
  ASSUME TypeOK, AtRequest, Steady, ~cl.gone, Abandons, pc' # "done"
  PROVE  Steady'
  <1>1. /\ pc = "respBody" /\ GoesOn /\ Ended(resp, BodyMode(reqs[cur], resp), up) /\ UpEnds({"data", "last"})
        /\ UNCHANGED <<program, cur, left, resp, cin, cl, reqs, resps, got, seen, captured>>
    BY DEF Abandons
  <1>2. up \in Connection BY DEF TypeOK
  <1>3. /\ pc' = "reqHead" /\ BodyMode(reqs[cur], resp) # "until"
        /\ up' = IF Self.upstream = "fresh" THEN noConnection ELSE up
    BY <1>1, <1>2, EndedEffect DEF TypeOK
  <1>4. Lax(Self) BY <1>1, <1>3 DEF GoesOn, Lax
  <1>5. Self.upstream \in {"fresh", "session"} /\ ~HasTimeout("origin") BY <1>4, SelfIsLoop
  <1> DEFINE n == DeliveredIn(got, cur) + 1
  <1>6. AnswerIn(up, cur, reqs[cur], resps[cur], n) BY <1>1 DEF Steady, Replying
  <1>7. n \in Nat /\ n # 0
    <2>1. DeliveredIn(got, cur) \in Nat BY CountNat DEF TypeOK
    <2> QED BY <2>1
  <1> HIDE DEF n
  <1>8. up.out = <<>>
    <2> SUFFICES ASSUME up.out # <<>> PROVE FALSE OBVIOUS
    <2>1. Head(up.out) = up.out[1] /\ 1 \in 1..Len(up.out) BY RestFields
    <2>2. up.out[1] = ResponsePieceIn(cur, resps[cur], n)
      <3>1. up.out[1] = ResponsePieceIn(cur, resps[cur], n + 1 - 1) BY <1>6, <2>1 DEF AnswerIn, QueueFrom
      <3>2. n + 1 - 1 = n BY <1>7
      <3> QED BY <3>1, <3>2
    <2>3. up.out[1] = PieceOf(cur, resps[cur], n) BY <1>7, <2>2 DEF ResponsePieceIn
    <2>4. up.out[1].kind \in {"data", "last"} BY <2>3, PieceOfFields
    <2> QED BY <1>1, <2>1, <2>4 DEF UpEnds, Ready
  <1>9. up.fin BY <1>1, <1>5, <1>8 DEF UpEnds
  <1>10. DeadIn(up) BY <1>6, <1>8, <1>9 DEF DeadIn, AnswerIn
  <1>11. Waiting(up') BY <1>3, <1>10, NoConnection DEF Waiting, SilentIn
  <1>12. Behind' = Behind BY <1>1, <1>3 DEF Behind
  <1>13. TurnIn(got', Behind') BY <1>1, <1>12 DEF Steady
  <1>14. Visible' => DeadIn(up') /\ ~LoopStops'
    <2>1. Self' = Self BY <1>1 DEF Self
    <2>2. ~LoopStops' BY <1>4, <2>1 DEF LoopStops, Lax
    <2>3. Visible' => Self.upstream = "session" BY <1>4, <2>1 DEF Visible, Checks, Lax
    <2> QED BY <1>3, <1>10, <2>2, <2>3
  <1> HIDE DEF Waiting, TurnIn, DeadIn, LoopStops, Visible, Behind
  <1> QED BY <1>3, <1>11, <1>13, <1>14 DEF Steady

\* The next request is read.
LEMMA SteadyTakes ==
  ASSUME TypeOK, ClientInLine, AtRequest, OriginInLine, Steady, Takes
  PROVE  Steady'
  <1>1. /\ pc = "reqHead" /\ pc' = "sendHead" /\ cur' = cur + 1 /\ cur \in Nat
        /\ \/ up' = newConnection(reqs[cur'].target) /\ Self.upstream # "session"
           \/ up' = up
        /\ reqs[cur'].target \in Target
        /\ UNCHANGED <<program, resps, got>> /\ \A j \in 1..cur : reqs'[j] = reqs[j]
    BY TakesEffect DEF TypeOK
  <1>2. Waiting(up') BY <1>1, NewConnection DEF Steady, Waiting, SilentIn
  <1>3. Behind' = Behind BY <1>1 DEF Behind
  <1>4. Self' = Self /\ (Visible' <=> Visible) /\ (LoopStops' <=> LoopStops)
    BY <1>1 DEF Self, Visible, Checks, LoopStops
  <1>5. Visible => \/ DeadIn(up) /\ ~LoopStops
                   \/ AllWhole(got, reqs, resps, 0)
    BY <1>1 DEF Steady
  <1>6. Visible /\ Self.upstream # "session" => LoopStops BY DEF Visible, Checks, LoopStops
  <1>7. TurnIn(got', Behind') BY <1>1, <1>3 DEF Steady
  <1>8. AllWhole(got, reqs, resps, 0) => AllWhole(got, reqs', resps, 0)
    BY <1>1, HeadMsgs, WholeKept DEF Settle
  <1> HIDE DEF Waiting, TurnIn, DeadIn, LoopStops, Visible, Behind, AllWhole
  <1>9. Visible' => \/ DeadIn(up') /\ ~LoopStops'
                    \/ AllWhole(got', reqs', resps', 0)
    BY <1>1, <1>4, <1>5, <1>6, <1>8
  <1> QED BY <1>1, <1>2, <1>7, <1>9 DEF Steady

\* Its head is sent.
LEMMA SteadySendHead ==
  ASSUME TypeOK, AtRequest, Steady, SendHead
  PROVE  Steady'
  <1>1. /\ pc = "sendHead" /\ pc' \in {"respHead", "reqBody"}
        /\ SendUp(Piece(cur, "head", 0)) /\ Piece(cur, "head", 0) \in AnyPiece /\ cur \in Msg
        /\ UNCHANGED <<program, cur, resp, cin, cl, reqs, resps, got>>
    BY SendHeadEffect
  <1>2. /\ up'.ans = up.ans /\ up'.out = up.out /\ up'.fin = up.fin /\ up'.informed = up.informed
        /\ up'.todo = IF up.fin THEN up.todo ELSE Append(up.todo, cur)
    <2> DEFINE piece == Piece(cur, "head", 0)
    <2>1. piece.msg = cur /\ piece.kind = "head" BY PieceFields
    <2>2. SendUp(piece) /\ piece \in AnyPiece /\ piece.msg \in Msg BY <1>1, <2>1
    <2> HIDE DEF piece
    <2> QED BY <2>1, <2>2, SendUpEffect
  <1>3. up \in Connection BY DEF TypeOK
  <1>4. Waiting(up) /\ up.todo = <<>> /\ up.out = <<>> BY <1>1 DEF Steady, Waiting, SilentIn, DeadIn
  <1>5. CASE up.fin
    <2>1. DeadIn(up') BY <1>2, <1>4, <1>5 DEF DeadIn
    <2>2. Asked(up', cur', reqs'[cur'], resps'[cur']) BY <2>1 DEF Asked
    <2>3. DeadIn(up) => DeadIn(up') BY <2>1
    <2>4. Self' = Self /\ (Visible' <=> Visible) /\ (LoopStops' <=> LoopStops) /\ Behind' = Behind
      BY <1>1 DEF Self, Visible, Checks, LoopStops, Behind
    <2> HIDE DEF Waiting, Asked, TurnIn, DeadIn, LoopStops, Visible, Behind, AllWhole
    <2> QED BY <1>1, <2>2, <2>3, <2>4 DEF Steady
  <1>6. CASE ~up.fin
    <2>1. Append(up.todo, cur) = <<cur>> BY <1>4
    <2>2. up.ans = 0 BY <1>4, <1>6 DEF Waiting, SilentIn, DeadIn
    <2>3. UnansweredIn(up', cur) BY <1>2, <1>4, <1>6, <2>1, <2>2 DEF UnansweredIn
    <2>4. Asked(up', cur', reqs'[cur'], resps'[cur']) BY <1>1, <2>3 DEF Asked
    <2>5. ~DeadIn(up) BY <1>6 DEF DeadIn
    <2>6. Self' = Self /\ (Visible' <=> Visible) /\ (LoopStops' <=> LoopStops) /\ Behind' = Behind
      BY <1>1 DEF Self, Visible, Checks, LoopStops, Behind
    <2> HIDE DEF Waiting, Asked, TurnIn, DeadIn, LoopStops, Visible, Behind, AllWhole
    <2> QED BY <1>1, <2>4, <2>5, <2>6 DEF Steady
  <1> QED BY <1>5, <1>6

\* Steps of the request's body, and of the client.
LEMMA SteadyRequest ==
  ASSUME TypeOK, AtRequest, OriginInLine, Steady, pc # "done",
         \/ pc' = pc /\ UNCHANGED <<left, resp>>
         \/ pc = "reqBody" /\ pc' \in {"reqBody", "respHead"},
         UNCHANGED <<program, cur, resps, got>>, \A j \in 1..cur : reqs'[j] = reqs[j],
         up' = up
  PROVE  Steady'
  <1>1. Self' = Self /\ (Visible' <=> Visible) /\ (LoopStops' <=> LoopStops) /\ Behind' = Behind
    BY DEF Self, Visible, Checks, LoopStops, Behind
  <1>2. pc \in {"reqBody", "respHead", "respBody"} => reqs'[cur] = reqs[cur]
    BY CurFields, ExchangeAssumption DEF Msg
  <1>3. \A e : AllWhole(got, reqs, resps, e) => AllWhole(got, reqs', resps, e)
    BY HeadMsgs, WholeKept DEF Settle
  <1> HIDE DEF Waiting, Asked, TurnIn, DeadIn, LoopStops, Visible, Behind, AllWhole, Replying
  <1> QED BY <1>1, <1>2, <1>3 DEF Steady

\* The origin's step: what it keeps of the exchange.
LEMMA SteadyOriginFrame ==
  ASSUME TypeOK, ClientInLine, AtRequest, OriginInLine, Steady, Origin,
         DeadIn(up) => DeadIn(up'),
         pc \in {"reqHead", "sendHead"} => Waiting(up'),
         pc \in {"reqBody", "respHead"} => Asked(up', cur, reqs[cur], resps'[cur]),
         pc = "respBody" => Replying(Self, up', cur, reqs[cur], resps'[cur], resp, left, DeliveredIn(got, cur))
  PROVE  Steady'
  <1>1. UNCHANGED <<program, pc, cur, left, resp, cin, cl, reqs, got, seen, captured, log>>
    BY OriginKinds DEF OriginFrame
  <1>2. Self' = Self /\ (Visible' <=> Visible) /\ (LoopStops' <=> LoopStops) /\ Behind' = Behind
    BY <1>1 DEF Self, Visible, Checks, LoopStops, Behind
  <1>3. Next BY DEF Next
  <1>4. Settle(got, reqs, resps, reqs', resps') BY <1>3, SettleNext
  <1>5. \A e : AllWhole(got, reqs, resps, e) => AllWhole(got, reqs', resps', e) BY <1>4, WholeKept
  <1> HIDE DEF Waiting, Asked, TurnIn, DeadIn, LoopStops, Visible, Behind, AllWhole, Replying
  <1> QED BY <1>1, <1>2, <1>5 DEF Steady

LEMMA SteadyOrigin ==
  ASSUME TypeOK, ClientInLine, AtRequest, OriginInLine, Steady, Origin
  PROVE  Steady'
  <1>1. up \in Connection /\ up' \in Connection /\ resps \in [Msg -> Response] /\ pc # "done"
        /\ pc \in {"reqHead", "sendHead", "reqBody", "respHead", "respBody"}
    BY OriginKinds DEF TypeOK
  <1>2. ASSUME up.todo # <<>>
        PROVE  pc \in {"reqBody", "respHead"} /\ UnansweredIn(up, cur) /\ up.todo[1] = cur /\ ~DeadIn(up)
    BY <1>1, <1>2 DEF Steady, Waiting, Asked, Replying, SilentIn, DeadIn, AnswerIn, UnansweredIn
  <1>3. CASE OriginInforms
    <2>1. /\ resps' = resps /\ up.todo # <<>> /\ ~up.informed
          /\ up'.out = Append(up.out, Piece(up.todo[1], "info", 0)) /\ up'.informed
          /\ up'.todo = up.todo /\ up'.ans = up.ans
      BY <1>3, InformsEffect
    <2>2. pc \in {"reqBody", "respHead"} /\ UnansweredIn(up, cur) /\ up.todo[1] = cur /\ ~DeadIn(up)
      BY <1>2, <2>1
    <2>3. up'.out = <<Piece(cur, "info", 0)>>
      <3>1. up.out = <<>> BY <2>1, <2>2 DEF UnansweredIn
      <3>2. up'.out = Append(<<>>, Piece(cur, "info", 0)) BY <2>1, <2>2, <3>1
      <3> HIDE DEF UnansweredIn
      <3> QED BY <3>2
    <2>4. UnansweredIn(up', cur) BY <2>1, <2>2, <2>3 DEF UnansweredIn
    <2>5. Asked(up', cur, reqs[cur], resps'[cur]) BY <2>4 DEF Asked
    <2> HIDE DEF Waiting, Asked, DeadIn, Replying
    <2> QED BY <2>2, <2>5, SteadyOriginFrame
  <1>4. CASE \E r \in Responses : OriginAnswers(r)
    <2>1. PICK r \in Responses : OriginAnswers(r) BY <1>4
    <2>2. up.todo # <<>> BY <2>1, AnswersEffect
    <2>3. pc \in {"reqBody", "respHead"} /\ UnansweredIn(up, cur) /\ up.todo[1] = cur /\ ~DeadIn(up)
      BY <1>2, <2>2
    <2>4. cur \in Msg /\ reqs[cur] \in Request BY <2>3, CurFields
    <2>5. /\ r \in Response /\ resps' = [resps EXCEPT ![cur] = r]
          /\ up'.out = Append(up.out, Piece(cur, "head", 0)) /\ up'.todo = Tail(up.todo) /\ up'.sent = 0
          /\ up'.ans = IF Bodiless(reqs[cur], r) \/ (Pieces(r) = 0 /\ r.mode # "until") THEN 0 ELSE cur
      BY <2>1, <2>3, AnswersEffect
    <2>6. resps'[cur] = r BY <1>1, <2>4, <2>5
    <2>7. \E n \in {-1, 0} : AnswerIn(up', cur, reqs[cur], r, n)
      BY <1>1, <2>3, <2>4, <2>5, AnswerBegins
    <2>8. Asked(up', cur, reqs[cur], resps'[cur]) BY <2>6, <2>7 DEF Asked
    <2> HIDE DEF Waiting, Asked, DeadIn, Replying
    <2> QED BY <2>3, <2>8, SteadyOriginFrame
  <1>5. CASE OriginSends
    <2>1. /\ resps' = resps /\ ~up.fin /\ up.ans # 0 /\ up.ans \in Msg /\ up.sent < Pieces(resps[up.ans])
          /\ up'.out = Append(up.out, PieceOf(up.ans, resps[up.ans], up.sent + 1)) /\ up'.sent = up.sent + 1
          /\ up'.ans = (IF up.sent + 1 = Pieces(resps[up.ans]) /\ resps[up.ans].mode # "until" THEN 0 ELSE up.ans)
          /\ up'.todo = up.todo
      BY <1>5, SendsEffect
    <2>2. ~DeadIn(up) /\ ~SilentIn(up) /\ ~UnansweredIn(up, cur) BY <2>1 DEF DeadIn, SilentIn, UnansweredIn
    <2>3. pc \in {"reqBody", "respHead", "respBody"} BY <1>1, <2>2 DEF Steady, Waiting
    <2>4. cur \in Msg /\ reqs[cur] \in Request /\ resps[cur] \in Response BY <2>3, CurFields
    <2>5. ASSUME NEW n \in Int, AnswerIn(up, cur, reqs[cur], resps[cur], n)
          PROVE  AnswerIn(up', cur, reqs[cur], resps'[cur], n)
      <3>1. up.ans = cur BY <2>1, <2>5 DEF AnswerIn, Progress
      <3> QED BY <1>1, <2>1, <2>4, <2>5, <3>1, AnswerSends
    <2>6. pc \in {"reqBody", "respHead"} => Asked(up', cur, reqs[cur], resps'[cur])
      <3> SUFFICES ASSUME pc \in {"reqBody", "respHead"} PROVE Asked(up', cur, reqs[cur], resps'[cur])
        OBVIOUS
      <3>1. PICK n \in {-1, 0} : AnswerIn(up, cur, reqs[cur], resps[cur], n) BY <2>2 DEF Steady, Asked
      <3>2. n \in Int OBVIOUS
      <3>3. AnswerIn(up', cur, reqs[cur], resps'[cur], n) BY <2>5, <3>1, <3>2
      <3> QED BY <3>3 DEF Asked
    <2>7. pc = "respBody" => Replying(Self, up', cur, reqs[cur], resps'[cur], resp, left, DeliveredIn(got, cur))
      <3> SUFFICES ASSUME pc = "respBody"
                   PROVE  Replying(Self, up', cur, reqs[cur], resps'[cur], resp, left, DeliveredIn(got, cur))
        OBVIOUS
      <3>1. DeliveredIn(got, cur) \in Nat BY CountNat DEF TypeOK
      <3>2. DeliveredIn(got, cur) + 1 \in Int BY <3>1
      <3>3. Replying(Self, up, cur, reqs[cur], resps[cur], resp, left, DeliveredIn(got, cur)) BY DEF Steady
      <3>4. AnswerIn(up', cur, reqs[cur], resps'[cur], DeliveredIn(got, cur) + 1)
        BY <2>5, <3>2, <3>3 DEF Replying
      <3> QED BY <2>1, <3>3, <3>4 DEF Replying
    <2> HIDE DEF Waiting, Asked, DeadIn, Replying
    <2> QED BY <2>2, <2>3, <2>6, <2>7, SteadyOriginFrame
  <1>6. CASE OriginCloses
    <2>1. /\ resps' = resps /\ up'.todo = up.todo /\ up'.ans = up.ans /\ up'.sent = up.sent
          /\ up'.out = up.out /\ up'.fin /\ up'.informed = up.informed
      BY <1>6, ClosesEffect
    <2>2. /\ DeadIn(up) => DeadIn(up')
          /\ SilentIn(up) => SilentIn(up')
          /\ UnansweredIn(up, cur) => UnansweredIn(up', cur)
          /\ \A n : AnswerIn(up, cur, reqs[cur], resps[cur], n) => AnswerIn(up', cur, reqs[cur], resps'[cur], n)
      BY <2>1 DEF DeadIn, SilentIn, UnansweredIn, AnswerIn, QueueFrom, Progress
    <2>3. /\ pc \in {"reqHead", "sendHead"} => Waiting(up')
          /\ pc \in {"reqBody", "respHead"} => Asked(up', cur, reqs[cur], resps'[cur])
          /\ pc = "respBody" =>
                Replying(Self, up', cur, reqs[cur], resps'[cur], resp, left, DeliveredIn(got, cur))
      <3> HIDE DEF DeadIn, SilentIn, UnansweredIn, AnswerIn
      <3> QED BY <2>1, <2>2 DEF Steady, Waiting, Asked, Replying
    <2> HIDE DEF Waiting, Asked, DeadIn, Replying
    <2> QED BY <2>2, <2>3, SteadyOriginFrame
  <1> QED BY <1>3, <1>4, <1>5, <1>6, OriginKinds

\* The head of the response that is read is the next one.
LEMMA ReadsHead ==
  ASSUME TypeOK, AtRequest, OriginInLine, Steady, ~cl.gone, TakeResponse, ~ToldIn(got')
  PROVE  LET r == resps[cur]
             mode == BodyModeIn(Self, reqs[cur], r)
         IN /\ pc = "respHead" /\ cur \in Msg /\ reqs[cur] \in Request /\ r \in Response
            /\ up.out # <<>> /\ ~DeadIn(up)
            /\ AnswerIn(up, cur, reqs[cur], r, 0)
            /\ Piece(cur, "head", 0) \in AnyPiece
            /\ got' = Append(got, Piece(cur, "head", 0))
            /\ resp' = r
            /\ left' = (IF mode = "length" THEN r.len ELSE 1)
            /\ IF mode = "none" \/ (mode = "length" /\ r.len = 0) THEN Ended(r, mode, Rest)
               ELSE pc' = "respBody" /\ up' = Rest
            /\ UNCHANGED <<program, cur, cl, reqs, resps>>
  <1> DEFINE piece == up.out[1]
  <1>1. /\ pc = "respHead" /\ cur \in Msg /\ reqs[cur] \in Request
        /\ up.out # <<>> /\ piece \in AnyPiece /\ piece.kind \in {"head", "info"} /\ SendDown(piece)
        /\ UNCHANGED <<program, cur, cl, reqs, resps>>
    BY TakeResponseEffect
  <1>2. got' = Append(got, piece) BY <1>1, SendDownEffect
  <1>3. piece.kind # "info" BY <1>1, <1>2, GotAppend DEF TypeOK
  <1>4. cur \in Msg /\ resps[cur] \in Response BY <1>1, CurFields
  <1>5. up \in Connection BY DEF TypeOK
  <1>6. Asked(up, cur, reqs[cur], resps[cur]) BY <1>1 DEF Steady
  <1>7. ~DeadIn(up) BY <1>1 DEF DeadIn
  <1>8. ~UnansweredIn(up, cur)
    <2>1. SUFFICES ASSUME UnansweredIn(up, cur) PROVE FALSE OBVIOUS
    <2>2. up.out = <<Piece(cur, "info", 0)>> BY <1>1, <2>1 DEF UnansweredIn
    <2>3. piece = Piece(cur, "info", 0) BY <2>2
    <2> QED BY <1>3, <2>3, PieceFields
  <1>9. Rest \in Connection /\ Rest.todo = up.todo /\ Rest.out = Tail(up.out) /\ Rest.sent = up.sent /\ Rest.ans = up.ans
    BY <1>1, RestFields
  <1>10. ASSUME NEW n \in Int, AnswerIn(up, cur, reqs[cur], resps[cur], n)
         PROVE  piece = ResponsePieceIn(cur, resps[cur], n)
    BY <1>1, <1>4, <1>5, <1>9, <1>10, AnswerRest
  <1>11. ~AnswerIn(up, cur, reqs[cur], resps[cur], -1)
    <2>1. SUFFICES ASSUME AnswerIn(up, cur, reqs[cur], resps[cur], -1) PROVE FALSE OBVIOUS
    <2>2. -1 \in Int OBVIOUS
    <2>3. piece = Piece(cur, "info", 0) BY <1>10, <2>1, <2>2 DEF ResponsePieceIn
    <2> QED BY <1>3, <2>3, PieceFields
  <1>12. AnswerIn(up, cur, reqs[cur], resps[cur], 0) BY <1>6, <1>7, <1>8, <1>11 DEF Asked
  <1>13. piece = Piece(cur, "head", 0) BY <1>10, <1>12 DEF ResponsePieceIn
  <1>14. piece.msg = cur BY <1>13, PieceFields
  <1>15. BodyMode(reqs[cur], resps[cur]) = BodyModeIn(Self, reqs[cur], resps[cur])
    BY DEF BodyMode, BodyModeIn, HasNoBody
  <1>16. /\ resp' = resps[cur]
         /\ left' = (IF BodyMode(reqs[cur], resps[cur]) = "length" THEN resps[cur].len ELSE 1)
         /\ IF BodyMode(reqs[cur], resps[cur]) = "none"
               \/ (BodyMode(reqs[cur], resps[cur]) = "length" /\ resps[cur].len = 0)
            THEN Ended(resps[cur], BodyMode(reqs[cur], resps[cur]), Rest)
            ELSE pc' = "respBody" /\ up' = Rest
    <2> HIDE DEF piece
    <2>1. (IF piece.kind = "info" THEN info ELSE resps[piece.msg]) = resps[cur] BY <1>3, <1>14
    <2> QED BY <2>1, TakeResponseEffect DEF piece
  <1> HIDE DEF piece
  <1> QED BY <1>1, <1>2, <1>4, <1>7, <1>12, <1>13, <1>15, <1>16

\* No piece of a body is there before it.
LEMMA NoneYet ==
  ASSUME NEW g \in Seq(AnyPiece), NEW i \in Nat, TurnIn(g, i)
  PROVE  DeliveredIn(g, i + 1) = 0
  <1>1. \A k \in 1..Len(g) : g[k].msg \in Nat /\ g[k].msg <= i BY PieceMsgs DEF TurnIn
  <1>2. \A k \in 1..Len(g) : g[k].msg # i + 1 BY <1>1
  <1> QED BY <1>2, DeliveredNone DEF Body

\* All that was sent has been read: the connection is as if it were new.
LEMMA AllRead ==
  ASSUME NEW c \in Connection, NEW i \in Msg, NEW rq \in Request, NEW rp \in Response, NEW n \in Int,
         AnswerIn(c, i, rq, rp, n), c.out # <<>>,
         Bodiless(rq, rp) \/ rp.mode # "until",
         NEW d \in Connection, d.todo = c.todo, d.out = Tail(c.out), d.sent = c.sent, d.ans = c.ans
  PROVE  n = SentIn(rq, rp) => SilentIn(d)
  <1>0. n <= c.sent BY AnswerRest
  <1>1. AnswerIn(d, i, rq, rp, n + 1) BY AnswerRest
  <1>2. c.sent <= SentIn(rq, rp) BY DEF AnswerIn, Progress
  <1>3. c.sent \in Nat /\ SentIn(rq, rp) \in Nat BY ConnectionFields, SentInType
  <1> SUFFICES ASSUME n = SentIn(rq, rp) PROVE SilentIn(d) OBVIOUS
  <1>4. c.sent = n BY <1>0, <1>2, <1>3
  <1>5. c.ans = 0 BY <1>3, <1>4 DEF AnswerIn, Progress
  <1>6. Len(d.out) = 0
    <2>1. Len(d.out) = d.sent + 1 - (n + 1) BY <1>1 DEF AnswerIn, QueueFrom
    <2>2. d.sent = n BY <1>4
    <2>3. Len(d.out) = n + 1 - (n + 1) BY <2>1, <2>2
    <2>4. \A m \in Int : m + 1 - (m + 1) = 0 OBVIOUS
    <2> QED BY <2>3, <2>4
  <1>7. d.out = <<>> BY <1>6, ConnectionFields, EmptySeq
  <1> QED BY <1>1, <1>5, <1>7 DEF SilentIn, AnswerIn

LEMMA SteadyTakeResponse ==
  ASSUME TypeOK, AtRequest, OriginInLine, Steady, ~cl.gone, TakeResponse, ~ToldIn(got'), pc' # "done"
  PROVE  Steady'
  <1> DEFINE r == resps[cur]
             rq == reqs[cur]
             mode == BodyModeIn(Self, rq, r)
             h == Piece(cur, "head", 0)
             q == Append(got, h)
  <1>1. /\ pc = "respHead" /\ cur \in Msg /\ rq \in Request /\ r \in Response
        /\ up.out # <<>> /\ ~DeadIn(up) /\ AnswerIn(up, cur, rq, r, 0)
        /\ h \in AnyPiece /\ got' = q /\ resp' = r
        /\ left' = (IF mode = "length" THEN r.len ELSE 1)
        /\ IF mode = "none" \/ (mode = "length" /\ r.len = 0) THEN Ended(r, mode, Rest)
           ELSE pc' = "respBody" /\ up' = Rest
        /\ UNCHANGED <<program, cur, cl, reqs, resps>>
    BY ReadsHead
  <1>2. h.kind = "head" /\ h.msg = cur BY PieceFields
  <1>3. cur \in Nat /\ cur # 0 /\ cur - 1 \in Nat /\ (cur - 1) + 1 = cur BY <1>1, ExchangeAssumption DEF Msg
  <1>4. got \in Seq(AnyPiece) /\ up \in Connection BY DEF TypeOK
  <1>5. TurnIn(got, cur - 1) BY <1>1 DEF Steady, Behind
  <1> HIDE DEF h
  <1>6. TurnIn(q, cur)
    <2>1. TurnIn(q, IF h.kind = "head" THEN (cur - 1) + 1 ELSE cur - 1)
      BY <1>1, <1>2, <1>3, <1>4, <1>5, TurnAppend
    <2> QED BY <1>2, <1>3, <2>1
  <1>7. DeliveredIn(q, cur) = 0
    <2>1. DeliveredIn(got, cur) = 0 BY <1>3, <1>4, <1>5, NoneYet
    <2>2. ~Body(h, cur) BY <1>2 DEF Body
    <2> QED BY <1>1, <1>4, <2>1, <2>2, DeliveredAppend
  <1>8. Rest \in Connection /\ Rest.todo = up.todo /\ Rest.out = Tail(up.out) /\ Rest.sent = up.sent /\ Rest.ans = up.ans
    BY <1>1, RestFields
  <1>9. Self' = Self /\ (Visible' <=> Visible) /\ (LoopStops' <=> LoopStops)
    BY <1>1 DEF Self, Visible, Checks, LoopStops
  <1>10. Visible => AllWhole(q, reqs, resps, cur)
    <2>1. Visible => AllWhole(got, reqs, resps, 0) BY <1>1 DEF Steady
    <2>2. Visible => AllWhole(got, reqs, resps, cur)
      <3>1. \A k \in 1..Len(got) : got[k].kind = "head" => got[k].msg # 0 BY HeadMsgs
      <3> QED BY <2>1, <3>1 DEF AllWhole
    <2> QED BY <1>1, <1>2, <1>4, <2>2, WholeHead
  <1>11. CASE mode = "none" \/ (mode = "length" /\ r.len = 0)
    <2>1. pc' = "reqHead" /\ up' = IF Self.upstream = "fresh" THEN noConnection ELSE Rest
      BY <1>1, <1>8, <1>11, EndedEffect
    <2>2. SentIn(rq, r) = 0 /\ (Bodiless(rq, r) \/ r.mode # "until")
      BY <1>11, ResponsePieces, <1>1 DEF BodyModeIn, SentIn, Bodiless
    <2>3. SilentIn(Rest) BY <1>1, <1>4, <1>8, <2>2, AllRead
    <2>4. Waiting(up') BY <2>1, <2>3, NoConnection DEF Waiting, SilentIn
    <2>5. Behind' = cur BY <1>1, <2>1 DEF Behind
    <2>6. AllWhole(q, reqs, resps, cur) => AllWhole(q, reqs, resps, 0)
      BY <1>7, <2>2 DEF AllWhole, WholeIn
    <2> HIDE DEF Waiting, TurnIn, DeadIn, LoopStops, Visible, Behind, AllWhole, q, Replying, Asked
    <2> QED BY <1>1, <1>6, <1>9, <1>10, <2>1, <2>4, <2>5, <2>6 DEF Steady
  <1>12. CASE ~(mode = "none" \/ (mode = "length" /\ r.len = 0))
    <2>1. pc' = "respBody" /\ up' = Rest BY <1>1, <1>12
    <2>2. AnswerIn(Rest, cur, rq, r, 0 + 1) BY <1>1, <1>4, <1>8, AnswerRest
    <2>3. left' = IF mode = "length" THEN r.len - 0 ELSE 1 BY <1>1, ResponsePieces
    <2>4. Replying(Self, Rest, cur, rq, r, r, left', 0) BY <1>12, <2>2, <2>3 DEF Replying
    <2>5. Behind' = cur BY <1>1, <2>1 DEF Behind
    <2> HIDE DEF Waiting, TurnIn, DeadIn, LoopStops, Visible, Behind, AllWhole, q, Replying, Asked
    <2> QED BY <1>1, <1>6, <1>7, <1>9, <1>10, <2>1, <2>4, <2>5 DEF Steady
  <1> QED BY <1>11, <1>12

\* The piece of the response that is read is the next one.
LEMMA ReadsBody ==
  ASSUME TypeOK, AtRequest, OriginInLine, Steady, ~cl.gone, ForwardResponse
  PROVE  LET r == resps[cur]
             d == DeliveredIn(got, cur)
             mode == BodyModeIn(Self, reqs[cur], r)
         IN /\ pc = "respBody" /\ cur \in Msg /\ reqs[cur] \in Request /\ r \in Response /\ d \in Nat
            /\ up.out # <<>> /\ ~DeadIn(up)
            /\ AnswerIn(up, cur, reqs[cur], r, d + 1)
            /\ d < SentIn(reqs[cur], r) /\ SentIn(reqs[cur], r) = Pieces(r)
            /\ PieceOf(cur, r, d + 1) \in AnyPiece /\ Body(PieceOf(cur, r, d + 1), cur)
            /\ got' = Append(got, PieceOf(cur, r, d + 1))
            /\ resp = r /\ mode = r.mode
            /\ left' = (IF mode = "length" THEN r.len - (d + 1)
                        ELSE IF mode = "chunked" /\ d + 1 = Pieces(r) THEN 0 ELSE 1)
            /\ IF left' = 0 THEN Ended(r, mode, Rest) ELSE pc' = "respBody" /\ up' = Rest
            /\ UNCHANGED <<program, cur, resp, cl, reqs, resps>>
  <1> DEFINE piece == up.out[1]
             r == resps[cur]
             rq == reqs[cur]
             d == DeliveredIn(got, cur)
             mode == BodyModeIn(Self, rq, r)
  <1>1. /\ pc = "respBody" /\ cur \in Msg /\ rq \in Request
        /\ up.out # <<>> /\ piece \in AnyPiece /\ SendDown(piece)
        /\ left' = (IF BodyMode(rq, resp) = "length" THEN left - 1 ELSE IF piece.kind = "last" THEN 0 ELSE 1)
        /\ IF left' = 0 THEN Ended(resp, BodyMode(rq, resp), Rest) ELSE pc' = "respBody" /\ up' = Rest
        /\ UNCHANGED <<program, cur, resp, cl, reqs, resps>>
    BY ForwardResponseEffect
  <1>2. r \in Response BY <1>1, CurFields
  <1>3. up \in Connection /\ d \in Nat BY CountNat DEF TypeOK
  <1>4. /\ AnswerIn(up, cur, rq, r, d + 1) /\ resp = r /\ mode # "none"
        /\ left = IF mode = "length" THEN r.len - d ELSE 1
    BY <1>1 DEF Steady, Replying
  <1> HIDE DEF d
  <1>5. ~DeadIn(up) BY <1>1 DEF DeadIn
  <1>6. Rest \in Connection /\ Rest.todo = up.todo /\ Rest.out = Tail(up.out) /\ Rest.sent = up.sent /\ Rest.ans = up.ans
    BY <1>1, RestFields
  <1>7. d + 1 \in Int BY <1>3
  <1>8. piece = ResponsePieceIn(cur, r, d + 1) /\ d + 1 <= up.sent
    BY <1>1, <1>2, <1>3, <1>4, <1>6, <1>7, AnswerRest
  <1>9. piece = PieceOf(cur, r, d + 1)
    <2>1. d + 1 # 0 /\ d + 1 # -1 BY <1>3
    <2> QED BY <1>8, <2>1 DEF ResponsePieceIn
  <1>10. d < SentIn(rq, r)
    <2>1. up.sent <= SentIn(rq, r) BY <1>4 DEF AnswerIn, Progress
    <2>2. up.sent \in Nat /\ SentIn(rq, r) \in Nat BY <1>1, <1>2, <1>3, ConnectionFields, SentInType
    <2> QED BY <1>3, <1>8, <2>1, <2>2
  <1>11. SentIn(rq, r) = Pieces(r) BY <1>3, <1>10 DEF SentIn
  <1>12. mode = r.mode BY <1>4 DEF BodyModeIn
  <1>13. Body(piece, cur) /\ (piece.kind = "last" <=> r.mode = "chunked" /\ d + 1 = Pieces(r))
    <2>1. piece.msg = cur /\ piece.kind = IF r.mode = "chunked" /\ d + 1 > r.len THEN "last" ELSE "data"
      BY <1>9, PieceOfFields
    <2>2. Pieces(r) \in Nat /\ r.len \in Nat /\ (r.mode = "chunked" => Pieces(r) = r.len + 1)
      BY <1>2, ResponsePieces
    <2>3. Body(piece, cur) BY <2>1 DEF Body
    <2>4. r.mode = "chunked" => (d + 1 > r.len <=> d + 1 = Pieces(r)) BY <1>3, <1>10, <1>11, <2>2
    <2> QED BY <2>1, <2>3, <2>4
  <1>14. BodyMode(rq, resp) = mode BY <1>4 DEF BodyMode, BodyModeIn, HasNoBody
  <1>15. left' = IF mode = "length" THEN r.len - (d + 1)
                 ELSE IF mode = "chunked" /\ d + 1 = Pieces(r) THEN 0 ELSE 1
    <2>1. r.len \in Nat BY <1>2, ResponsePieces
    <2>2. r.len - d - 1 = r.len - (d + 1) BY <1>3, <2>1
    <2> HIDE DEF mode, piece
    <2> QED BY <1>1, <1>4, <1>12, <1>13, <1>14, <2>2
  <1>16. got' = Append(got, piece) BY <1>1, SendDownEffect
  <1>17. IF left' = 0 THEN Ended(r, mode, Rest) ELSE pc' = "respBody" /\ up' = Rest
    BY <1>1, <1>4, <1>14
  <1>18. /\ pc = "respBody" /\ cur \in Msg /\ rq \in Request /\ r \in Response /\ d \in Nat
         /\ up.out # <<>> /\ ~DeadIn(up) /\ resp = r
         /\ UNCHANGED <<program, cur, resp, cl, reqs, resps>>
    BY <1>1, <1>2, <1>3, <1>4, <1>5
  <1>19. PieceOf(cur, r, d + 1) \in AnyPiece /\ Body(PieceOf(cur, r, d + 1), cur)
         /\ got' = Append(got, PieceOf(cur, r, d + 1))
    BY <1>1, <1>9, <1>13, <1>16
  <1> HIDE DEF mode, piece
  <1> QED BY <1>4, <1>10, <1>11, <1>12, <1>15, <1>17, <1>18, <1>19 DEF d, mode

LEMMA SteadyForwardResponse ==
  ASSUME TypeOK, AtRequest, OriginInLine, Steady, ~cl.gone, ForwardResponse, pc' # "done"
  PROVE  Steady'
  <1> DEFINE r == resps[cur]
             rq == reqs[cur]
             d == DeliveredIn(got, cur)
             mode == BodyModeIn(Self, rq, r)
             piece == PieceOf(cur, r, d + 1)
             q == Append(got, piece)
  <1>1. /\ pc = "respBody" /\ cur \in Msg /\ rq \in Request /\ r \in Response /\ d \in Nat
        /\ up.out # <<>> /\ ~DeadIn(up) /\ AnswerIn(up, cur, rq, r, d + 1)
        /\ d < SentIn(rq, r) /\ SentIn(rq, r) = Pieces(r)
        /\ piece \in AnyPiece /\ Body(piece, cur) /\ got' = q
        /\ resp = r /\ mode = r.mode
        /\ left' = (IF mode = "length" THEN r.len - (d + 1)
                    ELSE IF mode = "chunked" /\ d + 1 = Pieces(r) THEN 0 ELSE 1)
        /\ IF left' = 0 THEN Ended(r, mode, Rest) ELSE pc' = "respBody" /\ up' = Rest
        /\ UNCHANGED <<program, cur, resp, cl, reqs, resps>>
    BY ReadsBody
  <1>2. cur \in Nat /\ d + 1 \in Int BY <1>1, ExchangeAssumption DEF Msg
  <1>3. got \in Seq(AnyPiece) /\ up \in Connection BY DEF TypeOK
  <1>4. TurnIn(got, cur) BY <1>1 DEF Steady, Behind
  <1> HIDE DEF piece
  <1>5. DeliveredIn(q, cur) = d + 1 BY <1>1, <1>3, DeliveredAppend
  <1> HIDE DEF d
  <1>6. TurnIn(q, cur)
    <2>1. piece.kind # "head" /\ piece.kind # "error" /\ piece.msg <= cur BY <1>1, <1>2 DEF Body
    <2>2. TurnIn(q, IF piece.kind = "head" THEN cur + 1 ELSE cur) BY <1>1, <1>2, <1>3, <1>4, <2>1, TurnAppend
    <2> QED BY <2>1, <2>2
  <1>7. Visible => AllWhole(q, reqs, resps, cur)
    <2>1. Visible => AllWhole(got, reqs, resps, cur) BY <1>1 DEF Steady
    <2> QED BY <1>1, <1>3, <2>1, WholeBody
  <1>8. Rest \in Connection /\ Rest.todo = up.todo /\ Rest.out = Tail(up.out) /\ Rest.sent = up.sent /\ Rest.ans = up.ans
    BY <1>1, RestFields
  <1>9. Self' = Self /\ (Visible' <=> Visible) /\ (LoopStops' <=> LoopStops)
    BY <1>1 DEF Self, Visible, Checks, LoopStops
  <1>10. CASE left' = 0
    <2>1. pc' = "reqHead" /\ up' = IF Self.upstream = "fresh" THEN noConnection ELSE Rest
      BY <1>1, <1>8, <1>10, EndedEffect
    <2>2. SentIn(rq, r) = d + 1 /\ r.mode # "until"
      <3> HIDE DEF mode, r
      <3>1. r.len \in Nat /\ (r.mode = "length" => Pieces(r) = r.len) BY <1>1, ResponsePieces
      <3> QED BY <1>1, <1>10, <3>1
    <2>3. SilentIn(Rest) BY <1>1, <1>2, <1>3, <1>8, <2>2, AllRead
    <2>4. Waiting(up') BY <2>1, <2>3, NoConnection DEF Waiting, SilentIn
    <2>5. Behind' = cur BY <1>1, <2>1 DEF Behind
    <2>6. AllWhole(q, reqs, resps, cur) => AllWhole(q, reqs, resps, 0)
      BY <1>5, <2>2 DEF AllWhole, WholeIn
    <2> HIDE DEF Waiting, TurnIn, DeadIn, LoopStops, Visible, Behind, AllWhole, q, Replying, Asked
    <2> QED BY <1>1, <1>6, <1>7, <1>9, <2>1, <2>4, <2>5, <2>6 DEF Steady
  <1>11. CASE left' # 0
    <2>1. pc' = "respBody" /\ up' = Rest BY <1>1, <1>11
    <2>2. AnswerIn(Rest, cur, rq, r, (d + 1) + 1) BY <1>1, <1>2, <1>3, <1>8, AnswerRest
    <2>3. left' = IF mode = "length" THEN r.len - (d + 1) ELSE 1 BY <1>1, <1>11
    <2>4. mode # "none" BY <1>1, ResponsePieces
    <2>5. Replying(Self, Rest, cur, rq, r, r, left', d + 1) BY <2>2, <2>3, <2>4 DEF Replying
    <2>6. Behind' = cur BY <1>1, <2>1 DEF Behind
    <2> HIDE DEF Waiting, TurnIn, DeadIn, LoopStops, Visible, Behind, AllWhole, q, Replying, Asked
    <2> QED BY <1>1, <1>5, <1>6, <1>7, <1>9, <2>1, <2>5, <2>6 DEF Steady
  <1> QED BY <1>10, <1>11

LEMMA InStepStep ==
  ASSUME TypeOK, ClientInLine, AtRequest, OriginInLine, InStep, [Next]_vars, TypeOK', OriginInLine'
  PROVE  InStep'
  <1>1. SUFFICES ASSUME ~ToldIn(got'), ~cl'.gone, pc' # "done" PROVE Steady'
    BY InStepIsNext
  <1>2. ~ToldIn(got) /\ ~cl.gone /\ pc # "done" BY <1>1, StaysSo
  <1>3. Steady BY <1>2, InStepIs
  <1>4. cur \in Nat BY DEF TypeOK
  <1>5. CASE GivesUp BY <1>1, <1>5 DEF GivesUp
  <1>6. CASE GoesOnAnyway
    <2>1. /\ pc = "reqBody" /\ pc' = "respHead"
          /\ UNCHANGED <<program, cur, left, resp, up, cin, cl, reqs, resps, got, seen, captured>>
      BY <1>6 DEF GoesOnAnyway
    <2> QED BY <1>2, <1>3, <2>1, SteadyRequest
  <1>7. CASE Abandons BY <1>1, <1>2, <1>3, <1>7, SteadyAbandons
  <1>8. CASE Takes BY <1>3, <1>8, SteadyTakes
  <1>9. CASE SendHead BY <1>3, <1>9, SteadySendHead
  <1>10. CASE ForwardRequest
    <2>1. /\ pc = "reqBody" /\ pc' \in {"reqBody", "respHead"} /\ SendUp(cin[1]) /\ cin[1].kind # "head"
          /\ UNCHANGED <<program, cur, resp, cl, reqs, resps, got>>
      BY <1>10, ForwardRequestEffect DEF ForwardRequest
    <2>2. up' = up BY <2>1 DEF SendUp
    <2> QED BY <1>2, <1>3, <2>1, <2>2, SteadyRequest
  <1>11. CASE TakeResponse BY <1>1, <1>2, <1>3, <1>11, SteadyTakeResponse
  <1>12. CASE ForwardResponse BY <1>1, <1>2, <1>3, <1>12, SteadyForwardResponse
  <1>13. CASE Client
    <2>1. /\ \A j \in 1..cur : reqs'[j] = reqs[j]
          /\ UNCHANGED <<program, pc, cur, left, resp, up, resps, got, seen, captured, log>>
      BY <1>13, BegunKept
    <2> QED BY <1>2, <1>3, <2>1, SteadyRequest
  <1>14. CASE Origin BY <1>3, <1>14, SteadyOrigin
  <1>15. CASE UNCHANGED vars
    <2>1. UNCHANGED <<program, pc, cur, left, resp, up, reqs, resps, got>> BY <1>15 DEF vars
    <2> QED BY <1>2, <1>3, <2>1, SteadyRequest
  <1> QED BY <1>5, <1>6, <1>7, <1>8, <1>9, <1>10, <1>11, <1>12, <1>13, <1>14, <1>15, StepKinds

-----------------------------------------------------------------------------
(* A step keeps InTurn and CutIsVisible.                                   *)

\* What the client gets next, while it was told nothing else.
LEMMA NextPiece ==
  ASSUME TypeOK, ClientInLine, AtRequest, OriginInLine, InStep, [Next]_vars, got' # got, ~ToldIn(got')
  PROVE  \E i \in Nat, piece \in AnyPiece :
            /\ got' = Append(got, piece) /\ TurnIn(got, i)
            /\ \/ /\ piece.kind \in {"head", "error"} /\ (piece.kind = "head" => piece.msg = i + 1)
                  /\ Visible => AllWhole(got, reqs, resps, 0)
               \/ Body(piece, cur) /\ ~WholeIn(got, reqs, resps, cur)
  <1>1. ~ToldIn(got) BY StaysSo
  <1>2. got \in Seq(AnyPiece) /\ cur \in Nat BY DEF TypeOK
  <1>3. CASE GivesUp
    <2>1. got' = Append(got, errorReply) /\ ~cl.gone /\ pc \in {"reqHead", "respHead"} /\ ~Lax(Self)
      BY <1>3 DEF GivesUp
    <2>2. Steady BY <1>1, <2>1, InStepIs
    <2>3. LoopStops BY <2>1 DEF LoopStops, Lax
    <2>4. Visible => AllWhole(got, reqs, resps, 0) BY <2>1, <2>2, <2>3 DEF Steady
    <2>5. Behind \in Nat BY <1>2, <2>1, CurFields, ExchangeAssumption DEF Behind, Msg
    <2>6. TurnIn(got, Behind) BY <2>2 DEF Steady
    <2>7. errorReply \in AnyPiece /\ errorReply.kind = "error" BY ErrorType
    <2> HIDE DEF errorReply, Visible, TurnIn, AllWhole, Behind
    <2> QED BY <2>1, <2>4, <2>5, <2>6, <2>7
  <1>4. CASE TakeResponse
    <2>1. ~cl.gone /\ pc # "done" BY <1>4 DEF TakeResponse, SendDown
    <2>2. Steady BY <1>1, <2>1, InStepIs
    <2> DEFINE h == Piece(cur, "head", 0)
    <2>3. pc = "respHead" /\ cur \in Msg /\ ~DeadIn(up) /\ h \in AnyPiece /\ got' = Append(got, h)
      BY <1>4, <2>1, <2>2, ReadsHead
    <2>4. h.kind = "head" /\ h.msg = cur BY PieceFields
    <2>5. cur - 1 \in Nat /\ (cur - 1) + 1 = cur BY <2>3, ExchangeAssumption DEF Msg
    <2>6. TurnIn(got, cur - 1) BY <2>2, <2>3 DEF Steady, Behind
    <2>7. Visible => AllWhole(got, reqs, resps, 0) BY <2>2, <2>3 DEF Steady
    <2> HIDE DEF h, Visible, TurnIn, AllWhole
    <2> QED BY <2>3, <2>4, <2>5, <2>6, <2>7
  <1>5. CASE ForwardResponse
    <2>1. ~cl.gone /\ pc # "done" BY <1>5 DEF ForwardResponse, SendDown
    <2>2. Steady BY <1>1, <2>1, InStepIs
    <2> DEFINE d == DeliveredIn(got, cur)
               piece == PieceOf(cur, resps[cur], d + 1)
    <2>3. /\ pc = "respBody" /\ cur \in Msg /\ d \in Nat /\ d < SentIn(reqs[cur], resps[cur])
          /\ reqs[cur] \in Request /\ resps[cur] \in Response
          /\ piece \in AnyPiece /\ Body(piece, cur) /\ got' = Append(got, piece)
      BY <1>5, <2>1, <2>2, ReadsBody
    <2>4. TurnIn(got, cur) BY <2>2, <2>3 DEF Steady, Behind
    <2>5. ~WholeIn(got, reqs, resps, cur) BY <2>3, SentInType DEF WholeIn
    <2> HIDE DEF piece, Visible, TurnIn, AllWhole
    <2> QED BY <1>2, <2>3, <2>4, <2>5
  <1>6. CASE GoesOnAnyway \/ Abandons \/ Takes \/ SendHead \/ ForwardRequest
    BY <1>6, TakesEffect DEF GoesOnAnyway, Abandons, SendHead, ForwardRequest
  <1>7. CASE Client BY <1>7, BegunKept
  <1>8. CASE Origin BY <1>8, OriginKinds DEF OriginFrame
  <1>9. CASE UNCHANGED vars BY <1>9 DEF vars
  <1> QED BY <1>3, <1>4, <1>5, <1>6, <1>7, <1>8, <1>9, StepKinds

LEMMA PairedStep ==
  ASSUME TypeOK, ClientInLine, AtRequest, OriginInLine, InStep, Told \/ InTurn, CutIsVisible, [Next]_vars
  PROVE  (Told \/ InTurn)' /\ CutIsVisible'
  <1>1. ToldIn(got) => ToldIn(got') BY StaysSo
  <1>2. Visible' <=> Visible
    <2>1. program' = program BY StaysSo
    <2> QED BY <2>1 DEF Visible, Checks, Self
  <1>3. got \in Seq(AnyPiece) BY DEF TypeOK
  <1>4. \A k \in 1..Len(got) : got[k].kind = "head" => got[k].msg # 0 BY HeadMsgs
  <1>5. SUFFICES ASSUME ~ToldIn(got')
                 PROVE  PairedIn(got') /\ (Visible => CutVisibleIn(got', reqs', resps'))
    BY <1>2, PairedIsNext
  <1>6. PairedIn(got) /\ (Visible => CutVisibleIn(got, reqs, resps)) BY <1>1, <1>5, PairedIs
  <1>7. Settle(got, reqs, resps, reqs', resps') BY SettleNext
  <1>8. CASE got' = got
    <2>1. CutVisibleIn(got, reqs, resps) => CutVisibleIn(got, reqs', resps') BY <1>7, WholeKept
    <2> QED BY <1>6, <1>8, <2>1
  <1>9. CASE got' # got
    <2>1. PICK i \in Nat, piece \in AnyPiece :
            /\ got' = Append(got, piece) /\ TurnIn(got, i)
            /\ \/ /\ piece.kind \in {"head", "error"} /\ (piece.kind = "head" => piece.msg = i + 1)
                  /\ Visible => AllWhole(got, reqs, resps, 0)
               \/ Body(piece, cur) /\ ~WholeIn(got, reqs, resps, cur)
      BY <1>5, <1>9, NextPiece
    <2>2. PairedIn(got')
      <3>1. piece.kind = "head" => piece.msg = i + 1 BY <2>1 DEF Body
      <3> QED BY <1>3, <1>6, <2>1, <3>1, PairedAppend
    <2>3. Visible => CutVisibleIn(got', reqs, resps)
      <3>1. CASE /\ piece.kind \in {"head", "error"}
                 /\ Visible => AllWhole(got, reqs, resps, 0)
        BY <1>3, <1>4, <1>6, <2>1, <3>1, CutVisibleHead
      <3>2. CASE Body(piece, cur) /\ ~WholeIn(got, reqs, resps, cur)
        BY <1>3, <1>6, <2>1, <3>2, CutVisibleBody
      <3> QED BY <2>1, <3>1, <3>2
    <2>4. reqs' = reqs /\ resps' = resps
      <3>1. CASE GivesUp \/ TakeResponse \/ ForwardResponse
        BY <3>1 DEF GivesUp, TakeResponse, ForwardResponse
      <3>2. CASE GoesOnAnyway \/ Abandons \/ SendHead \/ ForwardRequest
        BY <3>2 DEF GoesOnAnyway, Abandons, SendHead, ForwardRequest
      <3>3. CASE Client \/ Takes BY <1>9, <3>3, BegunKept, TakesEffect
      <3>4. CASE Origin BY <1>9, <3>4, OriginKinds DEF OriginFrame
      <3>5. CASE UNCHANGED vars BY <3>5 DEF vars
      <3> QED BY <3>1, <3>2, <3>3, <3>4, <3>5, StepKinds
    <2> QED BY <2>2, <2>3, <2>4
  <1> QED BY <1>8, <1>9

-----------------------------------------------------------------------------
(* The invariant, and what it gives.                                       *)

LEMMA ExchangeInit ==
  ASSUME Init
  PROVE  ExchangeInv
  <1>1. /\ program \in Checked /\ pc = "reqHead" /\ cur = 0 /\ left = 0 /\ resp = info
        /\ up \in {newConnection("tunnel"), noConnection}
        /\ cin = <<>> /\ cl = [n |-> 0, sent |-> 0, gone |-> FALSE]
        /\ reqs = [i \in Msg |-> noRequest] /\ resps = [i \in Msg |-> info]
        /\ got = <<>> /\ seen = <<>> /\ captured = 0 /\ log = <<>>
    BY RepresentativesChecked DEF Init
  <1>2. up \in Connection /\ up.todo = <<>> /\ up.out = <<>> /\ up.ans = 0
    <2>1. "tunnel" \in Target BY DEF Target
    <2> QED BY <1>1, <2>1, NewConnection, NoConnection
  <1>3. TypeOK
    <2>1. noRequest \in Request BY DEF noRequest, Request, Target, Connections
    <2>2. info \in Response BY DEF info, Response, Connections
    <2>3. 0 \in 0..MaxReq /\ 0 \in 0..Cap BY ExchangeAssumption
    <2>4. cl \in [n : 0..MaxReq, sent : Nat, gone : BOOLEAN] BY <1>1, <2>3
    <2>5. /\ cin \in Seq(AnyPiece) /\ got \in Seq(AnyPiece)
          /\ seen \in Seq([to : Target, piece : AnyPiece]) /\ log \in Seq(LogEntry)
      BY <1>1
    <2> HIDE DEF noRequest, info
    <2> QED BY <1>1, <1>2, <2>1, <2>2, <2>3, <2>4, <2>5 DEF TypeOK
  <1>4. Len(cin) = 0 /\ Len(got) = 0 /\ Len(seen) = 0 /\ Len(log) = 0 /\ Len(up.out) = 0 /\ Len(up.todo) = 0
    BY <1>1, <1>2
  <1>5. ClientInLine
    <2>1. Taken = Piece(0, "head", 0) BY <1>1 DEF Taken
    <2>2. Taken.msg = 0 /\ Taken.n = 0 BY <2>1, PieceFields
    <2>3. Before(Len(cin) + 1) = Taken BY <1>4 DEF Before
    <2> QED BY <1>1, <1>4, <2>2, <2>3 DEF ClientInLine
  <1>6. AtRequest BY <1>1 DEF AtRequest
  <1>7. OriginInLine BY <1>1, <1>2, <1>4 DEF OriginInLine, SentUpTo
  <1>8. NobodyAsked BY <1>1, <1>4 DEF NobodyAsked, Settled
  <1>9. LogInLine BY <1>1, <1>4 DEF LogInLine, Over
  <1>10. Steady
    <2>1. Waiting(up) BY <1>2 DEF Waiting, SilentIn
    <2>2. HeadsIn(got, Len(got)) = 0
      <3>1. {m \in 1..Len(got) : got[m].kind = "head"} = {} BY <1>4
      <3> QED BY <3>1, FS_EmptySet DEF HeadsIn
    <2>3. TurnIn(got, Behind) BY <1>1, <1>4, <2>2 DEF TurnIn, Behind
    <2>4. \A e : AllWhole(got, reqs, resps, e) BY <1>4 DEF AllWhole
    <2> HIDE DEF Waiting, TurnIn, AllWhole, Visible
    <2> QED BY <1>1, <2>1, <2>3, <2>4 DEF Steady
  <1>11. InStep BY <1>3, <1>7, <1>10, InStepIs
  <1>12. InTurn /\ CutIsVisible BY <1>4 DEF InTurn, CutIsVisible
  <1>13. RightOrigin BY <1>4 DEF RightOrigin, WholeBeforeNext
  <1>14. AnalyzedInOrder
    <2>1. Logged("response") = {} BY <1>4 DEF Logged
    <2> QED BY <1>4, <2>1 DEF AnalyzedInOrder
  <1> QED BY <1>3, <1>5, <1>6, <1>7, <1>8, <1>9, <1>11, <1>12, <1>13, <1>14 DEF ExchangeInv

LEMMA ExchangeStep ==
  ASSUME ExchangeInv, [Next]_vars
  PROVE  ExchangeInv'
  <1>1. /\ TypeOK /\ ClientInLine /\ AtRequest /\ OriginInLine /\ NobodyAsked /\ LogInLine /\ InStep
        /\ (Told \/ InTurn) /\ CutIsVisible /\ RightOrigin /\ AnalyzedInOrder
    BY DEF ExchangeInv
  <1>2. TypeOK' BY <1>1, TypeStep
  <1>3. ClientInLine' BY <1>1, ClientInLineStep
  <1>4. AtRequest' BY <1>1, AtRequestStep
  <1>5. OriginInLine' BY <1>1, OriginInLineStep
  <1>6. NobodyAsked' BY <1>1, NobodyAskedStep
  <1>7. LogInLine' /\ AnalyzedInOrder' BY <1>1, <1>2, <1>4, LogStep
  <1>8. InStep' BY <1>1, <1>2, <1>5, InStepStep
  <1>9. (Told \/ InTurn)' /\ CutIsVisible' BY <1>1, PairedStep
  <1>10. RightOrigin' BY <1>1, RightOriginStep
  <1> QED BY <1>2, <1>3, <1>4, <1>5, <1>6, <1>7, <1>8, <1>9, <1>10 DEF ExchangeInv

\* ExchangeInv, which says how the loop, its client and its origin keep in step,
\* holds of every HTTP/1.1 loop of the repository, whatever requests and responses
\* they exchange, however many.
THEOREM ExchangeInvariant == Spec => []ExchangeInv
  <1>1. Init => ExchangeInv BY ExchangeInit
  <1>2. ExchangeInv /\ [Next]_vars => ExchangeInv' BY ExchangeStep
  <1> QED BY <1>1, <1>2, PTL DEF Spec

\* The client's k-th response answers its k-th request, pipelined requests,
\* changed hosts and slow origins included, and nothing follows an error, until
\* the loop has taken a 1xx response for the answer, or the rest of a body for a
\* head.
THEOREM AlwaysPaired == Spec => []Paired
  <1>1. ExchangeInv => Paired BY DEF ExchangeInv, Paired
  <1> QED BY <1>1, ExchangeInvariant, PTL

\* A response that was cut is the last thing the client gets: nothing it could
\* take for the rest of it, in the loops that look whether a body got through.
THEOREM CutsAreVisible == Spec => []CutIsVisible
  <1>1. ExchangeInv => CutIsVisible BY DEF ExchangeInv
  <1> QED BY <1>1, ExchangeInvariant, PTL

\* A request goes to the host it names, whatever connection the loop kept, and
\* the requests reach the origins piece by piece, in the client's order; each is
\* whole before the next begins where the loop looks whether a body got through.
THEOREM AlwaysRightOrigin == Spec => []RightOrigin
  <1>1. ExchangeInv => RightOrigin BY DEF ExchangeInv
  <1> QED BY <1>1, ExchangeInvariant, PTL

\* The analyzer is called once for a message, a request before its response and
\* before the client has an answer, with the first pieces of the body.
THEOREM AlwaysAnalyzedInOrder == Spec => []AnalyzedInOrder
  <1>1. ExchangeInv => AnalyzedInOrder BY DEF ExchangeInv
  <1> QED BY <1>1, ExchangeInvariant, PTL

\* The log line of an upload whose capture is not the whole body says so, for
\* both ways the programs decide it.
THEOREM CutCapturesAreTold == Spec => []CutCaptureIsTold
  <1>1. ASSUME ExchangeInv, Self.inspects = "uploads", Checks("reqBody"),
               NEW k \in 1..Len(log), log[k].n < BodyLen(reqs[log[k].msg])
        PROVE  log[k].cut
    <2> DEFINE r == reqs[log[k].msg]
    <2>1. TypeOK /\ LogInLine /\ AnalyzedInOrder BY <1>1 DEF ExchangeInv
    <2>2. log[k] \in LogEntry /\ log[k].msg \in Msg BY <2>1, LogEntries DEF TypeOK
    <2>3. r \in Request BY <2>1, <2>2 DEF TypeOK
    <2>4. log[k].of = "request" /\ log[k].cut = Truncated(r, log[k].n)
      BY <1>1, <2>1 DEF LogInLine
    <2>5. log[k].n = FirstPieces(log[k].msg) BY <1>1, <2>1, <2>4 DEF AnalyzedInOrder
    <2>6. r.len \in Nat /\ BodyLen(r) \in Nat BY <2>3, RequestPieces DEF BodyLen
    <2>7. log[k].n = Cap /\ BodyLen(r) > Cap
      <3>1. log[k].n = IF BodyLen(r) < Cap THEN BodyLen(r) ELSE Cap BY <2>5 DEF FirstPieces
      <3>2. log[k].n < BodyLen(r) /\ Cap \in Nat BY <1>1, ExchangeAssumption
      <3> HIDE DEF r
      <3> QED BY <2>6, <3>1, <3>2
    <2>8. r.len > Cap BY <2>6, <2>7, ExchangeAssumption DEF BodyLen
    <2>9. Truncated(r, log[k].n) BY <2>7, <2>8, ExchangeAssumption DEF Truncated
    <2> QED BY <2>4, <2>9
  <1>2. ExchangeInv => CutCaptureIsTold BY <1>1 DEF CutCaptureIsTold
  <1> QED BY <1>2, ExchangeInvariant, PTL

\* Once a request or a response has asked for the end of the connection, no
\* further request is sent on.
THEOREM CloseIsAlwaysHonoured == Spec => CloseIsHonoured
  <1>1. ASSUME ExchangeInv, [Next]_vars, seen' # seen, seen'[Len(seen')].piece.kind = "head"
        PROVE  /\ \A n \in 1..Len(seen) : ~Asks(reqs[seen[n].piece.msg])
               /\ \A k \in 1..Len(got) : got[k].kind = "head" => ~Asks(resps[got[k].msg])
    BY <1>1, CloseIsHonouredStep DEF ExchangeInv
  <1>2. ExchangeInv /\ [Next]_vars =>
          [seen' # seen /\ seen'[Len(seen')].piece.kind = "head" =>
             /\ \A n \in 1..Len(seen) : ~Asks(reqs[seen[n].piece.msg])
             /\ \A k \in 1..Len(got) : got[k].kind = "head" => ~Asks(resps[got[k].msg])]_vars
    BY <1>1
  <1> QED BY <1>2, ExchangeInvariant, PTL DEF Spec, CloseIsHonoured
=============================================================================
