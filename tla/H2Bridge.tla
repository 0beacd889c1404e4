------------------------------ MODULE H2Bridge ------------------------------
(***************************************************************************)
(* The HTTP/2 bridge of proxy_ToInfinity (Protocol/Http2Engine.cpp): one   *)
(* thread couples an nghttp2 server session (towards the browser, csess)   *)
(* with an nghttp2 client session (towards the origin, usess).  Every      *)
(* client stream gets an H2Stream that buffers both bodies; the callbacks  *)
(* of one session change the buffers and wake the other session.           *)
(*                                                                         *)
(* The loop of Http2Engine::process is the program counter pc: send on     *)
(* csess, send on usess, select, receive on csess, receive on usess.  A    *)
(* peer's frame is chosen when the loop receives it: the loop cannot tell  *)
(* a frame still in flight from one that is not sent yet, so every order   *)
(* of the two peers' frames is a behaviour here.  A frame the proxy sends  *)
(* reaches its peer at once.  Bodies are sequences of chunks <<stream, n>>.*)
(*                                                                         *)
(* runH2Bridge of proxy_plan_B is the same bridge; it captures uploads only*)
(* and logs them where its analyzer is called here.                        *)
(***************************************************************************)
EXTENDS Naturals, Sequences, FiniteSets

CONSTANTS
    N,          \* client streams 1..N, in the order the client opens them
    MaxBody,    \* most chunks in one request or response body
    Cap,        \* UPLOAD_CAPTURE_CAP, in chunks
    UpLimit,    \* MAX_CONCURRENT_STREAMS announced by the origin
    Peer        \* what the peers and the sockets may do, besides the plain exchange

PeerBehaviours ==
    {"rst", "goaway", "eof", "stall", "fail", "info", "trailers", "reqTrailers"}

ASSUME ConstantsAssumption ==
    /\ N \in Nat \ {0} /\ MaxBody \in Nat /\ Cap \in Nat /\ UpLimit \in Nat \ {0}
    /\ Peer \subseteq PeerBehaviours

Streams == 1..N
Chunk == (0..N) \X Nat
Block == {"info", "final", "trailers"}      \* kinds of header blocks of a response

VARIABLES
    str,            \* the H2Stream of each client stream
    byUpstream,     \* br.byUpstream: upstream stream id -> client stream (0: no entry)
    nextUid,        \* next upstream stream id nghttp2 hands out
    csess, usess,   \* nghttp2's own view of the streams of each session
    cGoaway, uGoaway,
    cClosed, uClosed,
    pc,
    client, origin  \* what each peer has sent and received (observers only)

vars == <<str, byUpstream, nextUid, csess, usess, cGoaway, uGoaway, cClosed, uClosed,
          pc, client, origin>>

-----------------------------------------------------------------------------
(* H2Stream: uid = 0 stands for -1.  analyzed lists the bodies handed to   *)
(* TrafficAnalyzer::analyzeRequest for this stream.                        *)

H2Stream == [uid : 0..N, reqBody : Seq(Chunk), reqEof : BOOLEAN,
             respHdr : Seq(Block), respBody : Seq(Chunk), respEof : BOOLEAN,
             uploadCap : Seq(Chunk), analyzed : Seq(Seq(Chunk))]

newStream == [uid |-> 0, reqBody |-> <<>>, reqEof |-> FALSE,
              respHdr |-> <<>>, respBody |-> <<>>, respEof |-> FALSE,
              uploadCap |-> <<>>, analyzed |-> <<>>]

(* A stream of the server session.  rd: the peer may still send, wr: we    *)
(* may still send, prov: the body provider attached to the stream, q: the  *)
(* HEADERS items submitted and not sent.  A stream is "closing" from the   *)
(* submission of a RST_STREAM until it is sent; what was queued is dropped.*)

Provider == {"none", "ready", "deferred"}
HeadersItem == [hdr : Seq(Block), end : BOOLEAN]

CStream == [st : {"idle", "open", "closing", "closed"}, rd : BOOLEAN, wr : BOOLEAN,
            prov : Provider, q : Seq(HeadersItem)]

(* A stream of the client session.  "pending": the request HEADERS wait in *)
(* nghttp2's queue; "canceled": the same, after a RST_STREAM for it.       *)

UStream == [st : {"idle", "pending", "canceled", "open", "closing", "closed"},
            rd : BOOLEAN, wr : BOOLEAN, prov : Provider]

idleC == [st |-> "idle", rd |-> TRUE, wr |-> TRUE, prov |-> "none", q |-> <<>>]
idleU == [st |-> "idle", rd |-> TRUE, wr |-> TRUE, prov |-> "none"]

(* The observers.  fin: how the stream ended for the client.               *)

ClientView == [sent : Nat, ended : BOOLEAN, reset : BOOLEAN,
               hdrs : Seq(Seq(Block)), got : Seq(Chunk), fin : {"no", "end", "rst"}]
OriginView == [tag : 0..N, got : Seq(Chunk), reqEnd : BOOLEAN, reset : BOOLEAN,
               stage : {"none", "info", "final", "trailers"}, sent : Nat,
               respEnd : BOOLEAN, gotRst : BOOLEAN]

Init ==
    /\ str = [c \in Streams |-> newStream]
    /\ byUpstream = [u \in Streams |-> 0]
    /\ nextUid = 1
    /\ csess = [c \in Streams |-> idleC]
    /\ usess = [u \in Streams |-> idleU]
    /\ cGoaway = FALSE /\ uGoaway = FALSE
    /\ cClosed = FALSE /\ uClosed = FALSE
    /\ pc = "sendC"
    /\ client = [c \in Streams |-> [sent |-> 0, ended |-> FALSE, reset |-> FALSE,
                                    hdrs |-> <<>>, got |-> <<>>, fin |-> "no"]]
    /\ origin = [u \in Streams |-> [tag |-> 0, got |-> <<>>, reqEnd |-> FALSE,
                                    reset |-> FALSE, stage |-> "none", sent |-> 0,
                                    respEnd |-> FALSE, gotRst |-> FALSE]]

-----------------------------------------------------------------------------
(* nghttp2, as the bridge uses it.  Each operator maps the streams of a    *)
(* session to the streams after the call.                                  *)

Resumed(p) == IF p = "deferred" THEN "ready" ELSE p

\* Mutants: a callback that forgets nghttp2_session_resume_data.
ResumeC_Forgotten(cs, c) == cs
ResumeU_Forgotten(us, u) == us

\* nghttp2_session_resume_data: wakes a deferred provider; on any other
\* stream it fails, and the bridge ignores the result.
ResumeC(cs, c) == [cs EXCEPT ![c].prov = Resumed(@)]
ResumeU(us, u) == IF u = 0 THEN us ELSE [us EXCEPT ![u].prov = Resumed(@)]

\* nghttp2_submit_rst_stream
SubmitRstC(cs, c) ==
    IF cs[c].st = "open"
    THEN [cs EXCEPT ![c].st = "closing", ![c].prov = "none", ![c].q = <<>>]
    ELSE cs

SubmitRstU(us, u) ==
    IF us[u].st = "pending" THEN [us EXCEPT ![u].st = "canceled", ![u].prov = "none"]
    ELSE IF us[u].st = "open" THEN [us EXCEPT ![u].st = "closing", ![u].prov = "none"]
    ELSE us

\* nghttp2_submit_response: queues HEADERS; without a provider they carry
\* END_STREAM.  An item for a stream that is closing is dropped later on.
SubmitResponse(cs, c, hdr, hasBody) ==
    IF cs[c].st = "open"
    THEN [cs EXCEPT ![c].q = Append(@, [hdr |-> hdr, end |-> ~hasBody])]
    ELSE cs

\* nghttp2 forgets what a closed stream still had to send.
ClosedC(cs, c) == [cs EXCEPT ![c].st = "closed", ![c].prov = "none", ![c].q = <<>>]
ClosedU(us, u) == [us EXCEPT ![u].st = "closed", ![u].prov = "none"]

Active(sess) == \E s \in Streams : sess[s].st \in {"open", "closing"}
OpenUpstream == {u \in Streams : usess[u].st \in {"open", "closing"}}

SendableC(c) ==
    \/ csess[c].st = "closing"
    \/ csess[c].st = "open" /\ (csess[c].q # <<>> \/ csess[c].prov = "ready")
SendableU(u) ==
    \/ usess[u].st = "closing"
    \/ usess[u].st = "open" /\ usess[u].prov = "ready"
    \/ usess[u].st \in {"pending", "canceled"} /\ Cardinality(OpenUpstream) < UpLimit

WantReadC == Active(csess) \/ ~cGoaway
WantReadU == Active(usess) \/ ~uGoaway
WantWriteC == \E c \in Streams : SendableC(c)
WantWriteU == \E u \in Streams : SendableU(u)

-----------------------------------------------------------------------------
(* The callbacks.                                                          *)

\* reqBodyRead, respBodyRead: k chunks of a non-empty body, EOF with the last
\* one; only EOF when the body is empty; DEFERRED when more may come.
\* Mutants: EOF as soon as the peer has ended, whatever is left in the buffer;
\* the bytes read are not erased.
ReadsEof_Early(body, eof, k) == eof
Rest_NotErased(body, k) == body

Defers(body, eof) == body = <<>> /\ ~eof
Reads(body, eof) == IF body = <<>> THEN (IF eof THEN {0} ELSE {}) ELSE 1..Len(body)
ReadsEof(body, eof, k) == k = Len(body) /\ eof
Rest(body, k) == SubSeq(body, k + 1, Len(body))

\* Mutant: the capture has no bound.
AppendReq_NoCap(s, x) ==
    [s EXCEPT !.reqBody = Append(@, x), !.uploadCap = Append(@, x)]

\* cb_on_data_chunk of csess: the capture stops at Cap.
AppendReq(s, x) ==
    [s EXCEPT !.reqBody = Append(@, x),
              !.uploadCap = IF Len(@) < Cap THEN Append(@, x) ELSE @]

\* Mutant: the request is analysed, and its end is not recorded.
EndReq_NoEof(s) == [s EXCEPT !.analyzed = Append(@, s.uploadCap)]

\* cb_on_frame_recv of csess, DATA with END_STREAM: the request is analysed.
EndReq(s) == [s EXCEPT !.reqEof = TRUE, !.analyzed = Append(@, s.uploadCap)]

\* Mutants: an abort of the client is not passed on; every close resets the client.
CancelUpstream_Never(us, s) == us
ResetClient_Always(cs, c) == SubmitRstC(cs, c)

\* cb_on_stream_close: a stream that ends before the response is complete
\* resets the other side.
CancelUpstream(us, s) == IF s.uid # 0 /\ ~s.respEof THEN SubmitRstU(us, s.uid) ELSE us
ResetClient(cs, c) == IF ~str[c].respEof THEN SubmitRstC(cs, c) ELSE cs

-----------------------------------------------------------------------------
(* nghttp2_session_send(csess): first the HEADERS and RST_STREAM items,    *)
(* then DATA.                                                              *)

ToClient(c, view) == client' = IF cClosed THEN client ELSE [client EXCEPT ![c] = view]
ToOrigin(u, view) == origin' = IF uClosed THEN origin ELSE [origin EXCEPT ![u] = view]

\* HEADERS are sent: END_STREAM drops the body that is left, and otherwise the
\* provider submitted with them is attached, unless one is attached already.
HeadersSent(s, end) ==
    [s EXCEPT !.q = Tail(@), !.wr = ~end,
              !.prov = IF end THEN "none" ELSE IF @ = "none" THEN "ready" ELSE @]

SendHeadersC(c) ==
    /\ pc = "sendC" /\ csess[c].st = "open" /\ csess[c].q # <<>>
    /\ LET item == Head(csess[c].q) IN
       /\ csess' =
            IF item.end /\ ~csess[c].rd THEN ClosedC(csess, c)
            ELSE [csess EXCEPT ![c] = HeadersSent(@, item.end)]
       /\ ToClient(c, [client[c] EXCEPT !.hdrs = Append(@, item.hdr),
                                        !.fin = IF item.end THEN "end" ELSE @])
    /\ UNCHANGED <<str, byUpstream, nextUid, usess, cGoaway, uGoaway, cClosed, uClosed,
                   pc, origin>>

SendRstC(c) ==
    /\ pc = "sendC" /\ csess[c].st = "closing"
    /\ csess' = ClosedC(csess, c)
    /\ usess' = CancelUpstream(usess, str[c])
    /\ ToClient(c, [client[c] EXCEPT !.fin = "rst"])
    /\ UNCHANGED <<str, byUpstream, nextUid, cGoaway, uGoaway, cClosed, uClosed, pc, origin>>

DataTurnC(c) ==
    /\ pc = "sendC" /\ csess[c].st = "open" /\ csess[c].prov = "ready"
    /\ \A d \in Streams : csess[d].q = <<>> /\ csess[d].st # "closing"

SendDataC(c, k) ==
    /\ DataTurnC(c) /\ k \in Reads(str[c].respBody, str[c].respEof)
    /\ LET end == ReadsEof(str[c].respBody, str[c].respEof, k) IN
       /\ csess' =
            IF end /\ ~csess[c].rd THEN ClosedC(csess, c)
            ELSE [csess EXCEPT ![c].wr = ~end, ![c].prov = IF end THEN "none" ELSE @]
       /\ ToClient(c, [client[c] EXCEPT !.got = @ \o SubSeq(str[c].respBody, 1, k),
                                        !.fin = IF end THEN "end" ELSE @])
    /\ str' = [str EXCEPT ![c].respBody = Rest(@, k)]
    /\ UNCHANGED <<byUpstream, nextUid, usess, cGoaway, uGoaway, cClosed, uClosed, pc, origin>>

DeferC(c) ==
    /\ DataTurnC(c) /\ Defers(str[c].respBody, str[c].respEof)
    /\ csess' = [csess EXCEPT ![c].prov = "deferred"]
    /\ UNCHANGED <<str, byUpstream, nextUid, usess, cGoaway, uGoaway, cClosed, uClosed,
                   pc, client, origin>>

SendStepC == \E c \in Streams : \/ SendHeadersC(c) \/ SendRstC(c) \/ DeferC(c)
                                \/ \E k \in 0..MaxBody : SendDataC(c, k)

Goto(from, to) ==
    /\ pc = from /\ pc' = to
    /\ UNCHANGED <<str, byUpstream, nextUid, csess, usess, cGoaway, uGoaway,
                   cClosed, uClosed, client, origin>>

SendDoneC  == Goto("sendC", "sendU") /\ ~WantWriteC
SendBlockC == Goto("sendC", "sendU") /\ WantWriteC /\ "stall" \in Peer
SendFailC  == Goto("sendC", "done") /\ WantWriteC /\ "fail" \in Peer

-----------------------------------------------------------------------------
(* nghttp2_session_send(usess): RST_STREAM, then request HEADERS in the    *)
(* order of their ids and within the concurrency limit, then DATA.         *)

SendRstU(u) ==
    /\ pc = "sendU" /\ usess[u].st = "closing"
    /\ usess' = ClosedU(usess, u)
    /\ csess' = ResetClient(csess, byUpstream[u])
    /\ ToOrigin(u, [origin[u] EXCEPT !.gotRst = TRUE])
    /\ UNCHANGED <<str, byUpstream, nextUid, cGoaway, uGoaway, cClosed, uClosed, pc, client>>

HeadersTurnU(u) ==
    /\ pc = "sendU" /\ usess[u].st \in {"pending", "canceled"}
    /\ Cardinality(OpenUpstream) < UpLimit
    /\ \A v \in Streams : /\ usess[v].st # "closing"
                          /\ v < u => usess[v].st \notin {"pending", "canceled"}

SendHeadersU(u) ==
    /\ HeadersTurnU(u) /\ usess[u].st = "pending" /\ ~uGoaway
    /\ LET hasBody == usess[u].prov # "none" IN
       /\ usess' = [usess EXCEPT ![u].st = "open", ![u].wr = hasBody]
       /\ ToOrigin(u, [origin[u] EXCEPT !.tag = byUpstream[u], !.reqEnd = ~hasBody])
    /\ UNCHANGED <<str, byUpstream, nextUid, csess, cGoaway, uGoaway, cClosed, uClosed,
                   pc, client>>

\* A canceled request, or one queued when the origin said GOAWAY, is opened and
\* closed at once; its close callback runs.
DropHeadersU(u) ==
    /\ HeadersTurnU(u) /\ (usess[u].st = "canceled" \/ uGoaway)
    /\ usess' = ClosedU(usess, u)
    /\ csess' = ResetClient(csess, byUpstream[u])
    /\ UNCHANGED <<str, byUpstream, nextUid, cGoaway, uGoaway, cClosed, uClosed, pc,
                   client, origin>>

DataTurnU(u) ==
    /\ pc = "sendU" /\ usess[u].st = "open" /\ usess[u].prov = "ready"
    /\ \A v \in Streams : usess[v].st # "closing" /\ ~HeadersTurnU(v)

SendDataU(u, k) ==
    LET c == byUpstream[u]
        end == ReadsEof(str[c].reqBody, str[c].reqEof, k)
    IN
    /\ DataTurnU(u) /\ k \in Reads(str[c].reqBody, str[c].reqEof)
    /\ usess' = IF end /\ ~usess[u].rd THEN ClosedU(usess, u)
                ELSE [usess EXCEPT ![u].wr = ~end, ![u].prov = IF end THEN "none" ELSE @]
    /\ ToOrigin(u, [origin[u] EXCEPT !.got = @ \o SubSeq(str[c].reqBody, 1, k),
                                     !.reqEnd = end])
    /\ str' = [str EXCEPT ![c].reqBody = Rest(@, k)]
    /\ UNCHANGED <<byUpstream, nextUid, csess, cGoaway, uGoaway, cClosed, uClosed, pc, client>>

DeferU(u) ==
    /\ DataTurnU(u) /\ Defers(str[byUpstream[u]].reqBody, str[byUpstream[u]].reqEof)
    /\ usess' = [usess EXCEPT ![u].prov = "deferred"]
    /\ UNCHANGED <<str, byUpstream, nextUid, csess, cGoaway, uGoaway, cClosed, uClosed,
                   pc, client, origin>>

SendStepU == \E u \in Streams : \/ SendRstU(u) \/ SendHeadersU(u) \/ DropHeadersU(u)
                                \/ DeferU(u) \/ \E k \in 0..MaxBody : SendDataU(u, k)

SendDoneU  == Goto("sendU", "select") /\ ~WantWriteU
SendBlockU == Goto("sendU", "select") /\ WantWriteU /\ "stall" \in Peer
SendFailU  == Goto("sendU", "done") /\ WantWriteU /\ "fail" \in Peer

-----------------------------------------------------------------------------
(* select, and the ends of the loop.                                       *)

NothingWanted == ~WantReadC /\ ~WantReadU /\ ~WantWriteC /\ ~WantWriteU

Stop == Goto("select", "done") /\ ((cClosed /\ uClosed) \/ NothingWanted)

Wake == Goto("select", "recvC") /\ ~(cClosed /\ uClosed) /\ ~NothingWanted

\* r <= 0: 30 s in which nothing arrived and no socket took a byte.
Timeout ==
    /\ Goto("select", "done") /\ ~(cClosed /\ uClosed)
    /\ "stall" \in Peer \/ (~WantWriteC /\ ~WantWriteU)

-----------------------------------------------------------------------------
(* pumpRecv(csess): what the client may send next, and the callbacks.      *)

NextStream(c) == csess[c].st = "idle" /\ \A d \in 1..(c - 1) : csess[d].st # "idle"

\* Mutant: uid is set although the request was not submitted.
UidAfter_Always(submitted) == nextUid

\* submitUpstreamRequest returns before it sets uid when nghttp2_submit_request fails.
UidAfter(submitted) == IF submitted THEN nextUid ELSE 0

\* submitUpstreamRequest; it fails when nghttp2_submit_request does, and then
\* leaves uid at -1.
ClientHeaders(c, end, submitted) ==
    /\ pc = "recvC" /\ ~cClosed /\ NextStream(c)
    /\ ~submitted => "fail" \in Peer
    /\ csess' = [csess EXCEPT ![c].st = "open", ![c].rd = ~end]
    /\ str' = [str EXCEPT ![c] =
                 [newStream EXCEPT !.uid = UidAfter(submitted),
                                   !.reqEof = end,
                                   !.analyzed = IF end THEN << <<>> >> ELSE <<>>]]
    /\ IF submitted
       THEN /\ byUpstream' = [byUpstream EXCEPT ![nextUid] = c]
            /\ nextUid' = nextUid + 1
            /\ usess' = [usess EXCEPT ![nextUid].st = "pending",
                                      ![nextUid].prov = IF end THEN "none" ELSE "ready"]
       ELSE UNCHANGED <<byUpstream, nextUid, usess>>
    /\ client' = [client EXCEPT ![c].ended = end]
    /\ UNCHANGED <<cGoaway, uGoaway, cClosed, uClosed, pc, origin>>

ClientMaySend(c) == pc = "recvC" /\ ~cClosed /\ csess[c].st = "open" /\ csess[c].rd

\* DATA with n chunks (0 or 1).  When the response has ended already, END_STREAM
\* closes the stream; respEof is set by then, so the close callback does nothing.
ClientData(c, n, end) ==
    /\ ClientMaySend(c) /\ (n = 1 \/ end) /\ client[c].sent + n <= MaxBody
    /\ LET s == IF n = 1 THEN AppendReq(str[c], <<c, client[c].sent + 1>>) ELSE str[c] IN
       str' = [str EXCEPT ![c] = IF end THEN EndReq(s) ELSE s]
    /\ csess' = IF end /\ ~csess[c].wr THEN ClosedC(csess, c)
                ELSE [csess EXCEPT ![c].rd = ~end]
    /\ usess' = ResumeU(usess, str[c].uid)
    /\ client' = [client EXCEPT ![c].sent = @ + n, ![c].ended = end]
    /\ UNCHANGED <<byUpstream, nextUid, cGoaway, uGoaway, cClosed, uClosed, pc, origin>>

\* Request trailers: HEADERS with END_STREAM that are not HCAT_REQUEST.  No
\* branch of cb_on_frame_recv handles them: reqEof stays FALSE.
ClientTrailers(c) ==
    /\ ClientMaySend(c) /\ "reqTrailers" \in Peer
    /\ csess' = IF ~csess[c].wr THEN ClosedC(csess, c) ELSE [csess EXCEPT ![c].rd = FALSE]
    /\ client' = [client EXCEPT ![c].ended = TRUE]
    /\ UNCHANGED <<str, byUpstream, nextUid, usess, cGoaway, uGoaway, cClosed, uClosed,
                   pc, origin>>

ClientRst(c) ==
    /\ pc = "recvC" /\ ~cClosed /\ "rst" \in Peer
    /\ csess[c].st \in {"open", "closing"}
    /\ csess' = ClosedC(csess, c)
    /\ usess' = CancelUpstream(usess, str[c])
    /\ client' = [client EXCEPT ![c].reset = TRUE]
    /\ UNCHANGED <<str, byUpstream, nextUid, cGoaway, uGoaway, cClosed, uClosed, pc, origin>>

ClientGoaway ==
    /\ pc = "recvC" /\ ~cClosed /\ ~cGoaway /\ "goaway" \in Peer
    /\ cGoaway' = TRUE
    /\ UNCHANGED <<str, byUpstream, nextUid, csess, usess, uGoaway, cClosed, uClosed,
                   pc, client, origin>>

ClientEof ==
    /\ pc = "recvC" /\ ~cClosed /\ "eof" \in Peer
    /\ cClosed' = TRUE /\ pc' = "recvU"
    /\ UNCHANGED <<str, byUpstream, nextUid, csess, usess, cGoaway, uGoaway, uClosed,
                   client, origin>>

RecvDoneC == Goto("recvC", "recvU")
RecvFailC == Goto("recvC", "done") /\ ~cClosed /\ "fail" \in Peer

RecvStepC ==
    \/ \E c \in Streams :
          \/ \E end, submitted \in BOOLEAN : ClientHeaders(c, end, submitted)
          \/ \E n \in {0, 1}, end \in BOOLEAN : ClientData(c, n, end)
          \/ ClientTrailers(c) \/ ClientRst(c)
    \/ ClientGoaway \/ ClientEof

-----------------------------------------------------------------------------
(* pumpRecv(usess): what the origin may send next, and the callbacks.      *)

OriginMaySend(u) == pc = "recvU" /\ ~uClosed /\ usess[u].st = "open" /\ usess[u].rd

\* HEADERS of any kind append to respHdr and submit a response to the client.
\* END_STREAM sets respEof first, so a close does not reset the client.
OriginHeaders(u, kind, end) ==
    LET c == byUpstream[u]
        s == [str[c] EXCEPT !.respHdr = Append(@, kind), !.respEof = @ \/ end]
    IN
    /\ OriginMaySend(u)
    /\ \/ kind = "info"     /\ "info" \in Peer /\ origin[u].stage = "none" /\ ~end
       \/ kind = "final"    /\ origin[u].stage \in {"none", "info"}
       \/ kind = "trailers" /\ "trailers" \in Peer /\ origin[u].stage = "final" /\ end
    /\ str' = [str EXCEPT ![c] = s]
    /\ csess' = SubmitResponse(csess, c, s.respHdr, ~end)
    /\ usess' = IF end /\ ~usess[u].wr THEN ClosedU(usess, u)
                ELSE [usess EXCEPT ![u].rd = ~end]
    /\ origin' = [origin EXCEPT ![u].stage = kind, ![u].respEnd = end]
    /\ UNCHANGED <<byUpstream, nextUid, cGoaway, uGoaway, cClosed, uClosed, pc, client>>

OriginData(u, n, end) ==
    LET c == byUpstream[u] IN
    /\ OriginMaySend(u) /\ origin[u].stage = "final"
    /\ (n = 1 \/ end) /\ origin[u].sent + n <= MaxBody
    /\ str' = [str EXCEPT
                 ![c].respBody = IF n = 1 THEN Append(@, <<origin[u].tag, origin[u].sent + 1>>)
                                 ELSE @,
                 ![c].respEof = @ \/ end]
    /\ csess' = ResumeC(csess, c)
    /\ usess' = IF end /\ ~usess[u].wr THEN ClosedU(usess, u)
                ELSE [usess EXCEPT ![u].rd = ~end]
    /\ origin' = [origin EXCEPT ![u].sent = @ + n, ![u].respEnd = end]
    /\ UNCHANGED <<byUpstream, nextUid, cGoaway, uGoaway, cClosed, uClosed, pc, client>>

OriginRst(u) ==
    /\ pc = "recvU" /\ ~uClosed /\ "rst" \in Peer
    /\ usess[u].st \in {"open", "closing"}
    /\ usess' = ClosedU(usess, u)
    /\ csess' = ResetClient(csess, byUpstream[u])
    /\ origin' = [origin EXCEPT ![u].reset = TRUE]
    /\ UNCHANGED <<str, byUpstream, nextUid, cGoaway, uGoaway, cClosed, uClosed, pc, client>>

\* GOAWAY closes the streams above its last stream id, which the origin has not
\* answered; each close callback runs.
OriginGoaway(last) ==
    LET refused == {u \in OpenUpstream : u > last} IN
    /\ pc = "recvU" /\ ~uClosed /\ ~uGoaway /\ "goaway" \in Peer
    /\ \A u \in refused : origin[u].stage = "none"
    /\ uGoaway' = TRUE
    /\ usess' = [u \in Streams |-> IF u \in refused THEN ClosedU(usess, u)[u] ELSE usess[u]]
    /\ csess' = [c \in Streams |-> IF str[c].uid \in refused THEN ResetClient(csess, c)[c]
                                   ELSE csess[c]]
    /\ UNCHANGED <<str, byUpstream, nextUid, cGoaway, cClosed, uClosed, pc, client, origin>>

OriginEof ==
    /\ pc = "recvU" /\ ~uClosed /\ "eof" \in Peer
    /\ uClosed' = TRUE /\ pc' = "sendC"
    /\ UNCHANGED <<str, byUpstream, nextUid, csess, usess, cGoaway, uGoaway, cClosed,
                   client, origin>>

RecvDoneU == Goto("recvU", "sendC")
RecvFailU == Goto("recvU", "done") /\ ~uClosed /\ "fail" \in Peer

RecvStepU ==
    \/ \E u \in Streams :
          \/ \E kind \in Block, end \in BOOLEAN : OriginHeaders(u, kind, end)
          \/ \E n \in {0, 1}, end \in BOOLEAN : OriginData(u, n, end)
          \/ OriginRst(u)
    \/ \E last \in 0..N : OriginGoaway(last)
    \/ OriginEof

-----------------------------------------------------------------------------
\* The bridge is over: streams and sessions are deleted, without a callback.
Terminated == pc = "done" /\ UNCHANGED vars

Next ==
    \/ SendStepC \/ SendDoneC \/ SendBlockC \/ SendFailC
    \/ SendStepU \/ SendDoneU \/ SendBlockU \/ SendFailU
    \/ Stop \/ Wake \/ Timeout
    \/ RecvStepC \/ RecvDoneC \/ RecvFailC
    \/ RecvStepU \/ RecvDoneU \/ RecvFailU
    \/ Terminated

Spec == Init /\ [][Next]_vars

\* The loop keeps running, and a socket that blocks takes bytes again.
Loop == SendDoneC \/ SendDoneU \/ Stop \/ Wake \/ RecvDoneC \/ RecvDoneU
FairSpec == Spec /\ WF_vars(Loop) /\ SF_vars(SendStepC) /\ SF_vars(SendStepU)

-----------------------------------------------------------------------------
TypeOK ==
    /\ str \in [Streams -> H2Stream]
    /\ byUpstream \in [Streams -> 0..N]
    /\ nextUid \in 1..(N + 1)
    /\ csess \in [Streams -> CStream]
    /\ usess \in [Streams -> UStream]
    /\ {cGoaway, uGoaway, cClosed, uClosed} \subseteq BOOLEAN
    /\ pc \in {"sendC", "sendU", "select", "recvC", "recvU", "done"}
    /\ client \in [Streams -> ClientView]
    /\ origin \in [Streams -> OriginView]

\* A provider that answered DEFERRED sleeps until nghttp2_session_resume_data.
\* Whenever one sleeps there is nothing to read: every callback that adds body
\* bytes or the end of a body wakes it (Http2Engine.cpp:201, 221, 238, 243), or
\* has queued HEADERS that end the stream themselves.
EndQueued(q) == q # <<>> /\ q[Len(q)].end
NoLostWakeup ==
    /\ \A c \in Streams : csess[c].prov = "deferred" =>
          /\ str[c].respBody = <<>>
          /\ str[c].respEof => EndQueued(csess[c].q)
    /\ \A u \in Streams : usess[u].prov = "deferred" =>
          Defers(str[byUpstream[u]].reqBody, str[byUpstream[u]].reqEof)

\* br.byUpstream and H2Stream.uid are inverse to each other: an upstream event
\* always finds the one stream whose request it answers, and every stream that
\* nghttp2 knows upstream has an entry.
StreamMapsAgree ==
    /\ \A u \in Streams : byUpstream[u] # 0 =>
          str[byUpstream[u]].uid = u /\ csess[byUpstream[u]].st # "idle"
    /\ \A c \in Streams : str[c].uid # 0 => byUpstream[str[c].uid] = c
    /\ \A u \in Streams : byUpstream[u] = 0 <=> usess[u].st = "idle"

\* The rest of what makes NoLostWakeup inductive: ids are handed out in order,
\* only live streams have a provider, and respEof is set only with the origin's
\* END_STREAM.
Bookkeeping ==
    /\ \A u \in Streams : byUpstream[u] = 0 <=> u >= nextUid
    /\ \A c \in Streams : csess[c].st = "idle" => nextUid <= c
    /\ \A c \in Streams : csess[c].prov # "none" => csess[c].st = "open"
    /\ \A u \in Streams : usess[u].prov # "none" => usess[u].st \in {"pending", "open"}
    /\ \A u \in Streams : byUpstream[u] # 0 /\ str[byUpstream[u]].respEof =>
          usess[u].st = "closed" \/ ~usess[u].rd

BridgeInv == TypeOK /\ StreamMapsAgree /\ Bookkeeping /\ NoLostWakeup

\* Bodies never cross streams and never lose, repeat or reorder a chunk: what a
\* client got is a prefix of what the origin sent for that client's request, and
\* the other way round.
PrefixOf(got, c, sent) == Len(got) <= sent /\ \A i \in 1..Len(got) : got[i] = <<c, i>>
NoCrossTalk ==
    /\ \A c \in Streams : client[c].got # <<>> =>
          /\ str[c].uid # 0 /\ origin[str[c].uid].tag = c
          /\ PrefixOf(client[c].got, c, origin[str[c].uid].sent)
    /\ \A u \in Streams : origin[u].tag # 0 =>
          PrefixOf(origin[u].got, origin[u].tag, client[origin[u].tag].sent)

\* A response that ends for the client has ended at the origin and has arrived
\* whole: no reset, GOAWAY, close or truncation looks like a complete response.
CompleteResponse ==
    \A c \in Streams : client[c].fin = "end" =>
        LET u == str[c].uid IN
        u # 0 /\ origin[u].respEnd /\ Len(client[c].got) = origin[u].sent

\* The same for requests: the origin sees END_STREAM only after the client sent
\* it, with the whole body before it.
CompleteRequest ==
    \A u \in Streams : origin[u].reqEnd =>
        LET c == origin[u].tag IN client[c].ended /\ Len(origin[u].got) = client[c].sent

\* When the loop goes to sleep in select with nothing left to write, it owes no
\* live peer a byte or an end of stream: all it received has been passed on.
Asleep == pc = "select" /\ ~WantWriteC /\ ~WantWriteU
OwesNothing ==
    Asleep =>
      /\ \A c \in Streams : csess[c].st = "open" /\ str[c].uid # 0 /\ ~cClosed =>
            LET o == origin[str[c].uid] IN
            /\ Len(client[c].got) = o.sent
            /\ o.respEnd => client[c].fin = "end"
            /\ o.stage # "none" => client[c].hdrs # <<>>
      /\ \A u \in Streams : usess[u].st = "open" /\ ~uClosed =>
            LET v == client[origin[u].tag] IN
            /\ Len(origin[u].got) = v.sent
            /\ v.ended => origin[u].reqEnd

\* A stream that ends on one side before the response is complete is being
\* ended on the other side too (cb_on_stream_close).
AbortsPropagate ==
    \A c \in Streams :
        LET u == str[c].uid IN
        u # 0 /\ ~str[c].respEof =>
            (csess[c].st = "closed" <=> usess[u].st = "closed")
            \/ csess[c].st = "closing" \/ usess[u].st \in {"closing", "canceled"}

\* The analyzer is called at most once per request, after the client has ended
\* it, with the first Cap chunks of what the client sent.
FirstOf(sent) == IF sent < Cap THEN sent ELSE Cap
AnalyzedOnce ==
    \A c \in Streams :
        /\ PrefixOf(str[c].uploadCap, c, client[c].sent)
        /\ Len(str[c].uploadCap) = FirstOf(client[c].sent)
        /\ str[c].analyzed # <<>> => client[c].ended /\ str[c].analyzed = <<str[c].uploadCap>>

\* Once a stream has ended for the client, by END_STREAM or RST_STREAM, nothing
\* more is delivered on it.
StaysSettled ==
    \A c \in Streams : client[c].fin # "no" =>
        /\ client'[c].fin = client[c].fin
        /\ client'[c].got = client[c].got
        /\ client'[c].hdrs = client[c].hdrs
SettledIsFinal == [][StaysSettled]_vars

\* A request the client has ended, with whatever frame, is ended here and
\* handed to the analyzer.
EndIsHandled ==
    \A c \in Streams : client[c].ended => str[c].reqEof /\ str[c].analyzed # <<>>

\* Every response the origin completes reaches the client's stream, unless the
\* client gave the stream or the connection up, or the bridge ended.
ResponsesArrive ==
    \A c, u \in Streams :
        (origin[u].tag = c /\ origin[u].respEnd)
            ~> (client[c].fin # "no" \/ client[c].reset \/ cClosed \/ pc = "done")

\* Every request body the client ends reaches the origin's stream.
RequestsArrive ==
    \A c, u \in Streams :
        (client[c].ended /\ str[c].uid = u)
            ~> (origin[u].reqEnd \/ usess[u].st = "closed" \/ uClosed \/ pc = "done")
-----------------------------------------------------------------------------
(* Why they hold: what is true of every state, and kept by every step.     *)

\* Nothing has come through a stream before it is open, and the origin knows a
\* request by the client's stream.
Untouched ==
    /\ \A c \in Streams : csess[c].st = "idle" =>
          /\ csess[c] = idleC /\ str[c] = newStream
          /\ client[c].sent = 0 /\ client[c].got = <<>> /\ client[c].fin = "no" /\ ~client[c].ended
    /\ \A u \in Streams :
          /\ usess[u].st \in {"idle", "pending"} => usess[u].rd /\ usess[u].wr /\ origin[u].tag = 0
          /\ usess[u].st = "open" /\ ~uClosed => origin[u].tag # 0
          /\ origin[u].tag # 0 => origin[u].tag = byUpstream[u]
          /\ origin[u].tag = 0 => origin[u].got = <<>> /\ ~origin[u].reqEnd /\ origin[u].stage = "none"
          /\ origin[u].stage \in {"none", "info"} => origin[u].sent = 0 /\ ~origin[u].respEnd

\* The chunks of a body are numbered through from the sender to the receiver:
\* the buffer goes on where the receiver stops, and ends with the last one sent.
\* A receiver that has closed its connection may miss some.
Passes(got, body, c, sent, there) ==
    /\ Len(body) <= sent /\ \A i \in 1..Len(body) : body[i] = <<c, sent - Len(body) + i>>
    /\ PrefixOf(got, c, sent - Len(body))
    /\ there => Len(got) = sent - Len(body)
SentFor(c) == IF str[c].uid = 0 THEN 0 ELSE origin[str[c].uid].sent
Bodies ==
    /\ \A c \in Streams : Passes(client[c].got, str[c].respBody, c, SentFor(c), ~cClosed)
    /\ \A u \in Streams : byUpstream[u] # 0 =>
          LET c == byUpstream[u] IN
          Passes(origin[u].got, str[c].reqBody, c, client[c].sent, ~uClosed)

\* The ends of the bodies: the sender's, the mark in the H2Stream, nghttp2's and
\* the receiver's.
EndsLast(q, eof) == \A i \in 1..Len(q) : q[i].end => i = Len(q) /\ eof
Ends ==
    /\ \A c \in Streams :
          /\ csess[c].st = "open" => (client[c].ended <=> ~csess[c].rd)
          /\ str[c].reqEof => client[c].ended
          /\ str[c].respEof <=> (str[c].uid # 0 /\ origin[str[c].uid].respEnd)
          /\ EndsLast(csess[c].q, str[c].respEof)
          /\ csess[c].st = "open" /\ ~csess[c].wr =>
                str[c].respEof /\ csess[c].q = <<>> /\ csess[c].prov = "none"
          /\ client[c].fin # "no" => csess[c].st = "closed" \/ (csess[c].st = "open" /\ ~csess[c].wr)
    /\ \A u \in Streams :
          /\ usess[u].st = "open" => (origin[u].respEnd <=> ~usess[u].rd)
          /\ usess[u].st \in {"pending", "open"} /\ usess[u].prov = "none" =>
                str[byUpstream[u]].reqEof /\ str[byUpstream[u]].reqBody = <<>>

\* What has left the buffers was passed on: the request headers and its end, the
\* response headers and the end of the response.
PassedOn ==
    /\ \A c \in Streams : csess[c].st = "open" =>
          /\ str[c].uid # 0 /\ csess[c].wr /\ csess[c].prov = "none" /\ csess[c].q = <<>> =>
                origin[str[c].uid].stage = "none"
          /\ ~cClosed /\ ~csess[c].wr => client[c].fin = "end"
          /\ ~cClosed /\ str[c].uid # 0 /\ csess[c].q = <<>> =>
                origin[str[c].uid].stage = "none" \/ client[c].hdrs # <<>>
    /\ \A u \in Streams :
          usess[u].st = "open" /\ usess[u].prov = "none" /\ ~uClosed => origin[u].reqEnd
    /\ "reqTrailers" \notin Peer => \A c \in Streams : client[c].ended => str[c].reqEof

\* Only trailers end a response that has a body with a HEADERS frame.
Untrailed ==
    "trailers" \notin Peer =>
        /\ \A c \in Streams : (\E i \in 1..Len(csess[c].q) : csess[c].q[i].end) => SentFor(c) = 0
        /\ CompleteResponse

PassingInv ==
    /\ BridgeInv
    /\ Untouched /\ Bodies /\ Ends /\ PassedOn /\ Untrailed
    /\ CompleteRequest /\ AnalyzedOnce /\ AbortsPropagate
=============================================================================
