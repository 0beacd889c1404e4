--------------------------- MODULE H2BridgeProofs ---------------------------
(***************************************************************************)
(* BridgeInv is an inductive invariant of the bridge, for every number of  *)
(* streams, body length, capture cap, concurrency limit and behaviour of   *)
(* the peers; NoLostWakeup and StreamMapsAgree are conjuncts of it.        *)
(***************************************************************************)
EXTENDS H2Bridge, SequenceTheorems, TLAPS

-----------------------------------------------------------------------------
(* Bodies.                                                                 *)

LEMMA BodyParts ==
    ASSUME NEW b \in Seq(Chunk), NEW k \in 0..Len(b)
    PROVE  Rest(b, k) \in Seq(Chunk) /\ SubSeq(b, 1, k) \in Seq(Chunk)
<1>1. \A i \in 1..Len(b) : b[i] \in Chunk
  BY ElementOfSeq
<1>2. Len(b) \in Nat
  BY LenProperties
<1>3. Rest(b, k) \in Seq(Chunk)
  BY <1>1, <1>2, SubSeqProperties DEF Rest
<1>4. SubSeq(b, 1, k) \in Seq(Chunk)
  BY <1>1, <1>2, SubSeqProperties
<1> QED BY <1>3, <1>4

LEMMA ReadsBound ==
    ASSUME NEW b \in Seq(Chunk), NEW eof \in BOOLEAN, NEW k \in Reads(b, eof)
    PROVE  k \in 0..Len(b)
BY LenProperties DEF Reads

-----------------------------------------------------------------------------
(* The operations of nghttp2 keep the type of a session.                   *)

LEMMA SessionTypes ==
    ASSUME NEW cs \in [Streams -> CStream], NEW us \in [Streams -> UStream],
           NEW c \in Streams, NEW u \in Streams
    PROVE  /\ ResumeC(cs, c) \in [Streams -> CStream]
           /\ ResumeU(us, u) \in [Streams -> UStream]
           /\ SubmitRstC(cs, c) \in [Streams -> CStream]
           /\ SubmitRstU(us, u) \in [Streams -> UStream]
           /\ ClosedC(cs, c) \in [Streams -> CStream]
           /\ ClosedU(us, u) \in [Streams -> UStream]
<1>1. <<>> \in Seq(HeadersItem)
  BY EmptySeq
<1>2. cs[c] \in CStream /\ us[u] \in UStream
  OBVIOUS
<1>3. ResumeC(cs, c) \in [Streams -> CStream]
  BY <1>2 DEF ResumeC, Resumed, CStream, Provider
<1>4. ResumeU(us, u) \in [Streams -> UStream]
  BY <1>2 DEF ResumeU, Resumed, UStream, Provider
<1>5. SubmitRstC(cs, c) \in [Streams -> CStream]
  BY <1>1, <1>2 DEF SubmitRstC, CStream, Provider
<1>6. SubmitRstU(us, u) \in [Streams -> UStream]
  BY <1>2 DEF SubmitRstU, UStream, Provider
<1>7. ClosedC(cs, c) \in [Streams -> CStream]
  BY <1>1, <1>2 DEF ClosedC, CStream, Provider
<1>8. ClosedU(us, u) \in [Streams -> UStream]
  BY <1>2 DEF ClosedU, UStream, Provider
<1> QED BY <1>3, <1>4, <1>5, <1>6, <1>7, <1>8

LEMMA SubmitResponseType ==
    ASSUME NEW cs \in [Streams -> CStream], NEW c \in Streams,
           NEW hdr \in Seq(Block), NEW hasBody \in BOOLEAN
    PROVE  SubmitResponse(cs, c, hdr, hasBody) \in [Streams -> CStream]
<1> DEFINE item == [hdr |-> hdr, end |-> ~hasBody]
<1>1. item \in HeadersItem
  BY DEF HeadersItem
<1>2. Append(cs[c].q, item) \in Seq(HeadersItem)
  BY <1>1, AppendProperties DEF CStream
<1>3. [cs EXCEPT ![c].q = Append(@, item)] \in [Streams -> CStream]
  <2> HIDE DEF item
  <2>1. [cs[c] EXCEPT !.q = Append(@, item)] \in CStream
    BY <1>2 DEF CStream
  <2> QED BY <2>1
<1>4. SubmitResponse(cs, c, hdr, hasBody) \in {cs, [cs EXCEPT ![c].q = Append(@, item)]}
  BY DEF SubmitResponse
<1> QED BY <1>3, <1>4

LEMMA CallbackTypes ==
    ASSUME TypeOK, NEW c \in Streams
    PROVE  /\ CancelUpstream(usess, str[c]) \in [Streams -> UStream]
           /\ ResetClient(csess, c) \in [Streams -> CStream]
           /\ ResumeU(usess, str[c].uid) \in [Streams -> UStream]
<1>1. str[c].uid \in 0..N /\ Streams = 1..N
  BY DEF TypeOK, H2Stream, Streams
<1>2. CASE str[c].uid = 0
  BY <1>2, SessionTypes DEF TypeOK, CancelUpstream, ResetClient, ResumeU
<1>3. CASE str[c].uid # 0
  <2>1. str[c].uid \in Streams
    BY <1>1, <1>3, ConstantsAssumption
  <2> QED BY <2>1, SessionTypes DEF TypeOK, CancelUpstream, ResetClient
<1> QED BY <1>2, <1>3

-----------------------------------------------------------------------------
(* Type correctness, one lemma per phase of the loop.                      *)

LEMMA SendCTypes ==
    ASSUME TypeOK, SendStepC
    PROVE  TypeOK'
<1> USE DEF TypeOK
<1>1. SUFFICES ASSUME NEW c \in Streams,
                      \/ SendHeadersC(c) \/ SendRstC(c) \/ DeferC(c)
                      \/ \E k \in 0..MaxBody : SendDataC(c, k)
               PROVE  TypeOK'
  BY DEF SendStepC
<1>2. /\ csess[c] \in CStream /\ str[c] \in H2Stream /\ client[c] \in ClientView
  OBVIOUS
<1>3. CASE SendHeadersC(c)
  <2> DEFINE item == Head(csess[c].q)
  <2>1. csess[c].q \in Seq(HeadersItem) /\ csess[c].q # <<>>
    BY <1>2, <1>3 DEF SendHeadersC, CStream
  <2>2. item \in HeadersItem /\ Tail(csess[c].q) \in Seq(HeadersItem)
    BY <2>1, HeadTailProperties
  <2>3. HeadersSent(csess[c], item.end) \in CStream
    BY <1>2, <2>2 DEF HeadersSent, CStream, Provider, HeadersItem
  <2>4. ClosedC(csess, c) \in [Streams -> CStream]
    BY SessionTypes
  <2>5. csess' \in [Streams -> CStream]
    BY <1>3, <2>3, <2>4 DEF SendHeadersC
  <2>6. Append(client[c].hdrs, item.hdr) \in Seq(Seq(Block))
    BY <1>2, <2>2, AppendProperties DEF ClientView, HeadersItem
  <2>7. client' \in [Streams -> ClientView]
    BY <1>2, <1>3, <2>6 DEF SendHeadersC, ToClient, ClientView
  <2> QED BY <1>3, <2>5, <2>7 DEF SendHeadersC
<1>4. CASE SendRstC(c)
  <2>1. csess' \in [Streams -> CStream] /\ usess' \in [Streams -> UStream]
    BY <1>4, SessionTypes, CallbackTypes DEF SendRstC
  <2>2. client' \in [Streams -> ClientView]
    BY <1>2, <1>4 DEF SendRstC, ToClient, ClientView
  <2> QED BY <1>4, <2>1, <2>2 DEF SendRstC
<1>5. CASE DeferC(c)
  <2>1. csess' \in [Streams -> CStream]
    BY <1>2, <1>5 DEF DeferC, CStream, Provider
  <2> QED BY <1>5, <2>1 DEF DeferC
<1>6. CASE \E k \in 0..MaxBody : SendDataC(c, k)
  <2>1. PICK k \in 0..MaxBody : SendDataC(c, k)
    BY <1>6
  <2>2. k \in 0..Len(str[c].respBody)
    BY <1>2, <2>1, ReadsBound DEF SendDataC, H2Stream
  <2>3. /\ Rest(str[c].respBody, k) \in Seq(Chunk)
        /\ SubSeq(str[c].respBody, 1, k) \in Seq(Chunk)
    BY <1>2, <2>2, BodyParts DEF H2Stream
  <2>4. str' \in [Streams -> H2Stream]
    BY <1>2, <2>1, <2>3 DEF SendDataC, H2Stream
  <2>5. ReadsEof(str[c].respBody, str[c].respEof, k) \in BOOLEAN
    BY <1>2 DEF ReadsEof, H2Stream
  <2>6. csess' \in [Streams -> CStream]
    BY <1>2, <2>1, <2>5, SessionTypes, ZenonT(60) DEF SendDataC, CStream, Provider
  <2>7. client[c].got \o SubSeq(str[c].respBody, 1, k) \in Seq(Chunk)
    BY <1>2, <2>3, ConcatProperties DEF ClientView
  <2>8. client' \in [Streams -> ClientView]
    BY <1>2, <2>1, <2>7 DEF SendDataC, ToClient, ClientView
  <2> QED BY <2>1, <2>4, <2>6, <2>8 DEF SendDataC
<1> QED BY <1>1, <1>3, <1>4, <1>5, <1>6

LEMMA SendUTypes ==
    ASSUME TypeOK, StreamMapsAgree, SendStepU
    PROVE  TypeOK'
<1> USE DEF TypeOK
<1>1. SUFFICES ASSUME NEW u \in Streams,
                      \/ SendRstU(u) \/ SendHeadersU(u) \/ DropHeadersU(u) \/ DeferU(u)
                      \/ \E k \in 0..MaxBody : SendDataU(u, k)
               PROVE  TypeOK'
  BY DEF SendStepU
<1> DEFINE c == byUpstream[u]
<1>2. usess[u] \in UStream /\ origin[u] \in OriginView /\ c \in 0..N
  OBVIOUS
<1>3. usess[u].st # "idle" => c \in Streams
  BY <1>2, ConstantsAssumption DEF StreamMapsAgree, Streams
<1>4. usess[u].st # "idle" => str[c] \in H2Stream
  BY <1>3
<1>5. CASE SendRstU(u)
  <2>1. usess' \in [Streams -> UStream] /\ csess' \in [Streams -> CStream]
    BY <1>3, <1>5, SessionTypes, CallbackTypes DEF SendRstU
  <2>2. origin' \in [Streams -> OriginView]
    BY <1>2, <1>5 DEF SendRstU, ToOrigin, OriginView
  <2> QED BY <1>5, <2>1, <2>2 DEF SendRstU
<1>6. CASE SendHeadersU(u)
  <2>1. usess' \in [Streams -> UStream]
    BY <1>2, <1>6 DEF SendHeadersU, UStream
  <2>2. origin' \in [Streams -> OriginView]
    BY <1>2, <1>6 DEF SendHeadersU, ToOrigin, OriginView
  <2> QED BY <1>6, <2>1, <2>2 DEF SendHeadersU
<1>7. CASE DropHeadersU(u)
  <2>1. usess' \in [Streams -> UStream] /\ csess' \in [Streams -> CStream]
    BY <1>3, <1>7, SessionTypes, CallbackTypes DEF DropHeadersU, HeadersTurnU
  <2> QED BY <1>7, <2>1 DEF DropHeadersU
<1>8. CASE DeferU(u)
  <2>1. usess' \in [Streams -> UStream]
    BY <1>2, <1>8 DEF DeferU, UStream, Provider
  <2> QED BY <1>8, <2>1 DEF DeferU
<1>9. CASE \E k \in 0..MaxBody : SendDataU(u, k)
  <2>1. PICK k \in 0..MaxBody : SendDataU(u, k)
    BY <1>9
  <2>2. c \in Streams /\ str[c] \in H2Stream
    BY <1>3, <1>4, <2>1 DEF SendDataU, DataTurnU
  <2>3. k \in 0..Len(str[c].reqBody)
    BY <2>1, <2>2, ReadsBound DEF SendDataU, H2Stream
  <2>4. /\ Rest(str[c].reqBody, k) \in Seq(Chunk)
        /\ SubSeq(str[c].reqBody, 1, k) \in Seq(Chunk)
    BY <2>2, <2>3, BodyParts DEF H2Stream
  <2>5. str' \in [Streams -> H2Stream]
    BY <2>1, <2>2, <2>4 DEF SendDataU, H2Stream
  <2>6. ReadsEof(str[c].reqBody, str[c].reqEof, k) \in BOOLEAN
    BY <2>2 DEF ReadsEof, H2Stream
  <2>7. usess' \in [Streams -> UStream]
    BY <1>2, <2>1, <2>6, SessionTypes, ZenonT(60) DEF SendDataU, UStream, Provider
  <2>8. origin[u].got \o SubSeq(str[c].reqBody, 1, k) \in Seq(Chunk)
    BY <1>2, <2>4, ConcatProperties DEF OriginView
  <2>9. origin' \in [Streams -> OriginView]
    BY <1>2, <2>1, <2>6, <2>8 DEF SendDataU, ToOrigin, OriginView
  <2> QED BY <2>1, <2>5, <2>7, <2>9 DEF SendDataU
<1> QED BY <1>1, <1>5, <1>6, <1>7, <1>8, <1>9

LEMMA RecvCTypes ==
    ASSUME TypeOK, Bookkeeping, RecvStepC
    PROVE  TypeOK'
<1> USE DEF TypeOK
<1>1. CASE \E c \in Streams, end, submitted \in BOOLEAN : ClientHeaders(c, end, submitted)
  <2>1. PICK c \in Streams, end \in BOOLEAN, submitted \in BOOLEAN :
               ClientHeaders(c, end, submitted)
    BY <1>1
  <2>0. csess[c] \in CStream /\ client[c] \in ClientView
    OBVIOUS
  <2>2. nextUid <= c /\ nextUid \in Streams
    BY <2>1, ConstantsAssumption DEF ClientHeaders, NextStream, Bookkeeping, Streams
  <2>3. <<>> \in Seq(Chunk) /\ <<>> \in Seq(Block) /\ <<>> \in Seq(Seq(Chunk))
    BY EmptySeq
  <2>4. << <<>> >> \in Seq(Seq(Chunk))
    BY <2>3
  <2>5. [newStream EXCEPT !.uid = UidAfter(submitted), !.reqEof = end,
                          !.analyzed = IF end THEN << <<>> >> ELSE <<>>] \in H2Stream
    <3>1. UidAfter(submitted) \in 0..N
      BY <2>2, ConstantsAssumption DEF UidAfter, Streams
    <3>2. (IF end THEN << <<>> >> ELSE <<>>) \in Seq(Seq(Chunk))
      BY <2>3, <2>4
    <3> QED BY <2>3, <3>1, <3>2 DEF newStream, H2Stream
  <2>6. str' \in [Streams -> H2Stream]
    BY <2>1, <2>5 DEF ClientHeaders
  <2>7. csess' \in [Streams -> CStream]
    BY <2>0, <2>1 DEF ClientHeaders, CStream
  <2>8. byUpstream' \in [Streams -> 0..N] /\ nextUid' \in 1..(N + 1)
    <3>1. c \in 0..N /\ nextUid + 1 \in 1..(N + 1)
      BY <2>2, ConstantsAssumption DEF Streams
    <3> QED BY <2>1, <2>2, <3>1 DEF ClientHeaders
  <2>9. usess' \in [Streams -> UStream]
    BY <2>1, <2>2, SMTT(60) DEF ClientHeaders, UStream, Provider
  <2>10. client' \in [Streams -> ClientView]
    BY <2>0, <2>1 DEF ClientHeaders, ClientView
  <2> QED BY <2>1, <2>6, <2>7, <2>8, <2>9, <2>10 DEF ClientHeaders
<1>2. CASE \E c \in Streams, n \in {0, 1}, end \in BOOLEAN : ClientData(c, n, end)
  <2>1. PICK c \in Streams, n \in {0, 1}, end \in BOOLEAN : ClientData(c, n, end)
    BY <1>2
  <2>2. str[c] \in H2Stream /\ csess[c] \in CStream /\ client[c] \in ClientView
    OBVIOUS
  <2> DEFINE x == <<c, client[c].sent + 1>>
             s == IF n = 1 THEN AppendReq(str[c], x) ELSE str[c]
  <2>3. x \in Chunk
    BY <2>2, ConstantsAssumption DEF Chunk, ClientView, Streams
  <2>4. /\ Append(str[c].reqBody, x) \in Seq(Chunk)
        /\ Append(str[c].uploadCap, x) \in Seq(Chunk)
    BY <2>2, <2>3, AppendProperties DEF H2Stream
  <2>5. s \in H2Stream
    BY <2>2, <2>4 DEF AppendReq, H2Stream
  <2>6. EndReq(s) \in H2Stream
    <3>1. Append(s.analyzed, s.uploadCap) \in Seq(Seq(Chunk))
      BY <2>5, AppendProperties DEF H2Stream
    <3> HIDE DEF s
    <3> QED BY <2>5, <3>1 DEF EndReq, H2Stream
  <2>7. str' \in [Streams -> H2Stream]
    BY <2>1, <2>5, <2>6 DEF ClientData
  <2>8. csess' \in [Streams -> CStream]
    BY <2>1, <2>2, SessionTypes DEF ClientData, CStream
  <2>9. usess' \in [Streams -> UStream]
    BY <2>1, CallbackTypes DEF ClientData
  <2>10. client' \in [Streams -> ClientView]
    <3>1. client[c].sent + n \in Nat
      BY <2>2 DEF ClientView
    <3> QED BY <2>1, <2>2, <3>1 DEF ClientData, ClientView
  <2> QED BY <2>1, <2>7, <2>8, <2>9, <2>10 DEF ClientData
<1>3. CASE \E c \in Streams : ClientTrailers(c)
  <2>1. PICK c \in Streams : ClientTrailers(c)
    BY <1>3
  <2>2. csess' \in [Streams -> CStream] /\ client' \in [Streams -> ClientView]
    <3>1. csess[c] \in CStream /\ client[c] \in ClientView
      OBVIOUS
    <3>2. csess' \in [Streams -> CStream]
      BY <2>1, <3>1, SessionTypes DEF ClientTrailers, CStream
    <3>3. client' \in [Streams -> ClientView]
      BY <2>1, <3>1 DEF ClientTrailers, ClientView
    <3> QED BY <3>2, <3>3
  <2> QED BY <2>1, <2>2 DEF ClientTrailers
<1>4. CASE \E c \in Streams : ClientRst(c)
  <2>1. PICK c \in Streams : ClientRst(c)
    BY <1>4
  <2>2. csess' \in [Streams -> CStream] /\ usess' \in [Streams -> UStream]
    BY <2>1, SessionTypes, CallbackTypes DEF ClientRst
  <2>3. client' \in [Streams -> ClientView]
    BY <2>1, ZenonT(60) DEF ClientRst, ClientView
  <2> QED BY <2>1, <2>2, <2>3 DEF ClientRst
<1>5. CASE ClientGoaway
  BY <1>5 DEF ClientGoaway
<1>6. CASE ClientEof
  BY <1>6 DEF ClientEof
<1> QED BY <1>1, <1>2, <1>3, <1>4, <1>5, <1>6 DEF RecvStepC

LEMMA RecvUTypes ==
    ASSUME TypeOK, StreamMapsAgree, RecvStepU
    PROVE  TypeOK'
<1> USE DEF TypeOK
<1>1. ASSUME NEW u \in Streams, usess[u].st # "idle"
      PROVE  /\ byUpstream[u] \in Streams /\ str[byUpstream[u]] \in H2Stream
             /\ usess[u] \in UStream /\ origin[u] \in OriginView
  BY <1>1, ConstantsAssumption DEF StreamMapsAgree, Streams
<1>2. CASE \E u \in Streams, kind \in Block, end \in BOOLEAN : OriginHeaders(u, kind, end)
  <2>1. PICK u \in Streams, kind \in Block, end \in BOOLEAN : OriginHeaders(u, kind, end)
    BY <1>2
  <2> DEFINE c == byUpstream[u]
             s == [str[c] EXCEPT !.respHdr = Append(@, kind), !.respEof = @ \/ end]
  <2>2. c \in Streams /\ str[c] \in H2Stream /\ usess[u] \in UStream /\ origin[u] \in OriginView
    BY <1>1, <2>1 DEF OriginHeaders, OriginMaySend
  <2>3. Append(str[c].respHdr, kind) \in Seq(Block)
    BY <2>2, AppendProperties DEF H2Stream
  <2>4. s \in H2Stream /\ s.respHdr \in Seq(Block)
    BY <2>2, <2>3 DEF H2Stream
  <2>5. str' \in [Streams -> H2Stream]
    BY <2>1, <2>2, <2>4 DEF OriginHeaders
  <2>6. csess' \in [Streams -> CStream]
    BY <2>1, <2>2, <2>4, SubmitResponseType DEF OriginHeaders
  <2>7. usess' \in [Streams -> UStream]
    BY <2>1, <2>2, SessionTypes DEF OriginHeaders, UStream
  <2>8. origin' \in [Streams -> OriginView]
    BY <2>1, <2>2 DEF OriginHeaders, OriginView, Block
  <2> QED BY <2>1, <2>5, <2>6, <2>7, <2>8 DEF OriginHeaders
<1>3. CASE \E u \in Streams, n \in {0, 1}, end \in BOOLEAN : OriginData(u, n, end)
  <2>1. PICK u \in Streams, n \in {0, 1}, end \in BOOLEAN : OriginData(u, n, end)
    BY <1>3
  <2> DEFINE c == byUpstream[u]
             x == <<origin[u].tag, origin[u].sent + 1>>
  <2>2. c \in Streams /\ str[c] \in H2Stream /\ usess[u] \in UStream /\ origin[u] \in OriginView
    BY <1>1, <2>1 DEF OriginData, OriginMaySend
  <2>3. x \in Chunk
    BY <2>1, <2>2 DEF Chunk, OriginView
  <2>4. Append(str[c].respBody, x) \in Seq(Chunk)
    BY <2>2, <2>3, AppendProperties DEF H2Stream
  <2>5. str' \in [Streams -> H2Stream]
    BY <2>1, <2>2, <2>4 DEF OriginData, H2Stream
  <2>6. csess' \in [Streams -> CStream]
    BY <2>1, <2>2, SessionTypes DEF OriginData
  <2>7. usess' \in [Streams -> UStream]
    BY <2>1, <2>2, SessionTypes DEF OriginData, UStream
  <2>8. origin' \in [Streams -> OriginView]
    <3>1. origin[u].sent + n \in Nat
      BY <2>2 DEF OriginView
    <3> QED BY <2>1, <2>2, <3>1 DEF OriginData, OriginView
  <2> QED BY <2>1, <2>5, <2>6, <2>7, <2>8 DEF OriginData
<1>4. CASE \E u \in Streams : OriginRst(u)
  <2>1. PICK u \in Streams : OriginRst(u)
    BY <1>4
  <2>2. byUpstream[u] \in Streams
    BY <1>1, <2>1 DEF OriginRst
  <2>3. csess' \in [Streams -> CStream] /\ usess' \in [Streams -> UStream]
    BY <2>1, <2>2, SessionTypes, CallbackTypes DEF OriginRst
  <2>4. origin' \in [Streams -> OriginView]
    <3>1. origin[u] \in OriginView
      OBVIOUS
    <3> QED BY <2>1, <3>1 DEF OriginRst, OriginView
  <2> QED BY <2>1, <2>3, <2>4 DEF OriginRst
<1>5. CASE \E last \in 0..N : OriginGoaway(last)
  <2>1. PICK last \in 0..N : OriginGoaway(last)
    BY <1>5
  <2>2. \A u \in Streams : ClosedU(usess, u)[u] \in UStream
    BY SessionTypes
  <2>3. \A c \in Streams : ResetClient(csess, c)[c] \in CStream
    BY CallbackTypes
  <2>4. usess' \in [Streams -> UStream] /\ csess' \in [Streams -> CStream]
    BY <2>1, <2>2, <2>3 DEF OriginGoaway
  <2> QED BY <2>1, <2>4 DEF OriginGoaway
<1>6. CASE OriginEof
  BY <1>6 DEF OriginEof
<1> QED BY <1>2, <1>3, <1>4, <1>5, <1>6 DEF RecvStepU

LEMMA GotoFrame ==
    ASSUME NEW from, NEW to \in {"sendC", "sendU", "select", "recvC", "recvU", "done"},
           Goto(from, to)
    PROVE  /\ TypeOK => TypeOK'
           /\ Bookkeeping => Bookkeeping'
           /\ StreamMapsAgree => StreamMapsAgree'
           /\ NoLostWakeup => NoLostWakeup'
BY DEF Goto, TypeOK, Bookkeeping, StreamMapsAgree, NoLostWakeup

-----------------------------------------------------------------------------
(* What the operations of nghttp2 do to one stream of a session.           *)

SameOrClosed(n, o) == n = o \/ (n.st = "closed" /\ n.prov = "none" /\ o.st # "idle")
SameOrAborting(n, o) ==
    n = o \/ (n.st \in {"closing", "canceled"} /\ n.prov = "none" /\ n.rd = o.rd
                /\ o.st \in {"pending", "open"})

LEMMA ClosedEffect ==
    ASSUME TypeOK, NEW d \in Streams, NEW c \in Streams
    PROVE  /\ d # c => ClosedC(csess, c)[d] = csess[d] /\ ClosedU(usess, c)[d] = usess[d]
           /\ ClosedC(csess, c)[c].st = "closed" /\ ClosedC(csess, c)[c].prov = "none"
           /\ ClosedU(usess, c)[c].st = "closed" /\ ClosedU(usess, c)[c].prov = "none"
<1>1. csess[c] \in CStream /\ usess[c] \in UStream
  BY DEF TypeOK
<1> QED BY <1>1 DEF TypeOK, ClosedC, ClosedU, CStream, UStream

LEMMA ResetEffect ==
    ASSUME TypeOK, NEW c \in Streams, NEW d \in Streams
    PROVE  SameOrAborting(ResetClient(csess, c)[d], csess[d])
<1>1. csess[c] \in CStream
  BY DEF TypeOK
<1>2. CASE ResetClient(csess, c) = csess
  BY <1>2 DEF SameOrAborting
<1>3. CASE ResetClient(csess, c) # csess
  <2> DEFINE n == [csess EXCEPT ![c].st = "closing", ![c].prov = "none", ![c].q = <<>>]
  <2>1. csess[c].st = "open" /\ ResetClient(csess, c) = n
    BY <1>3 DEF ResetClient, SubmitRstC
  <2>2. n[d] = csess[d] \/ (d = c /\ n[d].st = "closing" /\ n[d].prov = "none"
                                 /\ n[d].rd = csess[d].rd)
    BY <1>1 DEF TypeOK, CStream
  <2> QED BY <2>1, <2>2 DEF SameOrAborting
<1> QED BY <1>2, <1>3

LEMMA CancelEffect ==
    ASSUME TypeOK, NEW c \in Streams, NEW v \in Streams
    PROVE  SameOrAborting(CancelUpstream(usess, str[c])[v], usess[v])
<1> DEFINE u == str[c].uid
<1>1. CASE CancelUpstream(usess, str[c]) = usess
  BY <1>1 DEF SameOrAborting
<1>2. CASE CancelUpstream(usess, str[c]) # usess
  <2>1. u \in Streams
    BY <1>2, ConstantsAssumption DEF CancelUpstream, TypeOK, H2Stream, Streams
  <2>2. usess[u] \in UStream
    BY <2>1 DEF TypeOK
  <2>3. CancelUpstream(usess, str[c]) = SubmitRstU(usess, u)
    BY <1>2 DEF CancelUpstream
  <2>4. CASE usess[u].st = "pending"
    <3> DEFINE n == [usess EXCEPT ![u].st = "canceled", ![u].prov = "none"]
    <3>1. n[v] = usess[v] \/ (v = u /\ n[v].st = "canceled" /\ n[v].prov = "none"
                                   /\ n[v].rd = usess[v].rd)
      BY <2>1, <2>2 DEF TypeOK, UStream
    <3> QED BY <2>3, <2>4, <3>1 DEF SubmitRstU, SameOrAborting
  <2>5. CASE usess[u].st = "open"
    <3> DEFINE n == [usess EXCEPT ![u].st = "closing", ![u].prov = "none"]
    <3>1. n[v] = usess[v] \/ (v = u /\ n[v].st = "closing" /\ n[v].prov = "none"
                                   /\ n[v].rd = usess[v].rd)
      BY <2>1, <2>2 DEF TypeOK, UStream
    <3> QED BY <2>3, <2>5, <3>1 DEF SubmitRstU, SameOrAborting
  <2> QED BY <1>2, <2>3, <2>4, <2>5 DEF SubmitRstU
<1> QED BY <1>1, <1>2

LEMMA ResumeEffect ==
    ASSUME TypeOK, NEW c \in Streams, NEW d \in Streams, NEW u \in 0..N
    PROVE  /\ ResumeC(csess, c)[d] =
                 [csess[d] EXCEPT !.prov = IF d = c THEN Resumed(@) ELSE @]
           /\ ResumeU(usess, u)[d] =
                 [usess[d] EXCEPT !.prov = IF d = u THEN Resumed(@) ELSE @]
<1>1. csess[d] \in CStream /\ usess[d] \in UStream /\ 0 \notin Streams
  BY ConstantsAssumption DEF TypeOK, Streams
<1> QED BY <1>1 DEF TypeOK, ResumeC, ResumeU, CStream, UStream

-----------------------------------------------------------------------------
(* Every step but the opening of a stream leaves the maps alone; what it   *)
(* must establish is collected in StepFacts.                               *)

Strengthening == StreamMapsAgree /\ Bookkeeping /\ NoLostWakeup

StepFacts ==
    /\ byUpstream' = byUpstream /\ nextUid' = nextUid
    /\ \A c \in Streams :
          /\ str'[c].uid = str[c].uid
          /\ csess'[c].st = "idle" <=> csess[c].st = "idle"
          /\ csess'[c].prov # "none" => csess'[c].st = "open"
    /\ \A u \in Streams :
          /\ usess'[u].st = "idle" <=> usess[u].st = "idle"
          /\ usess'[u].prov # "none" => usess'[u].st \in {"pending", "open"}
          /\ byUpstream[u] # 0 /\ str'[byUpstream[u]].respEof =>
                usess'[u].st = "closed" \/ ~usess'[u].rd
    /\ NoLostWakeup'

\* An entry of the upstream map names a client stream.
LEMMA UpstreamOwner ==
    ASSUME byUpstream \in [Streams -> 0..N]
    PROVE  \A u \in Streams : byUpstream[u] # 0 => byUpstream[u] \in Streams
BY ConstantsAssumption DEF Streams

LEMMA Strengthened ==
    ASSUME BridgeInv, StepFacts
    PROVE  Strengthening'
<1>1. \A u \in Streams : byUpstream[u] # 0 => byUpstream[u] \in Streams
  BY ConstantsAssumption DEF BridgeInv, TypeOK, Streams
<1>2. ASSUME NEW c \in Streams, str[c].uid # 0
      PROVE  str[c].uid \in Streams
  <2>1. str[c] \in H2Stream
    BY DEF BridgeInv, TypeOK
  <2> QED BY <1>2, <2>1, ConstantsAssumption DEF H2Stream, Streams
<1>3. StreamMapsAgree'
  BY <1>1, <1>2 DEF BridgeInv, StepFacts, StreamMapsAgree
<1>4. Bookkeeping'
  BY DEF BridgeInv, StepFacts, Bookkeeping
<1> QED BY <1>3, <1>4 DEF Strengthening, StepFacts

LEMMA SendRstCKeeps ==
    ASSUME BridgeInv, NEW c \in Streams, SendRstC(c)
    PROVE  Strengthening'
<1>1. TypeOK /\ StreamMapsAgree /\ Bookkeeping /\ NoLostWakeup
  BY DEF BridgeInv
<1>2. \A d \in Streams : SameOrClosed(csess'[d], csess[d])
  BY <1>1, ClosedEffect DEF SendRstC, SameOrClosed
<1>3. \A v \in Streams : SameOrAborting(usess'[v], usess[v])
  BY <1>1, CancelEffect DEF SendRstC
<1>4. NoLostWakeup'
  BY <1>1, <1>2, <1>3 DEF NoLostWakeup, SendRstC, SameOrClosed, SameOrAborting
<1>5. StepFacts
  BY <1>1, <1>2, <1>3, <1>4 DEF StepFacts, Bookkeeping, SendRstC, SameOrClosed, SameOrAborting
<1> QED BY <1>5, Strengthened

LEMMA SendHeadersCKeeps ==
    ASSUME BridgeInv, NEW c \in Streams, SendHeadersC(c)
    PROVE  Strengthening'
<1>1. TypeOK /\ StreamMapsAgree /\ Bookkeeping /\ NoLostWakeup
  BY DEF BridgeInv
<1> DEFINE q == csess[c].q
           item == Head(q)
<1>2. csess[c] \in CStream /\ q \in Seq(HeadersItem) /\ q # <<>>
  BY <1>1 DEF TypeOK, CStream, SendHeadersC
<1>3. \A d \in Streams : d # c => csess'[d] = csess[d]
  BY <1>1, <1>2, ClosedEffect DEF TypeOK, SendHeadersC
<1>4. \/ csess'[c].st = "closed" /\ csess'[c].prov = "none"
      \/ /\ csess'[c].st = "open" /\ csess'[c].q = Tail(q)
         /\ csess'[c].prov = "deferred" => csess[c].prov = "deferred" /\ ~item.end
  <2>1. CASE item.end /\ ~csess[c].rd
    BY <1>1, <2>1, ClosedEffect DEF SendHeadersC
  <2>2. CASE ~(item.end /\ ~csess[c].rd)
    BY <1>1, <1>2, <2>2 DEF TypeOK, SendHeadersC, HeadersSent, CStream
  <2> QED BY <2>1, <2>2
<1>5. EndQueued(q) /\ ~item.end => EndQueued(Tail(q))
  <2>1. ASSUME EndQueued(q), ~item.end PROVE EndQueued(Tail(q))
    <3>1. Len(q) \in Nat \ {0} /\ item = q[1]
      BY <1>2, EmptySeq
    <3>2. Len(q) # 1
      BY <2>1, <3>1 DEF EndQueued
    <3>3. /\ Len(Tail(q)) = Len(q) - 1
          /\ \A i \in 1..Len(Tail(q)) : Tail(q)[i] = q[i + 1]
      BY <1>2, HeadTailProperties
    <3> HIDE DEF q, item
    <3>4. Len(Tail(q)) \in 1..Len(Tail(q)) /\ Len(Tail(q)) + 1 = Len(q)
      BY <3>1, <3>2, <3>3
    <3>5. Tail(q)[Len(Tail(q))] = q[Len(q)]
      BY <3>3, <3>4
    <3>6. Tail(q) # <<>>
      <4>1. SUFFICES ASSUME Tail(q) = <<>> PROVE FALSE
        OBVIOUS
      <4>2. Len(Tail(q)) = 0
        BY <4>1, EmptySeq
      <4>3. Len(q) - 1 = 0
        BY <3>3, <4>2, Zenon
      <4> QED BY <3>1, <3>2, <4>3
    <3> QED BY <2>1, <3>5, <3>6 DEF EndQueued
  <2> QED BY <2>1
<1>6. NoLostWakeup'
  BY <1>1, <1>3, <1>4, <1>5 DEF NoLostWakeup, SendHeadersC
<1>7. StepFacts
  BY <1>1, <1>3, <1>4, <1>6, ZenonT(60) DEF StepFacts, Bookkeeping, SendHeadersC
<1> QED BY <1>7, Strengthened

LEMMA SendDataCKeeps ==
    ASSUME BridgeInv, NEW c \in Streams, NEW k \in 0..MaxBody, SendDataC(c, k)
    PROVE  Strengthening'
<1>1. TypeOK /\ StreamMapsAgree /\ Bookkeeping /\ NoLostWakeup
  BY DEF BridgeInv
<1>2. csess[c] \in CStream /\ csess[c].st = "open" /\ csess[c].prov = "ready"
  BY <1>1 DEF TypeOK, SendDataC, DataTurnC
<1>3. \A d \in Streams : d # c => csess'[d] = csess[d]
  BY <1>1, <1>2, ClosedEffect DEF TypeOK, SendDataC
<1>4. /\ csess'[c].st \in {"open", "closed"} /\ csess'[c].prov # "deferred"
      /\ csess'[c].st = "closed" => csess'[c].prov = "none"
  <2> DEFINE end == ReadsEof(str[c].respBody, str[c].respEof, k)
  <2>1. CASE end /\ ~csess[c].rd
    BY <1>1, <2>1, ClosedEffect DEF SendDataC
  <2>2. CASE ~(end /\ ~csess[c].rd)
    BY <1>1, <1>2, <2>2 DEF TypeOK, SendDataC, CStream
  <2> QED BY <2>1, <2>2
<1>5. \A d \in Streams :
          /\ d # c => str'[d] = str[d]
          /\ str'[d].uid = str[d].uid /\ str'[d].respEof = str[d].respEof
          /\ str'[d].reqBody = str[d].reqBody /\ str'[d].reqEof = str[d].reqEof
  BY <1>1 DEF TypeOK, SendDataC, H2Stream
<1>6. \A u \in Streams : byUpstream[u] # 0 => byUpstream[u] \in Streams
  BY <1>1, UpstreamOwner DEF TypeOK
<1>7. \A u \in Streams : usess[u].prov = "deferred" => byUpstream[u] # 0
  BY <1>1 DEF StreamMapsAgree, Bookkeeping
<1>8. byUpstream' = byUpstream /\ nextUid' = nextUid /\ usess' = usess
  BY DEF SendDataC
<1>9. NoLostWakeup'
  <2>1. ASSUME NEW d \in Streams, csess'[d].prov = "deferred"
        PROVE  str'[d].respBody = <<>> /\ (str'[d].respEof => EndQueued(csess'[d].q))
    <3>1. d # c
      BY <1>4, <2>1
    <3> QED BY <1>1, <1>3, <1>5, <2>1, <3>1 DEF NoLostWakeup
  <2>2. ASSUME NEW v \in Streams, usess[v].prov = "deferred"
        PROVE  Defers(str'[byUpstream[v]].reqBody, str'[byUpstream[v]].reqEof)
    BY <1>1, <1>5, <1>6, <1>7, <2>2 DEF NoLostWakeup
  <2> QED BY <1>8, <2>1, <2>2 DEF NoLostWakeup
<1>10. StepFacts
  BY <1>1, <1>2, <1>3, <1>4, <1>5, <1>6, <1>8, <1>9 DEF StepFacts, Bookkeeping
<1> QED BY <1>10, Strengthened

LEMMA DeferCKeeps ==
    ASSUME BridgeInv, NEW c \in Streams, DeferC(c)
    PROVE  Strengthening'
<1>1. TypeOK /\ StreamMapsAgree /\ Bookkeeping /\ NoLostWakeup
  BY DEF BridgeInv
<1>2. csess[c] \in CStream
  BY <1>1 DEF TypeOK
<1>3. \A d \in Streams :
          IF d = c THEN csess'[d].st = "open" /\ csess'[d].prov = "deferred"
          ELSE csess'[d] = csess[d]
  BY <1>1, <1>2 DEF TypeOK, DeferC, DataTurnC, CStream
<1>4. NoLostWakeup'
  BY <1>1, <1>3 DEF NoLostWakeup, DeferC, Defers
<1>5. StepFacts
  BY <1>1, <1>3, <1>4 DEF StepFacts, Bookkeeping, DeferC, DataTurnC
<1> QED BY <1>5, Strengthened

LEMMA SendRstUKeeps ==
    ASSUME BridgeInv, NEW u \in Streams, SendRstU(u) \/ DropHeadersU(u) \/ OriginRst(u)
    PROVE  Strengthening'
<1>1. TypeOK /\ StreamMapsAgree /\ Bookkeeping /\ NoLostWakeup
  BY DEF BridgeInv
<1>2. byUpstream[u] \in Streams
  BY <1>1, ConstantsAssumption
     DEF TypeOK, StreamMapsAgree, SendRstU, DropHeadersU, HeadersTurnU, OriginRst, Streams
<1>3. \A v \in Streams : SameOrClosed(usess'[v], usess[v])
  BY <1>1, ClosedEffect DEF SendRstU, DropHeadersU, HeadersTurnU, OriginRst, SameOrClosed
<1>4. \A d \in Streams : SameOrAborting(csess'[d], csess[d])
  BY <1>1, <1>2, ResetEffect DEF SendRstU, DropHeadersU, OriginRst
<1>5. str' = str /\ byUpstream' = byUpstream /\ nextUid' = nextUid
  BY DEF SendRstU, DropHeadersU, OriginRst
<1>6. NoLostWakeup'
  BY <1>1, <1>3, <1>4, <1>5 DEF NoLostWakeup, SameOrClosed, SameOrAborting
<1>7. StepFacts
  BY <1>1, <1>3, <1>4, <1>5, <1>6 DEF StepFacts, Bookkeeping, SameOrClosed, SameOrAborting
<1> QED BY <1>7, Strengthened

LEMMA SendHeadersUKeeps ==
    ASSUME BridgeInv, NEW u \in Streams, SendHeadersU(u)
    PROVE  Strengthening'
<1>1. TypeOK /\ StreamMapsAgree /\ Bookkeeping /\ NoLostWakeup
  BY DEF BridgeInv
<1>2. usess[u] \in UStream
  BY <1>1 DEF TypeOK
<1>3. \A v \in Streams :
          IF v = u THEN /\ usess'[v].st = "open" /\ usess'[v].prov = usess[v].prov
                        /\ usess'[v].rd = usess[v].rd
          ELSE usess'[v] = usess[v]
  BY <1>1, <1>2 DEF TypeOK, SendHeadersU, UStream
<1>4. NoLostWakeup'
  BY <1>1, <1>3 DEF NoLostWakeup, SendHeadersU
<1>5. StepFacts
  BY <1>1, <1>3, <1>4 DEF StepFacts, Bookkeeping, SendHeadersU
<1> QED BY <1>5, Strengthened

LEMMA DeferUKeeps ==
    ASSUME BridgeInv, NEW u \in Streams, DeferU(u)
    PROVE  Strengthening'
<1>1. TypeOK /\ StreamMapsAgree /\ Bookkeeping /\ NoLostWakeup
  BY DEF BridgeInv
<1>2. usess[u] \in UStream
  BY <1>1 DEF TypeOK
<1>3. \A v \in Streams :
          IF v = u THEN /\ usess'[v].st = "open" /\ usess'[v].prov = "deferred"
                        /\ usess'[v].rd = usess[v].rd
          ELSE usess'[v] = usess[v]
  BY <1>1, <1>2 DEF TypeOK, DeferU, DataTurnU, UStream
<1>4. NoLostWakeup'
  BY <1>1, <1>3 DEF NoLostWakeup, DeferU
<1>5. StepFacts
  BY <1>1, <1>3, <1>4 DEF StepFacts, Bookkeeping, DeferU, DataTurnU
<1> QED BY <1>5, Strengthened

LEMMA SendDataUKeeps ==
    ASSUME BridgeInv, NEW u \in Streams, NEW k \in 0..MaxBody, SendDataU(u, k)
    PROVE  Strengthening'
<1>1. TypeOK /\ StreamMapsAgree /\ Bookkeeping /\ NoLostWakeup
  BY DEF BridgeInv
<1> DEFINE c == byUpstream[u]
<1>2. usess[u] \in UStream /\ usess[u].st = "open" /\ usess[u].prov = "ready"
  BY <1>1 DEF TypeOK, SendDataU, DataTurnU
<1>3. \A v \in Streams : v # u => usess'[v] = usess[v]
  BY <1>1, <1>2, ClosedEffect DEF TypeOK, SendDataU
<1>4. /\ usess'[u].st \in {"open", "closed"} /\ usess'[u].prov # "deferred"
      /\ usess'[u].st = "closed" => usess'[u].prov = "none"
      /\ usess'[u].st = "open" => usess'[u].rd = usess[u].rd
  <2> DEFINE end == ReadsEof(str[c].reqBody, str[c].reqEof, k)
  <2>1. CASE end /\ ~usess[u].rd
    BY <1>1, <2>1, ClosedEffect DEF SendDataU
  <2>2. CASE ~(end /\ ~usess[u].rd)
    BY <1>1, <1>2, <2>2 DEF TypeOK, SendDataU, UStream
  <2> QED BY <2>1, <2>2
<1>5. c \in Streams
  BY <1>1, <1>2, ConstantsAssumption DEF TypeOK, StreamMapsAgree, Streams
<1>6. \A d \in Streams :
          /\ d # c => str'[d] = str[d]
          /\ str'[d].uid = str[d].uid /\ str'[d].respEof = str[d].respEof
          /\ str'[d].respBody = str[d].respBody
  BY <1>1, <1>5, SMTT(60) DEF TypeOK, SendDataU, H2Stream
<1>7. byUpstream' = byUpstream /\ nextUid' = nextUid /\ csess' = csess
  BY DEF SendDataU
<1>8. \A v \in Streams : byUpstream[v] # 0 => byUpstream[v] \in Streams
  BY <1>1, UpstreamOwner DEF TypeOK
<1>9. NoLostWakeup'
  <2>1. ASSUME NEW v \in Streams, usess'[v].prov = "deferred"
        PROVE  Defers(str'[byUpstream[v]].reqBody, str'[byUpstream[v]].reqEof)
    <3>1. v # u /\ usess[v].prov = "deferred"
      BY <1>3, <1>4, <2>1
    <3>2. byUpstream[v] \in Streams /\ byUpstream[v] # c
      <4>1. byUpstream[v] # 0
        BY <1>1, <3>1 DEF StreamMapsAgree, Bookkeeping
      <4>2. str[byUpstream[v]].uid = v /\ str[c].uid = u
        BY <1>1, <1>5, <4>1, ConstantsAssumption DEF StreamMapsAgree, Streams
      <4> QED BY <1>8, <3>1, <4>1, <4>2
    <3> QED BY <1>1, <1>6, <3>1, <3>2 DEF NoLostWakeup
  <2>2. ASSUME NEW d \in Streams, csess[d].prov = "deferred"
        PROVE  str'[d].respBody = <<>> /\ (str'[d].respEof => EndQueued(csess[d].q))
    BY <1>1, <1>6, <2>2 DEF NoLostWakeup
  <2> QED BY <1>7, <2>1, <2>2 DEF NoLostWakeup
<1>10. StepFacts
  BY <1>1, <1>2, <1>3, <1>4, <1>6, <1>7, <1>8, <1>9 DEF StepFacts, Bookkeeping
<1> QED BY <1>10, Strengthened

LEMMA ClientHeadersKeeps ==
    ASSUME BridgeInv, NEW c \in Streams, NEW end \in BOOLEAN, NEW submitted \in BOOLEAN,
           ClientHeaders(c, end, submitted)
    PROVE  Strengthening'
<1>1. TypeOK /\ StreamMapsAgree /\ Bookkeeping /\ NoLostWakeup
  BY DEF BridgeInv
<1>2. /\ csess[c] \in CStream /\ csess[c].st = "idle" /\ csess[c].prov = "none"
      /\ nextUid <= c /\ nextUid \in Streams
      /\ \A d \in Streams : csess[d].st = "idle" => d = c \/ d > c
  BY <1>1, ConstantsAssumption
     DEF TypeOK, Bookkeeping, ClientHeaders, NextStream, Streams, CStream
<1>3. \A d \in Streams : /\ d # c => csess'[d] = csess[d]
                         /\ csess'[c].st = "open" /\ csess'[c].prov = "none"
  BY <1>1, <1>2 DEF TypeOK, ClientHeaders, CStream
<1>4. /\ \A d \in Streams : d # c => str'[d] = str[d]
      /\ str'[c].uid = IF submitted THEN nextUid ELSE 0
      /\ str'[c].respEof = FALSE
  BY <1>1 DEF TypeOK, ClientHeaders, UidAfter, newStream
<1>5. \A u \in Streams : byUpstream[u] # 0 => byUpstream[u] \in Streams /\ byUpstream[u] # c
  BY <1>1, <1>2, ConstantsAssumption DEF TypeOK, StreamMapsAgree, Streams
<1>6. usess[nextUid] \in UStream /\ usess[nextUid].st = "idle" /\ usess[nextUid].prov = "none"
  BY <1>1, <1>2 DEF TypeOK, StreamMapsAgree, Bookkeeping, Streams
<1>7. /\ \A u \in Streams : u # nextUid \/ ~submitted =>
              usess'[u] = usess[u] /\ byUpstream'[u] = byUpstream[u]
      /\ submitted => /\ usess'[nextUid].st = "pending"
                      /\ usess'[nextUid].prov \in {"none", "ready"}
                      /\ byUpstream'[nextUid] = c /\ nextUid' = nextUid + 1
      /\ ~submitted => nextUid' = nextUid
  BY <1>1, <1>2, <1>6 DEF TypeOK, ClientHeaders, UStream
<1>8. byUpstream[nextUid] = 0 /\ c # 0
  BY <1>1, <1>2, ConstantsAssumption DEF Bookkeeping, Streams
<1>9. StreamMapsAgree'
  <2>1. ASSUME NEW u \in Streams, byUpstream'[u] # 0
        PROVE  str'[byUpstream'[u]].uid = u /\ csess'[byUpstream'[u]].st # "idle"
    <3>1. CASE submitted /\ u = nextUid
      BY <1>3, <1>4, <1>7, <3>1
    <3>2. CASE ~(submitted /\ u = nextUid)
      BY <1>1, <1>3, <1>4, <1>5, <1>7, <2>1, <3>2 DEF StreamMapsAgree
    <3> QED BY <3>1, <3>2
  <2>2. ASSUME NEW d \in Streams, str'[d].uid # 0
        PROVE  byUpstream'[str'[d].uid] = d
    <3>1. CASE d = c
      BY <1>2, <1>4, <1>7, <2>2, <3>1
    <3>2. CASE d # c
      <4>1. str'[d].uid = str[d].uid /\ byUpstream[str[d].uid] = d /\ str[d] \in H2Stream
        BY <1>1, <1>4, <2>2, <3>2 DEF StreamMapsAgree, TypeOK
      <4>2. str[d].uid \in Streams /\ d # 0
        BY <2>2, <4>1, ConstantsAssumption DEF H2Stream, Streams
      <4> QED BY <1>7, <1>8, <4>1, <4>2
    <3> QED BY <3>1, <3>2
  <2>3. ASSUME NEW u \in Streams
        PROVE  byUpstream'[u] = 0 <=> usess'[u].st = "idle"
    <3>1. CASE submitted /\ u = nextUid
      BY <1>7, <1>8, <3>1
    <3>2. CASE ~(submitted /\ u = nextUid)
      BY <1>1, <1>7, <3>2 DEF StreamMapsAgree
    <3> QED BY <3>1, <3>2
  <2> QED BY <2>1, <2>2, <2>3 DEF StreamMapsAgree
<1>10. Bookkeeping'
  <2>1. \A u \in Streams : byUpstream'[u] = 0 <=> u >= nextUid'
    BY <1>1, <1>2, <1>7, <1>8 DEF Bookkeeping, TypeOK, Streams
  <2>2. \A d \in Streams : csess'[d].st = "idle" => nextUid' <= d
    BY <1>2, <1>3, <1>7 DEF Streams
  <2>3. \A d \in Streams : csess'[d].prov # "none" => csess'[d].st = "open"
    BY <1>1, <1>3 DEF Bookkeeping
  <2>4. \A u \in Streams : usess'[u].prov # "none" => usess'[u].st \in {"pending", "open"}
    BY <1>1, <1>7 DEF Bookkeeping
  <2>5. ASSUME NEW u \in Streams, byUpstream'[u] # 0, str'[byUpstream'[u]].respEof
        PROVE  usess'[u].st = "closed" \/ ~usess'[u].rd
    <3>1. ~(submitted /\ u = nextUid)
      BY <1>4, <1>7, <2>5
    <3> QED BY <1>1, <1>4, <1>5, <1>7, <2>5, <3>1 DEF Bookkeeping
  <2> QED BY <2>1, <2>2, <2>3, <2>4, <2>5 DEF Bookkeeping
<1>11. NoLostWakeup'
  <2>1. ASSUME NEW d \in Streams, csess'[d].prov = "deferred"
        PROVE  str'[d].respBody = <<>> /\ (str'[d].respEof => EndQueued(csess'[d].q))
    BY <1>1, <1>3, <1>4, <2>1 DEF NoLostWakeup
  <2>2. ASSUME NEW u \in Streams, usess'[u].prov = "deferred"
        PROVE  Defers(str'[byUpstream'[u]].reqBody, str'[byUpstream'[u]].reqEof)
    <3>1. ~(submitted /\ u = nextUid) /\ usess[u].prov = "deferred"
      BY <1>7, <2>2
    <3>2. byUpstream[u] # 0
      BY <1>1, <3>1 DEF StreamMapsAgree, Bookkeeping
    <3> QED BY <1>1, <1>4, <1>5, <1>7, <3>1, <3>2 DEF NoLostWakeup
  <2> QED BY <2>1, <2>2 DEF NoLostWakeup
<1> QED BY <1>9, <1>10, <1>11 DEF Strengthening

LEMMA ClientDataKeeps ==
    ASSUME BridgeInv, NEW c \in Streams, NEW n \in {0, 1}, NEW end \in BOOLEAN,
           ClientData(c, n, end)
    PROVE  Strengthening'
<1>1. TypeOK /\ StreamMapsAgree /\ Bookkeeping /\ NoLostWakeup
  BY DEF BridgeInv
<1> DEFINE uid == str[c].uid
<1>2. csess[c] \in CStream /\ str[c] \in H2Stream /\ uid \in 0..N /\ csess[c].st = "open"
  BY <1>1 DEF TypeOK, H2Stream, ClientData, ClientMaySend
<1>3. \A d \in Streams :
          \/ csess'[d] = csess[d]
          \/ d = c /\ csess'[d].st = "closed" /\ csess'[d].prov = "none"
          \/ d = c /\ csess'[d].st = "open" /\ csess'[d].prov = csess[d].prov
                   /\ csess'[d].q = csess[d].q
  <2>1. CASE end /\ ~csess[c].wr
    BY <1>1, <2>1, ClosedEffect DEF ClientData
  <2>2. CASE ~(end /\ ~csess[c].wr)
    BY <1>1, <1>2, <2>2 DEF TypeOK, ClientData, CStream
  <2> QED BY <2>1, <2>2
<1>4. \A d \in Streams :
          /\ d # c => str'[d] = str[d]
          /\ str'[d].uid = str[d].uid /\ str'[d].respEof = str[d].respEof
          /\ str'[d].respBody = str[d].respBody
  BY <1>1, <1>2 DEF TypeOK, ClientData, EndReq, AppendReq, H2Stream
<1>5. \A v \in Streams :
          IF v = uid THEN /\ usess'[v].st = usess[v].st /\ usess'[v].rd = usess[v].rd
                          /\ usess'[v].prov = Resumed(usess[v].prov)
          ELSE usess'[v] = usess[v]
  <2>1. usess' = ResumeU(usess, uid)
    BY DEF ClientData
  <2>2. \A v \in Streams : usess[v] \in UStream
    BY <1>1 DEF TypeOK
  <2>3. \A v \in Streams : usess'[v] =
                 [usess[v] EXCEPT !.prov = IF v = uid THEN Resumed(@) ELSE @]
    BY <1>1, <1>2, <2>1, ResumeEffect
  <2> SUFFICES ASSUME NEW v \in Streams
               PROVE  IF v = uid THEN /\ usess'[v].st = usess[v].st
                                      /\ usess'[v].rd = usess[v].rd
                                      /\ usess'[v].prov = Resumed(usess[v].prov)
                      ELSE usess'[v] = usess[v]
    OBVIOUS
  <2>4. usess[v] \in UStream /\ usess'[v] = [usess[v] EXCEPT !.prov = IF v = uid THEN Resumed(@) ELSE @]
    BY <2>2, <2>3
  <2>5. CASE v = uid
    BY <2>4, <2>5 DEF UStream
  <2>6. CASE v # uid
    BY <2>4, <2>6 DEF UStream
  <2> QED BY <2>5, <2>6
<1>6. byUpstream' = byUpstream /\ nextUid' = nextUid
  BY DEF ClientData
<1>7. \A v \in Streams : byUpstream[v] # 0 => byUpstream[v] \in Streams
  BY <1>1, UpstreamOwner DEF TypeOK
<1>8. NoLostWakeup'
  <2>1. ASSUME NEW v \in Streams, usess'[v].prov = "deferred"
        PROVE  Defers(str'[byUpstream[v]].reqBody, str'[byUpstream[v]].reqEof)
    <3>1. v # uid /\ usess[v].prov = "deferred"
      BY <1>5, <2>1 DEF Resumed
    <3>2. byUpstream[v] # 0 /\ byUpstream[v] # c
      BY <1>1, <3>1 DEF StreamMapsAgree, Bookkeeping
    <3> QED BY <1>1, <1>4, <1>7, <3>1, <3>2 DEF NoLostWakeup
  <2>2. ASSUME NEW d \in Streams, csess'[d].prov = "deferred"
        PROVE  str'[d].respBody = <<>> /\ (str'[d].respEof => EndQueued(csess'[d].q))
    BY <1>1, <1>3, <1>4, <2>2 DEF NoLostWakeup
  <2> QED BY <1>6, <2>1, <2>2 DEF NoLostWakeup
<1>9. StepFacts
  <2>1. \A v \in Streams : usess'[v].prov # "none" => usess'[v].st \in {"pending", "open"}
    BY <1>1, <1>5 DEF Bookkeeping, Resumed
  <2>2. \A v \in Streams : byUpstream[v] # 0 /\ str'[byUpstream[v]].respEof =>
                usess'[v].st = "closed" \/ ~usess'[v].rd
    BY <1>1, <1>4, <1>5, <1>7 DEF Bookkeeping
  <2> QED BY <1>1, <1>2, <1>3, <1>4, <1>5, <1>6, <1>8, <2>1, <2>2 DEF StepFacts, Bookkeeping
<1> QED BY <1>9, Strengthened

LEMMA ClientTrailersKeeps ==
    ASSUME BridgeInv, NEW c \in Streams, ClientTrailers(c)
    PROVE  Strengthening'
<1>1. TypeOK /\ StreamMapsAgree /\ Bookkeeping /\ NoLostWakeup
  BY DEF BridgeInv
<1>2. csess[c] \in CStream /\ csess[c].st = "open"
  BY <1>1 DEF TypeOK, ClientTrailers, ClientMaySend
<1>3. \A d \in Streams :
          \/ csess'[d] = csess[d]
          \/ d = c /\ csess'[d].st = "closed" /\ csess'[d].prov = "none"
          \/ d = c /\ csess'[d].st = "open" /\ csess'[d].prov = csess[d].prov
                   /\ csess'[d].q = csess[d].q
  <2>1. CASE ~csess[c].wr
    BY <1>1, <2>1, ClosedEffect DEF ClientTrailers
  <2>2. CASE csess[c].wr
    BY <1>1, <1>2, <2>2 DEF TypeOK, ClientTrailers, CStream
  <2> QED BY <2>1, <2>2
<1>4. str' = str /\ byUpstream' = byUpstream /\ nextUid' = nextUid /\ usess' = usess
  BY DEF ClientTrailers
<1>5. NoLostWakeup'
  BY <1>1, <1>3, <1>4 DEF NoLostWakeup
<1>6. StepFacts
  BY <1>1, <1>2, <1>3, <1>4, <1>5 DEF StepFacts, Bookkeeping
<1> QED BY <1>6, Strengthened

LEMMA ClientRstKeeps ==
    ASSUME BridgeInv, NEW c \in Streams, ClientRst(c)
    PROVE  Strengthening'
<1>1. TypeOK /\ StreamMapsAgree /\ Bookkeeping /\ NoLostWakeup
  BY DEF BridgeInv
<1>2. \A d \in Streams : SameOrClosed(csess'[d], csess[d])
  BY <1>1, ClosedEffect DEF ClientRst, SameOrClosed
<1>3. \A v \in Streams : SameOrAborting(usess'[v], usess[v])
  BY <1>1, CancelEffect DEF ClientRst
<1>4. NoLostWakeup'
  BY <1>1, <1>2, <1>3 DEF NoLostWakeup, ClientRst, SameOrClosed, SameOrAborting
<1>5. StepFacts
  BY <1>1, <1>2, <1>3, <1>4 DEF StepFacts, Bookkeeping, ClientRst, SameOrClosed, SameOrAborting
<1> QED BY <1>5, Strengthened

LEMMA OriginHeadersKeeps ==
    ASSUME BridgeInv, NEW u \in Streams, NEW kind \in Block, NEW end \in BOOLEAN,
           OriginHeaders(u, kind, end)
    PROVE  Strengthening'
<1>1. TypeOK /\ StreamMapsAgree /\ Bookkeeping /\ NoLostWakeup
  BY DEF BridgeInv
<1> DEFINE c == byUpstream[u]
           hdr == Append(str[c].respHdr, kind)
           item == [hdr |-> hdr, end |-> end]
<1>2. /\ usess[u] \in UStream /\ usess[u].st = "open" /\ usess[u].rd
      /\ c \in Streams /\ str[c] \in H2Stream /\ csess[c] \in CStream
      /\ ~str[c].respEof
  BY <1>1, ConstantsAssumption
     DEF TypeOK, StreamMapsAgree, Bookkeeping, OriginHeaders, OriginMaySend, Streams
<1>3. \A d \in Streams :
          /\ d # c => str'[d] = str[d]
          /\ str'[d].uid = str[d].uid /\ str'[d].respBody = str[d].respBody
          /\ str'[d].reqBody = str[d].reqBody /\ str'[d].reqEof = str[d].reqEof
  BY <1>1, <1>2 DEF TypeOK, OriginHeaders, H2Stream
<1>4. str'[c].respEof = end
  BY <1>1, <1>2 DEF TypeOK, OriginHeaders, H2Stream
<1>5. csess' = SubmitResponse(csess, c, hdr, ~end)
  BY <1>1, <1>2 DEF TypeOK, OriginHeaders, H2Stream
<1>6. \A d \in Streams :
          \/ csess'[d] = csess[d] /\ (d = c => csess[c].st # "open")
          \/ d = c /\ csess'[d].st = "open" /\ csess'[d].prov = csess[d].prov
                   /\ csess[d].st = "open" /\ csess'[d].q = Append(csess[d].q, item)
  BY <1>1, <1>2, <1>5 DEF TypeOK, SubmitResponse, CStream
<1>7. end => EndQueued(Append(csess[c].q, item))
  <2>1. hdr \in Seq(Block) /\ csess[c].q \in Seq(HeadersItem)
    BY <1>2, AppendProperties DEF H2Stream, CStream
  <2>2. item \in HeadersItem
    BY <2>1 DEF HeadersItem
  <2>3. /\ Append(csess[c].q, item) # <<>>
        /\ Append(csess[c].q, item)[Len(Append(csess[c].q, item))] = item
    <3> HIDE DEF item
    <3>1. /\ Append(csess[c].q, item) # <<>>
          /\ Len(Append(csess[c].q, item)) = Len(csess[c].q) + 1
          /\ Append(csess[c].q, item)[Len(csess[c].q) + 1] = item
      BY <2>1, <2>2, AppendProperties, SMTT(60)
    <3> QED BY <3>1
  <2> QED BY <2>3 DEF EndQueued
<1>8. /\ \A v \in Streams : v # u => usess'[v] = usess[v]
      /\ usess'[u].st = "closed" \/ (usess'[u].st = "open" /\ usess'[u].rd = ~end)
      /\ usess'[u].prov \in {"none", usess[u].prov}
      /\ usess'[u].st = "closed" => usess'[u].prov = "none"
  <2>1. CASE end /\ ~usess[u].wr
    BY <1>1, <2>1, ClosedEffect DEF OriginHeaders
  <2>2. CASE ~(end /\ ~usess[u].wr)
    BY <1>1, <1>2, <2>2 DEF TypeOK, OriginHeaders, UStream
  <2> QED BY <2>1, <2>2
<1>9. byUpstream' = byUpstream /\ nextUid' = nextUid
  BY DEF OriginHeaders
<1>10. \A v \in Streams : byUpstream[v] # 0 => byUpstream[v] \in Streams
  BY <1>1, UpstreamOwner DEF TypeOK
<1>11. NoLostWakeup'
  <2>1. ASSUME NEW d \in Streams, csess'[d].prov = "deferred"
        PROVE  str'[d].respBody = <<>> /\ (str'[d].respEof => EndQueued(csess'[d].q))
    <3>1. csess[d].prov = "deferred" /\ csess[d].st = "open"
      BY <1>1, <1>6, <2>1 DEF Bookkeeping
    <3>2. str'[d].respBody = <<>>
      BY <1>1, <1>3, <3>1 DEF NoLostWakeup
    <3>3. CASE d = c
      BY <1>4, <1>6, <1>7, <3>1, <3>2, <3>3
    <3>4. CASE d # c
      BY <1>1, <1>3, <1>6, <3>1, <3>4 DEF NoLostWakeup
    <3> QED BY <3>2, <3>3, <3>4
  <2>2. ASSUME NEW v \in Streams, usess'[v].prov = "deferred"
        PROVE  Defers(str'[byUpstream[v]].reqBody, str'[byUpstream[v]].reqEof)
    <3>1. usess[v].prov = "deferred"
      BY <1>8, <2>2
    <3>2. byUpstream[v] \in Streams
      BY <1>1, <1>10, <3>1 DEF StreamMapsAgree, Bookkeeping
    <3> QED BY <1>1, <1>3, <3>1, <3>2 DEF NoLostWakeup
  <2> QED BY <1>9, <2>1, <2>2 DEF NoLostWakeup
<1>12. StepFacts
  <2>1. ASSUME NEW v \in Streams, byUpstream[v] # 0, str'[byUpstream[v]].respEof
        PROVE  usess'[v].st = "closed" \/ ~usess'[v].rd
    <3>1. CASE v = u
      BY <1>4, <1>8, <2>1, <3>1
    <3>2. CASE v # u
      <4>1. byUpstream[v] # c
        BY <1>1, <1>2, <2>1, <3>2, ConstantsAssumption DEF StreamMapsAgree, Streams
      <4> QED BY <1>1, <1>3, <1>8, <1>10, <2>1, <3>2, <4>1 DEF Bookkeeping
    <3> QED BY <3>1, <3>2
  <2>2. \A d \in Streams : /\ csess'[d].st = "idle" <=> csess[d].st = "idle"
                           /\ csess'[d].prov # "none" => csess'[d].st = "open"
    BY <1>1, <1>6 DEF Bookkeeping
  <2>3. \A v \in Streams : /\ usess'[v].st = "idle" <=> usess[v].st = "idle"
                           /\ usess'[v].prov # "none" => usess'[v].st \in {"pending", "open"}
    BY <1>1, <1>2, <1>8 DEF Bookkeeping
  <2> QED BY <1>3, <1>9, <1>11, <2>1, <2>2, <2>3 DEF StepFacts
<1> QED BY <1>12, Strengthened

LEMMA OriginDataKeeps ==
    ASSUME BridgeInv, NEW u \in Streams, NEW n \in {0, 1}, NEW end \in BOOLEAN,
           OriginData(u, n, end)
    PROVE  Strengthening'
<1>1. TypeOK /\ StreamMapsAgree /\ Bookkeeping /\ NoLostWakeup
  BY DEF BridgeInv
<1> DEFINE c == byUpstream[u]
<1>2. /\ usess[u] \in UStream /\ usess[u].st = "open" /\ usess[u].rd
      /\ c \in Streams /\ str[c] \in H2Stream /\ csess[c] \in CStream
      /\ ~str[c].respEof
  BY <1>1, ConstantsAssumption
     DEF TypeOK, StreamMapsAgree, Bookkeeping, OriginData, OriginMaySend, Streams
<1>3. \A d \in Streams :
          /\ d # c => str'[d] = str[d]
          /\ str'[d].uid = str[d].uid
          /\ str'[d].reqBody = str[d].reqBody /\ str'[d].reqEof = str[d].reqEof
  BY <1>1, <1>2 DEF TypeOK, OriginData, H2Stream
<1>4. str'[c].respEof = end
  BY <1>1, <1>2 DEF TypeOK, OriginData, H2Stream
<1>5. ASSUME NEW d \in Streams
      PROVE  csess'[d] = [csess[d] EXCEPT !.prov = IF d = c THEN Resumed(@) ELSE @]
  <2>1. csess' = ResumeC(csess, c) /\ 0 \in 0..N
    BY ConstantsAssumption DEF OriginData
  <2>2. csess' = ResumeC(csess, c) /\ c \in Streams
    BY <1>2, <2>1
  <2> HIDE DEF c
  <2>3. ResumeC(csess, c)[d] = [csess[d] EXCEPT !.prov = IF d = c THEN Resumed(@) ELSE @]
    BY <1>1, <2>1, <2>2, ResumeEffect
  <2> QED BY <2>2, <2>3
<1>6. \A d \in Streams :
          /\ d # c => csess'[d] = csess[d]
          /\ csess'[d].st = csess[d].st
          /\ csess'[d].prov # "none" => csess[d].prov # "none"
  <2> SUFFICES ASSUME NEW d \in Streams
               PROVE  /\ d # c => csess'[d] = csess[d]
                      /\ csess'[d].st = csess[d].st
                      /\ csess'[d].prov # "none" => csess[d].prov # "none"
    OBVIOUS
  <2>1. csess[d] \in CStream
    BY <1>1 DEF TypeOK
  <2>2. CASE d = c
    BY <1>5, <2>1, <2>2 DEF CStream, Resumed
  <2>3. CASE d # c
    BY <1>5, <2>1, <2>3 DEF CStream
  <2> QED BY <2>2, <2>3
<1>7. csess'[c].prov # "deferred"
  BY <1>2, <1>5 DEF CStream, Resumed
<1>8. /\ \A v \in Streams : v # u => usess'[v] = usess[v]
      /\ usess'[u].st = "closed" \/ (usess'[u].st = "open" /\ usess'[u].rd = ~end)
      /\ usess'[u].prov \in {"none", usess[u].prov}
      /\ usess'[u].st = "closed" => usess'[u].prov = "none"
  <2>1. CASE end /\ ~usess[u].wr
    BY <1>1, <2>1, ClosedEffect DEF OriginData
  <2>2. CASE ~(end /\ ~usess[u].wr)
    BY <1>1, <1>2, <2>2 DEF TypeOK, OriginData, UStream
  <2> QED BY <2>1, <2>2
<1>9. byUpstream' = byUpstream /\ nextUid' = nextUid
  BY DEF OriginData
<1>10. \A v \in Streams : byUpstream[v] # 0 => byUpstream[v] \in Streams
  BY <1>1, UpstreamOwner DEF TypeOK
<1>11. NoLostWakeup'
  <2>1. ASSUME NEW d \in Streams, csess'[d].prov = "deferred"
        PROVE  str'[d].respBody = <<>> /\ (str'[d].respEof => EndQueued(csess'[d].q))
    <3>1. d # c
      BY <1>7, <2>1
    <3> QED BY <1>1, <1>3, <1>6, <2>1, <3>1 DEF NoLostWakeup
  <2>2. ASSUME NEW v \in Streams, usess'[v].prov = "deferred"
        PROVE  Defers(str'[byUpstream[v]].reqBody, str'[byUpstream[v]].reqEof)
    <3>1. usess[v].prov = "deferred"
      BY <1>8, <2>2
    <3>2. byUpstream[v] \in Streams
      BY <1>1, <1>10, <3>1 DEF StreamMapsAgree, Bookkeeping
    <3> QED BY <1>1, <1>3, <3>1, <3>2 DEF NoLostWakeup
  <2> QED BY <1>9, <2>1, <2>2 DEF NoLostWakeup
<1>12. StepFacts
  <2>1. ASSUME NEW v \in Streams, byUpstream[v] # 0, str'[byUpstream[v]].respEof
        PROVE  usess'[v].st = "closed" \/ ~usess'[v].rd
    <3>1. CASE v = u
      BY <1>4, <1>8, <2>1, <3>1
    <3>2. CASE v # u
      <4>1. byUpstream[v] # c
        BY <1>1, <1>2, <2>1, <3>2, ConstantsAssumption DEF StreamMapsAgree, Streams
      <4> QED BY <1>1, <1>3, <1>8, <1>10, <2>1, <3>2, <4>1 DEF Bookkeeping
    <3> QED BY <3>1, <3>2
  <2>2. \A d \in Streams : /\ csess'[d].st = "idle" <=> csess[d].st = "idle"
                           /\ csess'[d].prov # "none" => csess'[d].st = "open"
    BY <1>1, <1>6 DEF Bookkeeping
  <2>3. \A v \in Streams : /\ usess'[v].st = "idle" <=> usess[v].st = "idle"
                           /\ usess'[v].prov # "none" => usess'[v].st \in {"pending", "open"}
    BY <1>1, <1>2, <1>8 DEF Bookkeeping
  <2> QED BY <1>3, <1>9, <1>11, <2>1, <2>2, <2>3 DEF StepFacts
<1> QED BY <1>12, Strengthened

LEMMA OriginGoawayKeeps ==
    ASSUME BridgeInv, NEW last \in 0..N, OriginGoaway(last)
    PROVE  Strengthening'
<1>1. TypeOK /\ StreamMapsAgree /\ Bookkeeping /\ NoLostWakeup
  BY DEF BridgeInv
<1>2. \A v \in Streams : SameOrClosed(usess'[v], usess[v])
  BY <1>1, ClosedEffect DEF OriginGoaway, OpenUpstream, SameOrClosed
<1>3. ASSUME NEW d \in Streams
      PROVE  SameOrAborting(csess'[d], csess[d])
  <2>1. SameOrAborting(ResetClient(csess, d)[d], csess[d])
    BY <1>1, ResetEffect
  <2>2. csess'[d] = ResetClient(csess, d)[d] \/ csess'[d] = csess[d]
    BY DEF OriginGoaway
  <2> QED BY <2>1, <2>2 DEF SameOrAborting
<1>4. str' = str /\ byUpstream' = byUpstream /\ nextUid' = nextUid
  BY DEF OriginGoaway
<1>5. NoLostWakeup'
  BY <1>1, <1>2, <1>3, <1>4 DEF NoLostWakeup, SameOrClosed, SameOrAborting
<1>6. StepFacts
  BY <1>1, <1>2, <1>3, <1>4, <1>5 DEF StepFacts, Bookkeeping, SameOrClosed, SameOrAborting
<1> QED BY <1>6, Strengthened

-----------------------------------------------------------------------------
LEMMA InitEstablishes == Init => BridgeInv
<1> SUFFICES ASSUME Init PROVE BridgeInv
  OBVIOUS
<1>1. /\ <<>> \in Seq(Chunk) /\ <<>> \in Seq(Block) /\ <<>> \in Seq(Seq(Chunk))
      /\ <<>> \in Seq(Seq(Block)) /\ <<>> \in Seq(HeadersItem)
  BY EmptySeq
<1>2. TypeOK
  <2>1. newStream \in H2Stream
    BY <1>1, ConstantsAssumption DEF newStream, H2Stream
  <2>2. idleC \in CStream /\ idleU \in UStream
    BY <1>1 DEF idleC, idleU, CStream, UStream, Provider
  <2>3. client \in [Streams -> ClientView]
    BY <1>1 DEF Init, ClientView
  <2>4. origin \in [Streams -> OriginView]
    BY <1>1, ConstantsAssumption DEF Init, OriginView
  <2>5. byUpstream \in [Streams -> 0..N] /\ nextUid \in 1..(N + 1)
    BY ConstantsAssumption DEF Init
  <2>6. str \in [Streams -> H2Stream] /\ csess \in [Streams -> CStream]
        /\ usess \in [Streams -> UStream]
    BY <2>1, <2>2 DEF Init
  <2> QED BY <2>3, <2>4, <2>5, <2>6 DEF Init, TypeOK
<1>3. StreamMapsAgree /\ Bookkeeping /\ NoLostWakeup
  BY ConstantsAssumption
     DEF Init, StreamMapsAgree, Bookkeeping, NoLostWakeup, newStream, idleC, idleU, Streams
<1> QED BY <1>2, <1>3 DEF BridgeInv

LEMMA NextKeeps == BridgeInv /\ [Next]_vars => BridgeInv'
<1> SUFFICES ASSUME BridgeInv, [Next]_vars PROVE BridgeInv'
  OBVIOUS
<1>1. TypeOK /\ StreamMapsAgree /\ Bookkeeping /\ NoLostWakeup
  BY DEF BridgeInv
<1>2. SUFFICES TypeOK' /\ Strengthening'
  BY DEF BridgeInv, Strengthening
<1>3. CASE SendStepC
  BY <1>1, <1>3, SendCTypes, SendHeadersCKeeps, SendRstCKeeps, SendDataCKeeps, DeferCKeeps
     DEF SendStepC
<1>4. CASE SendStepU
  BY <1>1, <1>4, SendUTypes, SendRstUKeeps, SendHeadersUKeeps, SendDataUKeeps, DeferUKeeps
     DEF SendStepU
<1>5. CASE RecvStepC
  <2>1. TypeOK'
    BY <1>1, <1>5, RecvCTypes
  <2>2. CASE ClientGoaway \/ ClientEof
    <3>1. /\ str' = str /\ byUpstream' = byUpstream /\ nextUid' = nextUid
          /\ csess' = csess /\ usess' = usess
      BY <2>2 DEF ClientGoaway, ClientEof
    <3>2. StreamMapsAgree' /\ Bookkeeping' /\ NoLostWakeup'
      BY <1>1, <3>1 DEF StreamMapsAgree, Bookkeeping, NoLostWakeup
    <3> QED BY <2>1, <3>2 DEF Strengthening
  <2> QED BY <1>5, <2>1, <2>2, ClientHeadersKeeps, ClientDataKeeps, ClientTrailersKeeps,
             ClientRstKeeps DEF RecvStepC
<1>6. CASE RecvStepU
  <2>1. TypeOK'
    BY <1>1, <1>6, RecvUTypes
  <2>2. CASE OriginEof
    <3>1. /\ str' = str /\ byUpstream' = byUpstream /\ nextUid' = nextUid
          /\ csess' = csess /\ usess' = usess
      BY <2>2 DEF OriginEof
    <3>2. StreamMapsAgree' /\ Bookkeeping' /\ NoLostWakeup'
      BY <1>1, <3>1 DEF StreamMapsAgree, Bookkeeping, NoLostWakeup
    <3> QED BY <2>1, <3>2 DEF Strengthening
  <2> QED BY <1>6, <2>1, <2>2, OriginHeadersKeeps, OriginDataKeeps, OriginGoawayKeeps,
             SendRstUKeeps DEF RecvStepU
<1>7. CASE \/ SendDoneC \/ SendBlockC \/ SendFailC \/ SendDoneU \/ SendBlockU \/ SendFailU
           \/ Stop \/ Wake \/ Timeout \/ RecvDoneC \/ RecvFailC \/ RecvDoneU \/ RecvFailU
  BY <1>1, <1>7, GotoFrame
     DEF SendDoneC, SendBlockC, SendFailC, SendDoneU, SendBlockU, SendFailU, Stop, Wake,
         Timeout, RecvDoneC, RecvFailC, RecvDoneU, RecvFailU, Strengthening
<1>8. CASE UNCHANGED vars
  BY <1>1, <1>8 DEF vars, TypeOK, Strengthening, StreamMapsAgree, Bookkeeping, NoLostWakeup
<1> QED BY <1>3, <1>4, <1>5, <1>6, <1>7, <1>8 DEF Next, Terminated

\* The inductive invariant of the bridge.
THEOREM BridgeInvariant == Spec => []BridgeInv
BY InitEstablishes, NextKeeps, PTL DEF Spec

\* No data provider is left asleep over bytes or an end of stream it should
\* send: the chain "DATA arrives, resume, read callback" never breaks, whatever
\* the peers send and however their frames interleave.
THEOREM NeverALostWakeup == Spec => []NoLostWakeup
<1>1. BridgeInv => NoLostWakeup
  BY DEF BridgeInv
<1> QED BY <1>1, BridgeInvariant, PTL

\* uid and byUpstream stay inverse to each other, so no event of one stream is
\* ever delivered to another.
THEOREM MapsAlwaysAgree == Spec => []StreamMapsAgree
<1>1. BridgeInv => StreamMapsAgree
  BY DEF BridgeInv
<1> QED BY <1>1, BridgeInvariant, PTL

=============================================================================
