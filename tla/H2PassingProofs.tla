-------------------------- MODULE H2PassingProofs --------------------------
(***************************************************************************)
(* What the bridge passes on: PassingInv is an inductive invariant, for    *)
(* every number of streams, body length, capture cap, concurrency limit    *)
(* and behaviour of the peers.  Bodies do not cross, complete messages are *)
(* whole, aborts reach the other side, the analyzer is called once, and    *)
(* the loop sleeps owing nothing.                                          *)
(***************************************************************************)
EXTENDS H2BridgeProofs

-----------------------------------------------------------------------------
(* A body on its way.                                                      *)

LEMMA PassesPut ==
    ASSUME NEW got \in Seq(Chunk), NEW body \in Seq(Chunk), NEW c \in Streams, NEW n \in Nat,
           NEW there \in BOOLEAN, Passes(got, body, c, n, there)
    PROVE  Passes(got, Append(body, <<c, n + 1>>), c, n + 1, there)
<1> DEFINE new == Append(body, <<c, n + 1>>)
<1>1. Len(body) \in Nat /\ Len(got) \in Nat
  BY LenProperties
<1>2. Len(new) = Len(body) + 1 /\ new[Len(new)] = <<c, n + 1>>
      /\ \A i \in 1..Len(body) : new[i] = body[i]
  BY AppendProperties
<1> HIDE DEF new
<1>3. n + 1 - Len(new) = n - Len(body)
  BY <1>1, <1>2
<1>4. \A i \in 1..Len(new) : new[i] = <<c, n + 1 - Len(new) + i>>
  <2> TAKE i \in 1..Len(new)
  <2>1. CASE i = Len(new)
    <3>1. n + 1 - Len(new) + i = n + 1
      BY <1>1, <1>2, <2>1
    <3> QED BY <1>2, <2>1, <3>1
  <2>2. CASE i # Len(new)
    <3>1. i \in 1..Len(body)
      BY <1>1, <1>2, <2>2
    <3> QED BY <1>2, <1>3, <3>1 DEF Passes
  <2> QED BY <2>1, <2>2
<1>5. PrefixOf(got, c, n + 1 - Len(new)) /\ Len(new) <= n + 1
  BY <1>1, <1>2 DEF Passes, PrefixOf
<1>6. there => Len(got) = n + 1 - Len(new)
  BY <1>1, <1>2 DEF Passes
<1>7. Passes(got, new, c, n + 1, there)
  BY <1>4, <1>5, <1>6 DEF Passes
<1> QED BY <1>7 DEF new

LEMMA PassesTake ==
    ASSUME NEW got \in Seq(Chunk), NEW body \in Seq(Chunk), NEW c \in Streams, NEW n \in Nat,
           NEW there \in BOOLEAN, Passes(got, body, c, n, there), NEW k \in 0..Len(body)
    PROVE  /\ there => Passes(got \o SubSeq(body, 1, k), Rest(body, k), c, n, there)
           /\ Passes(got, Rest(body, k), c, n, FALSE)
<1> DEFINE rest == Rest(body, k)
           taken == SubSeq(body, 1, k)
<1>1. Len(body) \in Nat /\ Len(got) \in Nat /\ k \in Nat
  BY LenProperties
<1>2. Len(rest) = Len(body) - k /\ \A i \in 1..Len(rest) : rest[i] = body[k + i]
  <2>1. \A i \in 1..Len(body) : body[i] \in Chunk
    BY ElementOfSeq
  <2> QED BY <1>1, <2>1, SubSeqProperties DEF Rest
<1>3. Len(taken) = k /\ \A i \in 1..k : taken[i] = body[i]
  <2>1. \A i \in 1..Len(body) : body[i] \in Chunk
    BY ElementOfSeq
  <2> QED BY <1>1, <2>1, SubSeqProperties
<1>4. rest \in Seq(Chunk) /\ taken \in Seq(Chunk)
  BY BodyParts
<1> HIDE DEF rest, taken
<1>5. n - Len(rest) = n - Len(body) + k
  BY <1>1, <1>2
<1>6. \A i \in 1..Len(rest) : rest[i] = <<c, n - Len(rest) + i>>
  <2> TAKE i \in 1..Len(rest)
  <2>1. k + i \in 1..Len(body) /\ n - Len(rest) + i = n - Len(body) + (k + i)
    BY <1>1, <1>2
  <2>2. body[k + i] = <<c, n - Len(body) + (k + i)>>
    BY <2>1 DEF Passes
  <2> QED BY <1>2, <2>1, <2>2
<1>7. Len(rest) <= n
  BY <1>1, <1>2 DEF Passes
<1>8. Passes(got, rest, c, n, FALSE)
  BY <1>1, <1>5, <1>6, <1>7 DEF Passes, PrefixOf
<1>9. ASSUME there
      PROVE  Passes(got \o taken, rest, c, n, there)
  <2>0. Len(got \o taken) = Len(got) + Len(taken)
        /\ \A i \in 1..Len(got) + Len(taken) :
              (got \o taken)[i] = IF i <= Len(got) THEN got[i] ELSE taken[i - Len(got)]
    BY <1>4, ConcatProperties
  <2>1. Len(got \o taken) = Len(got) + k
        /\ \A i \in 1..Len(got \o taken) :
              (got \o taken)[i] = IF i <= Len(got) THEN got[i] ELSE taken[i - Len(got)]
    BY <1>3, <2>0, Zenon
  <2>2. Len(got) = n - Len(body)
    BY <1>9 DEF Passes
  <2>3. \A i \in 1..Len(got \o taken) : (got \o taken)[i] = <<c, i>>
    <3> TAKE i \in 1..Len(got \o taken)
    <3>1. CASE i <= Len(got)
      BY <1>1, <2>1, <3>1 DEF Passes, PrefixOf
    <3>2. CASE ~(i <= Len(got))
      <4>1. i - Len(got) \in 1..k /\ i - Len(got) \in 1..Len(body)
        BY <1>1, <2>1, <3>2
      <4>2. body[i - Len(got)] = <<c, n - Len(body) + (i - Len(got))>>
        BY <4>1 DEF Passes
      <4>3. n - Len(body) + (i - Len(got)) = i
        BY <1>1, <2>1, <2>2
      <4> QED BY <1>3, <2>1, <3>2, <4>1, <4>2, <4>3
    <3> QED BY <3>1, <3>2
  <2>4. Len(got \o taken) = n - Len(rest)
    BY <1>1, <1>5, <2>1, <2>2
  <2>5. Len(got \o taken) <= n - Len(rest)
    BY <1>1, <2>1, <2>4
  <2>6. PrefixOf(got \o taken, c, n - Len(rest))
    BY <2>3, <2>5, Zenon DEF PrefixOf
  <2> QED BY <1>6, <1>7, <2>4, <2>6 DEF Passes
<1> QED BY <1>8, <1>9 DEF rest, taken

LEMMA PassesLeft ==
    ASSUME NEW got \in Seq(Chunk), NEW body \in Seq(Chunk), NEW c \in Streams, NEW n \in Nat,
           NEW there \in BOOLEAN, Passes(got, body, c, n, there)
    PROVE  /\ Passes(got, body, c, n, FALSE)
           /\ PrefixOf(got, c, n)
           /\ n = 0 => got = <<>> /\ body = <<>>
           /\ there /\ body = <<>> => Len(got) = n
<1>1. Len(body) \in Nat /\ Len(got) \in Nat /\ Len(<<>>) = 0
  BY LenProperties
<1>2. Passes(got, body, c, n, FALSE) /\ PrefixOf(got, c, n)
  BY <1>1 DEF Passes, PrefixOf
<1>3. n = 0 => Len(got) = 0 /\ Len(body) = 0
  BY <1>1 DEF Passes, PrefixOf
<1>4. n = 0 => got = <<>> /\ body = <<>>
  BY <1>3, EmptySeq
<1>5. there /\ body = <<>> => Len(got) = n
  BY <1>1 DEF Passes
<1> QED BY <1>2, <1>4, <1>5

LEMMA PassesWhole ==
    ASSUME NEW got \in Seq(Chunk), NEW c, NEW n \in Nat, Passes(got, <<>>, c, n, TRUE)
    PROVE  Len(got) = n
<1>1. Len(<<>>) = 0 /\ Len(got) = n - Len(<<>>)
  BY EmptySeq DEF Passes
<1>2. n - 0 = n
  OBVIOUS
<1> QED BY <1>1, <1>2, Zenon

LEMMA PassesNothing == \A c \in Streams, there \in BOOLEAN : Passes(<<>>, <<>>, c, 0, there)
<1> SUFFICES ASSUME NEW c \in Streams, NEW there \in BOOLEAN
             PROVE  Passes(<<>>, <<>>, c, 0, there)
  OBVIOUS
<1>1. Len(<<>>) = 0
  BY EmptySeq
<1>2. \A i \in 1..Len(<<>>) : FALSE
  BY <1>1
<1>3. 0 - Len(<<>>) = 0 /\ Len(<<>>) <= 0
  <2>1. \A m : m = 0 => 0 - m = 0 /\ m <= 0
    OBVIOUS
  <2> QED BY <1>1, <2>1, Zenon
<1>4. PrefixOf(<<>>, c, 0)
  BY <1>2, <1>3, Zenon DEF PrefixOf
<1> QED BY <1>1, <1>2, <1>3, <1>4, Zenon DEF Passes

-----------------------------------------------------------------------------
(* Streams and their sessions.                                             *)

Passing == /\ Untouched /\ Bodies /\ Ends /\ PassedOn /\ Untrailed
           /\ CompleteRequest /\ AnalyzedOnce /\ AbortsPropagate

\* The two maps, as the steps below use them.
Owned ==
    /\ \A c \in Streams : str[c].uid # 0 =>
          str[c].uid \in Streams /\ byUpstream[str[c].uid] = c /\ usess[str[c].uid].st # "idle"
    /\ \A u \in Streams : byUpstream[u] # 0 =>
          byUpstream[u] \in Streams /\ str[byUpstream[u]].uid = u /\ csess[byUpstream[u]].st # "idle"
    /\ \A u \in Streams : usess[u].st # "idle" => byUpstream[u] # 0

LEMMA Owners ==
    ASSUME BridgeInv
    PROVE  Owned /\ 0 \notin Streams
<1>1. TypeOK /\ StreamMapsAgree
  BY DEF BridgeInv
<1>2. \A u \in Streams : byUpstream[u] # 0 => byUpstream[u] \in Streams
  BY <1>1, UpstreamOwner DEF TypeOK
<1>3. 0 \notin Streams
  BY DEF Streams
<1>4. ASSUME NEW c \in Streams, str[c].uid # 0
      PROVE  str[c].uid \in Streams /\ byUpstream[str[c].uid] = c /\ usess[str[c].uid].st # "idle"
  <2>1. str[c] \in H2Stream
    BY <1>1 DEF TypeOK
  <2>2. str[c].uid \in Streams
    BY <1>4, <2>1, ConstantsAssumption DEF H2Stream, Streams
  <2> QED BY <1>1, <1>3, <1>4, <2>2 DEF StreamMapsAgree
<1> QED BY <1>1, <1>2, <1>3, <1>4 DEF StreamMapsAgree, Owned

\* What is on its way for a stream, in both directions.
LEMMA StreamTypes ==
    ASSUME BridgeInv, NEW c \in Streams
    PROVE  /\ str[c] \in H2Stream /\ csess[c] \in CStream /\ usess[c] \in UStream
           /\ client[c] \in ClientView /\ origin[c] \in OriginView
           /\ SentFor(c) \in Nat
           /\ cClosed \in BOOLEAN /\ uClosed \in BOOLEAN
<1>1. /\ str[c] \in H2Stream /\ csess[c] \in CStream /\ usess[c] \in UStream
      /\ client[c] \in ClientView /\ origin[c] \in OriginView
      /\ cClosed \in BOOLEAN /\ uClosed \in BOOLEAN
  BY DEF BridgeInv, TypeOK
<1>2. SentFor(c) \in Nat
  <2>1. CASE str[c].uid = 0
    BY <2>1 DEF SentFor
  <2>2. CASE str[c].uid # 0
    <3>1. str[c].uid \in Streams
      BY <2>2, Owners DEF Owned
    <3>2. origin[str[c].uid] \in OriginView
      BY <3>1 DEF BridgeInv, TypeOK
    <3> QED BY <2>2, <3>2 DEF SentFor, OriginView
  <2> QED BY <2>1, <2>2
<1> QED BY <1>1, <1>2

-----------------------------------------------------------------------------
(* Steps that end streams, or only move the loop.                          *)

\* Streams that close or begin to be reset, views that are told of it, sockets
\* that are closed.
EndsOnly ==
    /\ str' = str /\ byUpstream' = byUpstream
    /\ cClosed => cClosed'
    /\ uClosed => uClosed'
    /\ \A d \in Streams : \/ csess'[d] = csess[d]
                          \/ /\ csess[d].st # "idle" /\ csess'[d].q = <<>>
                             /\ \/ csess'[d].st = "closed"
                                \/ csess'[d].st = "closing" /\ csess[d].st = "open" /\ ~str[d].respEof
    /\ \A v \in Streams : \/ usess'[v] = usess[v]
                          \/ usess[v].st # "idle" /\ usess'[v].st \in {"closing", "canceled", "closed"}
    /\ \A d \in Streams :
          /\ client'[d].sent = client[d].sent /\ client'[d].ended = client[d].ended
          /\ client'[d].got = client[d].got /\ client'[d].hdrs = client[d].hdrs
          /\ client'[d].fin = client[d].fin \/ (client'[d].fin = "rst" /\ csess'[d].st = "closed")
    /\ \A v \in Streams :
          /\ origin'[v].tag = origin[v].tag /\ origin'[v].got = origin[v].got
          /\ origin'[v].reqEnd = origin[v].reqEnd /\ origin'[v].stage = origin[v].stage
          /\ origin'[v].sent = origin[v].sent /\ origin'[v].respEnd = origin[v].respEnd

LEMMA EndsOnlyKeeps ==
    ASSUME PassingInv, BridgeInv', EndsOnly, AbortsPropagate'
    PROVE  Passing'
<1>1. BridgeInv /\ Untouched /\ Bodies /\ Ends /\ PassedOn /\ Untrailed
      /\ CompleteRequest /\ AnalyzedOnce /\ Owned /\ 0 \notin Streams
  BY Owners DEF PassingInv
<1>2. \A c \in Streams : SentFor(c)' = SentFor(c)
  BY <1>1 DEF EndsOnly, SentFor, Owned
<1>3. Untouched'
  BY <1>1 DEF EndsOnly, Untouched, idleC
<1>4. Bodies'
  <2>1. ASSUME NEW c \in Streams
        PROVE  Passes(client'[c].got, str'[c].respBody, c, SentFor(c)', ~cClosed')
    <3>1. Passes(client[c].got, str[c].respBody, c, SentFor(c), ~cClosed)
      BY <1>1 DEF Bodies
    <3>2. client[c].got \in Seq(Chunk) /\ str[c].respBody \in Seq(Chunk)
      BY <1>1, StreamTypes DEF ClientView, H2Stream
    <3>3. Passes(client[c].got, str[c].respBody, c, SentFor(c), FALSE)
      BY <1>1, <3>1, <3>2, StreamTypes, PassesLeft
    <3>4. cClosed' = cClosed \/ ~cClosed' = FALSE
      BY <1>1, StreamTypes DEF EndsOnly, BridgeInv, TypeOK
    <3> QED BY <1>2, <3>1, <3>3, <3>4 DEF EndsOnly
  <2>2. ASSUME NEW u \in Streams, byUpstream'[u] # 0
        PROVE  Passes(origin'[u].got, str'[byUpstream'[u]].reqBody, byUpstream'[u],
                      client'[byUpstream'[u]].sent, ~uClosed')
    <3> DEFINE c == byUpstream[u]
    <3>1. c \in Streams /\ byUpstream'[u] = c
      BY <1>1, <2>2 DEF Owned, EndsOnly
    <3>2. Passes(origin[u].got, str[c].reqBody, c, client[c].sent, ~uClosed)
      BY <1>1, <2>2, <3>1 DEF Bodies
    <3>3. origin[u].got \in Seq(Chunk) /\ str[c].reqBody \in Seq(Chunk) /\ client[c].sent \in Nat
      BY <1>1, <3>1, StreamTypes DEF ClientView, H2Stream, OriginView
    <3>4. Passes(origin[u].got, str[c].reqBody, c, client[c].sent, FALSE)
      <4>1. (~uClosed) \in BOOLEAN
        OBVIOUS
      <4> HIDE DEF c
      <4> QED BY <3>1, <3>2, <3>3, <4>1, PassesLeft
    <3>5. uClosed' = uClosed \/ ~uClosed' = FALSE
      BY <1>1, StreamTypes DEF EndsOnly, BridgeInv, TypeOK
    <3> QED BY <3>1, <3>2, <3>4, <3>5 DEF EndsOnly
  <2> QED BY <2>1, <2>2 DEF Bodies
<1>5. Ends'
  BY <1>1 DEF EndsOnly, Ends, EndsLast, Owned
<1>6. PassedOn'
  BY <1>1 DEF EndsOnly, PassedOn, Owned
<1>7. Untrailed'
  BY <1>1, <1>2, SMTT(60) DEF EndsOnly, Untrailed, CompleteResponse, Owned
<1>8. CompleteRequest'
  BY <1>1 DEF EndsOnly, CompleteRequest, Untouched, Owned
<1>9. AnalyzedOnce'
  BY <1>1 DEF EndsOnly, AnalyzedOnce
<1> QED BY <1>3, <1>4, <1>5, <1>6, <1>7, <1>8, <1>9 DEF Passing

LEMMA LoopMoves ==
    ASSUME PassingInv, BridgeInv',
           /\ str' = str /\ byUpstream' = byUpstream /\ csess' = csess /\ usess' = usess
           /\ client' = client /\ origin' = origin
           /\ cClosed => cClosed'
           /\ uClosed => uClosed'
    PROVE  Passing'
<1>1. EndsOnly
  BY DEF EndsOnly
<1>2. AbortsPropagate'
  BY DEF PassingInv, AbortsPropagate
<1> QED BY <1>1, <1>2, EndsOnlyKeeps

\* A client's stream is over: by a RST_STREAM of either side.
LEMMA ClientOverKeeps ==
    ASSUME PassingInv, BridgeInv', NEW c \in Streams, SendRstC(c) \/ ClientRst(c)
    PROVE  Passing'
<1>1. BridgeInv /\ TypeOK /\ Ends /\ AbortsPropagate /\ Owned /\ 0 \notin Streams
  BY Owners DEF PassingInv, BridgeInv
<1>2. /\ csess' = ClosedC(csess, c) /\ usess' = CancelUpstream(usess, str[c])
      /\ csess[c].st # "idle"
      /\ UNCHANGED <<str, byUpstream, cClosed, uClosed, origin>>
  BY DEF SendRstC, ClientRst
<1>3. \A d \in Streams :
          IF d = c THEN csess'[d].st = "closed" /\ csess'[d].q = <<>> ELSE csess'[d] = csess[d]
  BY <1>1, <1>2, StreamTypes DEF TypeOK, ClosedC, CStream
<1>4. \A v \in Streams :
          \/ usess'[v] = usess[v] /\ (v = str[c].uid => str[c].respEof
                                                        \/ usess[v].st \in {"idle", "closing", "canceled", "closed"})
          \/ /\ v = str[c].uid /\ usess[v].st \in {"pending", "open"}
             /\ usess'[v].st \in {"closing", "canceled"}
  <2> TAKE v \in Streams
  <2>1. usess[v] \in UStream
    BY <1>1, StreamTypes
  <2>2. CASE str[c].uid = 0 \/ str[c].respEof
    BY <1>1, <1>2, <2>2 DEF CancelUpstream
  <2>3. CASE ~(str[c].uid = 0 \/ str[c].respEof)
    <3>1. usess' = SubmitRstU(usess, str[c].uid) /\ str[c].uid \in Streams
      BY <1>1, <1>2, <2>3 DEF CancelUpstream, Owned
    <3> QED BY <1>1, <2>1, <3>1 DEF SubmitRstU, TypeOK, UStream
  <2> QED BY <2>2, <2>3
<1>5. \A d \in Streams :
          /\ client'[d].sent = client[d].sent /\ client'[d].ended = client[d].ended
          /\ client'[d].got = client[d].got /\ client'[d].hdrs = client[d].hdrs
          /\ client'[d].fin = client[d].fin \/ (d = c /\ client'[d].fin = "rst")
  BY <1>1, StreamTypes DEF TypeOK, SendRstC, ClientRst, ToClient, ClientView
<1>6. EndsOnly
  BY <1>1, <1>2, <1>3, <1>4, <1>5 DEF EndsOnly
<1>7. AbortsPropagate'
  BY <1>1, <1>2, <1>3, <1>4, StreamTypes DEF AbortsPropagate, Owned, UStream
<1> QED BY <1>6, <1>7, EndsOnlyKeeps

\* A stream to the origin is over: reset by either side, or never opened.
LEMMA OriginOverKeeps ==
    ASSUME PassingInv, BridgeInv', NEW u \in Streams,
           SendRstU(u) \/ DropHeadersU(u) \/ OriginRst(u)
    PROVE  Passing'
<1>1. BridgeInv /\ TypeOK /\ Ends /\ AbortsPropagate /\ Owned /\ 0 \notin Streams
  BY Owners DEF PassingInv, BridgeInv
<1>2. /\ usess' = ClosedU(usess, u) /\ csess' = ResetClient(csess, byUpstream[u])
      /\ usess[u].st # "idle"
      /\ UNCHANGED <<str, byUpstream, cClosed, uClosed, client>>
  BY DEF SendRstU, DropHeadersU, HeadersTurnU, OriginRst
<1>3. byUpstream[u] \in Streams /\ str[byUpstream[u]].uid = u
      /\ csess[byUpstream[u]].st # "idle"
  BY <1>1, <1>2 DEF Owned
<1>4. \A v \in Streams : IF v = u THEN usess'[v].st = "closed" ELSE usess'[v] = usess[v]
  BY <1>1, <1>2, StreamTypes DEF TypeOK, ClosedU, UStream
<1>5. \A d \in Streams :
          \/ csess'[d] = csess[d] /\ (d = byUpstream[u] => str[d].respEof \/ csess[d].st # "open")
          \/ /\ d = byUpstream[u] /\ csess[d].st = "open" /\ ~str[d].respEof
             /\ csess'[d].st = "closing" /\ csess'[d].q = <<>>
  <2> TAKE d \in Streams
  <2>1. csess[d] \in CStream
    BY <1>1, StreamTypes
  <2> QED BY <1>1, <1>2, <1>3, <2>1 DEF ResetClient, SubmitRstC, TypeOK, CStream
<1>6. \A v \in Streams :
          /\ origin'[v].tag = origin[v].tag /\ origin'[v].got = origin[v].got
          /\ origin'[v].reqEnd = origin[v].reqEnd /\ origin'[v].stage = origin[v].stage
          /\ origin'[v].sent = origin[v].sent /\ origin'[v].respEnd = origin[v].respEnd
  <2> TAKE v \in Streams
  <2>1. origin[v] \in OriginView /\ origin[u] \in OriginView /\ origin \in [Streams -> OriginView]
    BY <1>1, StreamTypes DEF TypeOK
  <2>2. \/ origin' = origin \/ origin' = [origin EXCEPT ![u] = [origin[u] EXCEPT !.gotRst = TRUE]]
        \/ origin' = [origin EXCEPT ![u].reset = TRUE]
    BY DEF SendRstU, DropHeadersU, OriginRst, ToOrigin
  <2>3. CASE v # u
    BY <2>1, <2>2, <2>3
  <2>4. CASE v = u
    BY <2>1, <2>2, <2>4 DEF OriginView
  <2> QED BY <2>3, <2>4
<1>7. EndsOnly
  BY <1>1, <1>2, <1>3, <1>4, <1>5, <1>6 DEF EndsOnly
<1>8. AbortsPropagate'
  BY <1>1, <1>2, <1>3, <1>4, <1>5, StreamTypes DEF AbortsPropagate, Owned, CStream
<1> QED BY <1>7, <1>8, EndsOnlyKeeps

\* GOAWAY of the origin: the streams it has not looked at are over.
LEMMA OriginGoawayPasses ==
    ASSUME PassingInv, BridgeInv', NEW last \in 0..N, OriginGoaway(last)
    PROVE  Passing'
<1> DEFINE refused == {u \in OpenUpstream : u > last}
<1>1. BridgeInv /\ TypeOK /\ Ends /\ AbortsPropagate /\ Owned /\ 0 \notin Streams
  BY Owners DEF PassingInv, BridgeInv
<1>2. refused \subseteq Streams /\ \A u \in refused : usess[u].st # "idle"
  BY DEF OpenUpstream
<1>3. \A v \in Streams :
          IF v \in refused THEN usess'[v].st = "closed" ELSE usess'[v] = usess[v]
  BY <1>1, <1>2, ClosedEffect DEF OriginGoaway
<1>4. \A d \in Streams :
          IF str[d].uid \in refused /\ ~str[d].respEof /\ csess[d].st = "open"
          THEN csess'[d].st = "closing" /\ csess'[d].q = <<>>
          ELSE csess'[d] = csess[d]
  <2> TAKE d \in Streams
  <2>1. csess'[d] = IF str[d].uid \in refused THEN ResetClient(csess, d)[d] ELSE csess[d]
    BY DEF OriginGoaway
  <2>2. csess[d] \in CStream
    BY <1>1, StreamTypes
  <2> HIDE DEF refused
  <2> QED BY <1>1, <2>1, <2>2 DEF ResetClient, SubmitRstC, TypeOK, CStream
<1>5. UNCHANGED <<str, byUpstream, cClosed, uClosed, client, origin>>
  BY DEF OriginGoaway
<1> HIDE DEF refused
<1>6. EndsOnly
  BY <1>1, <1>2, <1>3, <1>4, <1>5 DEF EndsOnly
<1>7. AbortsPropagate'
  BY <1>1, <1>2, <1>3, <1>4, <1>5, StreamTypes DEF AbortsPropagate, Owned, CStream
<1> QED BY <1>6, <1>7, EndsOnlyKeeps

-----------------------------------------------------------------------------
(* Steps that pass nothing on and end nothing.                             *)

LEMMA DeferCPasses ==
    ASSUME PassingInv, BridgeInv', NEW c \in Streams, DeferC(c)
    PROVE  Passing'
<1>1. BridgeInv /\ Untouched /\ Bodies /\ Ends /\ PassedOn /\ Untrailed
      /\ CompleteRequest /\ AnalyzedOnce /\ AbortsPropagate /\ Owned /\ 0 \notin Streams
  BY Owners DEF PassingInv
<1>2. \A d \in Streams :
          /\ d # c => csess'[d] = csess[d]
          /\ csess'[d].st = csess[d].st /\ csess'[d].rd = csess[d].rd
          /\ csess'[d].wr = csess[d].wr /\ csess'[d].q = csess[d].q
          /\ csess[c].st = "open" /\ csess'[c].prov = "deferred" /\ csess[c].prov = "ready"
  BY <1>1, StreamTypes DEF DeferC, DataTurnC, BridgeInv, TypeOK, CStream
<1>3. UNCHANGED <<str, byUpstream, usess, cClosed, uClosed, client, origin>>
  BY DEF DeferC
<1>4. \A d \in Streams : SentFor(d)' = SentFor(d)
  BY <1>3 DEF SentFor
<1>5. Untouched' /\ Ends'
  BY <1>1, <1>2, <1>3 DEF Untouched, Ends, EndsLast
<1>6. Bodies'
  BY <1>1, <1>3, <1>4 DEF Bodies
<1>7. PassedOn' /\ Untrailed'
  BY <1>1, <1>2, <1>3, <1>4 DEF PassedOn, Untrailed, CompleteResponse
<1>8. CompleteRequest' /\ AnalyzedOnce' /\ AbortsPropagate'
  BY <1>1, <1>2, <1>3 DEF CompleteRequest, AnalyzedOnce, AbortsPropagate
<1> QED BY <1>5, <1>6, <1>7, <1>8 DEF Passing

LEMMA DeferUPasses ==
    ASSUME PassingInv, BridgeInv', NEW u \in Streams, DeferU(u)
    PROVE  Passing'
<1>1. BridgeInv /\ Untouched /\ Bodies /\ Ends /\ PassedOn /\ Untrailed
      /\ CompleteRequest /\ AnalyzedOnce /\ AbortsPropagate /\ Owned /\ 0 \notin Streams
  BY Owners DEF PassingInv
<1>2. \A v \in Streams :
          /\ v # u => usess'[v] = usess[v]
          /\ usess'[v].st = usess[v].st /\ usess'[v].rd = usess[v].rd
          /\ usess'[v].wr = usess[v].wr
          /\ usess[u].st = "open" /\ usess'[u].prov = "deferred" /\ usess[u].prov = "ready"
  BY <1>1, StreamTypes DEF DeferU, DataTurnU, BridgeInv, TypeOK, UStream
<1>3. UNCHANGED <<str, byUpstream, csess, cClosed, uClosed, client, origin>>
  BY DEF DeferU
<1>4. \A d \in Streams : SentFor(d)' = SentFor(d)
  BY <1>3 DEF SentFor
<1>5. Untouched' /\ Ends'
  BY <1>1, <1>2, <1>3 DEF Untouched, Ends
<1>6. Bodies'
  BY <1>1, <1>3, <1>4 DEF Bodies
<1>7. PassedOn' /\ Untrailed'
  BY <1>1, <1>2, <1>3, <1>4 DEF PassedOn, Untrailed, CompleteResponse
<1>8. CompleteRequest' /\ AnalyzedOnce' /\ AbortsPropagate'
  BY <1>1, <1>2, <1>3, Owners DEF CompleteRequest, AnalyzedOnce, AbortsPropagate, Owned
<1> QED BY <1>5, <1>6, <1>7, <1>8 DEF Passing

LEMMA ClientTrailersPasses ==
    ASSUME PassingInv, BridgeInv', NEW c \in Streams, ClientTrailers(c)
    PROVE  Passing'
<1>1. BridgeInv /\ Untouched /\ Bodies /\ Ends /\ PassedOn /\ Untrailed
      /\ CompleteRequest /\ AnalyzedOnce /\ AbortsPropagate /\ Owned /\ 0 \notin Streams
  BY Owners DEF PassingInv
<1>2. csess[c].st = "open" /\ csess[c].rd /\ "reqTrailers" \in Peer
  BY DEF ClientTrailers, ClientMaySend
<1>3. /\ \A d \in Streams : d # c => csess'[d] = csess[d]
      /\ \/ csess'[c].st = "closed" /\ csess'[c].q = <<>> /\ ~csess[c].wr
         \/ /\ csess'[c].st = "open" /\ ~csess'[c].rd
            /\ csess'[c].wr = csess[c].wr /\ csess'[c].q = csess[c].q
            /\ csess'[c].prov = csess[c].prov
  <2>1. csess \in [Streams -> CStream] /\ csess[c] \in CStream
    BY <1>1, StreamTypes DEF BridgeInv, TypeOK
  <2>2. CASE csess[c].wr
    BY <1>2, <2>1, <2>2 DEF ClientTrailers, CStream
  <2>3. CASE ~csess[c].wr
    BY <2>1, <2>3 DEF ClientTrailers, ClosedC, CStream
  <2> QED BY <2>2, <2>3
<1>4. \A d \in Streams :
          /\ IF d = c THEN client'[d].ended ELSE client'[d].ended = client[d].ended
          /\ client'[d].sent = client[d].sent /\ client'[d].got = client[d].got
          /\ client'[d].hdrs = client[d].hdrs /\ client'[d].fin = client[d].fin
  <2> TAKE d \in Streams
  <2>1. client \in [Streams -> ClientView] /\ client[d] \in ClientView
    BY <1>1, StreamTypes DEF BridgeInv, TypeOK
  <2>2. CASE d = c
    BY <2>1, <2>2 DEF ClientTrailers, ClientView
  <2>3. CASE d # c
    BY <2>1, <2>3 DEF ClientTrailers
  <2> QED BY <2>2, <2>3
<1>5. UNCHANGED <<str, byUpstream, usess, cClosed, uClosed, origin>>
  BY DEF ClientTrailers
<1>6. \A d \in Streams : SentFor(d)' = SentFor(d)
  BY <1>5 DEF SentFor
<1>7. Untouched'
  BY <1>1, <1>2, <1>3, <1>4, <1>5 DEF Untouched
<1>11. Ends'
  BY <1>1, <1>2, <1>3, <1>4, <1>5 DEF Ends, EndsLast
<1>8. Bodies'
  BY <1>1, <1>4, <1>5, <1>6, Owners DEF Bodies, Owned
<1>9. PassedOn' /\ Untrailed'
  BY <1>1, <1>2, <1>3, <1>4, <1>5, <1>6 DEF PassedOn, Untrailed, CompleteResponse, Ends
<1>10. CompleteRequest'
  BY <1>1, <1>4, <1>5 DEF CompleteRequest, Untouched, Owned
<1>12. AnalyzedOnce'
  BY <1>1, <1>4, <1>5 DEF AnalyzedOnce
<1>13. AbortsPropagate'
  BY <1>1, <1>2, <1>3, <1>5 DEF AbortsPropagate, Ends
<1> QED BY <1>7, <1>8, <1>9, <1>10, <1>11, <1>12, <1>13 DEF Passing

-----------------------------------------------------------------------------
(* The client's session sends.                                             *)

LEMMA QueueTail ==
    ASSUME NEW q \in Seq(HeadersItem), q # <<>>, NEW eof, EndsLast(q, eof)
    PROVE  /\ EndsLast(Tail(q), eof)
           /\ Head(q).end => eof /\ Tail(q) = <<>> /\ \E i \in 1..Len(q) : q[i].end
           /\ (\E i \in 1..Len(Tail(q)) : Tail(q)[i].end) => \E i \in 1..Len(q) : q[i].end
<1> DEFINE tail == Tail(q)
<1>1. Len(q) \in Nat \ {0} /\ Head(q) = q[1]
  BY EmptySeq
<1>2. /\ tail \in Seq(HeadersItem) /\ Len(tail) = Len(q) - 1
      /\ \A i \in 1..Len(tail) : tail[i] = q[i + 1]
  BY HeadTailProperties
<1> HIDE DEF tail
<1>3. \A i \in 1..Len(tail) : i + 1 \in 1..Len(q) /\ (i + 1 = Len(q) => i = Len(tail))
  BY <1>1, <1>2
<1>4. EndsLast(tail, eof)
  BY <1>2, <1>3 DEF EndsLast
<1>5. ASSUME Head(q).end PROVE eof /\ tail = <<>> /\ \E i \in 1..Len(q) : q[i].end
  <2>1. 1 \in 1..Len(q)
    BY <1>1
  <2>2. 1 = Len(q) /\ eof
    BY <1>1, <1>5, <2>1 DEF EndsLast
  <2>3. Len(tail) = 0
    BY <1>2, <2>2
  <2>4. tail = <<>>
    BY <1>2, <2>3, EmptySeq
  <2> QED BY <1>1, <1>5, <2>1, <2>2, <2>4
<1>6. (\E i \in 1..Len(tail) : tail[i].end) => \E i \in 1..Len(q) : q[i].end
  BY <1>2, <1>3
<1> QED BY <1>4, <1>5, <1>6 DEF tail

LEMMA SendHeadersCPasses ==
    ASSUME PassingInv, BridgeInv', NEW c \in Streams, SendHeadersC(c)
    PROVE  Passing'
<1> DEFINE q == csess[c].q
           item == Head(csess[c].q)
<1>1. BridgeInv /\ Untouched /\ Bodies /\ Ends /\ PassedOn /\ Untrailed
      /\ CompleteRequest /\ AnalyzedOnce /\ AbortsPropagate /\ Owned /\ 0 \notin Streams
  BY Owners DEF PassingInv
<1>2. /\ csess \in [Streams -> CStream] /\ csess[c] \in CStream
      /\ client \in [Streams -> ClientView] /\ client[c] \in ClientView
      /\ csess[c].st = "open" /\ q \in Seq(HeadersItem) /\ q # <<>>
  BY <1>1, StreamTypes DEF BridgeInv, TypeOK, SendHeadersC, CStream
<1>3. EndsLast(q, str[c].respEof)
  BY <1>1 DEF Ends
<1>4. /\ EndsLast(Tail(q), str[c].respEof)
      /\ item.end => str[c].respEof /\ Tail(q) = <<>> /\ \E i \in 1..Len(q) : q[i].end
      /\ (\E i \in 1..Len(Tail(q)) : Tail(q)[i].end) => \E i \in 1..Len(q) : q[i].end
  BY <1>2, <1>3, QueueTail
<1>5. item \in HeadersItem
  BY <1>2, HeadTailProperties
<1>6. /\ \A d \in Streams : d # c => csess'[d] = csess[d]
      /\ \/ csess'[c].st = "closed" /\ csess'[c].q = <<>> /\ item.end
         \/ /\ csess'[c].st = "open" /\ csess'[c].q = Tail(q)
            /\ csess'[c].rd = csess[c].rd
            /\ IF item.end THEN csess'[c].prov = "none" /\ ~csess'[c].wr
                           ELSE csess'[c].prov # "none" /\ csess'[c].wr
  <2>1. CASE item.end /\ ~csess[c].rd
    BY <1>2, <2>1 DEF SendHeadersC, ClosedC, CStream
  <2>2. CASE ~(item.end /\ ~csess[c].rd)
    <3>1. csess'[c] = HeadersSent(csess[c], item.end) /\ item.end \in BOOLEAN
      BY <1>2, <1>5, <2>2 DEF SendHeadersC, HeadersItem
    <3>2. csess'[c].wr = ~item.end
      BY <1>2, <3>1 DEF HeadersSent, CStream
    <3> QED BY <1>2, <2>2, <3>1, <3>2 DEF SendHeadersC, HeadersSent, CStream
  <2> QED BY <2>1, <2>2
<1>7. /\ \A d \in Streams :
            /\ client'[d].sent = client[d].sent /\ client'[d].ended = client[d].ended
            /\ client'[d].got = client[d].got
            /\ d # c \/ cClosed => client'[d] = client[d]
      /\ ~cClosed => /\ client'[c].hdrs = Append(client[c].hdrs, item.hdr)
                     /\ IF item.end THEN client'[c].fin = "end"
                                    ELSE client'[c].fin = client[c].fin
  BY <1>2, StreamTypes DEF SendHeadersC, ToClient, ClientView
<1>8. UNCHANGED <<str, byUpstream, usess, cClosed, uClosed, origin>>
  BY DEF SendHeadersC
<1>9. \A d \in Streams : SentFor(d)' = SentFor(d)
  BY <1>8 DEF SentFor
<1>10. csess[c].wr
  BY <1>1, <1>2 DEF Ends, CStream
<1>11. client[c].fin = "no"
  BY <1>1, <1>2, <1>10 DEF Ends
<1>12. ~cClosed => client'[c].hdrs # <<>>
  <2>1. client[c].hdrs \in Seq(Seq(Block)) /\ item.hdr \in Seq(Block)
    BY <1>2, <1>5 DEF ClientView, HeadersItem
  <2>2. Append(client[c].hdrs, item.hdr) # <<>>
    <3> HIDE DEF item
    <3>1. ASSUME NEW s \in Seq(Seq(Block)), NEW h \in Seq(Block)
          PROVE  Append(s, h) # <<>>
      BY <3>1, AppendProperties
    <3> QED BY <2>1, <3>1
  <2> QED BY <1>7, <2>2
<1> HIDE DEF q, item
<1>13. Untouched'
  BY <1>1, <1>2, <1>6, <1>7, <1>8 DEF Untouched
<1>14. Bodies'
  BY <1>1, <1>7, <1>8, <1>9 DEF Bodies, Owned
<1>15. Ends'
  <2>1. ASSUME NEW d \in Streams
        PROVE  EndsLast(csess'[d].q, str'[d].respEof)
    <3>1. CASE csess'[d].q = <<>>
      BY <3>1 DEF EndsLast
    <3>2. CASE csess'[d].q # <<>> /\ d = c
      BY <1>4, <1>6, <1>8, <3>2
    <3>3. CASE d # c
      BY <1>1, <1>6, <1>8, <3>3 DEF Ends
    <3> QED BY <3>1, <3>2, <3>3
  <2>2. ASSUME NEW d \in Streams
        PROVE  /\ csess'[d].st = "open" => (client'[d].ended <=> ~csess'[d].rd)
               /\ csess'[d].st = "open" /\ ~csess'[d].wr =>
                     str'[d].respEof /\ csess'[d].q = <<>> /\ csess'[d].prov = "none"
               /\ client'[d].fin # "no" =>
                     csess'[d].st = "closed" \/ (csess'[d].st = "open" /\ ~csess'[d].wr)
    <3>1. CASE d = c
      BY <1>1, <1>2, <1>4, <1>6, <1>7, <1>8, <1>11, <3>1 DEF Ends
    <3>2. CASE d # c
      BY <1>1, <1>6, <1>7, <1>8, <3>2 DEF Ends
    <3> QED BY <3>1, <3>2
  <2> QED BY <1>1, <1>7, <1>8, <2>1, <2>2 DEF Ends
<1>16. PassedOn'
  <2>1. ASSUME NEW d \in Streams, csess'[d].st = "open"
        PROVE  /\ str'[d].uid # 0 /\ csess'[d].wr /\ csess'[d].prov = "none" /\ csess'[d].q = <<>> =>
                     origin'[str'[d].uid].stage = "none"
               /\ ~cClosed' /\ ~csess'[d].wr => client'[d].fin = "end"
               /\ ~cClosed' /\ str'[d].uid # 0 /\ csess'[d].q = <<>> =>
                     origin'[str'[d].uid].stage = "none" \/ client'[d].hdrs # <<>>
    <3>1. CASE d = c
      BY <1>6, <1>7, <1>8, <1>12, <2>1, <3>1
    <3>2. CASE d # c
      BY <1>1, <1>6, <1>7, <1>8, <2>1, <3>2 DEF PassedOn
    <3> QED BY <3>1, <3>2
  <2> QED BY <1>1, <1>7, <1>8, <2>1 DEF PassedOn
<1>17. Untrailed'
  <2> SUFFICES ASSUME "trailers" \notin Peer
               PROVE  /\ \A d \in Streams : (\E i \in 1..Len(csess'[d].q) : csess'[d].q[i].end) => SentFor(d)' = 0
                      /\ CompleteResponse'
    BY DEF Untrailed
  <2>1. CompleteResponse /\ \A d \in Streams : (\E i \in 1..Len(csess[d].q) : csess[d].q[i].end) => SentFor(d) = 0
    BY <1>1 DEF Untrailed
  <2>2. ASSUME NEW d \in Streams, \E i \in 1..Len(csess'[d].q) : csess'[d].q[i].end
        PROVE  SentFor(d) = 0
    <3>1. CASE d # c
      BY <1>6, <2>1, <2>2, <3>1
    <3>2. CASE d = c
      <4>1. csess'[c].q # <<>>
        BY <2>2, <3>2
      <4>2. csess'[c].q = Tail(q)
        BY <1>6, <4>1
      <4> QED BY <1>4, <2>1, <2>2, <3>2, <4>2 DEF q
    <3> QED BY <3>1, <3>2
  <2>3. ASSUME item.end
        PROVE  str[c].uid # 0 /\ origin[str[c].uid].respEnd /\ Len(client[c].got) = origin[str[c].uid].sent
    <3>1. str[c].uid # 0 /\ origin[str[c].uid].respEnd
      BY <1>1, <1>4, <2>3 DEF Ends
    <3>2. SentFor(c) = 0 /\ SentFor(c) = origin[str[c].uid].sent
      BY <1>4, <2>1, <2>3, <3>1 DEF q, SentFor
    <3>3. Passes(client[c].got, str[c].respBody, c, SentFor(c), ~cClosed)
      BY <1>1 DEF Bodies
    <3>4. client[c].got = <<>>
      <4>1. (~cClosed) \in BOOLEAN /\ client[c].got \in Seq(Chunk) /\ str[c].respBody \in Seq(Chunk)
        BY <1>1, StreamTypes DEF ClientView, H2Stream
      <4> QED BY <3>2, <3>3, <4>1, PassesLeft
    <3>5. Len(client[c].got) = 0
      BY <3>4, EmptySeq
    <3> QED BY <3>1, <3>2, <3>5
  <2>4. CompleteResponse'
    BY <1>7, <1>8, <2>1, <2>3 DEF CompleteResponse
  <2> QED BY <1>9, <2>2, <2>4
<1>18. CompleteRequest' /\ AnalyzedOnce'
  BY <1>1, <1>7, <1>8 DEF CompleteRequest, AnalyzedOnce, Untouched, Owned
<1>19. AbortsPropagate'
  BY <1>1, <1>2, <1>4, <1>6, <1>8 DEF AbortsPropagate
<1> QED BY <1>13, <1>14, <1>15, <1>16, <1>17, <1>18, <1>19 DEF Passing

LEMMA RestAll ==
    ASSUME NEW body \in Seq(Chunk), NEW eof \in BOOLEAN, NEW k \in Reads(body, eof), ReadsEof(body, eof, k)
    PROVE  eof /\ Rest(body, k) = <<>>
<1>1. k = Len(body) /\ eof /\ Len(body) \in Nat
  BY LenProperties DEF ReadsEof
<1>2. k \in 0..Len(body)
  BY ReadsBound
<1>3. Rest(body, k) \in Seq(Chunk)
  BY <1>2, BodyParts
<1>4. Len(Rest(body, k)) = 0
  <2>1. \A i \in 1..Len(body) : body[i] \in Chunk
    BY ElementOfSeq
  <2> QED BY <1>1, <2>1, SubSeqProperties DEF Rest
<1> QED BY <1>1, <1>3, <1>4, EmptySeq

LEMMA SendDataCPasses ==
    ASSUME PassingInv, BridgeInv', NEW c \in Streams, NEW k \in 0..MaxBody, SendDataC(c, k)
    PROVE  Passing'
<1> DEFINE body == str[c].respBody
           end == ReadsEof(str[c].respBody, str[c].respEof, k)
<1>1. BridgeInv /\ Untouched /\ Bodies /\ Ends /\ PassedOn /\ Untrailed
      /\ CompleteRequest /\ AnalyzedOnce /\ AbortsPropagate /\ Owned /\ 0 \notin Streams
  BY Owners DEF PassingInv
<1>2. /\ csess \in [Streams -> CStream] /\ csess[c] \in CStream
      /\ client \in [Streams -> ClientView] /\ client[c] \in ClientView
      /\ str \in [Streams -> H2Stream] /\ str[c] \in H2Stream
      /\ csess[c].st = "open" /\ csess[c].prov = "ready" /\ csess[c].q = <<>>
  BY <1>1, StreamTypes DEF BridgeInv, TypeOK, SendDataC, DataTurnC
<1>3. csess[c].wr /\ client[c].fin = "no"
  BY <1>1, <1>2 DEF Ends, CStream
<1>4. body \in Seq(Chunk) /\ str[c].respEof \in BOOLEAN /\ k \in Reads(body, str[c].respEof)
      /\ k \in 0..Len(body)
  BY <1>2, ReadsBound DEF H2Stream, SendDataC
<1>5. end => str[c].respEof /\ Rest(body, k) = <<>>
  BY <1>4, RestAll
<1>6. end \in BOOLEAN
  BY <1>4 DEF ReadsEof
<1>7. /\ \A d \in Streams : d # c => csess'[d] = csess[d]
      /\ csess'[c].q = <<>>
      /\ \/ csess'[c].st = "closed" /\ end
         \/ /\ csess'[c].st = "open" /\ csess'[c].rd = csess[c].rd
            /\ IF end THEN csess'[c].prov = "none" /\ ~csess'[c].wr
                      ELSE csess'[c].prov = "ready" /\ csess'[c].wr
  <2>1. CASE end /\ ~csess[c].rd
    BY <1>2, <2>1 DEF SendDataC, ClosedC, CStream
  <2>2. CASE ~(end /\ ~csess[c].rd)
    <3>1. csess' = [csess EXCEPT ![c].wr = ~end, ![c].prov = IF end THEN "none" ELSE @]
      BY <2>2 DEF SendDataC
    <3> HIDE DEF end
    <3> QED BY <1>2, <1>6, <2>2, <3>1 DEF CStream
  <2> QED BY <2>1, <2>2
<1>8. /\ \A d \in Streams :
            /\ client'[d].sent = client[d].sent /\ client'[d].ended = client[d].ended
            /\ client'[d].hdrs = client[d].hdrs
            /\ d # c \/ cClosed => client'[d] = client[d]
      /\ ~cClosed => /\ client'[c].got = client[c].got \o SubSeq(body, 1, k)
                     /\ IF end THEN client'[c].fin = "end" ELSE client'[c].fin = client[c].fin
  <2>1. client' = IF cClosed THEN client
                  ELSE [client EXCEPT ![c] = [client[c] EXCEPT !.got = @ \o SubSeq(body, 1, k),
                                                             !.fin = IF end THEN "end" ELSE @]]
    BY DEF SendDataC, ToClient
  <2> HIDE DEF body, end
  <2> QED BY <1>2, <2>1, StreamTypes DEF ClientView
<1>9. \A d \in Streams :
          /\ d # c => str'[d] = str[d]
          /\ str'[d].uid = str[d].uid /\ str'[d].respEof = str[d].respEof
          /\ str'[d].reqBody = str[d].reqBody /\ str'[d].reqEof = str[d].reqEof
          /\ str'[d].uploadCap = str[d].uploadCap /\ str'[d].analyzed = str[d].analyzed
          /\ str'[c].respBody = Rest(body, k)
  <2>1. str' = [str EXCEPT ![c].respBody = Rest(body, k)]
    BY <1>2 DEF SendDataC
  <2> HIDE DEF body
  <2> QED BY <1>1, <1>2, <2>1, StreamTypes DEF H2Stream
<1>10. UNCHANGED <<byUpstream, usess, cClosed, uClosed, origin>>
  BY DEF SendDataC
<1>11. \A d \in Streams : SentFor(d)' = SentFor(d)
  BY <1>9, <1>10 DEF SentFor
<1>12. Passes(client'[c].got, str'[c].respBody, c, SentFor(c), ~cClosed)
  <2>1. Passes(client[c].got, body, c, SentFor(c), ~cClosed)
    BY <1>1 DEF Bodies
  <2>2. client[c].got \in Seq(Chunk) /\ (~cClosed) \in BOOLEAN /\ SentFor(c) \in Nat
    BY <1>1, <1>2, StreamTypes DEF ClientView
  <2> HIDE DEF body
  <2>3. /\ ~cClosed => Passes(client[c].got \o SubSeq(body, 1, k), Rest(body, k), c, SentFor(c), ~cClosed)
        /\ Passes(client[c].got, Rest(body, k), c, SentFor(c), FALSE)
    BY <1>4, <2>1, <2>2, PassesTake
  <2>4. CASE cClosed
    BY <1>8, <1>9, <2>3, <2>4
  <2>5. CASE ~cClosed
    BY <1>8, <1>9, <2>3, <2>5
  <2> QED BY <2>4, <2>5
<1> HIDE DEF body, end
<1>13. Untouched'
  BY <1>1, <1>2, <1>7, <1>8, <1>9, <1>10 DEF Untouched
<1>14. Bodies'
  BY <1>1, <1>8, <1>9, <1>10, <1>11, <1>12 DEF Bodies, Owned
<1>15. Ends'
  <2>1. ASSUME NEW d \in Streams
        PROVE  /\ csess'[d].st = "open" => (client'[d].ended <=> ~csess'[d].rd)
               /\ EndsLast(csess'[d].q, str'[d].respEof)
               /\ csess'[d].st = "open" /\ ~csess'[d].wr =>
                     str'[d].respEof /\ csess'[d].q = <<>> /\ csess'[d].prov = "none"
               /\ client'[d].fin # "no" =>
                     csess'[d].st = "closed" \/ (csess'[d].st = "open" /\ ~csess'[d].wr)
    <3>1. CASE d = c
      <4>1. csess'[c].st = "open" => (client'[c].ended <=> ~csess'[c].rd)
        <5>1. client[c].ended <=> ~csess[c].rd
          BY <1>1, <1>2 DEF Ends
        <5> QED BY <1>7, <1>8, <5>1
      <4>2. EndsLast(csess'[c].q, str'[c].respEof)
        BY <1>7 DEF EndsLast
      <4>3. csess'[c].st = "open" /\ ~csess'[c].wr => str'[c].respEof /\ csess'[c].prov = "none"
        BY <1>5, <1>7, <1>9
      <4>4. client'[c].fin # "no" => end
        BY <1>3, <1>8
      <4>5. end => csess'[c].st = "closed" \/ (csess'[c].st = "open" /\ ~csess'[c].wr)
        BY <1>7
      <4> QED BY <1>7, <3>1, <4>1, <4>2, <4>3, <4>4, <4>5
    <3>2. CASE d # c
      BY <1>1, <1>7, <1>8, <1>9, <3>2 DEF Ends
    <3> QED BY <3>1, <3>2
  <2> QED BY <1>1, <1>8, <1>9, <1>10, <2>1 DEF Ends, Owned
<1>16. PassedOn'
  <2>1. ASSUME NEW d \in Streams, csess'[d].st = "open"
        PROVE  /\ str'[d].uid # 0 /\ csess'[d].wr /\ csess'[d].prov = "none" /\ csess'[d].q = <<>> =>
                     origin'[str'[d].uid].stage = "none"
               /\ ~cClosed' /\ ~csess'[d].wr => client'[d].fin = "end"
               /\ ~cClosed' /\ str'[d].uid # 0 /\ csess'[d].q = <<>> =>
                     origin'[str'[d].uid].stage = "none" \/ client'[d].hdrs # <<>>
    <3>1. CASE d = c
      <4>1. ~cClosed /\ str[c].uid # 0 => origin[str[c].uid].stage = "none" \/ client[c].hdrs # <<>>
        BY <1>1, <1>2 DEF PassedOn
      <4>2. IF end THEN ~csess'[c].wr ELSE csess'[c].prov = "ready" /\ csess'[c].wr
        BY <1>7, <2>1, <3>1
      <4>3. ~cClosed /\ ~csess'[c].wr => client'[c].fin = "end"
        BY <1>8, <4>2
      <4>4. /\ str'[c].uid = str[c].uid /\ client'[c].hdrs = client[c].hdrs
            /\ cClosed' = cClosed /\ origin' = origin
        BY <1>8, <1>9, <1>10
      <4> QED BY <1>3, <3>1, <4>1, <4>2, <4>3, <4>4
    <3>2. CASE d # c
      BY <1>1, <1>7, <1>8, <1>9, <1>10, <2>1, <3>2 DEF PassedOn
    <3> QED BY <3>1, <3>2
  <2> QED BY <1>1, <1>8, <1>9, <1>10, <2>1 DEF PassedOn
<1>17. Untrailed'
  <2> SUFFICES ASSUME "trailers" \notin Peer
               PROVE  /\ \A d \in Streams : (\E i \in 1..Len(csess'[d].q) : csess'[d].q[i].end) => SentFor(d)' = 0
                      /\ CompleteResponse'
    BY DEF Untrailed
  <2>1. CompleteResponse /\ \A d \in Streams : (\E i \in 1..Len(csess[d].q) : csess[d].q[i].end) => SentFor(d) = 0
    BY <1>1 DEF Untrailed
  <2>2. ASSUME NEW d \in Streams, \E i \in 1..Len(csess'[d].q) : csess'[d].q[i].end
        PROVE  SentFor(d) = 0
    BY <1>2, <1>7, <2>1, <2>2
  <2>3. ASSUME end, ~cClosed
        PROVE  str[c].uid # 0 /\ origin[str[c].uid].respEnd /\ Len(client'[c].got) = origin[str[c].uid].sent
    <3>1. str[c].uid # 0 /\ origin[str[c].uid].respEnd
      BY <1>1, <1>5, <2>3 DEF Ends
    <3>2. SentFor(c) = origin[str[c].uid].sent
      BY <3>1 DEF SentFor
    <3>3. str'[c].respBody = <<>> /\ client'[c].got \in Seq(Chunk) /\ SentFor(c) \in Nat
      <4>1. str'[c].respBody = <<>>
        BY <1>5, <1>9, <2>3
      <4>2. client'[c] \in ClientView
        BY DEF BridgeInv, TypeOK
      <4>3. SentFor(c) \in Nat
        BY <1>1, StreamTypes
      <4> QED BY <4>1, <4>2, <4>3 DEF ClientView
    <3>4. Passes(client'[c].got, str'[c].respBody, c, SentFor(c), TRUE)
      BY <1>12, <2>3
    <3>5. Len(client'[c].got) = SentFor(c)
      BY <3>3, <3>4, PassesWhole
    <3> QED BY <3>1, <3>2, <3>5
  <2>4. CompleteResponse'
    <3>1. ASSUME NEW d \in Streams, client'[d].fin = "end"
          PROVE  /\ str[d].uid # 0 /\ origin[str[d].uid].respEnd
                 /\ Len(client'[d].got) = origin[str[d].uid].sent
      <4>1. CASE d # c \/ cClosed
        BY <1>8, <2>1, <3>1, <4>1 DEF CompleteResponse
      <4>2. CASE d = c /\ ~cClosed
        <5>1. end
          BY <1>3, <1>8, <3>1, <4>2
        <5> QED BY <2>3, <4>2, <5>1
      <4> QED BY <4>1, <4>2
    <3> QED BY <1>9, <1>10, <3>1 DEF CompleteResponse
  <2> QED BY <1>11, <2>2, <2>4
<1>18. CompleteRequest' /\ AnalyzedOnce'
  BY <1>1, <1>8, <1>9, <1>10 DEF CompleteRequest, AnalyzedOnce, Untouched, Owned
<1>19. AbortsPropagate'
  BY <1>1, <1>2, <1>5, <1>7, <1>9, <1>10 DEF AbortsPropagate
<1> QED BY <1>13, <1>14, <1>15, <1>16, <1>17, <1>18, <1>19 DEF Passing

-----------------------------------------------------------------------------
(* The origin's session sends.                                             *)

LEMMA SendHeadersUPasses ==
    ASSUME PassingInv, BridgeInv', NEW u \in Streams, SendHeadersU(u)
    PROVE  Passing'
<1>1. BridgeInv /\ Untouched /\ Bodies /\ Ends /\ PassedOn /\ Untrailed
      /\ CompleteRequest /\ AnalyzedOnce /\ AbortsPropagate /\ Owned /\ 0 \notin Streams
  BY Owners DEF PassingInv
<1>2. /\ usess \in [Streams -> UStream] /\ usess[u] \in UStream
      /\ origin \in [Streams -> OriginView] /\ origin[u] \in OriginView
      /\ usess[u].st = "pending"
  BY <1>1, StreamTypes DEF BridgeInv, TypeOK, SendHeadersU
<1>3. byUpstream[u] \in Streams /\ byUpstream[u] # 0
  BY <1>1, <1>2 DEF Owned
<1>4. /\ origin[u].tag = 0 /\ origin[u].got = <<>> /\ origin[u].stage = "none"
      /\ origin[u].sent = 0 /\ ~origin[u].respEnd /\ usess[u].rd
  BY <1>1, <1>2 DEF Untouched
<1>5. \A v \in Streams :
          /\ v # u => usess'[v] = usess[v]
          /\ usess'[v].prov = usess[v].prov /\ usess'[v].rd = usess[v].rd
          /\ usess'[u].st = "open"
  BY <1>1, <1>2, StreamTypes DEF SendHeadersU, UStream
<1>6. /\ \A v \in Streams :
            /\ v # u \/ uClosed => origin'[v] = origin[v]
            /\ origin'[v].got = origin[v].got /\ origin'[v].stage = origin[v].stage
            /\ origin'[v].sent = origin[v].sent /\ origin'[v].respEnd = origin[v].respEnd
      /\ ~uClosed => origin'[u].tag = byUpstream[u] /\ (origin'[u].reqEnd <=> usess[u].prov = "none")
  <2>1. origin' = IF uClosed THEN origin
                  ELSE [origin EXCEPT ![u] = [origin[u] EXCEPT !.tag = byUpstream[u],
                                                             !.reqEnd = ~(usess[u].prov # "none")]]
    BY DEF SendHeadersU, ToOrigin
  <2> QED BY <1>2, <2>1, StreamTypes DEF OriginView
<1>7. UNCHANGED <<str, byUpstream, csess, cClosed, uClosed, client>>
  BY DEF SendHeadersU
<1>8. \A d \in Streams : SentFor(d)' = SentFor(d)
  BY <1>1, <1>6, <1>7 DEF SentFor, Owned
<1>9. Untouched'
  <2>1. ASSUME NEW v \in Streams
        PROVE  /\ usess'[v].st \in {"idle", "pending"} => usess'[v].rd /\ usess'[v].wr /\ origin'[v].tag = 0
               /\ usess'[v].st = "open" /\ ~uClosed' => origin'[v].tag # 0
               /\ origin'[v].tag # 0 => origin'[v].tag = byUpstream'[v]
               /\ origin'[v].tag = 0 => origin'[v].got = <<>> /\ ~origin'[v].reqEnd /\ origin'[v].stage = "none"
               /\ origin'[v].stage \in {"none", "info"} => origin'[v].sent = 0 /\ ~origin'[v].respEnd
    <3>1. CASE v = u
      BY <1>1, <1>3, <1>4, <1>5, <1>6, <1>7, <3>1 DEF Untouched
    <3>2. CASE v # u
      BY <1>1, <1>5, <1>6, <1>7, <3>2 DEF Untouched
    <3> QED BY <3>1, <3>2
  <2> QED BY <1>1, <1>7, <2>1 DEF Untouched
<1>10. Bodies'
  BY <1>1, <1>6, <1>7, <1>8 DEF Bodies
<1>11. Ends'
  BY <1>1, <1>2, <1>4, <1>5, <1>6, <1>7 DEF Ends, Owned
<1>12. CompleteRequest'
  <2>1. ASSUME NEW v \in Streams, origin'[v].reqEnd
        PROVE  client'[origin'[v].tag].ended /\ Len(origin'[v].got) = client'[origin'[v].tag].sent
    <3>1. CASE v # u \/ uClosed
      BY <1>1, <1>6, <1>7, <2>1, <3>1 DEF CompleteRequest
    <3>2. CASE v = u /\ ~uClosed
      <4> DEFINE c == byUpstream[u]
      <4>1. origin'[u].tag = c /\ usess[u].prov = "none" /\ c \in Streams
        BY <1>3, <1>6, <2>1, <3>2
      <4>2. str[c].reqEof /\ str[c].reqBody = <<>> /\ client[c].ended
        BY <1>1, <1>2, <4>1 DEF Ends
      <4>3. Passes(origin[u].got, str[c].reqBody, c, client[c].sent, TRUE)
        BY <1>1, <1>3, <3>2 DEF Bodies
      <4>4. origin[u].got \in Seq(Chunk) /\ str[c].reqBody \in Seq(Chunk) /\ client[c].sent \in Nat
        BY <1>1, <1>2, <4>1, StreamTypes DEF OriginView, H2Stream, ClientView
      <4> HIDE DEF c
      <4>5. Len(origin[u].got) = client[c].sent
        BY <4>2, <4>3, <4>4, PassesWhole
      <4> QED BY <1>6, <1>7, <3>2, <4>1, <4>2, <4>5
    <3> QED BY <3>1, <3>2
  <2> QED BY <2>1 DEF CompleteRequest
<1>13. PassedOn'
  BY <1>1, <1>2, <1>5, <1>6, <1>7 DEF PassedOn, Owned
<1>14. Untrailed'
  BY <1>1, <1>6, <1>7, <1>8 DEF Untrailed, CompleteResponse, Owned
<1>15. AnalyzedOnce'
  BY <1>1, <1>7 DEF AnalyzedOnce
<1>16. AbortsPropagate'
  BY <1>1, <1>2, <1>5, <1>7 DEF AbortsPropagate, Owned
<1> QED BY <1>9, <1>10, <1>11, <1>12, <1>13, <1>14, <1>15, <1>16 DEF Passing

LEMMA SendDataUPasses ==
    ASSUME PassingInv, BridgeInv', NEW u \in Streams, NEW k \in 0..MaxBody, SendDataU(u, k)
    PROVE  Passing'
<1> DEFINE c == byUpstream[u]
           body == str[c].reqBody
           end == ReadsEof(str[c].reqBody, str[c].reqEof, k)
<1>1. BridgeInv /\ Untouched /\ Bodies /\ Ends /\ PassedOn /\ Untrailed
      /\ CompleteRequest /\ AnalyzedOnce /\ AbortsPropagate /\ Owned /\ 0 \notin Streams
  BY Owners DEF PassingInv
<1>2. /\ usess \in [Streams -> UStream] /\ usess[u] \in UStream
      /\ origin \in [Streams -> OriginView] /\ origin[u] \in OriginView
      /\ usess[u].st = "open" /\ usess[u].prov = "ready"
  BY <1>1, StreamTypes DEF BridgeInv, TypeOK, SendDataU, DataTurnU
<1>3. c \in Streams /\ c # 0 /\ str[c].uid = u
  BY <1>1, <1>2 DEF Owned
<1>4. str \in [Streams -> H2Stream] /\ str[c] \in H2Stream
  BY <1>1, <1>3, StreamTypes DEF BridgeInv, TypeOK
<1>5. body \in Seq(Chunk) /\ str[c].reqEof \in BOOLEAN /\ k \in Reads(body, str[c].reqEof)
      /\ k \in 0..Len(body)
  BY <1>4, ReadsBound DEF H2Stream, SendDataU
<1>6. end => str[c].reqEof /\ Rest(body, k) = <<>>
  BY <1>5, RestAll
<1>7. end \in BOOLEAN
  BY <1>5 DEF ReadsEof
<1>8. /\ \A v \in Streams : v # u => usess'[v] = usess[v]
      /\ \/ usess'[u].st = "closed" /\ end /\ ~usess[u].rd
         \/ /\ usess'[u].st = "open" /\ usess'[u].rd = usess[u].rd
            /\ IF end THEN usess'[u].prov = "none" ELSE usess'[u].prov = "ready"
  <2>1. CASE end /\ ~usess[u].rd
    BY <1>2, <2>1 DEF SendDataU, ClosedU, UStream
  <2>2. CASE ~(end /\ ~usess[u].rd)
    <3>1. usess' = [usess EXCEPT ![u].wr = ~end, ![u].prov = IF end THEN "none" ELSE @]
      BY <2>2 DEF SendDataU
    <3> HIDE DEF end
    <3> QED BY <1>2, <1>7, <2>2, <3>1 DEF UStream
  <2> QED BY <2>1, <2>2
<1>9. /\ \A v \in Streams :
            /\ origin'[v].tag = origin[v].tag /\ origin'[v].stage = origin[v].stage
            /\ origin'[v].sent = origin[v].sent /\ origin'[v].respEnd = origin[v].respEnd
            /\ v # u \/ uClosed => origin'[v] = origin[v]
      /\ ~uClosed => /\ origin'[u].got = origin[u].got \o SubSeq(body, 1, k)
                     /\ origin'[u].reqEnd = end
  <2>1. origin' = IF uClosed THEN origin
                  ELSE [origin EXCEPT ![u] = [origin[u] EXCEPT !.got = @ \o SubSeq(body, 1, k),
                                                             !.reqEnd = end]]
    BY DEF SendDataU, ToOrigin
  <2> HIDE DEF body, end
  <2> QED BY <1>2, <2>1, StreamTypes DEF OriginView
<1>10. \A d \in Streams :
          /\ d # c => str'[d] = str[d]
          /\ str'[d].uid = str[d].uid /\ str'[d].respEof = str[d].respEof
          /\ str'[d].respBody = str[d].respBody /\ str'[d].reqEof = str[d].reqEof
          /\ str'[d].uploadCap = str[d].uploadCap /\ str'[d].analyzed = str[d].analyzed
          /\ str'[c].reqBody = Rest(body, k)
  <2>1. str' = [str EXCEPT ![c].reqBody = Rest(body, k)]
    BY <1>4 DEF SendDataU
  <2> HIDE DEF body, c
  <2> QED BY <1>1, <1>3, <1>4, <2>1, StreamTypes DEF H2Stream
<1>11. UNCHANGED <<byUpstream, csess, cClosed, uClosed, client>>
  BY DEF SendDataU
<1>12. \A d \in Streams : SentFor(d)' = SentFor(d)
  BY <1>1, <1>9, <1>10 DEF SentFor, Owned
<1>13. Passes(origin'[u].got, str'[c].reqBody, c, client[c].sent, ~uClosed)
  <2>1. Passes(origin[u].got, body, c, client[c].sent, ~uClosed)
    BY <1>1, <1>3 DEF Bodies
  <2>2. origin[u].got \in Seq(Chunk) /\ (~uClosed) \in BOOLEAN /\ client[c].sent \in Nat
    BY <1>1, <1>2, <1>3, StreamTypes DEF ClientView, OriginView
  <2> HIDE DEF body, c
  <2>3. /\ ~uClosed => Passes(origin[u].got \o SubSeq(body, 1, k), Rest(body, k), c, client[c].sent, ~uClosed)
        /\ Passes(origin[u].got, Rest(body, k), c, client[c].sent, FALSE)
    BY <1>3, <1>5, <2>1, <2>2, PassesTake
  <2>4. CASE uClosed
    BY <1>9, <1>10, <2>3, <2>4
  <2>5. CASE ~uClosed
    BY <1>9, <1>10, <2>3, <2>5
  <2> QED BY <2>4, <2>5
<1>14. c = byUpstream[u]
  OBVIOUS
<1> HIDE DEF body, end, c
<1>16. Untouched'
  <2>1. ASSUME NEW v \in Streams
        PROVE  /\ usess'[v].st \in {"idle", "pending"} => usess'[v].rd /\ usess'[v].wr /\ origin'[v].tag = 0
               /\ usess'[v].st = "open" /\ ~uClosed' => origin'[v].tag # 0
               /\ origin'[v].tag # 0 => origin'[v].tag = byUpstream'[v]
               /\ origin'[v].tag = 0 => origin'[v].got = <<>> /\ ~origin'[v].reqEnd /\ origin'[v].stage = "none"
               /\ origin'[v].stage \in {"none", "info"} => origin'[v].sent = 0 /\ ~origin'[v].respEnd
    <3>1. CASE v = u
      BY <1>1, <1>2, <1>8, <1>9, <1>11, <3>1 DEF Untouched
    <3>2. CASE v # u
      BY <1>1, <1>8, <1>9, <1>11, <3>2 DEF Untouched
    <3> QED BY <3>1, <3>2
  <2>2. ASSUME NEW d \in Streams, csess'[d].st = "idle"
        PROVE  str'[d] = newStream
    <3>1. d # c
      BY <1>1, <1>2, <1>11, <1>14, <2>2 DEF Owned
    <3> QED BY <1>1, <1>10, <1>11, <2>2, <3>1 DEF Untouched
  <2> QED BY <1>1, <1>11, <2>1, <2>2 DEF Untouched
<1>17. Bodies'
  <2>1. ASSUME NEW v \in Streams, byUpstream[v] # 0
        PROVE  Passes(origin'[v].got, str'[byUpstream[v]].reqBody, byUpstream[v],
                      client[byUpstream[v]].sent, ~uClosed)
    <3>1. CASE v = u
      BY <1>13, <1>14, <3>1
    <3>2. CASE v # u
      <4>1. byUpstream[v] \in Streams /\ byUpstream[v] # c
        BY <1>1, <1>3, <2>1, <3>2 DEF Owned
      <4> QED BY <1>1, <1>9, <1>10, <2>1, <3>2, <4>1 DEF Bodies
    <3> QED BY <3>1, <3>2
  <2> QED BY <1>1, <1>10, <1>11, <1>12, <2>1 DEF Bodies
<1>18. Ends'
  <2>1. ASSUME NEW v \in Streams
        PROVE  /\ usess'[v].st = "open" => (origin'[v].respEnd <=> ~usess'[v].rd)
               /\ usess'[v].st \in {"pending", "open"} /\ usess'[v].prov = "none" =>
                     str'[byUpstream'[v]].reqEof /\ str'[byUpstream'[v]].reqBody = <<>>
    <3>1. CASE v = u
      BY <1>1, <1>2, <1>3, <1>6, <1>8, <1>9, <1>10, <1>11, <1>14, <3>1 DEF Ends
    <3>2. CASE v # u
      <4>1. usess'[v] = usess[v] /\ byUpstream'[v] = byUpstream[v]
        BY <1>8, <1>11, <3>2
      <4>2. usess[v].st \in {"pending", "open"} => byUpstream[v] \in Streams /\ byUpstream[v] # c
        BY <1>1, <1>3, <3>2 DEF Owned
      <4> QED BY <1>1, <1>9, <1>10, <4>1, <4>2 DEF Ends
    <3> QED BY <3>1, <3>2
  <2> QED BY <1>1, <1>9, <1>10, <1>11, <2>1 DEF Ends, Owned
<1>19. CompleteRequest'
  <2>1. ASSUME NEW v \in Streams, origin'[v].reqEnd
        PROVE  client[origin[v].tag].ended /\ Len(origin'[v].got) = client[origin[v].tag].sent
    <3>1. CASE v # u \/ uClosed
      BY <1>1, <1>9, <2>1, <3>1 DEF CompleteRequest
    <3>2. CASE v = u /\ ~uClosed
      <4>1. end /\ str[c].reqEof /\ str'[c].reqBody = <<>>
        BY <1>6, <1>9, <1>10, <2>1, <3>2
      <4>2. client[c].ended
        BY <1>1, <1>3, <4>1 DEF Ends
      <4>3. origin[u].tag = c
        BY <1>1, <1>2, <1>14, <3>2 DEF Untouched
      <4>4. Passes(origin'[u].got, <<>>, c, client[c].sent, TRUE)
        BY <1>13, <3>2, <4>1
      <4>5. origin'[u].got \in Seq(Chunk)
        <5>1. origin'[u] \in OriginView
          BY DEF BridgeInv, TypeOK
        <5> QED BY <5>1 DEF OriginView
      <4>6. client[c].sent \in Nat
        BY <1>1, <1>3, StreamTypes DEF ClientView
      <4>7. Len(origin'[u].got) = client[c].sent
        BY <4>4, <4>5, <4>6, PassesWhole
      <4> QED BY <3>2, <4>2, <4>3, <4>7
    <3> QED BY <3>1, <3>2
  <2> QED BY <1>9, <1>11, <2>1 DEF CompleteRequest
<1>20. PassedOn'
  <2>1. ASSUME NEW v \in Streams, usess'[v].st = "open", usess'[v].prov = "none", ~uClosed
        PROVE  origin'[v].reqEnd
    <3>1. CASE v = u
      BY <1>8, <1>9, <2>1, <3>1
    <3>2. CASE v # u
      BY <1>1, <1>8, <1>9, <2>1, <3>2 DEF PassedOn
    <3> QED BY <3>1, <3>2
  <2> QED BY <1>1, <1>9, <1>10, <1>11, <2>1 DEF PassedOn, Owned
<1>21. Untrailed'
  BY <1>1, <1>9, <1>10, <1>11, <1>12 DEF Untrailed, CompleteResponse, Owned
<1>22. AnalyzedOnce'
  BY <1>1, <1>10, <1>11 DEF AnalyzedOnce
<1>23. AbortsPropagate'
  <2>1. ~usess[u].rd => str[c].respEof
    BY <1>1, <1>2, <1>3 DEF Ends
  <2> QED BY <1>1, <1>2, <1>8, <1>10, <1>11, <1>14, <2>1 DEF AbortsPropagate, Owned
<1> QED BY <1>16, <1>17, <1>18, <1>19, <1>20, <1>21, <1>22, <1>23 DEF Passing

-----------------------------------------------------------------------------
(* The client sends.                                                       *)

LEMMA ClientHeadersPasses ==
    ASSUME PassingInv, BridgeInv', NEW c \in Streams, NEW end \in BOOLEAN, NEW submitted \in BOOLEAN,
           ClientHeaders(c, end, submitted)
    PROVE  Passing'
<1> DEFINE w == nextUid
<1>1. BridgeInv /\ Untouched /\ Bodies /\ Ends /\ PassedOn /\ Untrailed
      /\ CompleteRequest /\ AnalyzedOnce /\ AbortsPropagate /\ Owned /\ 0 \notin Streams
  BY Owners DEF PassingInv
<1>2. /\ csess \in [Streams -> CStream] /\ usess \in [Streams -> UStream]
      /\ str \in [Streams -> H2Stream] /\ client \in [Streams -> ClientView]
      /\ byUpstream \in [Streams -> 0..N]
      /\ csess[c].st = "idle" /\ csess[c] \in CStream /\ client[c] \in ClientView
  BY <1>1, StreamTypes DEF BridgeInv, TypeOK, ClientHeaders, NextStream
<1>3. /\ csess[c] = idleC /\ str[c] = newStream
      /\ client[c].sent = 0 /\ client[c].got = <<>> /\ client[c].fin = "no" /\ ~client[c].ended
  BY <1>1, <1>2 DEF Untouched
<1>4. w \in Streams /\ byUpstream[w] = 0 /\ usess[w].st = "idle" /\ usess[w] \in UStream
  <2>1. w <= c /\ w \in 1..(N + 1)
    BY <1>1, <1>2 DEF BridgeInv, TypeOK, Bookkeeping
  <2>2. w \in Streams
    BY <2>1, ConstantsAssumption DEF Streams
  <2>3. w >= w
    BY <2>1
  <2>4. byUpstream[w] = 0
    BY <1>1, <2>2, <2>3 DEF BridgeInv, Bookkeeping
  <2> QED BY <1>1, <2>2, <2>4, StreamTypes DEF BridgeInv, StreamMapsAgree
<1>5. /\ usess[w].rd /\ usess[w].wr /\ origin[w].tag = 0 /\ origin[w].got = <<>>
      /\ origin[w].stage = "none" /\ origin[w].sent = 0 /\ ~origin[w].respEnd
  BY <1>1, <1>4 DEF Untouched
<1>6. /\ \A d \in Streams : d # c => csess'[d] = csess[d]
      /\ csess'[c].st = "open" /\ csess'[c].rd = ~end /\ csess'[c].wr
      /\ csess'[c].prov = "none" /\ csess'[c].q = <<>>
  BY <1>2, <1>3 DEF ClientHeaders, CStream, idleC
<1>7. /\ \A d \in Streams : d # c => str'[d] = str[d]
      /\ str'[c].uid = (IF submitted THEN w ELSE 0) /\ str'[c].reqEof = end
      /\ str'[c].reqBody = <<>> /\ str'[c].respBody = <<>> /\ str'[c].respEof = FALSE
      /\ str'[c].uploadCap = <<>> /\ str'[c].analyzed = IF end THEN << <<>> >> ELSE <<>>
  BY <1>2 DEF ClientHeaders, newStream, UidAfter
<1>8. /\ \A d \in Streams : d # c => client'[d] = client[d]
      /\ client'[c].ended = end /\ client'[c].sent = 0 /\ client'[c].got = <<>>
      /\ client'[c].fin = "no"
  BY <1>2, <1>3 DEF ClientHeaders, ClientView
<1>9. /\ \A v \in Streams : v # w \/ ~submitted =>
            usess'[v] = usess[v] /\ byUpstream'[v] = byUpstream[v]
      /\ submitted => /\ byUpstream'[w] = c /\ usess'[w].st = "pending"
                      /\ usess'[w].rd /\ usess'[w].wr
                      /\ usess'[w].prov = IF end THEN "none" ELSE "ready"
  <2>1. CASE ~submitted
    BY <2>1 DEF ClientHeaders
  <2>2. CASE submitted
    <3>1. /\ byUpstream' = [byUpstream EXCEPT ![w] = c]
          /\ usess' = [usess EXCEPT ![w].st = "pending", ![w].prov = IF end THEN "none" ELSE "ready"]
      BY <2>2 DEF ClientHeaders
    <3> HIDE DEF w
    <3>2. \A v \in Streams : v # w => usess'[v] = usess[v] /\ byUpstream'[v] = byUpstream[v]
      BY <1>2, <1>4, <3>1
    <3>3. /\ byUpstream'[w] = c /\ usess'[w].st = "pending"
          /\ usess'[w].rd = usess[w].rd /\ usess'[w].wr = usess[w].wr
          /\ usess'[w].prov = IF end THEN "none" ELSE "ready"
      BY <1>2, <1>4, <3>1 DEF UStream
    <3> QED BY <1>5, <2>2, <3>2, <3>3
  <2> QED BY <2>1, <2>2
<1>10. UNCHANGED <<cClosed, uClosed, origin>>
  BY DEF ClientHeaders
<1>11. w = nextUid
  OBVIOUS
<1> HIDE DEF w
<1>12. \A v \in Streams : byUpstream[v] # 0 => byUpstream[v] \in Streams /\ byUpstream[v] # c /\ v # w
  BY <1>1, <1>2, <1>4 DEF Owned
<1>13. /\ \A d \in Streams : d # c => SentFor(d)' = SentFor(d)
       /\ SentFor(c)' = 0
  BY <1>4, <1>5, <1>7, <1>10 DEF SentFor
<1>14. Untouched'
  <2>1. ASSUME NEW v \in Streams
        PROVE  /\ usess'[v].st \in {"idle", "pending"} => usess'[v].rd /\ usess'[v].wr /\ origin'[v].tag = 0
               /\ usess'[v].st = "open" /\ ~uClosed' => origin'[v].tag # 0
               /\ origin'[v].tag # 0 => origin'[v].tag = byUpstream'[v]
    <3>1. CASE v = w /\ submitted
      BY <1>5, <1>9, <1>10, <3>1
    <3>2. CASE v # w \/ ~submitted
      BY <1>1, <1>9, <1>10, <3>2 DEF Untouched
    <3> QED BY <3>1, <3>2
  <2>2. ASSUME NEW d \in Streams, csess'[d].st = "idle"
        PROVE  d # c
    BY <1>6, <2>2
  <2> QED BY <1>1, <1>6, <1>7, <1>8, <1>10, <2>1, <2>2 DEF Untouched
<1>15. Bodies'
  <2>1. ASSUME NEW d \in Streams
        PROVE  Passes(client'[d].got, str'[d].respBody, d, SentFor(d)', ~cClosed')
    <3>1. CASE d = c
      <4>1. Passes(<<>>, <<>>, c, 0, ~cClosed)
        <5>1. (~cClosed) \in BOOLEAN
          OBVIOUS
        <5> QED BY <5>1, PassesNothing
      <4> QED BY <1>7, <1>8, <1>10, <1>13, <3>1, <4>1
    <3>2. CASE d # c
      BY <1>1, <1>7, <1>8, <1>10, <1>13, <3>2 DEF Bodies
    <3> QED BY <3>1, <3>2
  <2>2. ASSUME NEW v \in Streams, byUpstream'[v] # 0
        PROVE  Passes(origin'[v].got, str'[byUpstream'[v]].reqBody, byUpstream'[v],
                      client'[byUpstream'[v]].sent, ~uClosed')
    <3>1. CASE v = w /\ submitted
      <4>1. Passes(<<>>, <<>>, c, 0, ~uClosed)
        <5>1. (~uClosed) \in BOOLEAN
          OBVIOUS
        <5> QED BY <5>1, PassesNothing
      <4> QED BY <1>5, <1>7, <1>8, <1>9, <1>10, <3>1, <4>1
    <3>2. CASE v # w \/ ~submitted
      <4>1. byUpstream'[v] = byUpstream[v] /\ byUpstream[v] # 0
        BY <1>9, <2>2, <3>2
      <4>2. byUpstream[v] \in Streams /\ byUpstream[v] # c
        BY <1>12, <4>1
      <4> QED BY <1>1, <1>7, <1>8, <1>10, <4>1, <4>2 DEF Bodies
    <3> QED BY <3>1, <3>2
  <2> QED BY <2>1, <2>2 DEF Bodies
<1>16. Ends'
  <2>1. ASSUME NEW d \in Streams
        PROVE  /\ csess'[d].st = "open" => (client'[d].ended <=> ~csess'[d].rd)
               /\ str'[d].reqEof => client'[d].ended
               /\ str'[d].respEof <=> (str'[d].uid # 0 /\ origin'[str'[d].uid].respEnd)
               /\ EndsLast(csess'[d].q, str'[d].respEof)
               /\ csess'[d].st = "open" /\ ~csess'[d].wr =>
                     str'[d].respEof /\ csess'[d].q = <<>> /\ csess'[d].prov = "none"
               /\ client'[d].fin # "no" =>
                     csess'[d].st = "closed" \/ (csess'[d].st = "open" /\ ~csess'[d].wr)
    <3>1. CASE d = c
      <4>1. EndsLast(<<>>, FALSE)
        BY DEF EndsLast
      <4>2. str'[c].respEof <=> (str'[c].uid # 0 /\ origin'[str'[c].uid].respEnd)
        BY <1>5, <1>7, <1>10
      <4> QED BY <1>6, <1>7, <1>8, <3>1, <4>1, <4>2
    <3>2. CASE d # c
      BY <1>1, <1>6, <1>7, <1>8, <1>10, <3>2 DEF Ends
    <3> QED BY <3>1, <3>2
  <2>2. ASSUME NEW v \in Streams
        PROVE  /\ usess'[v].st = "open" => (origin'[v].respEnd <=> ~usess'[v].rd)
               /\ usess'[v].st \in {"pending", "open"} /\ usess'[v].prov = "none" =>
                     str'[byUpstream'[v]].reqEof /\ str'[byUpstream'[v]].reqBody = <<>>
    <3>1. CASE v = w /\ submitted
      BY <1>7, <1>9, <3>1
    <3>2. CASE v # w \/ ~submitted
      <4>1. usess'[v] = usess[v] /\ byUpstream'[v] = byUpstream[v]
        BY <1>9, <3>2
      <4>2. usess[v].st \in {"pending", "open"} => byUpstream[v] \in Streams /\ byUpstream[v] # c
        BY <1>1, <1>12 DEF Owned
      <4> QED BY <1>1, <1>7, <1>10, <4>1, <4>2 DEF Ends
    <3> QED BY <3>1, <3>2
  <2> QED BY <2>1, <2>2 DEF Ends
<1>17. PassedOn'
  <2>1. ASSUME NEW d \in Streams, csess'[d].st = "open"
        PROVE  /\ str'[d].uid # 0 /\ csess'[d].wr /\ csess'[d].prov = "none" /\ csess'[d].q = <<>> =>
                     origin'[str'[d].uid].stage = "none"
               /\ ~cClosed' /\ ~csess'[d].wr => client'[d].fin = "end"
               /\ ~cClosed' /\ str'[d].uid # 0 /\ csess'[d].q = <<>> =>
                     origin'[str'[d].uid].stage = "none" \/ client'[d].hdrs # <<>>
    <3>1. CASE d = c
      BY <1>5, <1>6, <1>7, <1>10, <3>1
    <3>2. CASE d # c
      BY <1>1, <1>6, <1>7, <1>8, <1>10, <2>1, <3>2 DEF PassedOn
    <3> QED BY <3>1, <3>2
  <2>2. ASSUME NEW v \in Streams, usess'[v].st = "open", usess'[v].prov = "none", ~uClosed
        PROVE  origin[v].reqEnd
    BY <1>1, <1>9, <2>2 DEF PassedOn
  <2>3. ASSUME "reqTrailers" \notin Peer, NEW d \in Streams, client'[d].ended
        PROVE  str'[d].reqEof
    BY <1>1, <1>7, <1>8, <2>3 DEF PassedOn
  <2> QED BY <1>10, <2>1, <2>2, <2>3 DEF PassedOn
<1>18. Untrailed'
  <2>1. ASSUME NEW d \in Streams, \E i \in 1..Len(csess'[d].q) : csess'[d].q[i].end
        PROVE  d # c
    BY <1>6, <2>1
  <2>2. \A d \in Streams : client'[d].fin = "end" => d # c
    BY <1>8
  <2> QED BY <1>1, <1>6, <1>7, <1>8, <1>10, <1>13, <2>1, <2>2 DEF Untrailed, CompleteResponse
<1>19. CompleteRequest'
  <2>1. \A v \in Streams : origin[v].reqEnd => origin[v].tag \in Streams /\ origin[v].tag # c
    BY <1>1, <1>12 DEF Untouched
  <2> QED BY <1>1, <1>8, <1>10, <2>1 DEF CompleteRequest
<1>20. AnalyzedOnce'
  <2>1. PrefixOf(<<>>, c, 0) /\ Len(<<>>) = FirstOf(0)
    <3>1. Len(<<>>) = 0
      BY EmptySeq
    <3>2. FirstOf(0) = 0
      BY ConstantsAssumption DEF FirstOf
    <3>3. \A i \in 1..Len(<<>>) : FALSE
      BY <3>1
    <3>4. \A m : m = 0 => m <= 0
      OBVIOUS
    <3> QED BY <3>1, <3>2, <3>3, <3>4, Zenon DEF PrefixOf
  <2>2. ASSUME NEW d \in Streams
        PROVE  /\ PrefixOf(str'[d].uploadCap, d, client'[d].sent)
               /\ Len(str'[d].uploadCap) = FirstOf(client'[d].sent)
               /\ str'[d].analyzed # <<>> => client'[d].ended /\ str'[d].analyzed = <<str'[d].uploadCap>>
    <3>1. CASE d = c
      BY <1>7, <1>8, <2>1, <3>1
    <3>2. CASE d # c
      BY <1>1, <1>7, <1>8, <3>2 DEF AnalyzedOnce
    <3> QED BY <3>1, <3>2
  <2> QED BY <2>2 DEF AnalyzedOnce
<1>21. AbortsPropagate'
  <2>1. ASSUME NEW d \in Streams, str'[d].uid # 0, ~str'[d].respEof
        PROVE  \/ csess'[d].st = "closed" <=> usess'[str'[d].uid].st = "closed"
               \/ csess'[d].st = "closing" \/ usess'[str'[d].uid].st \in {"closing", "canceled"}
    <3>1. CASE d = c
      BY <1>6, <1>7, <1>9, <2>1, <3>1
    <3>2. CASE d # c
      <4>1. str[d].uid \in Streams /\ byUpstream[str[d].uid] # 0
        BY <1>1, <1>7, <2>1, <3>2 DEF Owned
      <4>2. str[d].uid # w
        BY <1>12, <4>1
      <4> QED BY <1>1, <1>6, <1>7, <1>9, <2>1, <3>2, <4>1, <4>2 DEF AbortsPropagate
    <3> QED BY <3>1, <3>2
  <2> QED BY <2>1 DEF AbortsPropagate
<1> QED BY <1>14, <1>15, <1>16, <1>17, <1>18, <1>19, <1>20, <1>21 DEF Passing

\* The capture takes the first Cap chunks.
LEMMA CapturePut ==
    ASSUME NEW cap \in Seq(Chunk), NEW c \in Streams, NEW n \in Nat,
           PrefixOf(cap, c, n), Len(cap) = FirstOf(n)
    PROVE  LET new == IF Len(cap) < Cap THEN Append(cap, <<c, n + 1>>) ELSE cap IN
           PrefixOf(new, c, n + 1) /\ Len(new) = FirstOf(n + 1)
<1>1. Len(cap) \in Nat /\ Cap \in Nat
  BY LenProperties, ConstantsAssumption
<1>2. CASE Len(cap) < Cap
  <2> DEFINE new == Append(cap, <<c, n + 1>>)
  <2>1. Len(new) = Len(cap) + 1 /\ new[Len(new)] = <<c, n + 1>>
        /\ \A i \in 1..Len(cap) : new[i] = cap[i]
    BY AppendProperties
  <2> HIDE DEF new
  <2>2. Len(cap) = n
    BY <1>1, <1>2 DEF FirstOf
  <2>3. Len(new) = n + 1
    BY <2>1, <2>2
  <2>4. Len(new) = FirstOf(n + 1)
    BY <1>1, <1>2, <2>2, <2>3 DEF FirstOf
  <2>5. \A i \in 1..Len(new) : new[i] = <<c, i>>
    <3> TAKE i \in 1..Len(new)
    <3>1. CASE i = Len(new)
      BY <2>1, <2>3, <3>1
    <3>2. CASE i # Len(new)
      <4>1. i \in 1..Len(cap)
        BY <1>1, <2>1, <3>2
      <4> QED BY <2>1, <4>1 DEF PrefixOf
    <3> QED BY <3>1, <3>2
  <2>6. PrefixOf(new, c, n + 1)
    BY <2>3, <2>5 DEF PrefixOf
  <2> QED BY <1>2, <2>4, <2>6 DEF new
<1>3. CASE ~(Len(cap) < Cap)
  <2>1. Len(cap) = FirstOf(n + 1)
    BY <1>1, <1>3 DEF FirstOf
  <2>2. PrefixOf(cap, c, n + 1)
    BY <1>1 DEF PrefixOf
  <2> QED BY <1>3, <2>1, <2>2
<1> QED BY <1>2, <1>3

LEMMA ClientDataPasses ==
    ASSUME PassingInv, BridgeInv', NEW c \in Streams, NEW n \in {0, 1}, NEW end \in BOOLEAN,
           ClientData(c, n, end)
    PROVE  Passing'
<1> DEFINE x == <<c, client[c].sent + 1>>
           cap == IF n = 0 THEN str[c].uploadCap
                  ELSE IF Len(str[c].uploadCap) < Cap THEN Append(str[c].uploadCap, x)
                  ELSE str[c].uploadCap
<1>1. BridgeInv /\ Untouched /\ Bodies /\ Ends /\ PassedOn /\ Untrailed
      /\ CompleteRequest /\ AnalyzedOnce /\ AbortsPropagate /\ Owned /\ 0 \notin Streams
  BY Owners DEF PassingInv
<1>2. /\ csess \in [Streams -> CStream] /\ csess[c] \in CStream
      /\ usess \in [Streams -> UStream]
      /\ str \in [Streams -> H2Stream] /\ str[c] \in H2Stream
      /\ client \in [Streams -> ClientView] /\ client[c] \in ClientView
      /\ csess[c].st = "open" /\ csess[c].rd
  BY <1>1, StreamTypes DEF BridgeInv, TypeOK, ClientData, ClientMaySend
<1>3. ~client[c].ended /\ ~str[c].reqEof /\ str[c].analyzed = <<>>
  BY <1>1, <1>2 DEF Ends, AnalyzedOnce
<1>4. /\ \A d \in Streams : d # c => csess'[d] = csess[d]
      /\ \/ csess'[c].st = "closed" /\ csess'[c].q = <<>> /\ end /\ ~csess[c].wr
         \/ /\ csess'[c].st = "open" /\ csess'[c].rd = ~end
            /\ csess'[c].wr = csess[c].wr /\ csess'[c].q = csess[c].q
            /\ csess'[c].prov = csess[c].prov
  <2>1. CASE end /\ ~csess[c].wr
    BY <1>2, <2>1 DEF ClientData, ClosedC, CStream
  <2>2. CASE ~(end /\ ~csess[c].wr)
    BY <1>2, <2>2 DEF ClientData, CStream
  <2> QED BY <2>1, <2>2
<1>5. \A v \in Streams :
          /\ usess'[v].st = usess[v].st /\ usess'[v].rd = usess[v].rd /\ usess'[v].wr = usess[v].wr
          /\ usess'[v].prov = "none" => usess[v].prov = "none"
  <2> TAKE v \in Streams
  <2>1. usess' = ResumeU(usess, str[c].uid) /\ str[c].uid \in 0..N
    BY <1>2 DEF ClientData, H2Stream
  <2>2. usess'[v] = [usess[v] EXCEPT !.prov = IF v = str[c].uid THEN Resumed(@) ELSE @]
    BY <1>1, <2>1, ResumeEffect DEF BridgeInv
  <2>3. usess[v] \in UStream
    BY <1>1, StreamTypes
  <2>4. CASE v = str[c].uid
    BY <2>2, <2>3, <2>4 DEF UStream, Resumed
  <2>5. CASE v # str[c].uid
    BY <2>2, <2>3, <2>5 DEF UStream
  <2> QED BY <2>4, <2>5
<1>6. \A d \in Streams :
          /\ IF d = c THEN client'[d].ended = end /\ client'[d].sent = client[d].sent + n
                      ELSE client'[d].ended = client[d].ended /\ client'[d].sent = client[d].sent
          /\ client'[d].got = client[d].got
          /\ client'[d].hdrs = client[d].hdrs /\ client'[d].fin = client[d].fin
  <2> TAKE d \in Streams
  <2>1. client[d] \in ClientView
    BY <1>1, StreamTypes
  <2>2. client' = [client EXCEPT ![c].sent = @ + n, ![c].ended = end]
    BY DEF ClientData
  <2>3. CASE d = c
    BY <1>2, <2>2, <2>3 DEF ClientView
  <2>4. CASE d # c
    BY <1>2, <2>2, <2>4
  <2> QED BY <2>3, <2>4
<1>7. /\ \A d \in Streams : d # c => str'[d] = str[d]
      /\ str'[c].uid = str[c].uid /\ str'[c].respEof = str[c].respEof
      /\ str'[c].respBody = str[c].respBody
      /\ str'[c].reqEof = end
      /\ str'[c].reqBody = IF n = 1 THEN Append(str[c].reqBody, x) ELSE str[c].reqBody
      /\ str'[c].uploadCap = cap
      /\ IF end THEN str'[c].analyzed = <<cap>> ELSE str'[c].analyzed = <<>>
  <2> DEFINE s == IF n = 1 THEN AppendReq(str[c], x) ELSE str[c]
  <2>1. str' = [str EXCEPT ![c] = IF end THEN EndReq(s) ELSE s]
    BY DEF ClientData
  <2>2. /\ s.uid = str[c].uid /\ s.respEof = str[c].respEof /\ s.respBody = str[c].respBody
        /\ s.reqEof = str[c].reqEof /\ s.analyzed = str[c].analyzed
        /\ s.reqBody = IF n = 1 THEN Append(str[c].reqBody, x) ELSE str[c].reqBody
        /\ s.uploadCap = cap
    <3>1. CASE n = 1
      <4> HIDE DEF x
      <4> QED BY <1>2, <3>1 DEF AppendReq, H2Stream
    <3>2. CASE n = 0
      BY <3>2
    <3> QED BY <3>1, <3>2
  <2>3. EndReq(s) = [s EXCEPT !.reqEof = TRUE, !.analyzed = Append(@, s.uploadCap)]
    BY DEF EndReq
  <2>4. s \in H2Stream
    <3>1. x \in Chunk
      BY <1>2, ConstantsAssumption, SMTT(60) DEF Chunk, ClientView, Streams
    <3>2. /\ Append(str[c].reqBody, x) \in Seq(Chunk)
          /\ Append(str[c].uploadCap, x) \in Seq(Chunk)
      BY <1>2, <3>1, AppendProperties DEF H2Stream
    <3> QED BY <1>2, <3>2 DEF AppendReq, H2Stream
  <2> HIDE DEF s, cap, x
  <2>5. CASE end
    <3>1. str'[c] = EndReq(s) /\ \A d \in Streams : d # c => str'[d] = str[d]
      BY <1>2, <2>1, <2>5
    <3>2. /\ str'[c].uid = s.uid /\ str'[c].respEof = s.respEof /\ str'[c].respBody = s.respBody
          /\ str'[c].reqBody = s.reqBody /\ str'[c].uploadCap = s.uploadCap
          /\ str'[c].reqEof = TRUE /\ str'[c].analyzed = Append(s.analyzed, s.uploadCap)
      BY <2>3, <2>4, <3>1 DEF H2Stream
    <3>3. Append(<<>>, cap) = <<cap>>
      OBVIOUS
    <3> QED BY <1>3, <2>2, <2>5, <3>1, <3>2, <3>3
  <2>6. CASE ~end
    <3>1. str'[c] = s /\ \A d \in Streams : d # c => str'[d] = str[d]
      BY <1>2, <2>1, <2>6
    <3>2. str'[c].reqEof = end
      BY <1>2, <1>3, <2>2, <2>6, <3>1 DEF H2Stream
    <3> QED BY <1>3, <2>2, <2>6, <3>1, <3>2
  <2> QED BY <2>5, <2>6
<1>8. UNCHANGED <<byUpstream, cClosed, uClosed, origin>>
  BY DEF ClientData
<1>9. \A d \in Streams : SentFor(d)' = SentFor(d) /\ str'[d].uid = str[d].uid
                         /\ str'[d].respEof = str[d].respEof /\ str'[d].respBody = str[d].respBody
  BY <1>7, <1>8 DEF SentFor
<1>10. client[c].sent \in Nat
  BY <1>2 DEF ClientView
<1> HIDE DEF x
<1>11. Untouched'
  BY <1>1, <1>2, <1>4, <1>5, <1>6, <1>7, <1>8, SMTT(60) DEF Untouched
<1>12. Bodies'
  <2>1. ASSUME NEW u \in Streams, byUpstream[u] # 0
        PROVE  Passes(origin[u].got, str'[byUpstream[u]].reqBody, byUpstream[u],
                      client'[byUpstream[u]].sent, ~uClosed)
    <3>1. CASE byUpstream[u] = c
      <4>1. Passes(origin[u].got, str[c].reqBody, c, client[c].sent, ~uClosed)
        BY <1>1, <2>1, <3>1 DEF Bodies
      <4>2. origin[u].got \in Seq(Chunk) /\ str[c].reqBody \in Seq(Chunk) /\ (~uClosed) \in BOOLEAN
        BY <1>1, <1>2, StreamTypes DEF OriginView, H2Stream
      <4>3. CASE n = 1
        <5>1. Passes(origin[u].got, Append(str[c].reqBody, x), c, client[c].sent + 1, ~uClosed)
          BY <1>10, <4>1, <4>2, PassesPut DEF x
        <5> QED BY <1>6, <1>7, <3>1, <4>3, <5>1
      <4>4. CASE n = 0
        <5>1. client'[c].sent = client[c].sent
          BY <1>6, <1>10, <4>4
        <5> QED BY <1>7, <3>1, <4>1, <4>4, <5>1
      <4> QED BY <4>3, <4>4
    <3>2. CASE byUpstream[u] # c
      <4>1. byUpstream[u] \in Streams
        BY <1>1, <2>1 DEF Owned
      <4> QED BY <1>1, <1>6, <1>7, <2>1, <3>2, <4>1 DEF Bodies
    <3> QED BY <3>1, <3>2
  <2> QED BY <1>1, <1>6, <1>8, <1>9, <2>1 DEF Bodies
<1>13. Ends'
  <2>1. ASSUME NEW d \in Streams
        PROVE  /\ csess'[d].st = "open" => (client'[d].ended <=> ~csess'[d].rd)
               /\ str'[d].reqEof => client'[d].ended
               /\ EndsLast(csess'[d].q, str'[d].respEof)
               /\ csess'[d].st = "open" /\ ~csess'[d].wr =>
                     str'[d].respEof /\ csess'[d].q = <<>> /\ csess'[d].prov = "none"
               /\ client'[d].fin # "no" =>
                     csess'[d].st = "closed" \/ (csess'[d].st = "open" /\ ~csess'[d].wr)
    <3>1. CASE d = c
      <4>1. EndsLast(csess'[c].q, str'[c].respEof)
        <5>1. CASE csess'[c].q = <<>>
          BY <5>1 DEF EndsLast
        <5>2. CASE csess'[c].q = csess[c].q
          BY <1>1, <1>7, <5>2 DEF Ends
        <5> QED BY <1>4, <5>1, <5>2
      <4>2. csess'[c].st = "open" => (end <=> ~csess'[c].rd)
        BY <1>4
      <4>3. client'[c].ended = end /\ str'[c].reqEof = end /\ client'[c].fin = client[c].fin
        BY <1>6, <1>7
      <4>4. csess'[c].st = "open" /\ ~csess'[c].wr =>
                str'[c].respEof /\ csess'[c].q = <<>> /\ csess'[c].prov = "none"
        BY <1>1, <1>2, <1>4, <1>7 DEF Ends
      <4>5. client[c].fin # "no" =>
                csess'[c].st = "closed" \/ (csess'[c].st = "open" /\ ~csess'[c].wr)
        BY <1>1, <1>2, <1>4 DEF Ends
      <4> QED BY <3>1, <4>1, <4>2, <4>3, <4>4, <4>5
    <3>2. CASE d # c
      BY <1>1, <1>4, <1>6, <1>7, <3>2 DEF Ends
    <3> QED BY <3>1, <3>2
  <2>2. ASSUME NEW v \in Streams, usess[v].st \in {"pending", "open"}, usess'[v].prov = "none"
        PROVE  str'[byUpstream[v]].reqEof /\ str'[byUpstream[v]].reqBody = <<>>
    <3>1. str[byUpstream[v]].reqEof /\ str[byUpstream[v]].reqBody = <<>> /\ byUpstream[v] \in Streams
      BY <1>1, <1>5, <2>2 DEF Ends, Owned
    <3> QED BY <1>3, <1>7, <3>1
  <2> QED BY <1>1, <1>5, <1>8, <1>9, <2>1, <2>2 DEF Ends
<1>14. PassedOn'
  <2>1. ASSUME NEW d \in Streams, csess'[d].st = "open"
        PROVE  /\ str'[d].uid # 0 /\ csess'[d].wr /\ csess'[d].prov = "none" /\ csess'[d].q = <<>> =>
                     origin'[str'[d].uid].stage = "none"
               /\ ~cClosed' /\ ~csess'[d].wr => client'[d].fin = "end"
               /\ ~cClosed' /\ str'[d].uid # 0 /\ csess'[d].q = <<>> =>
                     origin'[str'[d].uid].stage = "none" \/ client'[d].hdrs # <<>>
    <3>1. CASE d = c
      BY <1>1, <1>2, <1>4, <1>6, <1>7, <1>8, <2>1, <3>1 DEF PassedOn
    <3>2. CASE d # c
      BY <1>1, <1>4, <1>6, <1>7, <1>8, <2>1, <3>2 DEF PassedOn
    <3> QED BY <3>1, <3>2
  <2>2. ASSUME NEW v \in Streams, usess'[v].st = "open", usess'[v].prov = "none", ~uClosed
        PROVE  origin[v].reqEnd
    BY <1>1, <1>5, <2>2 DEF PassedOn
  <2>3. ASSUME "reqTrailers" \notin Peer, NEW d \in Streams, client'[d].ended
        PROVE  str'[d].reqEof
    BY <1>1, <1>6, <1>7, <2>3 DEF PassedOn
  <2> QED BY <1>8, <2>1, <2>2, <2>3 DEF PassedOn
<1>15. Untrailed'
  BY <1>1, <1>4, <1>6, <1>8, <1>9 DEF Untrailed, CompleteResponse
<1>16. CompleteRequest'
  BY <1>1, <1>3, <1>6, <1>8 DEF CompleteRequest, Untouched, Owned
<1>17. AnalyzedOnce'
  <2>1. PrefixOf(cap, c, client'[c].sent) /\ Len(cap) = FirstOf(client'[c].sent)
    <3>1. PrefixOf(str[c].uploadCap, c, client[c].sent)
          /\ Len(str[c].uploadCap) = FirstOf(client[c].sent) /\ str[c].uploadCap \in Seq(Chunk)
      BY <1>1, <1>2 DEF AnalyzedOnce, H2Stream
    <3>2. CASE n = 1
      <4>1. client'[c].sent = client[c].sent + 1
        BY <1>6, <3>2
      <4>2. PrefixOf(cap, c, client[c].sent + 1) /\ Len(cap) = FirstOf(client[c].sent + 1)
        <5> DEFINE new == IF Len(str[c].uploadCap) < Cap THEN Append(str[c].uploadCap, <<c, client[c].sent + 1>>)
                          ELSE str[c].uploadCap
        <5>1. PrefixOf(new, c, client[c].sent + 1) /\ Len(new) = FirstOf(client[c].sent + 1)
          BY <1>10, <3>1, CapturePut, Zenon
        <5>2. cap = new
          BY <3>2 DEF x
        <5> HIDE DEF new, cap
        <5> QED BY <5>1, <5>2
      <4> QED BY <4>1, <4>2
    <3>3. CASE n = 0
      <4>1. client'[c].sent = client[c].sent
        BY <1>6, <1>10, <3>3
      <4> QED BY <3>1, <3>3, <4>1
    <3> QED BY <3>2, <3>3
  <2> HIDE DEF cap
  <2>2. ASSUME NEW d \in Streams
        PROVE  /\ PrefixOf(str'[d].uploadCap, d, client'[d].sent)
               /\ Len(str'[d].uploadCap) = FirstOf(client'[d].sent)
               /\ str'[d].analyzed # <<>> => client'[d].ended /\ str'[d].analyzed = <<str'[d].uploadCap>>
    <3>1. CASE d = c
      BY <1>6, <1>7, <2>1, <3>1
    <3>2. CASE d # c
      BY <1>1, <1>6, <1>7, <3>2 DEF AnalyzedOnce
    <3> QED BY <3>1, <3>2
  <2> QED BY <2>2 DEF AnalyzedOnce
<1>18. AbortsPropagate'
  BY <1>1, <1>2, <1>4, <1>5, <1>9 DEF AbortsPropagate, Ends, Owned
<1> QED BY <1>11, <1>12, <1>13, <1>14, <1>15, <1>16, <1>17, <1>18 DEF Passing

-----------------------------------------------------------------------------
(* The origin sends.                                                       *)

LEMMA QueuePut ==
    ASSUME NEW q \in Seq(HeadersItem), NEW item \in HeadersItem, EndsLast(q, FALSE)
    PROVE  EndsLast(Append(q, item), item.end) /\ Append(q, item) # <<>>
<1> DEFINE new == Append(q, item)
<1>1. /\ Len(q) \in Nat /\ new # <<>> /\ Len(new) = Len(q) + 1 /\ new[Len(new)] = item
      /\ \A i \in 1..Len(q) : new[i] = q[i]
  BY LenProperties, AppendProperties
<1> HIDE DEF new
<1>2. ASSUME NEW i \in 1..Len(new), new[i].end
      PROVE  i = Len(new) /\ item.end
  <2>1. CASE i = Len(new)
    BY <1>1, <1>2, <2>1
  <2>2. CASE i # Len(new)
    <3>1. i \in 1..Len(q)
      BY <1>1, <2>2
    <3> QED BY <1>1, <1>2, <3>1 DEF EndsLast
  <2> QED BY <2>1, <2>2
<1>3. EndsLast(new, item.end)
  BY <1>2 DEF EndsLast
<1> QED BY <1>1, <1>3 DEF new

\* What holds of a stream on which the origin may still send.
LEMMA OriginSending ==
    ASSUME PassingInv, NEW u \in Streams, OriginMaySend(u)
    PROVE  LET c == byUpstream[u] IN
           /\ c \in Streams /\ c # 0 /\ str[c].uid = u /\ csess[c].st # "idle"
           /\ usess[u].st = "open" /\ usess[u].rd /\ ~uClosed /\ origin[u].tag = c
           /\ ~origin[u].respEnd /\ str[c].respEof = FALSE
           /\ EndsLast(csess[c].q, FALSE)
           /\ csess[c].st = "open" => csess[c].wr
           /\ csess[c].st # "open" => csess[c].prov = "none"
           /\ \A d \in Streams : d # c => str[d].uid # u
<1> DEFINE c == byUpstream[u]
<1>1. BridgeInv /\ Untouched /\ Ends /\ Owned /\ 0 \notin Streams
  BY Owners DEF PassingInv
<1>2. usess[u].st = "open" /\ usess[u].rd /\ ~uClosed
  BY DEF OriginMaySend
<1>3. c \in Streams /\ c # 0 /\ str[c].uid = u /\ csess[c].st # "idle" /\ origin[u].tag = c
  BY <1>1, <1>2 DEF Owned, Untouched
<1> HIDE DEF c
<1>4. ~origin[u].respEnd
  BY <1>1, <1>2 DEF Ends
<1>5. str[c].respEof = FALSE
  <2>1. str[c].respEof \in BOOLEAN
    BY <1>1, <1>3, StreamTypes DEF H2Stream
  <2>2. ~str[c].respEof
    BY <1>1, <1>3, <1>4 DEF Ends
  <2> QED BY <2>1, <2>2
<1>6. EndsLast(csess[c].q, FALSE)
  BY <1>1, <1>3, <1>5 DEF Ends
<1>7. csess[c].st = "open" => csess[c].wr
  BY <1>1, <1>3, <1>5 DEF Ends
<1>8. csess[c].st # "open" => csess[c].prov = "none"
  BY <1>1, <1>3 DEF BridgeInv, Bookkeeping
<1>9. \A d \in Streams : d # c => str[d].uid # u
  BY <1>1, <1>3 DEF Owned, c
<1> QED BY <1>2, <1>3, <1>4, <1>5, <1>6, <1>7, <1>8, <1>9 DEF c

LEMMA OriginHeadersPasses ==
    ASSUME PassingInv, BridgeInv', NEW u \in Streams, NEW kind \in Block, NEW end \in BOOLEAN,
           OriginHeaders(u, kind, end)
    PROVE  Passing'
<1> DEFINE c == byUpstream[u]
           hdr == Append(str[c].respHdr, kind)
           item == [hdr |-> hdr, end |-> end]
<1>1. BridgeInv /\ Untouched /\ Bodies /\ Ends /\ PassedOn /\ Untrailed
      /\ CompleteRequest /\ AnalyzedOnce /\ AbortsPropagate /\ Owned /\ 0 \notin Streams
  BY Owners DEF PassingInv
<1>2. /\ c \in Streams /\ c # 0 /\ str[c].uid = u /\ csess[c].st # "idle"
      /\ usess[u].st = "open" /\ usess[u].rd /\ ~uClosed /\ origin[u].tag = c
      /\ ~origin[u].respEnd /\ str[c].respEof = FALSE
      /\ EndsLast(csess[c].q, FALSE)
      /\ csess[c].st = "open" => csess[c].wr
      /\ \A d \in Streams : d # c => str[d].uid # u
  BY OriginSending DEF OriginHeaders
<1>3. /\ csess \in [Streams -> CStream] /\ csess[c] \in CStream
      /\ usess \in [Streams -> UStream] /\ usess[u] \in UStream
      /\ str \in [Streams -> H2Stream] /\ str[c] \in H2Stream
      /\ origin \in [Streams -> OriginView] /\ origin[u] \in OriginView
  BY <1>1, <1>2, StreamTypes DEF BridgeInv, TypeOK
<1>4. hdr \in Seq(Block) /\ csess[c].q \in Seq(HeadersItem) /\ item \in HeadersItem
  BY <1>3, AppendProperties DEF H2Stream, CStream, HeadersItem
<1>5. /\ \A d \in Streams : d # c => str'[d] = str[d]
      /\ str'[c].uid = u /\ str'[c].respEof = end /\ str'[c].respBody = str[c].respBody
      /\ str'[c].reqBody = str[c].reqBody /\ str'[c].reqEof = str[c].reqEof
      /\ str'[c].uploadCap = str[c].uploadCap /\ str'[c].analyzed = str[c].analyzed
      /\ str'[c].respHdr = hdr
  BY <1>2, <1>3 DEF OriginHeaders, H2Stream
<1>6. /\ \A d \in Streams : d # c => csess'[d] = csess[d]
      /\ csess[c].st # "open" => csess'[c] = csess[c]
      /\ csess[c].st = "open" =>
            /\ csess'[c].st = "open" /\ csess'[c].rd = csess[c].rd /\ csess'[c].wr = csess[c].wr
            /\ csess'[c].prov = csess[c].prov /\ csess'[c].q = Append(csess[c].q, item)
  <2>1. csess' = SubmitResponse(csess, c, hdr, ~end)
    BY <1>2, <1>3 DEF OriginHeaders, H2Stream
  <2>2. [hdr |-> hdr, end |-> ~(~end)] = item
    OBVIOUS
  <2> HIDE DEF c, hdr, item
  <2>3. csess' = IF csess[c].st = "open" THEN [csess EXCEPT ![c].q = Append(@, item)] ELSE csess
    BY <2>1, <2>2 DEF SubmitResponse
  <2> QED BY <1>2, <1>3, <2>3 DEF CStream
<1>7. /\ \A v \in Streams : v # u => usess'[v] = usess[v]
      /\ \/ usess'[u].st = "closed" /\ end
         \/ usess'[u].st = "open" /\ usess'[u].rd = ~end /\ usess'[u].prov = usess[u].prov
  <2>1. CASE end /\ ~usess[u].wr
    BY <1>3, <2>1 DEF OriginHeaders, ClosedU, UStream
  <2>2. CASE ~(end /\ ~usess[u].wr)
    BY <1>2, <1>3, <2>2 DEF OriginHeaders, UStream
  <2> QED BY <2>1, <2>2
<1>8. /\ \A v \in Streams :
            /\ v # u => origin'[v] = origin[v]
            /\ origin'[v].tag = origin[v].tag /\ origin'[v].got = origin[v].got
            /\ origin'[v].reqEnd = origin[v].reqEnd /\ origin'[v].sent = origin[v].sent
      /\ origin'[u].stage = kind /\ origin'[u].respEnd = end
  BY <1>3, StreamTypes DEF OriginHeaders, OriginView
<1>9. UNCHANGED <<byUpstream, cClosed, uClosed, client>>
  BY DEF OriginHeaders
<1>10. /\ kind = "info" => ~end /\ origin[u].stage = "none"
       /\ kind = "final" => origin[u].stage \in {"none", "info"}
       /\ kind = "trailers" => "trailers" \in Peer
  BY DEF OriginHeaders
<1>11. c = byUpstream[u] /\ item.end = end
  OBVIOUS
<1>12. Append(csess[c].q, item) # <<>> /\ EndsLast(Append(csess[c].q, item), end)
  <2> HIDE DEF item, c
  <2> QED BY <1>2, <1>4, <1>11, QueuePut
<1> HIDE DEF c, hdr, item
<1>13. \A d \in Streams : SentFor(d)' = SentFor(d) /\ str'[d].uid = str[d].uid
  BY <1>1, <1>2, <1>5, <1>8 DEF SentFor, Owned
<1>14. \A d \in Streams : str[d].uid # 0 /\ d # c => str[d].uid \in Streams /\ str[d].uid # u
  BY <1>1, <1>2 DEF Owned
<1>15. Untouched'
  <2>1. ASSUME NEW d \in Streams, csess'[d].st = "idle"
        PROVE  d # c /\ csess[d].st = "idle" /\ csess'[d] = csess[d] /\ str'[d] = str[d]
    BY <1>2, <1>5, <1>6, <2>1
  <2>2. ASSUME NEW v \in Streams
        PROVE  /\ usess'[v].st \in {"idle", "pending"} => usess'[v].rd /\ usess'[v].wr /\ origin'[v].tag = 0
               /\ usess'[v].st = "open" /\ ~uClosed' => origin'[v].tag # 0
               /\ origin'[v].tag # 0 => origin'[v].tag = byUpstream'[v]
               /\ origin'[v].tag = 0 => origin'[v].got = <<>> /\ ~origin'[v].reqEnd /\ origin'[v].stage = "none"
               /\ origin'[v].stage \in {"none", "info"} => origin'[v].sent = 0 /\ ~origin'[v].respEnd
    <3>1. CASE v = u
      <4>1. kind \in {"none", "info"} => origin[u].sent = 0 /\ ~end
        BY <1>1, <1>10 DEF Untouched, Block
      <4> QED BY <1>1, <1>2, <1>7, <1>8, <1>9, <1>11, <3>1, <4>1
    <3>2. CASE v # u
      BY <1>1, <1>7, <1>8, <1>9, <3>2 DEF Untouched
    <3> QED BY <3>1, <3>2
  <2> QED BY <1>1, <1>9, <2>1, <2>2 DEF Untouched
<1>16. Bodies'
  <2>1. \A d \in Streams : str'[d].respBody = str[d].respBody /\ str'[d].reqBody = str[d].reqBody
    BY <1>5
  <2> QED BY <1>1, <1>8, <1>9, <1>13, <2>1 DEF Bodies, Owned
<1>17. Ends'
  <2>1. ASSUME NEW d \in Streams
        PROVE  /\ csess'[d].st = "open" => (client'[d].ended <=> ~csess'[d].rd)
               /\ str'[d].reqEof => client'[d].ended
               /\ str'[d].respEof <=> (str'[d].uid # 0 /\ origin'[str'[d].uid].respEnd)
               /\ EndsLast(csess'[d].q, str'[d].respEof)
               /\ csess'[d].st = "open" /\ ~csess'[d].wr =>
                     str'[d].respEof /\ csess'[d].q = <<>> /\ csess'[d].prov = "none"
               /\ client'[d].fin # "no" =>
                     csess'[d].st = "closed" \/ (csess'[d].st = "open" /\ ~csess'[d].wr)
    <3>1. CASE d = c
      <4>1. str'[c].respEof <=> (str'[c].uid # 0 /\ origin'[str'[c].uid].respEnd)
        BY <1>1, <1>5, <1>8
      <4>2. EndsLast(csess'[c].q, end)
        <5>1. CASE csess[c].st = "open"
          BY <1>6, <1>12, <5>1
        <5>2. CASE csess[c].st # "open"
          BY <1>2, <1>6, <5>2 DEF EndsLast
        <5> QED BY <5>1, <5>2
      <4>3. csess'[c].st = csess[c].st /\ csess'[c].rd = csess[c].rd /\ csess'[c].wr = csess[c].wr
        BY <1>6
      <4> QED BY <1>1, <1>2, <1>5, <1>9, <3>1, <4>1, <4>2, <4>3 DEF Ends
    <3>2. CASE d # c
      <4>1. str[d].uid # 0 => origin'[str[d].uid].respEnd = origin[str[d].uid].respEnd
        BY <1>8, <1>14, <3>2
      <4> QED BY <1>1, <1>5, <1>6, <1>9, <3>2, <4>1 DEF Ends
    <3> QED BY <3>1, <3>2
  <2>2. ASSUME NEW v \in Streams
        PROVE  /\ usess'[v].st = "open" => (origin'[v].respEnd <=> ~usess'[v].rd)
               /\ usess'[v].st \in {"pending", "open"} /\ usess'[v].prov = "none" =>
                     str'[byUpstream'[v]].reqEof /\ str'[byUpstream'[v]].reqBody = <<>>
    <3>1. CASE v = u
      <4>1. usess'[u].st = "open" => (origin'[u].respEnd <=> ~usess'[u].rd)
        BY <1>7, <1>8
      <4>2. usess'[u].st \in {"pending", "open"} /\ usess'[u].prov = "none" =>
                str[c].reqEof /\ str[c].reqBody = <<>>
        BY <1>1, <1>2, <1>7, <1>11 DEF Ends
      <4> QED BY <1>5, <1>9, <1>11, <3>1, <4>1, <4>2
    <3>2. CASE v # u
      <4>1. usess'[v] = usess[v] /\ byUpstream'[v] = byUpstream[v] /\ origin'[v] = origin[v]
        BY <1>7, <1>8, <1>9, <3>2
      <4>2. usess[v].st \in {"pending", "open"} => byUpstream[v] \in Streams
        BY <1>1 DEF Owned
      <4> QED BY <1>1, <1>5, <4>1, <4>2 DEF Ends
    <3> QED BY <3>1, <3>2
  <2> QED BY <2>1, <2>2 DEF Ends
<1>18. PassedOn'
  <2>1. ASSUME NEW d \in Streams, csess'[d].st = "open"
        PROVE  /\ str'[d].uid # 0 /\ csess'[d].wr /\ csess'[d].prov = "none" /\ csess'[d].q = <<>> =>
                     origin'[str'[d].uid].stage = "none"
               /\ ~cClosed' /\ ~csess'[d].wr => client'[d].fin = "end"
               /\ ~cClosed' /\ str'[d].uid # 0 /\ csess'[d].q = <<>> =>
                     origin'[str'[d].uid].stage = "none" \/ client'[d].hdrs # <<>>
    <3>1. CASE d = c
      <4>1. csess'[c].wr /\ csess'[c].q # <<>>
        BY <1>2, <1>6, <1>12, <2>1, <3>1
      <4> QED BY <3>1, <4>1
    <3>2. CASE d # c
      <4>1. str[d].uid # 0 => origin'[str[d].uid] = origin[str[d].uid]
        BY <1>8, <1>14, <3>2
      <4> QED BY <1>1, <1>5, <1>6, <1>9, <2>1, <3>2, <4>1 DEF PassedOn
    <3> QED BY <3>1, <3>2
  <2>2. ASSUME NEW v \in Streams, usess'[v].st = "open", usess'[v].prov = "none", ~uClosed
        PROVE  origin'[v].reqEnd
    BY <1>1, <1>2, <1>7, <1>8, <2>2 DEF PassedOn
  <2>3. \A d \in Streams : str'[d].reqEof = str[d].reqEof
    BY <1>5
  <2> QED BY <1>1, <1>9, <2>1, <2>2, <2>3 DEF PassedOn
<1>19. Untrailed'
  <2> SUFFICES ASSUME "trailers" \notin Peer
               PROVE  /\ \A d \in Streams : (\E i \in 1..Len(csess'[d].q) : csess'[d].q[i].end) => SentFor(d)' = 0
                      /\ CompleteResponse'
    BY DEF Untrailed
  <2>1. CompleteResponse /\ \A d \in Streams : (\E i \in 1..Len(csess[d].q) : csess[d].q[i].end) => SentFor(d) = 0
    BY <1>1 DEF Untrailed
  <2>2. SentFor(c) = 0
    <3>1. origin[u].stage \in {"none", "info"}
      BY <1>10 DEF Block
    <3> QED BY <1>1, <1>2, <3>1 DEF Untouched, SentFor
  <2>3. ASSUME NEW d \in Streams, \E i \in 1..Len(csess'[d].q) : csess'[d].q[i].end
        PROVE  SentFor(d) = 0
    BY <1>6, <2>1, <2>2, <2>3
  <2>4. ASSUME NEW d \in Streams, client[d].fin = "end"
        PROVE  /\ str[d].uid # 0 /\ origin'[str[d].uid].respEnd
               /\ Len(client[d].got) = origin'[str[d].uid].sent
    <3>1. str[d].uid # 0 /\ origin[str[d].uid].respEnd /\ Len(client[d].got) = origin[str[d].uid].sent
      BY <2>1, <2>4 DEF CompleteResponse
    <3>2. str[d].uid # u
      BY <1>2, <3>1
    <3>3. str[d].uid \in Streams
      BY <1>1, <3>1 DEF Owned
    <3> QED BY <1>8, <3>1, <3>2, <3>3
  <2>5. CompleteResponse'
    BY <1>9, <1>13, <2>4 DEF CompleteResponse
  <2> QED BY <1>13, <2>3, <2>5
<1>20. CompleteRequest'
  BY <1>1, <1>8, <1>9 DEF CompleteRequest
<1>21. AnalyzedOnce'
  BY <1>1, <1>5, <1>9 DEF AnalyzedOnce
<1>22. AbortsPropagate'
  <2>1. ASSUME NEW d \in Streams, str'[d].uid # 0, ~str'[d].respEof
        PROVE  \/ csess'[d].st = "closed" <=> usess'[str'[d].uid].st = "closed"
               \/ csess'[d].st = "closing" \/ usess'[str'[d].uid].st \in {"closing", "canceled"}
    <3>1. CASE d = c
      <4>1. usess'[u].st = usess[u].st /\ csess'[c].st = csess[c].st
        BY <1>2, <1>5, <1>6, <1>7, <2>1, <3>1
      <4> QED BY <1>1, <1>2, <1>5, <2>1, <3>1, <4>1 DEF AbortsPropagate
    <3>2. CASE d # c
      <4>1. str[d].uid # 0 => usess'[str[d].uid] = usess[str[d].uid]
        BY <1>7, <1>14, <3>2
      <4> QED BY <1>1, <1>5, <1>6, <2>1, <3>2, <4>1 DEF AbortsPropagate
    <3> QED BY <3>1, <3>2
  <2> QED BY <2>1 DEF AbortsPropagate
<1> QED BY <1>15, <1>16, <1>17, <1>18, <1>19, <1>20, <1>21, <1>22 DEF Passing

LEMMA OriginDataPasses ==
    ASSUME PassingInv, BridgeInv', NEW u \in Streams, NEW n \in {0, 1}, NEW end \in BOOLEAN,
           OriginData(u, n, end)
    PROVE  Passing'
<1> DEFINE c == byUpstream[u]
           x == <<c, origin[u].sent + 1>>
<1>1. BridgeInv /\ Untouched /\ Bodies /\ Ends /\ PassedOn /\ Untrailed
      /\ CompleteRequest /\ AnalyzedOnce /\ AbortsPropagate /\ Owned /\ 0 \notin Streams
  BY Owners DEF PassingInv
<1>2. /\ c \in Streams /\ c # 0 /\ str[c].uid = u /\ csess[c].st # "idle"
      /\ usess[u].st = "open" /\ usess[u].rd /\ ~uClosed /\ origin[u].tag = c
      /\ ~origin[u].respEnd /\ str[c].respEof = FALSE
      /\ EndsLast(csess[c].q, FALSE)
      /\ csess[c].st = "open" => csess[c].wr
      /\ csess[c].st # "open" => csess[c].prov = "none"
      /\ \A d \in Streams : d # c => str[d].uid # u
  BY OriginSending DEF OriginData
<1>3. /\ csess \in [Streams -> CStream] /\ csess[c] \in CStream
      /\ usess \in [Streams -> UStream] /\ usess[u] \in UStream
      /\ str \in [Streams -> H2Stream] /\ str[c] \in H2Stream
      /\ origin \in [Streams -> OriginView] /\ origin[u] \in OriginView
      /\ origin[u].sent \in Nat
  BY <1>1, <1>2, StreamTypes DEF BridgeInv, TypeOK, OriginView
<1>4. /\ \A d \in Streams : d # c => str'[d] = str[d]
      /\ str'[c].uid = u /\ str'[c].respEof = end
      /\ str'[c].respBody = IF n = 1 THEN Append(str[c].respBody, x) ELSE str[c].respBody
      /\ str'[c].reqBody = str[c].reqBody /\ str'[c].reqEof = str[c].reqEof
      /\ str'[c].uploadCap = str[c].uploadCap /\ str'[c].analyzed = str[c].analyzed
  <2>1. str' = [str EXCEPT ![c].respBody = IF n = 1 THEN Append(@, x) ELSE @,
                           ![c].respEof = @ \/ end]
    BY <1>2 DEF OriginData
  <2> HIDE DEF x, c
  <2> QED BY <1>2, <1>3, <2>1 DEF H2Stream
<1>5. \A d \in Streams :
          /\ d # c => csess'[d] = csess[d]
          /\ csess'[d].st = csess[d].st /\ csess'[d].rd = csess[d].rd
          /\ csess'[d].wr = csess[d].wr /\ csess'[d].q = csess[d].q
          /\ csess'[d].prov = "none" <=> csess[d].prov = "none"
  <2> TAKE d \in Streams
  <2>1. csess' = ResumeC(csess, c) /\ 0 \in 0..N
    BY ConstantsAssumption DEF OriginData
  <2> HIDE DEF c
  <2>2. csess'[d] = [csess[d] EXCEPT !.prov = IF d = c THEN Resumed(@) ELSE @]
    <3>1. TypeOK /\ c \in Streams
      BY <1>1, <1>2 DEF BridgeInv
    <3>2. ResumeC(csess, c)[d] = [csess[d] EXCEPT !.prov = IF d = c THEN Resumed(@) ELSE @]
      BY <2>1, <3>1, ResumeEffect
    <3> QED BY <2>1, <3>2
  <2>3. csess[d] \in CStream
    BY <1>1, StreamTypes
  <2>4. CASE d = c
    BY <2>2, <2>3, <2>4 DEF CStream, Resumed
  <2>5. CASE d # c
    BY <2>2, <2>3, <2>5 DEF CStream
  <2> QED BY <2>4, <2>5
<1>6. /\ \A v \in Streams : v # u => usess'[v] = usess[v]
      /\ \/ usess'[u].st = "closed" /\ end
         \/ usess'[u].st = "open" /\ usess'[u].rd = ~end /\ usess'[u].prov = usess[u].prov
  <2>1. CASE end /\ ~usess[u].wr
    BY <1>3, <2>1 DEF OriginData, ClosedU, UStream
  <2>2. CASE ~(end /\ ~usess[u].wr)
    BY <1>2, <1>3, <2>2 DEF OriginData, UStream
  <2> QED BY <2>1, <2>2
<1>7. /\ \A v \in Streams :
            /\ v # u => origin'[v] = origin[v]
            /\ origin'[v].tag = origin[v].tag /\ origin'[v].got = origin[v].got
            /\ origin'[v].reqEnd = origin[v].reqEnd /\ origin'[v].stage = origin[v].stage
      /\ origin'[u].sent = origin[u].sent + n /\ origin'[u].respEnd = end
  <2>1. origin' = [origin EXCEPT ![u].sent = @ + n, ![u].respEnd = end]
    BY DEF OriginData
  <2>2. /\ origin'[u].sent = origin[u].sent + n /\ origin'[u].respEnd = end
        /\ origin'[u].tag = origin[u].tag /\ origin'[u].got = origin[u].got
        /\ origin'[u].reqEnd = origin[u].reqEnd /\ origin'[u].stage = origin[u].stage
    BY <1>3, <2>1 DEF OriginView
  <2>3. \A v \in Streams : v # u => origin'[v] = origin[v]
    BY <1>3, <2>1
  <2> QED BY <2>2, <2>3
<1>8. UNCHANGED <<byUpstream, cClosed, uClosed, client>>
  BY DEF OriginData
<1>9. c = byUpstream[u] /\ origin[u].stage = "final"
  BY DEF OriginData
<1> HIDE DEF c, x
<1>10. \A d \in Streams : str[d].uid # 0 /\ d # c => str[d].uid \in Streams /\ str[d].uid # u
  BY <1>1, <1>2 DEF Owned
<1>11. \A d \in Streams :
          /\ IF d = c THEN SentFor(d) = origin[u].sent /\ SentFor(d)' = origin[u].sent + n
                      ELSE SentFor(d)' = SentFor(d)
          /\ str'[d].uid = str[d].uid
  <2> TAKE d \in Streams
  <2>1. CASE d = c
    <3>1. str[d].uid = u /\ str'[d].uid = u /\ u # 0
      BY <1>1, <1>2, <1>4, <2>1
    <3> QED BY <1>7, <2>1, <3>1 DEF SentFor
  <2>2. CASE d # c
    BY <1>4, <1>7, <1>10, <2>2 DEF SentFor
  <2> QED BY <2>1, <2>2
<1>12. Untouched'
  <2>1. ASSUME NEW d \in Streams, csess'[d].st = "idle"
        PROVE  d # c /\ csess[d].st = "idle" /\ csess'[d] = csess[d] /\ str'[d] = str[d]
    BY <1>2, <1>4, <1>5, <2>1
  <2>2. ASSUME NEW v \in Streams
        PROVE  /\ usess'[v].st \in {"idle", "pending"} => usess'[v].rd /\ usess'[v].wr /\ origin'[v].tag = 0
               /\ usess'[v].st = "open" /\ ~uClosed' => origin'[v].tag # 0
               /\ origin'[v].tag # 0 => origin'[v].tag = byUpstream'[v]
               /\ origin'[v].tag = 0 => origin'[v].got = <<>> /\ ~origin'[v].reqEnd /\ origin'[v].stage = "none"
               /\ origin'[v].stage \in {"none", "info"} => origin'[v].sent = 0 /\ ~origin'[v].respEnd
    <3>1. CASE v = u
      BY <1>2, <1>6, <1>7, <1>8, <1>9, <3>1
    <3>2. CASE v # u
      BY <1>1, <1>6, <1>7, <1>8, <3>2 DEF Untouched
    <3> QED BY <3>1, <3>2
  <2> QED BY <1>1, <1>8, <2>1, <2>2 DEF Untouched
<1>13. Bodies'
  <2>1. ASSUME NEW d \in Streams
        PROVE  Passes(client[d].got, str'[d].respBody, d, SentFor(d)', ~cClosed)
    <3>1. Passes(client[d].got, str[d].respBody, d, SentFor(d), ~cClosed)
      BY <1>1 DEF Bodies
    <3>2. CASE d = c /\ n = 1
      <4>1. client[c].got \in Seq(Chunk) /\ str[c].respBody \in Seq(Chunk) /\ (~cClosed) \in BOOLEAN
        BY <1>1, <1>2, StreamTypes DEF ClientView, H2Stream
      <4>2. Passes(client[c].got, Append(str[c].respBody, x), c, origin[u].sent + 1, ~cClosed)
        BY <1>2, <1>3, <1>11, <3>1, <3>2, <4>1, PassesPut, ZenonT(60) DEF x
      <4>3. str'[d].respBody = Append(str[c].respBody, x) /\ SentFor(d)' = origin[u].sent + 1
        BY <1>4, <1>11, <3>2
      <4> QED BY <3>2, <4>2, <4>3
    <3>3. CASE d = c /\ n = 0
      <4>1. SentFor(d)' = SentFor(d)
        BY <1>3, <1>11, <3>3
      <4>2. str'[d].respBody = str[d].respBody
        BY <1>4, <3>3
      <4> QED BY <3>1, <4>1, <4>2
    <3>4. CASE d # c
      BY <1>4, <1>11, <3>1, <3>4
    <3> QED BY <3>2, <3>3, <3>4
  <2>2. \A d \in Streams : str'[d].reqBody = str[d].reqBody
    BY <1>4
  <2> QED BY <1>1, <1>7, <1>8, <2>1, <2>2 DEF Bodies, Owned
<1>14. Ends'
  <2>1. ASSUME NEW d \in Streams
        PROVE  /\ csess'[d].st = "open" => (client'[d].ended <=> ~csess'[d].rd)
               /\ str'[d].reqEof => client'[d].ended
               /\ str'[d].respEof <=> (str'[d].uid # 0 /\ origin'[str'[d].uid].respEnd)
               /\ EndsLast(csess'[d].q, str'[d].respEof)
               /\ csess'[d].st = "open" /\ ~csess'[d].wr =>
                     str'[d].respEof /\ csess'[d].q = <<>> /\ csess'[d].prov = "none"
               /\ client'[d].fin # "no" =>
                     csess'[d].st = "closed" \/ (csess'[d].st = "open" /\ ~csess'[d].wr)
    <3>1. CASE d = c
      <4>1. str'[c].respEof <=> (str'[c].uid # 0 /\ origin'[str'[c].uid].respEnd)
        BY <1>1, <1>4, <1>7
      <4>2. EndsLast(csess'[c].q, end)
        BY <1>2, <1>5 DEF EndsLast
      <4>3. csess'[c].st = csess[c].st /\ csess'[c].rd = csess[c].rd /\ csess'[c].wr = csess[c].wr
        BY <1>2, <1>5
      <4> QED BY <1>1, <1>2, <1>4, <1>8, <3>1, <4>1, <4>2, <4>3 DEF Ends
    <3>2. CASE d # c
      <4>1. str[d].uid # 0 => origin'[str[d].uid].respEnd = origin[str[d].uid].respEnd
        BY <1>7, <1>10, <3>2
      <4> QED BY <1>1, <1>4, <1>5, <1>8, <3>2, <4>1 DEF Ends
    <3> QED BY <3>1, <3>2
  <2>2. ASSUME NEW v \in Streams
        PROVE  /\ usess'[v].st = "open" => (origin'[v].respEnd <=> ~usess'[v].rd)
               /\ usess'[v].st \in {"pending", "open"} /\ usess'[v].prov = "none" =>
                     str'[byUpstream'[v]].reqEof /\ str'[byUpstream'[v]].reqBody = <<>>
    <3>1. CASE v = u
      <4>1. usess'[u].st = "open" => (origin'[u].respEnd <=> ~usess'[u].rd)
        BY <1>6, <1>7
      <4>2. usess'[u].st \in {"pending", "open"} /\ usess'[u].prov = "none" =>
                str[c].reqEof /\ str[c].reqBody = <<>>
        BY <1>1, <1>2, <1>6, <1>9 DEF Ends
      <4> QED BY <1>4, <1>8, <1>9, <3>1, <4>1, <4>2
    <3>2. CASE v # u
      <4>1. usess'[v] = usess[v] /\ byUpstream'[v] = byUpstream[v] /\ origin'[v] = origin[v]
        BY <1>6, <1>7, <1>8, <3>2
      <4>2. usess[v].st \in {"pending", "open"} => byUpstream[v] \in Streams
        BY <1>1 DEF Owned
      <4> QED BY <1>1, <1>4, <4>1, <4>2 DEF Ends
    <3> QED BY <3>1, <3>2
  <2> QED BY <2>1, <2>2 DEF Ends
<1>15. PassedOn'
  <2>1. \A d \in Streams : str[d].uid # 0 => origin'[str[d].uid].stage = origin[str[d].uid].stage
    BY <1>1, <1>7 DEF Owned
  <2>2. ASSUME NEW v \in Streams, usess'[v].st = "open", usess'[v].prov = "none", ~uClosed
        PROVE  origin'[v].reqEnd
    BY <1>1, <1>2, <1>6, <1>7, <2>2 DEF PassedOn
  <2>3. \A d \in Streams : str'[d].reqEof = str[d].reqEof
    BY <1>4
  <2> QED BY <1>1, <1>5, <1>8, <1>11, <2>1, <2>2, <2>3 DEF PassedOn
<1>16. Untrailed'
  <2> SUFFICES ASSUME "trailers" \notin Peer
               PROVE  /\ \A d \in Streams : (\E i \in 1..Len(csess'[d].q) : csess'[d].q[i].end) => SentFor(d)' = 0
                      /\ CompleteResponse'
    BY DEF Untrailed
  <2>1. CompleteResponse /\ \A d \in Streams : (\E i \in 1..Len(csess[d].q) : csess[d].q[i].end) => SentFor(d) = 0
    BY <1>1 DEF Untrailed
  <2>2. ASSUME NEW d \in Streams, \E i \in 1..Len(csess'[d].q) : csess'[d].q[i].end
        PROVE  SentFor(d)' = 0
    <3>1. \E i \in 1..Len(csess[d].q) : csess[d].q[i].end
      BY <1>5, <2>2
    <3>2. d # c
      BY <1>2, <3>1 DEF EndsLast
    <3> QED BY <1>11, <2>1, <3>1, <3>2
  <2>3. ASSUME NEW d \in Streams, client[d].fin = "end"
        PROVE  /\ str[d].uid # 0 /\ origin'[str[d].uid].respEnd
               /\ Len(client[d].got) = origin'[str[d].uid].sent
    <3>1. str[d].uid # 0 /\ origin[str[d].uid].respEnd /\ Len(client[d].got) = origin[str[d].uid].sent
      BY <2>1, <2>3 DEF CompleteResponse
    <3>2. str[d].uid # u
      BY <1>2, <3>1
    <3>3. str[d].uid \in Streams
      BY <1>1, <3>1 DEF Owned
    <3> QED BY <1>7, <3>1, <3>2, <3>3
  <2>4. CompleteResponse'
    BY <1>8, <1>11, <2>3 DEF CompleteResponse
  <2> QED BY <2>2, <2>4
<1>17. CompleteRequest'
  BY <1>1, <1>7, <1>8 DEF CompleteRequest
<1>18. AnalyzedOnce'
  BY <1>1, <1>4, <1>8 DEF AnalyzedOnce
<1>19. AbortsPropagate'
  <2>1. ASSUME NEW d \in Streams, str'[d].uid # 0, ~str'[d].respEof
        PROVE  \/ csess'[d].st = "closed" <=> usess'[str'[d].uid].st = "closed"
               \/ csess'[d].st = "closing" \/ usess'[str'[d].uid].st \in {"closing", "canceled"}
    <3>1. CASE d = c
      <4>1. usess'[u].st = usess[u].st /\ csess'[c].st = csess[c].st
        BY <1>2, <1>4, <1>5, <1>6, <2>1, <3>1
      <4> QED BY <1>1, <1>2, <1>4, <2>1, <3>1, <4>1 DEF AbortsPropagate
    <3>2. CASE d # c
      <4>1. str[d].uid # 0 => usess'[str[d].uid] = usess[str[d].uid]
        BY <1>6, <1>10, <3>2
      <4> QED BY <1>1, <1>4, <1>5, <2>1, <3>2, <4>1 DEF AbortsPropagate
    <3> QED BY <3>1, <3>2
  <2> QED BY <2>1 DEF AbortsPropagate
<1> QED BY <1>12, <1>13, <1>14, <1>15, <1>16, <1>17, <1>18, <1>19 DEF Passing

-----------------------------------------------------------------------------
(* The invariant.                                                          *)

LEMMA PassingInit == Init => PassingInv
<1> SUFFICES ASSUME Init PROVE PassingInv
  OBVIOUS
<1>1. BridgeInv /\ 0 \notin Streams
  BY InitEstablishes DEF Streams
<1>2. /\ \A c \in Streams : str[c] = newStream /\ csess[c] = idleC
      /\ \A u \in Streams : byUpstream[u] = 0 /\ usess[u] = idleU
      /\ \A c \in Streams : /\ client[c].sent = 0 /\ ~client[c].ended /\ client[c].hdrs = <<>>
                            /\ client[c].got = <<>> /\ client[c].fin = "no"
      /\ \A u \in Streams : /\ origin[u].tag = 0 /\ origin[u].got = <<>> /\ ~origin[u].reqEnd
                            /\ origin[u].stage = "none" /\ origin[u].sent = 0 /\ ~origin[u].respEnd
  BY DEF Init
<1>3. \A c \in Streams : /\ str[c].uid = 0 /\ str[c].reqBody = <<>> /\ str[c].reqEof = FALSE
                         /\ str[c].respBody = <<>> /\ str[c].respEof = FALSE
                         /\ str[c].uploadCap = <<>> /\ str[c].analyzed = <<>>
  BY <1>2 DEF newStream
<1>4. /\ \A c \in Streams : csess[c].st = "idle" /\ csess[c].q = <<>>
      /\ \A u \in Streams : usess[u].st = "idle" /\ usess[u].rd /\ usess[u].wr
  BY <1>2 DEF idleC, idleU
<1>5. \A c \in Streams : SentFor(c) = 0
  BY <1>3 DEF SentFor
<1>6. Len(<<>>) = 0 /\ \A i \in 1..Len(<<>>) : FALSE
  BY EmptySeq
<1>7. Untouched
  BY <1>2, <1>4 DEF Untouched
<1>8. Bodies
  <2>1. ASSUME NEW c \in Streams
        PROVE  Passes(client[c].got, str[c].respBody, c, SentFor(c), ~cClosed)
    <3>1. (~cClosed) \in BOOLEAN
      OBVIOUS
    <3> QED BY <1>2, <1>3, <1>5, <3>1, PassesNothing
  <2> QED BY <1>2, <2>1 DEF Bodies
<1>9. Ends
  <2>1. EndsLast(<<>>, FALSE)
    BY DEF EndsLast
  <2> QED BY <1>2, <1>3, <1>4, <2>1 DEF Ends
<1>10. PassedOn
  BY <1>2, <1>4 DEF PassedOn
<1>11. Untrailed
  BY <1>2, <1>5 DEF Untrailed, CompleteResponse
<1>12. CompleteRequest
  BY <1>2 DEF CompleteRequest
<1>13. AnalyzedOnce
  <2>1. FirstOf(0) = 0
    BY ConstantsAssumption DEF FirstOf
  <2>2. \A m : m = 0 => m <= 0
    OBVIOUS
  <2>3. \A c \in Streams : PrefixOf(<<>>, c, 0)
    BY <1>6, <2>2, Zenon DEF PrefixOf
  <2> QED BY <1>2, <1>3, <1>6, <2>1, <2>3 DEF AnalyzedOnce
<1>14. AbortsPropagate
  BY <1>3 DEF AbortsPropagate
<1> QED BY <1>1, <1>7, <1>8, <1>9, <1>10, <1>11, <1>12, <1>13, <1>14 DEF PassingInv

LEMMA PassingStep == PassingInv /\ [Next]_vars => PassingInv'
<1> SUFFICES ASSUME PassingInv, [Next]_vars PROVE PassingInv'
  OBVIOUS
<1>1. BridgeInv'
  BY NextKeeps DEF PassingInv
<1>2. SUFFICES Passing'
  BY <1>1 DEF PassingInv, Passing
<1>3. CASE SendStepC
  BY <1>1, <1>3, SendHeadersCPasses, ClientOverKeeps, DeferCPasses, SendDataCPasses DEF SendStepC
<1>4. CASE SendStepU
  BY <1>1, <1>4, OriginOverKeeps, SendHeadersUPasses, DeferUPasses, SendDataUPasses DEF SendStepU
<1>5. CASE RecvStepC
  <2>1. CASE ClientGoaway \/ ClientEof
    BY <1>1, <2>1, LoopMoves DEF ClientGoaway, ClientEof
  <2> QED BY <1>1, <1>5, <2>1, ClientHeadersPasses, ClientDataPasses, ClientTrailersPasses,
             ClientOverKeeps DEF RecvStepC
<1>6. CASE RecvStepU
  <2>1. CASE OriginEof
    BY <1>1, <2>1, LoopMoves DEF OriginEof
  <2> QED BY <1>1, <1>6, <2>1, OriginHeadersPasses, OriginDataPasses, OriginOverKeeps,
             OriginGoawayPasses DEF RecvStepU
<1>7. CASE \/ SendDoneC \/ SendBlockC \/ SendFailC \/ SendDoneU \/ SendBlockU \/ SendFailU
           \/ Stop \/ Wake \/ Timeout \/ RecvDoneC \/ RecvFailC \/ RecvDoneU \/ RecvFailU
  BY <1>1, <1>7, LoopMoves
     DEF SendDoneC, SendBlockC, SendFailC, SendDoneU, SendBlockU, SendFailU, Stop, Wake,
         Timeout, RecvDoneC, RecvFailC, RecvDoneU, RecvFailU, Goto
<1>8. CASE UNCHANGED vars
  BY <1>1, <1>8, LoopMoves DEF vars
<1> QED BY <1>3, <1>4, <1>5, <1>6, <1>7, <1>8 DEF Next, Terminated

\* The inductive invariant of what the bridge passes on: how the buffers, the
\* ends of the bodies and the views of the two peers hang together.
THEOREM PassingInvariant == Spec => []PassingInv
BY PassingInit, PassingStep, PTL DEF Spec

-----------------------------------------------------------------------------
(* What it gives.                                                          *)

\* Bodies never cross streams and never lose, repeat or reorder a chunk, in
\* either direction: respBodyRead and reqBodyRead hand out what the other
\* session's data callback appended, once and in order.
THEOREM NeverCrossTalk == Spec => []NoCrossTalk
<1>1. PassingInv => NoCrossTalk
  <2> SUFFICES ASSUME PassingInv PROVE NoCrossTalk
    OBVIOUS
  <2>1. BridgeInv /\ Untouched /\ Bodies /\ Owned
    BY Owners DEF PassingInv
  <2>2. ASSUME NEW c \in Streams, client[c].got # <<>>
        PROVE  /\ str[c].uid # 0 /\ origin[str[c].uid].tag = c
               /\ PrefixOf(client[c].got, c, origin[str[c].uid].sent)
    <3>1. Passes(client[c].got, str[c].respBody, c, SentFor(c), ~cClosed)
      BY <2>1 DEF Bodies
    <3>2. client[c].got \in Seq(Chunk) /\ str[c].respBody \in Seq(Chunk) /\ SentFor(c) \in Nat
      BY <2>1, StreamTypes DEF ClientView, H2Stream
    <3>3. PrefixOf(client[c].got, c, SentFor(c)) /\ SentFor(c) # 0
      <4>1. (~cClosed) \in BOOLEAN
        OBVIOUS
      <4> QED BY <2>2, <3>1, <3>2, <4>1, PassesLeft
    <3>4. str[c].uid # 0 /\ SentFor(c) = origin[str[c].uid].sent
      BY <3>3 DEF SentFor
    <3>5. str[c].uid \in Streams /\ byUpstream[str[c].uid] = c
      BY <2>1, <3>4 DEF Owned
    <3>6. origin[str[c].uid].tag = c
      BY <2>1, <3>3, <3>4, <3>5 DEF Untouched
    <3> QED BY <3>3, <3>4, <3>6
  <2>3. ASSUME NEW u \in Streams, origin[u].tag # 0
        PROVE  PrefixOf(origin[u].got, origin[u].tag, client[origin[u].tag].sent)
    <3> DEFINE c == byUpstream[u]
    <3>1. origin[u].tag = c
      BY <2>1, <2>3 DEF Untouched
    <3>2. c \in Streams /\ c # 0
      BY <2>1, <2>3, <3>1 DEF Owned
    <3>3. Passes(origin[u].got, str[c].reqBody, c, client[c].sent, ~uClosed)
      BY <2>1, <3>2 DEF Bodies
    <3>4. origin[u].got \in Seq(Chunk) /\ str[c].reqBody \in Seq(Chunk) /\ client[c].sent \in Nat
      BY <2>1, <3>2, StreamTypes DEF OriginView, H2Stream, ClientView
    <3> HIDE DEF c
    <3>5. PrefixOf(origin[u].got, c, client[c].sent)
      <4>1. Len(str[c].reqBody) \in Nat /\ Len(origin[u].got) \in Nat
        BY <3>4, LenProperties
      <4>2. PrefixOf(origin[u].got, c, client[c].sent - Len(str[c].reqBody))
        BY <3>3 DEF Passes
      <4>3. client[c].sent - Len(str[c].reqBody) <= client[c].sent
        BY <3>4, <4>1
      <4>4. Len(origin[u].got) <= client[c].sent
        BY <3>4, <4>1, <4>2, <4>3 DEF PrefixOf
      <4> QED BY <4>2, <4>4 DEF PrefixOf
    <3> QED BY <3>1, <3>5
  <2> QED BY <2>2, <2>3 DEF NoCrossTalk
<1> QED BY <1>1, PassingInvariant, PTL

\* The origin is told the end of a request (EOF of reqBodyRead, or HEADERS with
\* END_STREAM) only when the client has ended it and all of it has arrived.
THEOREM RequestsAreWhole == Spec => []CompleteRequest
<1>1. PassingInv => CompleteRequest
  BY DEF PassingInv
<1> QED BY <1>1, PassingInvariant, PTL

\* Without trailers, the client is told the end of a response only when the
\* origin has ended it and all of it has arrived, whatever is reset, refused or
\* closed on the way.
THEOREM ResponsesAreWhole ==
    ASSUME "trailers" \notin Peer
    PROVE  Spec => []CompleteResponse
<1>1. PassingInv => CompleteResponse
  BY DEF PassingInv, Untrailed
<1> QED BY <1>1, PassingInvariant, PTL

\* The analyzer sees each request once, after its end, with its first Cap chunks.
THEOREM AlwaysAnalyzedOnce == Spec => []AnalyzedOnce
<1>1. PassingInv => AnalyzedOnce
  BY DEF PassingInv
<1> QED BY <1>1, PassingInvariant, PTL

\* cb_on_stream_close: a stream that is over on one side before its response is
\* complete is over, or being reset, on the other side.
THEOREM AbortsAlwaysPropagate == Spec => []AbortsPropagate
<1>1. PassingInv => AbortsPropagate
  BY DEF PassingInv
<1> QED BY <1>1, PassingInvariant, PTL

\* When the loop sleeps in select with nothing to write, every byte, end of
\* stream and response header that has come in has been passed on, unless one
\* of the peers uses trailers.
THEOREM SleepsOwingNothing ==
    ASSUME Peer \cap {"trailers", "reqTrailers"} = {}
    PROVE  Spec => []OwesNothing
<1>1. PassingInv => OwesNothing
  <2> SUFFICES ASSUME PassingInv, Asleep PROVE
        /\ \A c \in Streams : csess[c].st = "open" /\ str[c].uid # 0 /\ ~cClosed =>
              LET o == origin[str[c].uid] IN
              /\ Len(client[c].got) = o.sent
              /\ o.respEnd => client[c].fin = "end"
              /\ o.stage # "none" => client[c].hdrs # <<>>
        /\ \A u \in Streams : usess[u].st = "open" /\ ~uClosed =>
              LET v == client[origin[u].tag] IN
              /\ Len(origin[u].got) = v.sent
              /\ v.ended => origin[u].reqEnd
    BY DEF OwesNothing
  <2>1. BridgeInv /\ NoLostWakeup /\ Untouched /\ Bodies /\ Ends /\ PassedOn /\ Untrailed
        /\ Owned /\ 0 \notin Streams
    BY Owners DEF PassingInv, BridgeInv
  <2>2. "trailers" \notin Peer /\ "reqTrailers" \notin Peer
    OBVIOUS
  <2>3. CompleteResponse
    BY <2>1, <2>2 DEF Untrailed
  <2>4. ASSUME NEW c \in Streams, csess[c].st = "open", str[c].uid # 0, ~cClosed
        PROVE  /\ Len(client[c].got) = origin[str[c].uid].sent
               /\ origin[str[c].uid].respEnd => client[c].fin = "end"
               /\ origin[str[c].uid].stage # "none" => client[c].hdrs # <<>>
    <3> DEFINE o == origin[str[c].uid]
    <3>1. csess[c].q = <<>> /\ csess[c].prov # "ready"
      BY <2>4 DEF Asleep, WantWriteC, SendableC
    <3>2. csess[c] \in CStream /\ client[c].got \in Seq(Chunk) /\ SentFor(c) \in Nat
          /\ str[c].uid \in Streams
      BY <2>1, <2>4, StreamTypes DEF ClientView, Owned
    <3>3. Passes(client[c].got, str[c].respBody, c, SentFor(c), TRUE) /\ SentFor(c) = o.sent
      BY <2>1, <2>4 DEF Bodies, SentFor
    <3>4. o.stage # "none" => client[c].hdrs # <<>>
      BY <2>1, <2>4, <3>1 DEF PassedOn
    <3>5. CASE csess[c].prov = "deferred"
      <4>1. str[c].respBody = <<>> /\ ~str[c].respEof
        BY <2>1, <3>1, <3>5 DEF NoLostWakeup, EndQueued
      <4>2. Len(client[c].got) = o.sent
        BY <3>2, <3>3, <4>1, PassesWhole
      <4>3. ~o.respEnd
        BY <2>1, <2>4, <4>1 DEF Ends
      <4> QED BY <3>4, <4>2, <4>3
    <3>6. CASE csess[c].prov # "deferred" /\ csess[c].wr
      <4>1. csess[c].prov = "none"
        BY <3>1, <3>2, <3>6 DEF CStream, Provider
      <4>2. o.stage = "none"
        BY <2>1, <2>4, <3>1, <3>6, <4>1 DEF PassedOn
      <4>3. o.sent = 0 /\ ~o.respEnd
        BY <2>1, <3>2, <4>2 DEF Untouched
      <4>4. client[c].got = <<>>
        <5>1. str[c].respBody \in Seq(Chunk)
          BY <2>1, StreamTypes DEF H2Stream
        <5>2. SentFor(c) = 0 /\ Passes(client[c].got, str[c].respBody, c, SentFor(c), TRUE)
          BY <3>3, <4>3
        <5>3. TRUE \in BOOLEAN
          OBVIOUS
        <5> QED BY <3>2, <5>1, <5>2, <5>3, PassesLeft
      <4>5. Len(client[c].got) = 0
        BY <4>4, EmptySeq
      <4> QED BY <3>4, <4>3, <4>5
    <3>7. CASE ~csess[c].wr
      <4>1. client[c].fin = "end"
        BY <2>1, <2>4, <3>7 DEF PassedOn
      <4>2. Len(client[c].got) = o.sent
        BY <2>3, <4>1 DEF CompleteResponse
      <4> QED BY <3>4, <4>1, <4>2
    <3> QED BY <3>2, <3>5, <3>6, <3>7 DEF CStream
  <2>5. ASSUME NEW u \in Streams, usess[u].st = "open", ~uClosed
        PROVE  /\ Len(origin[u].got) = client[origin[u].tag].sent
               /\ client[origin[u].tag].ended => origin[u].reqEnd
    <3> DEFINE c == byUpstream[u]
    <3>1. usess[u] \in UStream /\ origin[u].got \in Seq(Chunk)
      BY <2>1, StreamTypes DEF OriginView
    <3>2. usess[u].prov \in {"none", "deferred"}
      BY <2>5, <3>1 DEF Asleep, WantWriteU, SendableU, UStream, Provider
    <3>3. origin[u].tag = c /\ c # 0 /\ c \in Streams
      BY <2>1, <2>5 DEF Untouched, Owned
    <3>4. Passes(origin[u].got, str[c].reqBody, c, client[c].sent, TRUE) /\ client[c].sent \in Nat
      BY <2>1, <2>5, <3>3, StreamTypes DEF Bodies, ClientView
    <3>5. str[c].reqBody = <<>>
      BY <2>1, <2>5, <3>2 DEF NoLostWakeup, Defers, Ends
    <3>6. Len(origin[u].got) = client[c].sent
      <4> HIDE DEF c
      <4> QED BY <3>1, <3>4, <3>5, PassesWhole
    <3>7. ASSUME client[c].ended PROVE origin[u].reqEnd
      <4>1. str[c].reqEof
        BY <2>1, <2>2, <3>3, <3>7 DEF PassedOn
      <4>2. usess[u].prov = "none"
        BY <2>1, <3>2, <4>1 DEF NoLostWakeup, Defers
      <4> QED BY <2>1, <2>5, <4>2 DEF PassedOn
    <3> QED BY <3>3, <3>6, <3>7
  <2> QED BY <2>4, <2>5
<1> QED BY <1>1, PassingInvariant, PTL

\* A stream that has ended for the client stays as it is: its queue is empty and
\* no provider is attached, so nothing more can be sent on it.
LEMMA SettledStep == PassingInv /\ [Next]_vars => StaysSettled
<1> SUFFICES ASSUME PassingInv, [Next]_vars, NEW c \in Streams, client[c].fin # "no"
             PROVE  /\ client'[c].fin = client[c].fin
                    /\ client'[c].got = client[c].got
                    /\ client'[c].hdrs = client[c].hdrs
  BY DEF StaysSettled
<1>1. TypeOK /\ Ends
  BY DEF PassingInv, BridgeInv
<1>2. csess[c].st = "closed" \/ (csess[c].st = "open" /\ csess[c].q = <<>> /\ csess[c].prov = "none")
  BY <1>1 DEF Ends
<1>3. client \in [Streams -> ClientView] /\ client[c] \in ClientView
  BY <1>1 DEF TypeOK
<1>4. CASE SendStepC
  <2>1. PICK d \in Streams : \/ SendHeadersC(d) \/ SendRstC(d) \/ DeferC(d)
                             \/ \E k \in 0..MaxBody : SendDataC(d, k)
    BY <1>4 DEF SendStepC
  <2>2. CASE DeferC(d)
    BY <2>2 DEF DeferC
  <2>3. CASE ~DeferC(d)
    <3>1. d # c
      BY <1>2, <2>1, <2>3 DEF SendHeadersC, SendRstC, SendDataC, DataTurnC
    <3>2. client' = client \/ \E view : client' = [client EXCEPT ![d] = view]
      BY <2>1, <2>3 DEF SendHeadersC, SendRstC, SendDataC, ToClient
    <3> QED BY <1>3, <3>1, <3>2
  <2> QED BY <2>2, <2>3
<1>5. CASE RecvStepC
  <2>1. CASE ClientGoaway \/ ClientEof
    BY <2>1 DEF ClientGoaway, ClientEof
  <2>2. CASE \E d \in Streams : \/ ClientTrailers(d) \/ ClientRst(d)
                                \/ \E end, submitted \in BOOLEAN : ClientHeaders(d, end, submitted)
    <3>1. PICK d \in Streams : \/ ClientTrailers(d) \/ ClientRst(d)
                               \/ \E end, submitted \in BOOLEAN : ClientHeaders(d, end, submitted)
      BY <2>2
    <3>2. \/ \E b : client' = [client EXCEPT ![d].ended = b]
          \/ client' = [client EXCEPT ![d].reset = TRUE]
      BY <3>1 DEF ClientTrailers, ClientRst, ClientHeaders
    <3>3. CASE client' = [client EXCEPT ![d].reset = TRUE]
      BY <1>3, <3>3 DEF ClientView
    <3>4. CASE \E b : client' = [client EXCEPT ![d].ended = b]
      <4>1. PICK b : client' = [client EXCEPT ![d].ended = b]
        BY <3>4
      <4> QED BY <1>3, <4>1 DEF ClientView
    <3> QED BY <3>2, <3>3, <3>4
  <2>3. CASE \E d \in Streams, n \in {0, 1}, end \in BOOLEAN : ClientData(d, n, end)
    <3>1. PICK d \in Streams, n \in {0, 1}, end \in BOOLEAN : ClientData(d, n, end)
      BY <2>3
    <3>2. client' = [client EXCEPT ![d].sent = @ + n, ![d].ended = end]
      BY <3>1 DEF ClientData
    <3> QED BY <1>3, <3>2 DEF ClientView
  <2> QED BY <1>5, <2>1, <2>2, <2>3 DEF RecvStepC
<1>6. CASE SendStepU
  BY <1>6 DEF SendStepU, SendRstU, SendHeadersU, DropHeadersU, DeferU, SendDataU
<1>7. CASE RecvStepU
  <2>1. \A u \in Streams, kind \in Block, end \in BOOLEAN :
            OriginHeaders(u, kind, end) => client' = client
    BY DEF OriginHeaders
  <2>2. client' = client
    BY <1>7, <2>1, ZenonT(60) DEF RecvStepU, OriginData, OriginRst, OriginGoaway, OriginEof
  <2> QED BY <2>2
<1>8. CASE \/ SendDoneC \/ SendBlockC \/ SendFailC \/ SendDoneU \/ SendBlockU \/ SendFailU
           \/ Stop \/ Wake \/ Timeout \/ RecvDoneC \/ RecvFailC \/ RecvDoneU \/ RecvFailU
  BY <1>8 DEF SendDoneC, SendBlockC, SendFailC, SendDoneU, SendBlockU, SendFailU, Stop, Wake,
              Timeout, RecvDoneC, RecvFailC, RecvDoneU, RecvFailU, Goto
<1>9. CASE UNCHANGED vars
  BY <1>9 DEF vars
<1> QED BY <1>4, <1>5, <1>6, <1>7, <1>8, <1>9 DEF Next, Terminated

\* Once END_STREAM or RST_STREAM has gone out to the client, no header, byte or
\* other end follows on that stream.
THEOREM SettledForGood == Spec => SettledIsFinal
BY PassingInvariant, SettledStep, PTL DEF Spec, SettledIsFinal

=============================================================================
