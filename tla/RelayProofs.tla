------------------------------ MODULE RelayProofs ------------------------------
(***************************************************************************)
(* The relay keeps the order and loses nothing, for every window and every *)
(* number of bytes, and it implements the pipe of StreamPipe.              *)
(***************************************************************************)
EXTENDS Relay, SequenceTheorems, TLAPS

-----------------------------------------------------------------------------
(* Sides and sequences.                                                    *)

LEMMA Sides ==
  /\ Side = {"client", "upstream"}
  /\ Other("client") = "upstream" /\ Other("upstream") = "client"
  /\ \A s \in Side : Other(s) \in Side /\ Other(Other(s)) = s /\ Other(s) # s
  /\ \A s, t \in Side : t # s => t = Other(s)
  BY DEF Side, Other

\* The two parts of a queue.
LEMMA Cut ==
  ASSUME NEW q \in Seq(Nat), NEW k \in 0..Len(q)
  PROVE  /\ Upto(q, k) \in Seq(Nat) /\ Len(Upto(q, k)) = k
         /\ \A i \in 1..k : Upto(q, k)[i] = q[i]
         /\ From(q, k) \in Seq(Nat) /\ Len(From(q, k)) = Len(q) - k
         /\ \A i \in 1..(Len(q) - k) : From(q, k)[i] = q[i + k]
  <1>1. \A i \in 1..Len(q) : q[i] \in Nat BY ElementOfSeq
  <1>2. Len(q) \in Nat /\ k \in Int OBVIOUS
  <1>3. \A i \in 1..k : q[i] \in Nat BY <1>1, <1>2
  <1>4. \A i \in (k + 1)..Len(q) : q[i] \in Nat BY <1>1, <1>2
  <1>5. /\ Upto(q, k) \in Seq(Nat) /\ Len(Upto(q, k)) = k
        /\ \A i \in 1..k : Upto(q, k)[i] = q[i]
    BY <1>2, <1>3, SubSeqProperties, SMTT(30) DEF Upto
  <1>6. /\ From(q, k) \in Seq(Nat) /\ Len(From(q, k)) = Len(q) - k
        /\ \A i \in 1..(Len(q) - k) : From(q, k)[i] = q[i + k]
    <2>1. /\ SubSeq(q, k + 1, Len(q)) \in Seq(Nat)
          /\ Len(SubSeq(q, k + 1, Len(q))) =
                IF k + 1 <= Len(q) THEN Len(q) - (k + 1) + 1 ELSE 0
          /\ \A i \in 1..(Len(q) - (k + 1) + 1) : SubSeq(q, k + 1, Len(q))[i] = q[k + 1 + i - 1]
      <3>1. k + 1 \in Int OBVIOUS
      <3> QED BY <1>2, <1>4, <3>1, SubSeqProperties
    <2> QED BY <2>1, <1>2 DEF From
  <1> QED BY <1>5, <1>6

\* The parts of a numbered queue are numbered, and so are two that follow each other.
LEMMA CountsCut ==
  ASSUME NEW q \in Seq(Nat), NEW k \in 0..Len(q), NEW d \in Int, Counts(q, d)
  PROVE  Counts(Upto(q, k), d) /\ Counts(From(q, k), d + k)
  <1>1. Counts(Upto(q, k), d) BY Cut DEF Counts
  <1>2. Counts(From(q, k), d + k)
    <2> SUFFICES ASSUME NEW i \in 1..Len(From(q, k)) PROVE From(q, k)[i] = d + k + i
      BY DEF Counts
    <2>0. /\ Len(From(q, k)) = Len(q) - k
          /\ \A j \in 1..(Len(q) - k) : From(q, k)[j] = q[j + k]
      BY Cut
    <2>1. i \in 1..(Len(q) - k) /\ From(q, k)[i] = q[i + k] BY <2>0
    <2>2. i + k \in 1..Len(q) BY <2>1
    <2>3. q[i + k] = d + (i + k) BY <2>2 DEF Counts
    <2> QED BY <2>1, <2>3
  <1> QED BY <1>1, <1>2

LEMMA CountsConcat ==
  ASSUME NEW q \in Seq(Nat), NEW r \in Seq(Nat), NEW d \in Int,
         Counts(q, d), Counts(r, d + Len(q))
  PROVE  Counts(q \o r, d) /\ q \o r \in Seq(Nat) /\ Len(q \o r) = Len(q) + Len(r)
  BY DEF Counts

LEMMA CountsAppend ==
  ASSUME NEW q \in Seq(Nat), NEW d \in Int, Counts(q, d), NEW n \in Nat, n = d + Len(q) + 1
  PROVE  Counts(Append(q, n), d)
  BY DEF Counts

LEMMA CountsTail ==
  ASSUME NEW q \in Seq(Nat), q # <<>>, NEW d \in Int, Counts(q, d)
  PROVE  Counts(Tail(q), d + 1) /\ Head(q) = d + 1 /\ Len(Tail(q)) = Len(q) - 1
  BY HeadTailProperties DEF Counts

LEMMA CountsEmpty == \A d : Counts(<<>>, d)
  BY DEF Counts

-----------------------------------------------------------------------------
(* Types.                                                                  *)

LEMMA RecordTypes ==
  ASSUME NEW r \in Socket, NEW q \in Seq(Nat)
  PROVE  /\ [r EXCEPT !.in = q] \in Socket /\ [r EXCEPT !.out = q] \in Socket
         /\ [r EXCEPT !.st = "open"] \in Socket /\ [r EXCEPT !.fin = TRUE] \in Socket
         /\ [r EXCEPT !.shut = TRUE] \in Socket
         /\ [r EXCEPT !.rst = TRUE, !.in = <<>>, !.out = <<>>] \in Socket
  <1>1. [r EXCEPT !.in = q] \in Socket BY DEF Socket
  <1>2. [r EXCEPT !.out = q] \in Socket BY DEF Socket
  <1>3. [r EXCEPT !.st = "open"] \in Socket BY DEF Socket
  <1>4. [r EXCEPT !.fin = TRUE] \in Socket BY DEF Socket
  <1>5. [r EXCEPT !.shut = TRUE] \in Socket BY DEF Socket
  <1>6. \A e \in Seq(Nat) : [r EXCEPT !.rst = TRUE, !.in = e, !.out = e] \in Socket BY DEF Socket
  <1>7. <<>> \in Seq(Nat) OBVIOUS
  <1>8. [r EXCEPT !.rst = TRUE, !.in = <<>>, !.out = <<>>] \in Socket BY <1>6, <1>7
  <1> QED BY <1>1, <1>2, <1>3, <1>4, <1>5, <1>8

LEMMA SocketTypes ==
  ASSUME sock \in [Side -> Socket], NEW s \in Side, NEW q \in Seq(Nat)
  PROVE  /\ [sock EXCEPT ![s].in = q] \in [Side -> Socket]
         /\ [sock EXCEPT ![s].out = q] \in [Side -> Socket]
         /\ [sock EXCEPT ![s].st = "open"] \in [Side -> Socket]
         /\ [sock EXCEPT ![s].fin = TRUE] \in [Side -> Socket]
         /\ [sock EXCEPT ![s].rst = TRUE, ![s].in = <<>>, ![s].out = <<>>] \in [Side -> Socket]
         /\ HalfClosed(s) \in [Side -> Socket]
         /\ CloseAll \in [Side -> Socket]
  <1>1. CloseAll \in [Side -> Socket] BY DEF CloseAll, Socket
  <1>2. [sock EXCEPT ![s].rst = TRUE, ![s].in = <<>>, ![s].out = <<>>]
          = [sock EXCEPT ![s] = [sock[s] EXCEPT !.rst = TRUE, !.in = <<>>, !.out = <<>>]]
    OBVIOUS
  <1> QED BY <1>1, <1>2, RecordTypes DEF HalfClosed

LEMMA ThreadTypes ==
  ASSUME thr \in [Side -> Thread], NEW f \in Side, NEW q \in Seq(Nat)
  PROVE  /\ [thr EXCEPT ![f].buf = q] \in [Side -> Thread]
         /\ \A at \in {"first", "recv", "send", "over"} :
               /\ [thr EXCEPT ![f].at = at] \in [Side -> Thread]
               /\ [thr EXCEPT ![f] = [at |-> at, buf |-> q]] \in [Side -> Thread]
         /\ Started \in [Side -> Thread]
  <1>1. [thr EXCEPT ![f].buf = q] \in [Side -> Thread] BY DEF Thread
  <1>2. ASSUME NEW at \in {"first", "recv", "send", "over"}
        PROVE  /\ [thr EXCEPT ![f].at = at] \in [Side -> Thread]
               /\ [thr EXCEPT ![f] = [at |-> at, buf |-> q]] \in [Side -> Thread]
    BY DEF Thread
  <1>3. Started \in [Side -> Thread] BY DEF Thread, Started
  <1> QED BY <1>1, <1>2, <1>3

\* A peer sends or reads one more byte.
LEMMA PeerRecordTypes ==
  ASSUME NEW r \in [sent : Nat, got : Seq(Nat)], NEW n \in Nat
  PROVE  /\ [r EXCEPT !.sent = @ + 1] \in [sent : Nat, got : Seq(Nat)]
         /\ [r EXCEPT !.got = Append(@, n)] \in [sent : Nat, got : Seq(Nat)]
  <1>1. r.sent + 1 \in Nat OBVIOUS
  <1>2. Append(r.got, n) \in Seq(Nat) BY AppendProperties
  <1>3. [r EXCEPT !.sent = r.sent + 1] \in [sent : Nat, got : Seq(Nat)] BY <1>1
  <1>4. [r EXCEPT !.got = Append(r.got, n)] \in [sent : Nat, got : Seq(Nat)] BY <1>2
  <1> QED BY <1>3, <1>4

LEMMA InitTypes == Init => TypeOK
  <1> SUFFICES ASSUME Init PROVE TypeOK OBVIOUS
  <1>0. newSocket \in Socket BY DEF newSocket, Socket
  <1>1. [newSocket EXCEPT !.st = "open"] \in Socket BY <1>0, EmptySeq, RecordTypes
  <1>2. sock \in [Side -> Socket] BY <1>0, <1>1 DEF Init
  <1>3. thr \in [Side -> Thread] BY DEF Init, Thread
  <1>4. peer \in [Side -> [sent : Nat, got : Seq(Nat)]] BY DEF Init
  <1> QED BY <1>2, <1>3, <1>4 DEF Init, TypeOK

LEMMA SetupTypes ==
  ASSUME TypeOK, Setup
  PROVE  TypeOK'
  <1>0. "client" \in Side /\ "upstream" \in Side BY Sides
  <1>s. sock \in [Side -> Socket] /\ thr \in [Side -> Thread] BY DEF TypeOK
  <1>e. <<>> \in Seq(Nat) OBVIOUS
  <1>1. ASSUME NEW k \in 1..Window, ReadHead(k) PROVE TypeOK'
    <2>1. k \in 0..Len(sock["client"].in) /\ sock["client"].in \in Seq(Nat)
      BY <1>1, <1>0, <1>s DEF ReadHead, Socket
    <2>2. Upto(sock["client"].in, k) \in Seq(Nat) /\ From(sock["client"].in, k) \in Seq(Nat)
          /\ Len(Upto(sock["client"].in, k)) = k
      BY <2>1, Cut
    <2>3. Consumed \in 0..k BY DEF Consumed
    <2>4. From(Upto(sock["client"].in, k), Consumed) \in Seq(Nat) BY <2>2, <2>3, Cut
    <2>5. thr' \in [Side -> Thread] BY <1>1, <1>0, <1>s, <2>4, ThreadTypes DEF ReadHead
    <2>6. sock' \in [Side -> Socket] BY <1>1, <1>0, <1>s, <2>2, SocketTypes DEF ReadHead
    <2> QED BY <1>1, <2>5, <2>6 DEF ReadHead, TypeOK
  <1>2. ASSUME NEW k \in 1..Window, SendFirst(k) PROVE TypeOK'
    <2>1. k \in 0..Len(thr["client"].buf) /\ thr["client"].buf \in Seq(Nat)
      BY <1>2, <1>0, <1>s DEF SendFirst, Thread
    <2>2. Upto(thr["client"].buf, k) \in Seq(Nat) /\ From(thr["client"].buf, k) \in Seq(Nat)
      BY <2>1, Cut
    <2>3. sock["upstream"].out \o Upto(thr["client"].buf, k) \in Seq(Nat)
      BY <1>0, <1>s, <2>2 DEF Socket
    <2>4. thr' \in [Side -> Thread] BY <1>2, <1>0, <1>s, <2>2, ThreadTypes DEF SendFirst
    <2>5. sock' \in [Side -> Socket] BY <1>2, <1>0, <1>s, <2>3, SocketTypes DEF SendFirst
    <2> QED BY <1>2, <2>4, <2>5 DEF SendFirst, TypeOK
  <1>3. CASE Refuse
    <2>1. sock' \in [Side -> Socket] BY <1>3, <1>0, <1>s, <1>e, SocketTypes DEF Refuse
    <2>2. thr' \in [Side -> Thread] BY <1>3, <1>0, <1>s, <1>e, ThreadTypes DEF Refuse
    <2> QED BY <1>3, <2>1, <2>2 DEF Refuse, TypeOK
  <1>4. CASE Connect
    <2>1. sock' \in [Side -> Socket] BY <1>4, <1>0, <1>s, <1>e, SocketTypes DEF Connect
    <2> QED BY <1>4, <2>1 DEF Connect, TypeOK
  <1>5. CASE SendReply
    <2>1. Reply \in Seq(Nat) BY DEF Reply
    <2>2. sock' \in [Side -> Socket] BY <1>5, <1>0, <1>s, <1>e, <2>1, SocketTypes DEF SendReply
    <2>3. thr' \in [Side -> Thread] BY <1>5, <1>0, <1>s, <1>e, ThreadTypes DEF SendReply
    <2> QED BY <1>5, <2>2, <2>3 DEF SendReply, TypeOK
  <1>6. CASE ReplyFails
    <2>1. sock' \in [Side -> Socket] BY <1>6, <1>0, <1>s, <1>e, SocketTypes DEF ReplyFails
    <2>2. thr' \in [Side -> Thread] BY <1>6, <1>0, <1>s, <1>e, ThreadTypes DEF ReplyFails
    <2> QED BY <1>6, <2>1, <2>2 DEF ReplyFails, TypeOK
  <1>7. CASE StartRelay
    <2>1. thr' \in [Side -> Thread] BY <1>7, <1>0, <1>s, <1>e, ThreadTypes DEF StartRelay
    <2> QED BY <1>7, <2>1 DEF StartRelay, TypeOK
  <1> QED BY <1>1, <1>2, <1>3, <1>4, <1>5, <1>6, <1>7 DEF Setup

LEMMA RelayTypes ==
  ASSUME TypeOK, NEW f \in Side, RelayStep(f)
  PROVE  TypeOK'
  <1>0. Other(f) \in Side BY Sides
  <1>s. sock \in [Side -> Socket] /\ thr \in [Side -> Thread] BY DEF TypeOK
  <1>e. <<>> \in Seq(Nat) OBVIOUS
  <1>a. Over(f) \in [Side -> Thread] BY <1>s, <1>e, ThreadTypes DEF Over
  <1>b. HalfClosed(Other(f)) \in [Side -> Socket] BY <1>s, <1>0, <1>e, SocketTypes
  <1>1. ASSUME NEW k \in 1..Window, Recv(f, k) PROVE TypeOK'
    <2>1. k \in 0..Len(sock[f].in) /\ sock[f].in \in Seq(Nat) BY <1>1, <1>s DEF Recv, Socket
    <2>2. Upto(sock[f].in, k) \in Seq(Nat) /\ From(sock[f].in, k) \in Seq(Nat) BY <2>1, Cut
    <2>3. thr' \in [Side -> Thread] BY <1>1, <1>s, <2>2, ThreadTypes DEF Recv
    <2>4. sock' \in [Side -> Socket] BY <1>1, <1>s, <2>2, SocketTypes DEF Recv
    <2>5. quiet' \in [Side -> BOOLEAN] BY <1>1, <1>0 DEF Recv, TypeOK
    <2> QED BY <1>1, <2>3, <2>4, <2>5 DEF Recv, TypeOK
  <1>2. ASSUME NEW k \in 1..Window, Send(f, k) PROVE TypeOK'
    <2>1. k \in 0..Len(thr[f].buf) /\ thr[f].buf \in Seq(Nat) BY <1>2, <1>s DEF Send, Thread
    <2>2. Upto(thr[f].buf, k) \in Seq(Nat) /\ From(thr[f].buf, k) \in Seq(Nat) BY <2>1, Cut
    <2>3. sock[Other(f)].out \o Upto(thr[f].buf, k) \in Seq(Nat) BY <1>0, <1>s, <2>2 DEF Socket
    <2>4. thr' \in [Side -> Thread] BY <1>2, <1>s, <2>2, ThreadTypes DEF Send, Unsent
    <2>5. sock' \in [Side -> Socket] BY <1>2, <1>0, <1>s, <2>3, SocketTypes DEF Send
    <2>6. quiet' \in [Side -> BOOLEAN] BY <1>2 DEF Send, TypeOK
    <2> QED BY <1>2, <2>4, <2>5, <2>6 DEF Send, TypeOK
  <1>3. CASE RecvEnd(f) BY <1>3, <1>a, <1>b DEF RecvEnd, TypeOK
  <1>4. CASE RecvTimeout(f) BY <1>4, <1>a, <1>b DEF RecvTimeout, TypeOK
  <1>5. CASE SendFails(f) BY <1>5, <1>a, <1>b DEF SendFails, TypeOK
  <1> QED BY <1>1, <1>2, <1>3, <1>4, <1>5 DEF RelayStep

LEMMA PeerTypes ==
  ASSUME TypeOK, NEW s \in Side, PeerStep(s)
  PROVE  TypeOK'
  <1>s. sock \in [Side -> Socket] /\ peer \in [Side -> [sent : Nat, got : Seq(Nat)]]
    BY DEF TypeOK
  <1>p. peer[s] \in [sent : Nat, got : Seq(Nat)] /\ sock[s] \in Socket BY <1>s
  <1>e. <<>> \in Seq(Nat) OBVIOUS
  <1>1. CASE PeerSends(s)
    <2>1. Append(sock[s].in, peer[s].sent + 1) \in Seq(Nat) BY <1>p DEF Socket
    <2>2. sock' \in [Side -> Socket] BY <1>1, <1>s, <2>1, SocketTypes DEF PeerSends
    <2>3. [peer[s] EXCEPT !.sent = @ + 1] \in [sent : Nat, got : Seq(Nat)] BY <1>p
    <2>4. peer' \in [Side -> [sent : Nat, got : Seq(Nat)]] BY <1>1, <1>s, <2>3 DEF PeerSends
    <2> QED BY <1>1, <2>2, <2>4 DEF PeerSends, TypeOK
  <1>2. CASE PeerReads(s)
    <2>1. sock[s].out \in Seq(Nat) /\ sock[s].out # <<>> BY <1>2, <1>p DEF PeerReads, Socket
    <2>2. Head(sock[s].out) \in Nat /\ Tail(sock[s].out) \in Seq(Nat)
      BY <2>1, HeadTailProperties
    <2>3. sock' \in [Side -> Socket] BY <1>2, <1>s, <2>2, SocketTypes DEF PeerReads
    <2>4. [peer[s] EXCEPT !.got = Append(@, Head(sock[s].out))] \in [sent : Nat, got : Seq(Nat)]
      BY <1>p, <2>2, PeerRecordTypes
    <2>5. peer' \in [Side -> [sent : Nat, got : Seq(Nat)]] BY <1>2, <1>s, <2>4 DEF PeerReads
    <2> QED BY <1>2, <2>3, <2>5 DEF PeerReads, TypeOK
  <1>3. CASE PeerEnds(s)
    <2>1. sock' \in [Side -> Socket] BY <1>3, <1>s, <1>e, SocketTypes DEF PeerEnds
    <2> QED BY <1>3, <2>1 DEF PeerEnds, TypeOK
  <1>4. CASE PeerResets(s)
    <2>1. sock' \in [Side -> Socket] BY <1>4, <1>s, <1>e, SocketTypes DEF PeerResets
    <2> QED BY <1>4, <2>1 DEF PeerResets, TypeOK
  <1> QED BY <1>1, <1>2, <1>3, <1>4 DEF PeerStep

LEMMA Types ==
  ASSUME TypeOK, [Next]_vars
  PROVE  TypeOK'
  <1>1. CASE Setup BY <1>1, SetupTypes
  <1>2. CASE Finish
    <2>0. sock \in [Side -> Socket] /\ "client" \in Side /\ <<>> \in Seq(Nat) BY Sides DEF TypeOK
    <2>1. sock' \in [Side -> Socket] BY <1>2, <2>0, SocketTypes DEF Finish
    <2> QED BY <1>2, <2>1 DEF Finish, TypeOK
  <1>3. CASE \E s \in Side : RelayStep(s) BY <1>3, RelayTypes
  <1>4. CASE \E s \in Side : PeerStep(s) BY <1>4, PeerTypes
  <1>5. CASE UNCHANGED vars BY <1>5 DEF vars, TypeOK
  <1> QED BY <1>1, <1>2, <1>3, <1>4, <1>5 DEF Next, Terminated

-----------------------------------------------------------------------------
(* Phases.                                                                 *)

Shape == Phases /\ HandleDiscipline

LEMMA SetupShape ==
  ASSUME TypeOK, Shape, Setup
  PROVE  Shape'
  <1> USE Sides DEF Shape, Phases, HandleDiscipline, Refused
  <1>s. sock \in [Side -> Socket] /\ thr \in [Side -> Thread] BY DEF TypeOK
  <1> USE <1>s
  <1>1. ASSUME NEW k \in 1..Window, ReadHead(k) PROVE Shape'
    BY <1>1 DEF ReadHead, Socket, Thread, newSocket
  <1>2. ASSUME NEW k \in 1..Window, SendFirst(k) PROVE Shape'
    BY <1>2 DEF SendFirst, Socket, Thread, newSocket
  <1>3. CASE Refuse BY <1>3 DEF Refuse, CloseAll, Socket, Thread, newSocket
  <1>4. CASE Connect BY <1>4 DEF Connect, Socket, Thread, newSocket
  <1>5. CASE SendReply BY <1>5 DEF SendReply, Socket, Thread
  <1>6. CASE ReplyFails BY <1>6 DEF ReplyFails, CloseAll, Socket, Thread
  <1>7. CASE StartRelay BY <1>7 DEF StartRelay, Started, Socket, Thread
  <1> QED BY <1>1, <1>2, <1>3, <1>4, <1>5, <1>6, <1>7 DEF Setup

LEMMA RelayShape ==
  ASSUME TypeOK, Shape, NEW f \in Side, RelayStep(f)
  PROVE  Shape'
  <1> USE Sides DEF Shape, Phases, HandleDiscipline, Refused
  <1>s. sock \in [Side -> Socket] /\ thr \in [Side -> Thread] BY DEF TypeOK
  <1> USE <1>s
  <1>1. ASSUME NEW k \in 1..Window, Recv(f, k) PROVE Shape'
    BY <1>1, SMTT(60) DEF Recv, Socket, Thread
  <1>2. ASSUME NEW k \in 1..Window, Send(f, k) PROVE Shape'
    <2> DEFINE left == Unsent(thr[f].buf, k)
    <2>1. /\ thr[f].at = "send" /\ main' = main /\ peer' = peer
          /\ sock' = [sock EXCEPT ![Other(f)].out = @ \o Upto(thr[f].buf, k)]
          /\ thr' = [thr EXCEPT ![f] = [at |-> IF left = <<>> THEN "recv" ELSE "send", buf |-> left]]
      BY <1>2 DEF Send
    <2> HIDE DEF left
    <2>2. main = "relay" BY <2>1 DEF TypeOK
    <2>3. \A t \in Side : sock'[t].st = sock[t].st BY <2>1 DEF Socket
    <2>4. thr'[Other(f)] = thr[Other(f)] BY <2>1
    <2>5. thr'[f].at \in {"recv", "send"} /\ (thr'[f].at = "recv" => thr'[f].buf = <<>>) BY <2>1
    <2> QED BY <2>1, <2>2, <2>3, <2>4, <2>5
  <1>3. CASE RecvEnd(f) BY <1>3 DEF RecvEnd, Over, HalfClosed, Socket, Thread
  <1>4. CASE RecvTimeout(f) BY <1>4 DEF RecvTimeout, Over, HalfClosed, Socket, Thread
  <1>5. CASE SendFails(f) BY <1>5 DEF SendFails, Over, HalfClosed, Socket, Thread
  <1> QED BY <1>1, <1>2, <1>3, <1>4, <1>5 DEF RelayStep

\* A peer changes nothing before the time of its side has come.
LEMMA PeerShape ==
  ASSUME TypeOK, Shape, NEW s \in Side, PeerStep(s)
  PROVE  Shape'
  <1>s. sock \in [Side -> Socket] /\ peer \in [Side -> [sent : Nat, got : Seq(Nat)]]
    BY DEF TypeOK
  <1>1. main' = main /\ thr' = thr
    BY DEF PeerStep, PeerSends, PeerReads, PeerEnds, PeerResets
  <1>2. \A t \in Side : sock'[t].st = sock[t].st
    <2>1. CASE PeerSends(s) BY <2>1, <1>s DEF PeerSends, Socket
    <2>2. CASE PeerReads(s) BY <2>2, <1>s DEF PeerReads, Socket
    <2>3. CASE PeerEnds(s) BY <2>3, <1>s DEF PeerEnds, Socket
    <2>4. CASE PeerResets(s) BY <2>4, <1>s DEF PeerResets, Socket
    <2> QED BY <2>1, <2>2, <2>3, <2>4 DEF PeerStep
  <1>3. ASSUME sock["upstream"] = newSocket
        PROVE  sock'["upstream"] = sock["upstream"] /\ peer'["upstream"] = peer["upstream"]
    <2>1. CASE s = "client"
      BY <1>s, <2>1, Sides DEF PeerStep, PeerSends, PeerReads, PeerEnds, PeerResets
    <2>2. CASE s = "upstream"
      <3>1. ~Alive(s) /\ sock[s].out = <<>> BY <1>3, <2>2 DEF Alive, newSocket
      <3> QED BY <3>1 DEF PeerStep, PeerSends, PeerReads, PeerEnds, PeerResets
    <2> QED BY <2>1, <2>2, Sides
  <1>4. ASSUME \A t \in Side : peer[t].got = <<>> /\ sock[t].out = <<>>
        PROVE  \A t \in Side : peer'[t].got = <<>> /\ sock'[t].out = <<>>
    <2>1. CASE PeerSends(s) BY <1>s, <1>4, <2>1 DEF PeerSends, Socket
    <2>2. CASE PeerReads(s) BY <1>4, <2>2 DEF PeerReads
    <2>3. CASE PeerEnds(s) BY <1>s, <1>4, <2>3 DEF PeerEnds, Socket
    <2>4. CASE PeerResets(s) BY <1>s, <1>4, <2>4 DEF PeerResets, Socket
    <2> QED BY <2>1, <2>2, <2>3, <2>4 DEF PeerStep
  <1>5. Phases'
    <2> USE DEF Shape, Phases, Refused
    <2>1. (main \in {"head", "connect"} => sock["upstream"] = newSocket /\ peer["upstream"].sent = 0)'
      BY <1>1, <1>3
    <2>2. (main \in {"head", "connect", "reply"} \/ Refused =>
             \A t \in Side : peer[t].got = <<>> /\ sock[t].out = <<>>)'
      BY <1>1, <1>2, <1>4, Sides
    <2> QED BY <1>1, <1>2, <2>1, <2>2, Sides
  <1>6. HandleDiscipline' BY <1>1, <1>2 DEF Shape, HandleDiscipline
  <1> QED BY <1>5, <1>6 DEF Shape

\* closesocket on both.
LEMMA Closing ==
  ASSUME sock \in [Side -> Socket], sock' = CloseAll, NEW s \in Side
  PROVE  /\ sock'[s].st = IF sock[s].st = "open" THEN "closed" ELSE sock[s].st
         /\ sock'[s].in = sock[s].in /\ sock'[s].out = sock[s].out /\ sock'[s].fin = sock[s].fin
         /\ sock'[s].rst = sock[s].rst /\ sock'[s].shut = sock[s].shut
  BY DEF CloseAll, Socket

LEMMA ShapeStep ==
  ASSUME TypeOK, Shape, [Next]_vars
  PROVE  Shape'
  <1>1. CASE Setup BY <1>1, SetupShape
  <1>2. CASE Finish
    BY <1>2, Sides DEF Finish, Joined, CloseAll, Shape, Phases, HandleDiscipline, Refused,
       TypeOK, Socket, Thread
  <1>3. CASE \E s \in Side : RelayStep(s) BY <1>3, RelayShape
  <1>4. CASE \E s \in Side : PeerStep(s) BY <1>4, PeerShape
  <1>5. CASE UNCHANGED vars BY <1>5 DEF vars, Shape, Phases, HandleDiscipline, Refused
  <1> QED BY <1>1, <1>2, <1>3, <1>4, <1>5 DEF Next, Terminated

-----------------------------------------------------------------------------
(* Ends.                                                                   *)

LEMMA EndsStep ==
  ASSUME TypeOK, Shape, Ends, [Next]_vars
  PROVE  Ends'
  <1> USE Sides DEF Ends, Intact, HasTimeout, Refused
  <1>s. sock \in [Side -> Socket] /\ thr \in [Side -> Thread] BY DEF TypeOK
  <1>p. Phases /\ HandleDiscipline BY DEF Shape
  <1> USE <1>s
  <1>1. CASE Setup
    <2>1. ASSUME NEW k \in 1..Window, ReadHead(k) PROVE Ends'
      BY <2>1, <1>p DEF ReadHead, Socket, Thread, Phases
    <2>2. ASSUME NEW k \in 1..Window, SendFirst(k) PROVE Ends'
      BY <2>2, <1>p DEF SendFirst, Socket, Thread, Phases
    <2>3. CASE Refuse
      BY <2>3, <1>p, SMTT(60) DEF Refuse, CloseAll, Socket, Thread, Phases, newSocket
    <2>4. CASE Connect BY <2>4, <1>p DEF Connect, Socket, Thread, Phases
    <2>5. CASE SendReply BY <2>5, <1>p DEF SendReply, Socket, Thread, Phases
    <2>6. CASE ReplyFails
      <3>1. variant' = variant /\ variant = "tunnel" /\ main = "reply" BY <2>6 DEF ReplyFails
      <3>2. sock' = CloseAll BY <2>6 DEF ReplyFails
      <3>3. \A f \in Side : thr'[f].at = thr[f].at BY <2>6 DEF ReplyFails, Thread
      <3> QED BY <3>1, <3>2, <3>3, Closing
    <2>7. CASE StartRelay BY <2>7, <1>p, SMTT(60) DEF StartRelay, Started, Socket, Thread, Phases
    <2> QED BY <1>1, <2>1, <2>2, <2>3, <2>4, <2>5, <2>6, <2>7 DEF Setup
  <1>2. CASE Finish
    <2>1. thr' = thr /\ variant' = variant /\ main = "relay" /\ main' = "done"
          /\ \A f \in Side : thr[f].at = "over"
      BY <1>2 DEF Finish, Joined
    <2>2. sock' = CloseAll BY <1>2 DEF Finish
    <2>3. sock["upstream"].st = "open" BY <2>1, <1>p DEF Phases
    <2> HIDE DEF Refused
    <2>4. ~Refused /\ ~Refused' BY <2>1, <2>2, <2>3, Closing DEF Refused
    <2> QED BY <2>1, <2>2, <2>4, Closing
  <1>3. ASSUME NEW f \in Side, RelayStep(f) PROVE Ends'
    <2>1. ASSUME NEW k \in 1..Window, Recv(f, k) PROVE Ends'
      BY <2>1, <1>p, SMTT(60) DEF Recv, HasBytes, Socket, Thread, Phases
    <2>2. ASSUME NEW k \in 1..Window, Send(f, k) PROVE Ends'
      <3> DEFINE left == Unsent(thr[f].buf, k)
      <3>1. /\ thr[f].at = "send" /\ main' = main /\ variant' = variant
            /\ ~sock[Other(f)].rst
            /\ sock' = [sock EXCEPT ![Other(f)].out = @ \o Upto(thr[f].buf, k)]
            /\ thr' = [thr EXCEPT ![f] = [at |-> IF left = <<>> THEN "recv" ELSE "send", buf |-> left]]
        BY <2>2 DEF Send
      <3> HIDE DEF left
      <3>2. CASE left = <<>> BY <3>1, <3>2, <1>p DEF Socket, Thread, Phases
      <3>3. CASE left # <<>> BY <3>1, <3>3, <1>p DEF Socket, Thread, Phases
      <3> QED BY <3>2, <3>3
    <2>3. CASE RecvEnd(f) BY <2>3, <1>p DEF RecvEnd, AtEnd, Over, HalfClosed, Socket, Thread, Phases
    <2>4. CASE RecvTimeout(f) BY <2>4, <1>p DEF RecvTimeout, Over, HalfClosed, Socket, Thread, Phases
    <2>5. CASE SendFails(f) BY <2>5, <1>p DEF SendFails, Over, HalfClosed, Socket, Thread, Phases
    <2> QED BY <1>3, <2>1, <2>2, <2>3, <2>4, <2>5 DEF RelayStep
  <1>4. ASSUME NEW s \in Side, PeerStep(s) PROVE Ends'
    <2>1. CASE PeerSends(s) BY <2>1 DEF PeerSends, Alive, Socket
    <2>2. CASE PeerReads(s) BY <2>2 DEF PeerReads, Socket
    <2>3. CASE PeerEnds(s) BY <2>3 DEF PeerEnds, Socket
    <2>4. CASE PeerResets(s) BY <2>4 DEF PeerResets, Socket
    <2> QED BY <1>4, <2>1, <2>2, <2>3, <2>4 DEF PeerStep
  <1>5. CASE UNCHANGED vars BY <1>5 DEF vars
  <1> QED BY <1>1, <1>2, <1>3, <1>4, <1>5 DEF Next, Terminated

-----------------------------------------------------------------------------
(* Chains of queues.                                                       *)

\* recv moves the first bytes that have arrived into the empty buffer.
LEMMA ChainRecv ==
  ASSUME NEW g \in Seq(Nat), NEW o \in Seq(Nat), NEW i \in Seq(Nat), NEW d \in Int, NEW n \in Nat,
         NEW x \in BOOLEAN, Chain(g, o, <<>>, i, d, n, x), NEW k \in 0..Len(i)
  PROVE  Chain(g, o, Upto(i, k), From(i, k), d, n, x)
  <1>1. Counts(i, d + Len(g) + Len(o)) BY DEF Chain
  <1>2. d + Len(g) + Len(o) \in Int OBVIOUS
  <1>3. /\ Counts(Upto(i, k), d + Len(g) + Len(o))
        /\ Counts(From(i, k), d + Len(g) + Len(o) + k)
    BY <1>1, <1>2, CountsCut
  <1>4. Len(Upto(i, k)) = k /\ Len(From(i, k)) = Len(i) - k BY Cut
  <1>5. d + Len(g) + Len(o) + Len(Upto(i, k)) = d + Len(g) + Len(o) + k BY <1>4
  <1>6. d + Len(g) + Len(o) + Len(Upto(i, k)) + Len(From(i, k)) = d + Len(g) + Len(o) + Len(i)
    BY <1>4
  <1>7. d + Len(g) + Len(o) + Len(<<>>) + Len(i) = d + Len(g) + Len(o) + Len(i) OBVIOUS
  <1> QED BY <1>3, <1>5, <1>6, <1>7 DEF Chain

\* send moves the first bytes of the buffer to what is on its way.
LEMMA ChainSend ==
  ASSUME NEW g \in Seq(Nat), NEW o \in Seq(Nat), NEW b \in Seq(Nat), NEW i \in Seq(Nat),
         NEW d \in Int, NEW n \in Nat, NEW x \in BOOLEAN, Chain(g, o, b, i, d, n, x),
         NEW k \in 0..Len(b)
  PROVE  Chain(g, o \o Upto(b, k), From(b, k), i, d, n, x)
  <1>1. Counts(o, d + Len(g)) /\ Counts(b, d + Len(g) + Len(o)) BY DEF Chain
  <1>2. d + Len(g) \in Int /\ d + Len(g) + Len(o) \in Int OBVIOUS
  <1>3. /\ Counts(Upto(b, k), d + Len(g) + Len(o))
        /\ Counts(From(b, k), d + Len(g) + Len(o) + k)
    BY <1>1, <1>2, CountsCut
  <1>4. /\ Upto(b, k) \in Seq(Nat)
        /\ Len(Upto(b, k)) = k /\ Len(From(b, k)) = Len(b) - k
    BY Cut
  <1>5. /\ Counts(o \o Upto(b, k), d + Len(g))
        /\ Len(o \o Upto(b, k)) = Len(o) + Len(Upto(b, k))
    BY <1>1, <1>2, <1>3, <1>4, CountsConcat
  <1>6. d + Len(g) + Len(o \o Upto(b, k)) = d + Len(g) + Len(o) + k BY <1>4, <1>5
  <1>7. d + Len(g) + Len(o \o Upto(b, k)) + Len(From(b, k)) = d + Len(g) + Len(o) + Len(b)
    BY <1>4, <1>5
  <1> QED BY <1>3, <1>5, <1>6, <1>7 DEF Chain

\* The peer reads the first byte of those on their way to it.
LEMMA ChainRead ==
  ASSUME NEW g \in Seq(Nat), NEW o \in Seq(Nat), NEW b \in Seq(Nat), NEW i \in Seq(Nat),
         NEW d \in Int, NEW n \in Nat, NEW x \in BOOLEAN, Chain(g, o, b, i, d, n, x), o # <<>>
  PROVE  Chain(Append(g, Head(o)), Tail(o), b, i, d, n, x) /\ Head(o) = d + Len(g) + 1
  <1>1. Counts(g, d) /\ Counts(o, d + Len(g)) /\ d + Len(g) \in Int BY DEF Chain
  <1>2. Counts(Tail(o), d + Len(g) + 1) /\ Head(o) = d + Len(g) + 1 /\ Len(Tail(o)) = Len(o) - 1
    BY <1>1, CountsTail
  <1>3. Head(o) \in Nat BY HeadTailProperties
  <1>4. Counts(Append(g, Head(o)), d) BY <1>1, <1>2, <1>3, CountsAppend
  <1>5. Len(Append(g, Head(o))) = Len(g) + 1 BY <1>3
  <1>6. d + Len(Append(g, Head(o))) = d + Len(g) + 1 BY <1>5
  <1>7. Len(Tail(o)) \in Nat BY HeadTailProperties
  <1>8. d + Len(Append(g, Head(o))) + Len(Tail(o)) = d + Len(g) + Len(o) BY <1>2, <1>5, <1>7
  <1> QED BY <1>2, <1>4, <1>6, <1>8 DEF Chain

\* The other peer sends one more byte.
LEMMA ChainPut ==
  ASSUME NEW g \in Seq(Nat), NEW o \in Seq(Nat), NEW b \in Seq(Nat), NEW i \in Seq(Nat),
         NEW d \in Int, NEW n \in Nat, Chain(g, o, b, i, d, n, FALSE)
  PROVE  Chain(g, o, b, Append(i, n + 1), d, n + 1, FALSE)
  <1>1. Counts(i, d + Len(g) + Len(o) + Len(b)) /\ d + Len(g) + Len(o) + Len(b) + Len(i) = n
    BY DEF Chain
  <1>2. Counts(Append(i, n + 1), d + Len(g) + Len(o) + Len(b)) BY <1>1, CountsAppend
  <1>3. Len(Append(i, n + 1)) = Len(i) + 1 OBVIOUS
  <1> QED BY <1>1, <1>2, <1>3 DEF Chain

\* What had arrived from the other peer is gone.
LEMMA ChainLost ==
  ASSUME NEW g \in Seq(Nat), NEW o \in Seq(Nat), NEW b \in Seq(Nat), NEW i \in Seq(Nat),
         NEW d \in Int, NEW n \in Nat, NEW x \in BOOLEAN, Chain(g, o, b, i, d, n, x)
  PROVE  Chain(g, o, b, <<>>, d, n, TRUE)
  BY DEF Chain, Counts

-----------------------------------------------------------------------------
(* Flows.                                                                  *)

LEMMA FlowTypes ==
  ASSUME TypeOK, NEW s \in Side
  PROVE  /\ peer[s].got \in Seq(Nat) /\ peer[s].sent \in Nat
         /\ sock[s].out \in Seq(Nat) /\ sock[s].in \in Seq(Nat) /\ sock[s].rst \in BOOLEAN
         /\ thr[s].buf \in Seq(Nat) /\ Shift(s) \in Int /\ Consumed \in 0..1
  BY DEF TypeOK, Socket, Thread, Shift, Consumed

\* A step that leaves what is on its way to s alone.
LEMMA FlowKept ==
  ASSUME NEW s \in Side, Flow(s), variant' = variant,
         main' = main \/ {main, main'} \subseteq {"first", "relay", "done"}
                      \/ {main, main'} \subseteq {"head", "connect", "reply"},
         peer'[s].got = peer[s].got, sock'[s].out = sock[s].out, sock'[s].rst = sock[s].rst,
         thr'[Other(s)].buf = thr[Other(s)].buf, sock'[Other(s)].in = sock[Other(s)].in,
         peer'[Other(s)].sent = peer[Other(s)].sent, sock'[Other(s)].rst = sock[Other(s)].rst
  PROVE  Flow(s)'
  <1>1. Shift(s)' = Shift(s) BY DEF Shift, Consumed, Tunnels
  <1> QED BY <1>1 DEF Flow

\* Nothing has moved before the head was read.
LEMMA FlowsHead ==
  ASSUME TypeOK, Shape, Ends, Flows, NEW k \in 1..Window, ReadHead(k)
  PROVE  Flows'
  <1>0. "client" \in Side /\ "upstream" \in Side BY Sides
  <1> DEFINE q == sock["client"].in
             u == Upto(q, k)
  <1>1. /\ main = "head" /\ main' = "connect" /\ variant' = variant /\ peer' = peer
        /\ k \in 1..Len(q) /\ ~sock["client"].rst
        /\ sock' = [sock EXCEPT !["client"].in = From(@, k)]
        /\ thr' = [thr EXCEPT !["client"].buf = From(u, Consumed)]
    BY DEF ReadHead, HasBytes
  <1>t. sock \in [Side -> Socket] /\ thr \in [Side -> Thread] BY DEF TypeOK
  <1>2. q \in Seq(Nat) /\ k \in 0..Len(q) /\ k \in Nat /\ Len(q) \in Nat BY <1>0, <1>1, FlowTypes
  <1>3. Counts(q, 0) /\ Len(q) = peer["client"].sent BY <1>1 DEF Flows
  <1>4. /\ sock["upstream"] = newSocket /\ peer["upstream"].sent = 0
        /\ thr["upstream"] = [at |-> "idle", buf |-> <<>>]
        /\ \A s \in Side : peer[s].got = <<>> /\ sock[s].out = <<>>
    BY <1>1 DEF Shape, Phases
  <1>5. /\ sock'["client"].in = From(q, k) /\ sock'["client"].rst = sock["client"].rst
        /\ sock'["client"].out = <<>> /\ sock'["upstream"] = newSocket
    BY <1>0, <1>1, <1>t, <1>4 DEF Socket
  <1>6. thr'["client"].buf = From(u, Consumed) /\ thr'["upstream"].buf = <<>>
    BY <1>0, <1>1, <1>t, <1>4 DEF Thread
  <1>7. u \in Seq(Nat) /\ Len(u) = k /\ From(q, k) \in Seq(Nat) /\ Len(From(q, k)) = Len(q) - k
    BY <1>2, Cut
  <1>8. Counts(u, 0) /\ Counts(From(q, k), k) BY <1>2, <1>3, CountsCut
  <1>9. Consumed \in 0..Len(u) /\ Consumed \in Int BY <1>7, <1>1, <1>2 DEF Consumed
  <1> HIDE DEF u, q
  <1>10. Counts(From(u, Consumed), Consumed)
    <2>1. Counts(From(u, Consumed), 0 + Consumed)
      <3>1. 0 \in Int OBVIOUS
      <3> QED BY <3>1, <1>7, <1>8, <1>9, CountsCut, Zenon
    <2>2. 0 + Consumed = Consumed BY <1>9
    <2> QED BY <2>1, <2>2
  <1>11. Len(From(u, Consumed)) = k - Consumed BY <1>7, <1>9, Cut
  <1>12. Chain(<<>>, <<>>, From(u, Consumed), From(q, k), Consumed, Len(q), FALSE)
    <2>1. Consumed + Len(<<>>) = Consumed /\ Consumed + Len(<<>>) + Len(<<>>) = Consumed BY <1>9
    <2>2. Consumed + Len(<<>>) + Len(<<>>) + Len(From(u, Consumed)) = k BY <2>1, <1>11, <1>9, <1>2
    <2>3. k + Len(From(q, k)) = Len(q) BY <1>7, <1>2
    <2>4. Counts(<<>>, Consumed) /\ Counts(<<>>, Consumed + Len(<<>>)) BY CountsEmpty
    <2> QED BY <2>1, <2>2, <2>3, <2>4, <1>8, <1>10, <1>2 DEF Chain
  <1>13. Flow("upstream")'
    <2>1. Shift("upstream")' = Consumed BY <1>1 DEF Shift, Consumed, Tunnels
    <2>2. sock'["client"].rst = FALSE BY <1>1, <1>5, <1>0, FlowTypes
    <2>3. peer'["client"].sent = Len(q) /\ peer'["upstream"].got = <<>> BY <1>1, <1>3, <1>4, <1>0
    <2>4. sock'["upstream"].out = <<>> BY <1>0, <1>4, <1>5
    <2> QED BY <2>1, <2>2, <2>3, <2>4, <1>5, <1>6, <1>12, Sides DEF Flow
  <1>14. Flow("client")'
    <2>1. Shift("client")' = 0 BY <1>1 DEF Shift
    <2>2. Chain(<<>>, <<>>, <<>>, <<>>, 0, 0, FALSE) BY DEF Chain, Counts
    <2>3. sock'["upstream"].in = <<>> /\ ~sock'["upstream"].rst BY <1>5 DEF newSocket
    <2>4. sock'["upstream"].rst = FALSE BY <1>5 DEF newSocket
    <2>5. /\ peer'["client"].got = <<>> /\ sock'["client"].out = <<>> /\ thr'["upstream"].buf = <<>>
          /\ peer'["upstream"].sent = 0 /\ Other("client") = "upstream"
      BY <1>0, <1>1, <1>4, <1>5, <1>6, Sides
    <2> QED BY <2>1, <2>2, <2>3, <2>4, <2>5 DEF Flow
  <1> QED BY <1>1, <1>13, <1>14, Sides DEF Flows

LEMMA FlowsSetup ==
  ASSUME TypeOK, Shape, Ends, Flows, Setup
  PROVE  Flows'
  <1>0. "client" \in Side /\ "upstream" \in Side /\ "client" # "upstream" BY Sides
  <1>t. sock \in [Side -> Socket] /\ thr \in [Side -> Thread] BY DEF TypeOK
  <1>b. \A m : main = m /\ m \in {"connect", "reply", "first"} => Flow("client") /\ Flow("upstream")
    BY <1>0 DEF Flows, Refused
  <1>a. ASSUME main' # "head", Flow("client")', Flow("upstream")' PROVE Flows'
    BY <1>a, Sides DEF Flows
  <1>1. ASSUME NEW k \in 1..Window, ReadHead(k) PROVE Flows' BY <1>1, FlowsHead
  <1>2. ASSUME NEW k \in 1..Window, SendFirst(k) PROVE Flows'
    <2> DEFINE b == thr["client"].buf
    <2>1. /\ main = "first" /\ ~sock["upstream"].rst /\ k \in 1..Len(b)
          /\ sock' = [sock EXCEPT !["upstream"].out = @ \o Upto(b, k)]
          /\ thr' = [thr EXCEPT !["client"].buf = From(b, k)]
          /\ main' = main /\ variant' = variant /\ peer' = peer
      BY <1>2 DEF SendFirst
    <2>2. /\ sock'["upstream"].out = sock["upstream"].out \o Upto(b, k)
          /\ sock'["upstream"].rst = sock["upstream"].rst /\ sock'["upstream"].in = sock["upstream"].in
          /\ sock'["client"] = sock["client"]
          /\ thr'["client"].buf = From(b, k) /\ thr'["upstream"] = thr["upstream"]
      <3>1. /\ sock'["upstream"].out = sock["upstream"].out \o Upto(b, k)
            /\ sock'["upstream"].rst = sock["upstream"].rst /\ sock'["upstream"].in = sock["upstream"].in
            /\ sock'["client"] = sock["client"]
        BY <2>1, <1>0, <1>t DEF Socket
      <3>2. thr'["client"].buf = From(b, k) /\ thr'["upstream"] = thr["upstream"]
        BY <2>1, <1>0, <1>t DEF Thread
      <3> QED BY <3>1, <3>2
    <2>3. Flow("client") /\ Flow("upstream") BY <2>1, <1>b
    <2>4. Flow("client")' BY <2>1, <2>2, <2>3, <1>0, Sides, FlowKept
    <2>5. Flow("upstream")'
      <3> DEFINE c == Chain(peer["upstream"].got, sock["upstream"].out, b, sock["client"].in,
                            Shift("upstream"), peer["client"].sent, sock["client"].rst)
      <3>1. c BY <2>1, <2>3, Sides DEF Flow
      <3>2. k \in 0..Len(b) /\ b \in Seq(Nat) BY <2>1, <1>0, FlowTypes
      <3> HIDE DEF b
      <3>3. Chain(peer["upstream"].got, sock["upstream"].out \o Upto(b, k), From(b, k),
                  sock["client"].in, Shift("upstream"), peer["client"].sent, sock["client"].rst)
        <4>1. /\ peer["upstream"].got \in Seq(Nat) /\ sock["upstream"].out \in Seq(Nat)
              /\ sock["client"].in \in Seq(Nat) /\ Shift("upstream") \in Int
              /\ peer["client"].sent \in Nat /\ sock["client"].rst \in BOOLEAN
          BY <1>0, FlowTypes
        <4> QED BY <4>1, <3>1, <3>2, ChainSend, ZenonT(60)
      <3>4. Shift("upstream")' = Shift("upstream") BY <2>1 DEF Shift, Consumed, Tunnels
      <3> QED BY <3>3, <3>4, <2>1, <2>2, Sides DEF Flow
    <2> QED BY <2>1, <2>4, <2>5, <1>a
  <1>3. CASE Refuse
    <2>1. main' = "done" /\ sock' = CloseAll /\ main \in {"head", "connect"} BY <1>3 DEF Refuse
    <2>2. sock'["upstream"].st = "none" BY <2>1, <1>0, <1>t, Closing DEF Shape, Phases, newSocket
    <2> QED BY <2>1, <2>2 DEF Flows, Refused
  <1>4. CASE Connect
    <2>1. /\ main = "connect" /\ main' = "reply" /\ variant' = variant /\ peer' = peer /\ thr' = thr
          /\ sock' = [sock EXCEPT !["upstream"].st = "open"]
      BY <1>4 DEF Connect
    <2>2. \A s \in Side : /\ sock'[s].out = sock[s].out /\ sock'[s].in = sock[s].in
                          /\ sock'[s].rst = sock[s].rst
      BY <2>1, <1>t DEF Socket
    <2>3. Flow("client") /\ Flow("upstream") BY <2>1, <1>b
    <2>4. Flow("client")' /\ Flow("upstream")' BY <2>1, <2>2, <2>3, <1>0, Sides, FlowKept
    <2> QED BY <2>1, <2>4, <1>a
  <1>5. CASE SendReply
    <2> DEFINE r == IF sock["client"].rst THEN <<>> ELSE Reply
    <2>1. /\ main = "reply" /\ main' = "first" /\ variant' = variant /\ peer' = peer
          /\ sock' = [sock EXCEPT !["client"].out = r]
          /\ \A s \in Side : thr'[s].buf = thr[s].buf
      BY <1>5, <1>t DEF SendReply, Thread
    <2>2. /\ sock'["client"].out = r /\ sock'["client"].in = sock["client"].in
          /\ sock'["client"].rst = sock["client"].rst /\ sock'["upstream"] = sock["upstream"]
      BY <2>1, <1>0, <1>t DEF Socket
    <2>3. Flow("client") /\ Flow("upstream") BY <2>1, <1>b
    <2>4. Flow("upstream")'
      <3>1. Shift("upstream")' = Shift("upstream") BY <2>1 DEF Shift, Consumed, Tunnels
      <3> QED BY <3>1, <2>1, <2>2, <2>3, <1>0, Sides DEF Flow
    <2>5. Flow("client")'
      <3> SUFFICES ASSUME ~sock'["client"].rst PROVE Flow("client")' BY DEF Flow
      <3>1. peer["client"].got = <<>> /\ sock["client"].out = <<>> BY <2>1, <1>0 DEF Shape, Phases
      <3>2. ~sock["client"].rst /\ sock'["client"].out = Reply BY <2>2
      <3> DEFINE buf == thr["upstream"].buf
                 in == sock["upstream"].in
                 n == peer["upstream"].sent
                 x == sock["upstream"].rst
                 d == IF Tunnels THEN -1 ELSE 0
      <3>3. Shift("client") = 0 /\ Shift("client")' = d BY <2>1 DEF Shift, Tunnels
      <3>4. Chain(<<>>, <<>>, buf, in, 0, n, x) BY <2>3, <3>1, <3>2, <3>3, Sides DEF Flow
      <3>5. in \in Seq(Nat) /\ buf \in Seq(Nat) /\ n \in Nat BY <1>0, FlowTypes
      <3> HIDE DEF buf, in, n, x
      <3>6. Counts(Reply, d) /\ d + Len(Reply) = 0 /\ d + 0 = d /\ Len(<<>>) = 0
        BY DEF Counts, Reply
      <3>7. Chain(<<>>, Reply, buf, in, d, n, x)
        <4>1. Counts(buf, 0) /\ Counts(in, Len(buf)) /\ Len(buf) + Len(in) <= n
              /\ (~x => Len(buf) + Len(in) = n)
          BY <3>4, <3>5 DEF Chain
        <4>2. d \in Int /\ Len(Reply) \in Int /\ Len(buf) \in Nat /\ Len(in) \in Nat BY <3>5 DEF Reply
        <4>3. d + Len(<<>>) = d /\ d + Len(<<>>) + Len(Reply) = 0
              /\ d + Len(<<>>) + Len(Reply) + Len(buf) = Len(buf)
              /\ d + Len(<<>>) + Len(Reply) + Len(buf) + Len(in) = Len(buf) + Len(in)
          <5> DEFINE l == Len(Reply)
                     e == Len(<<>>)
                     y == Len(buf)
                     z == Len(in)
          <5>1. l \in Int /\ e = 0 /\ y \in Nat /\ z \in Nat /\ d + l = 0 BY <4>2, <3>6
          <5> HIDE DEF d, l, e, y, z
          <5>2. d + e = d /\ d + e + l = 0 /\ d + e + l + y = y /\ d + e + l + y + z = y + z
            BY <4>2, <5>1
          <5> QED BY <5>2 DEF l, e, y, z
        <4> QED BY <4>1, <4>3, <3>6, CountsEmpty DEF Chain
      <3> QED BY <3>1, <3>2, <3>3, <3>7, <2>1, <2>2, <1>0, Sides DEF Flow, buf, in, n, x
    <2> QED BY <2>1, <2>4, <2>5, <1>a
  <1>6. CASE ReplyFails
    <2>1. /\ main = "reply" /\ main' = "done" /\ variant' = variant /\ peer' = peer
          /\ sock' = CloseAll /\ sock["client"].rst
          /\ thr'["client"].buf = <<>>
      BY <1>6, <1>0, <1>t DEF ReplyFails, Thread
    <2>2. \A s \in Side : /\ sock'[s].out = sock[s].out /\ sock'[s].in = sock[s].in
                          /\ sock'[s].rst = sock[s].rst
      BY <2>1, <1>t, Closing
    <2>3. Flow("client")' BY <2>1, <2>2, <1>0 DEF Flow
    <2>4. Flow("upstream")'
      <3> SUFFICES ASSUME ~sock'["upstream"].rst PROVE Flow("upstream")' BY DEF Flow
      <3>1. peer["upstream"].got = <<>> /\ sock["upstream"].out = <<>> BY <2>1, <1>0 DEF Shape, Phases
      <3>2. sock["client"].in = <<>> BY <2>1, <1>0 DEF Ends
      <3> DEFINE buf == thr["client"].buf
                 n == peer["client"].sent
      <3>3. Shift("upstream") = Consumed /\ Shift("upstream")' = Consumed
        BY <2>1 DEF Shift, Consumed, Tunnels
      <3>0. Flow("upstream") /\ ~sock["upstream"].rst BY <2>1, <2>2, <1>b, <1>0
      <3>4. Chain(<<>>, <<>>, buf, <<>>, Consumed, n, sock["client"].rst)
        BY <3>0, <3>1, <3>2, <3>3, Sides DEF Flow
      <3>5. buf \in Seq(Nat) /\ n \in Nat /\ Consumed \in Int BY <1>0, FlowTypes
      <3> HIDE DEF buf, n
      <3>6. Chain(<<>>, <<>>, <<>>, <<>>, Consumed, n, TRUE)
        <4>1. Consumed <= n BY <3>4, <3>5 DEF Chain
        <4> QED BY <4>1, <3>5 DEF Chain, Counts
      <3>7. sock'["client"].rst = TRUE BY <2>1, <2>2, <1>0, FlowTypes
      <3>8. /\ peer'["upstream"].got = <<>> /\ sock'["upstream"].out = <<>>
            /\ sock'["client"].in = <<>> /\ peer'["client"].sent = n
        BY <2>1, <2>2, <3>1, <3>2, <1>0 DEF n
      <3>9. thr'["client"].buf = <<>> /\ Other("upstream") = "client" BY <2>1, Sides
      <3> QED BY <3>3, <3>6, <3>7, <3>8, <3>9 DEF Flow
    <2> QED BY <2>1, <2>3, <2>4, <1>a
  <1>7. CASE StartRelay
    <2>1. /\ main = "first" /\ main' = "relay" /\ variant' = variant /\ peer' = peer /\ sock' = sock
          /\ (thr["client"].buf = <<>> \/ sock["upstream"].rst)
          /\ \A s \in Side : thr'[s].buf = <<>>
      BY <1>7 DEF StartRelay, Started
    <2>2. thr["upstream"].buf = <<>> BY <2>1 DEF Shape, Phases
    <2>3. Flow("client") /\ Flow("upstream") BY <2>1, <1>b
    <2>4. Flow("client")' BY <2>1, <2>2, <2>3, <1>0, Sides, FlowKept
    <2>5. Flow("upstream")'
      <3>1. CASE sock["upstream"].rst BY <3>1, <2>1 DEF Flow
      <3>2. CASE thr["client"].buf = <<>> BY <3>2, <2>1, <2>3, <1>0, Sides, FlowKept
      <3> QED BY <3>1, <3>2, <2>1
    <2> QED BY <2>1, <2>4, <2>5, <1>a
  <1> QED BY <1>1, <1>2, <1>3, <1>4, <1>5, <1>6, <1>7 DEF Setup

\* A thread works only in the relay, where there is nothing to forget.
LEMMA FlowsRelay ==
  ASSUME TypeOK, Shape, Ends, Flows, NEW f \in Side, RelayStep(f)
  PROVE  Flows'
  <1>0. Other(f) \in Side /\ Other(Other(f)) = f /\ Other(f) # f /\ \A s \in Side : s = f \/ s = Other(f)
    BY Sides
  <1>t. sock \in [Side -> Socket] /\ thr \in [Side -> Thread] BY DEF TypeOK
  <1>m. thr[f].at \in {"recv", "send"} /\ main' = main /\ variant' = variant /\ peer' = peer
    BY DEF RelayStep, Recv, RecvEnd, RecvTimeout, Send, SendFails
  <1>r. main = "relay"
    <2>1. main \notin {"head", "connect", "reply", "first", "done"}
      <3>1. \A at : thr[f].at = at => at \in {"recv", "send"} BY <1>m
      <3> QED BY <3>1, <1>m, Sides DEF Shape, Phases
    <2> QED BY <2>1 DEF TypeOK
  <1>b. Flow(f) /\ Flow(Other(f)) BY <1>r, <1>0 DEF Flows, Refused
  <1>a. ASSUME Flow(f)', Flow(Other(f))' PROVE Flows'
    <2>1. \A s \in Side : Flow(s)' BY <1>a, <1>0
    <2> QED BY <2>1, <1>r, <1>m DEF Flows
  <1>g. /\ peer[Other(f)].got \in Seq(Nat) /\ sock[Other(f)].out \in Seq(Nat)
        /\ thr[f].buf \in Seq(Nat) /\ sock[f].in \in Seq(Nat)
        /\ Shift(Other(f)) \in Int /\ peer[f].sent \in Nat /\ sock[f].rst \in BOOLEAN
    BY <1>0, FlowTypes
  <1>s. Shift(Other(f))' = Shift(Other(f)) BY <1>m DEF Shift, Consumed, Tunnels
  <1>1. ASSUME NEW k \in 1..Window, Recv(f, k) PROVE Flows'
    <2>1. /\ thr[f].at = "recv" /\ k \in 1..Len(sock[f].in)
          /\ sock' = [sock EXCEPT ![f].in = From(@, k)]
          /\ thr' = [thr EXCEPT ![f] = [at |-> "send", buf |-> Upto(sock[f].in, k)]]
      BY <1>1 DEF Recv
    <2>2. /\ sock'[f].in = From(sock[f].in, k) /\ sock'[f].out = sock[f].out
          /\ sock'[f].rst = sock[f].rst /\ sock'[Other(f)] = sock[Other(f)]
          /\ thr'[f].buf = Upto(sock[f].in, k) /\ thr'[Other(f)] = thr[Other(f)]
      BY <2>1, <1>0, <1>t DEF Socket, Thread
    <2>3. Flow(f)' BY <2>2, <1>b, <1>m, <1>0, FlowKept
    <2>4. Flow(Other(f))'
      <3> SUFFICES ASSUME ~sock'[Other(f)].rst PROVE Flow(Other(f))' BY DEF Flow
      <3>1. thr[f].buf = <<>> BY <2>1 DEF Shape, Phases
      <3>2. Chain(peer[Other(f)].got, sock[Other(f)].out, <<>>, sock[f].in,
                  Shift(Other(f)), peer[f].sent, sock[f].rst)
        BY <3>1, <2>2, <1>b, <1>0 DEF Flow
      <3>3. k \in 0..Len(sock[f].in) BY <2>1
      <3>4. Chain(peer[Other(f)].got, sock[Other(f)].out, Upto(sock[f].in, k), From(sock[f].in, k),
                  Shift(Other(f)), peer[f].sent, sock[f].rst)
        BY <3>2, <3>3, <1>g, ChainRecv
      <3> QED BY <3>4, <2>2, <1>0, <1>m, <1>s DEF Flow
    <2> QED BY <2>3, <2>4, <1>a
  <1>2. ASSUME NEW k \in 1..Window, Send(f, k) PROVE Flows'
    <2> DEFINE b == thr[f].buf
               at == IF From(b, k) = <<>> THEN "recv" ELSE "send"
    <2>1. /\ k \in 1..Len(b) /\ ~sock[Other(f)].rst
          /\ sock' = [sock EXCEPT ![Other(f)].out = @ \o Upto(b, k)]
          /\ thr' = [thr EXCEPT ![f] = [at |-> at, buf |-> From(b, k)]]
      BY <1>2 DEF Send, Unsent
    <2> HIDE DEF at
    <2>2. /\ sock'[Other(f)].out = sock[Other(f)].out \o Upto(b, k)
          /\ sock'[Other(f)].in = sock[Other(f)].in /\ sock'[Other(f)].rst = sock[Other(f)].rst
          /\ sock'[f] = sock[f]
          /\ thr'[f].buf = From(b, k) /\ thr'[Other(f)] = thr[Other(f)]
      BY <2>1, <1>0, <1>t DEF Socket, Thread
    <2>3. Flow(f)' BY <2>2, <1>b, <1>m, <1>0, FlowKept
    <2>4. Flow(Other(f))'
      <3>2. Chain(peer[Other(f)].got, sock[Other(f)].out, b, sock[f].in,
                  Shift(Other(f)), peer[f].sent, sock[f].rst)
        BY <2>1, <1>b, <1>0 DEF Flow
      <3>3. k \in 0..Len(b) BY <2>1
      <3> HIDE DEF b
      <3>4. b \in Seq(Nat) BY <1>g DEF b
      <3>5. Chain(peer[Other(f)].got, sock[Other(f)].out \o Upto(b, k), From(b, k), sock[f].in,
                  Shift(Other(f)), peer[f].sent, sock[f].rst)
        <4>1. /\ peer[Other(f)].got \in Seq(Nat) /\ sock[Other(f)].out \in Seq(Nat)
              /\ sock[f].in \in Seq(Nat) /\ Shift(Other(f)) \in Int
              /\ peer[f].sent \in Nat /\ sock[f].rst \in BOOLEAN
          BY <1>g
        <4> QED BY <4>1, <3>2, <3>3, <3>4, ChainSend, ZenonT(60)
      <3> QED BY <3>5, <2>2, <1>0, <1>m, <1>s DEF Flow
    <2> QED BY <2>3, <2>4, <1>a
  <1>3. ASSUME \/ thr[f].buf = <<>> \/ sock[Other(f)].rst,
               thr' = Over(f), sock' = HalfClosed(Other(f)) \/ sock' = sock
        PROVE  Flows'
    <2>1. \A s \in Side : /\ sock'[s].in = sock[s].in /\ sock'[s].out = sock[s].out
                          /\ sock'[s].rst = sock[s].rst
      <3>1. CASE sock' = HalfClosed(Other(f)) BY <3>1, <1>0, <1>t DEF HalfClosed, Socket
      <3>2. CASE sock' = sock BY <3>2
      <3> QED BY <1>3, <3>1, <3>2
    <2>2. thr'[f].buf = <<>> /\ thr'[Other(f)] = thr[Other(f)] BY <1>3, <1>0, <1>t DEF Over
    <2>3. Flow(f)' BY <2>1, <2>2, <1>b, <1>m, <1>0, FlowKept
    <2>4. Flow(Other(f))'
      <3>1. CASE thr[f].buf = <<>> BY <3>1, <2>1, <2>2, <1>b, <1>m, <1>0, FlowKept
      <3>2. CASE sock[Other(f)].rst BY <3>2, <2>1, <1>0 DEF Flow
      <3> QED BY <1>3, <3>1, <3>2
    <2> QED BY <2>3, <2>4, <1>a
  <1>4. CASE RecvEnd(f) BY <1>4, <1>3 DEF RecvEnd, Shape, Phases
  <1>5. CASE RecvTimeout(f) BY <1>5, <1>3 DEF RecvTimeout, Shape, Phases
  <1>6. CASE SendFails(f) BY <1>6, <1>3 DEF SendFails
  <1> QED BY <1>1, <1>2, <1>4, <1>5, <1>6 DEF RelayStep

LEMMA FlowsPeer ==
  ASSUME TypeOK, Shape, Ends, Flows, NEW s \in Side, PeerStep(s)
  PROVE  Flows'
  <1>0. Other(s) \in Side /\ Other(Other(s)) = s /\ Other(s) # s /\ \A t \in Side : t = s \/ t = Other(s)
    BY Sides
  <1>c. "client" \in Side /\ "upstream" \in Side BY Sides
  <1>t. /\ sock \in [Side -> Socket] /\ thr \in [Side -> Thread]
        /\ peer \in [Side -> [sent : Nat, got : Seq(Nat)]]
    BY DEF TypeOK
  <1>m. main' = main /\ variant' = variant /\ thr' = thr
    BY DEF PeerStep, PeerSends, PeerReads, PeerEnds, PeerResets
  <1>u. sock'["upstream"].st = sock["upstream"].st
    <2>1. CASE PeerSends(s) BY <2>1, <1>t, <1>c DEF PeerSends, Socket
    <2>2. CASE PeerReads(s) BY <2>2, <1>t, <1>c DEF PeerReads, Socket
    <2>3. CASE PeerEnds(s) BY <2>3, <1>t, <1>c DEF PeerEnds, Socket
    <2>4. CASE PeerResets(s) BY <2>4, <1>t, <1>c DEF PeerResets, Socket
    <2> QED BY <2>1, <2>2, <2>3, <2>4 DEF PeerStep
  <1>f. Refused' = Refused BY <1>m, <1>u DEF Refused
  <1>h. /\ Shift(s)' = Shift(s) /\ Shift(Other(s))' = Shift(Other(s))
        /\ Shift(s) \in Int /\ Shift(Other(s)) \in Int
    BY <1>0, <1>m, FlowTypes DEF Shift, Consumed, Tunnels
  <1>g. \A x \in {s, Other(s)} :
          /\ peer[x].got \in Seq(Nat) /\ peer[x].sent \in Nat
          /\ sock[x].out \in Seq(Nat) /\ sock[x].in \in Seq(Nat) /\ sock[x].rst \in BOOLEAN
          /\ thr[x].buf \in Seq(Nat)
    BY <1>0, FlowTypes
  <1>a. ASSUME main # "head", ~Refused => Flow(s)' /\ Flow(Other(s))' PROVE Flows'
    BY <1>a, <1>0, <1>f, <1>m DEF Flows
  <1>b. main # "head" /\ ~Refused => Flow(s) /\ Flow(Other(s)) BY <1>0 DEF Flows
  <1>1. CASE PeerSends(s)
    <2>1. /\ sock[s].rst = FALSE /\ sock[s].st = "open"
          /\ peer' = [peer EXCEPT ![s].sent = @ + 1]
          /\ sock' = [sock EXCEPT ![s].in = Append(@, peer[s].sent + 1)]
      BY <1>1, <1>g DEF PeerSends, Alive
    <2>2. /\ peer'[s].sent = peer[s].sent + 1 /\ peer'[s].got = peer[s].got
          /\ peer'[Other(s)] = peer[Other(s)]
          /\ sock'[s].in = Append(sock[s].in, peer[s].sent + 1) /\ sock'[s].out = sock[s].out
          /\ sock'[s].rst = FALSE /\ sock'[Other(s)] = sock[Other(s)]
      BY <2>1, <1>0, <1>t DEF Socket
    <2>3. CASE main = "head"
      <3>1. s = "client"
        <4>1. sock["upstream"].st = "none" BY <2>3 DEF Shape, Phases, newSocket
        <4> QED BY <4>1, <2>1, Sides
      <3>2. Counts(sock[s].in, 0) /\ Len(sock[s].in) = peer[s].sent BY <2>1, <2>3, <3>1 DEF Flows
      <3>3. /\ Counts(sock'[s].in, 0) /\ Len(sock'[s].in) = peer'[s].sent
            /\ peer'[s].sent \in Nat
        <4>1. peer[s].sent + 1 = 0 + Len(sock[s].in) + 1 /\ peer[s].sent + 1 \in Nat
              /\ 0 \in Int /\ sock[s].in \in Seq(Nat)
          BY <3>2, <1>g
        <4>2. Counts(Append(sock[s].in, peer[s].sent + 1), 0) BY <4>1, <3>2, CountsAppend
        <4> QED BY <4>1, <4>2, <2>2, <3>2
      <3> QED BY <2>3, <3>1, <3>3, <1>m DEF Flows
    <2>4. CASE main # "head"
      <3>1. ASSUME Flow(s), Flow(Other(s)) PROVE Flow(s)' /\ Flow(Other(s))'
        <4>1. Flow(s)' BY <3>1, <2>1, <2>2, <1>m, <1>h DEF Flow
        <4>2. ASSUME ~sock[Other(s)].rst PROVE Flow(Other(s))'
          <5>1. Chain(peer[Other(s)].got, sock[Other(s)].out, thr[s].buf, sock[s].in,
                      Shift(Other(s)), peer[s].sent, FALSE)
            BY <4>2, <3>1, <2>1, <1>0 DEF Flow
          <5>2. Chain(peer[Other(s)].got, sock[Other(s)].out, thr[s].buf,
                      Append(sock[s].in, peer[s].sent + 1), Shift(Other(s)), peer[s].sent + 1, FALSE)
            BY <5>1, <1>g, <1>h, ChainPut
          <5> QED BY <5>2, <2>2, <1>m, <1>h, <1>0 DEF Flow
        <4>3. ASSUME sock[Other(s)].rst PROVE Flow(Other(s))' BY <4>3, <2>2 DEF Flow
        <4> QED BY <4>1, <4>2, <4>3
      <3> QED BY <3>1, <2>4, <1>a, <1>b
    <2> QED BY <2>3, <2>4
  <1>2. CASE PeerReads(s)
    <2>1. /\ sock[s].out # <<>> /\ sock[s].rst = FALSE
          /\ peer' = [peer EXCEPT ![s].got = Append(@, Head(sock[s].out))]
          /\ sock' = [sock EXCEPT ![s].out = Tail(@)]
      BY <1>2, <1>g DEF PeerReads
    <2>2. /\ peer'[s].got = Append(peer[s].got, Head(sock[s].out)) /\ peer'[s].sent = peer[s].sent
          /\ peer'[Other(s)] = peer[Other(s)]
          /\ sock'[s].out = Tail(sock[s].out) /\ sock'[s].in = sock[s].in
          /\ sock'[s].rst = FALSE /\ sock'[Other(s)] = sock[Other(s)]
      BY <2>1, <1>0, <1>t DEF Socket
    <2>3. main # "head" BY <2>1 DEF Shape, Phases
    <2>4. ASSUME Flow(s), Flow(Other(s)) PROVE Flow(s)' /\ Flow(Other(s))'
      <3>1. Flow(Other(s))' BY <2>4, <2>1, <2>2, <1>m, <1>h, <1>0 DEF Flow
      <3>2. Chain(peer[s].got, sock[s].out, thr[Other(s)].buf, sock[Other(s)].in,
                  Shift(s), peer[Other(s)].sent, sock[Other(s)].rst)
        BY <2>4, <2>1 DEF Flow
      <3>3. Chain(Append(peer[s].got, Head(sock[s].out)), Tail(sock[s].out), thr[Other(s)].buf,
                  sock[Other(s)].in, Shift(s), peer[Other(s)].sent, sock[Other(s)].rst)
        <4>1. /\ peer[s].got \in Seq(Nat) /\ sock[s].out \in Seq(Nat) /\ thr[Other(s)].buf \in Seq(Nat)
              /\ sock[Other(s)].in \in Seq(Nat) /\ peer[Other(s)].sent \in Nat
              /\ sock[Other(s)].rst \in BOOLEAN
          BY <1>g
        <4> DEFINE g == peer[s].got
                   o == sock[s].out
                   b == thr[Other(s)].buf
                   i == sock[Other(s)].in
                   d == Shift(s)
                   n == peer[Other(s)].sent
                   x == sock[Other(s)].rst
        <4>2. d \in Int /\ o # <<>> BY <1>h, <2>1
        <4>3. Chain(g, o, b, i, d, n, x) BY <3>2
        <4>4. /\ g \in Seq(Nat) /\ o \in Seq(Nat) /\ b \in Seq(Nat) /\ i \in Seq(Nat)
              /\ n \in Nat /\ x \in BOOLEAN
          BY <4>1
        <4> HIDE DEF g, o, b, i, d, n, x
        <4>5. Chain(Append(g, Head(o)), Tail(o), b, i, d, n, x) BY <4>2, <4>3, <4>4, ChainRead
        <4> QED BY <4>5 DEF g, o, b, i, d, n, x
      <3>4. Flow(s)' BY <3>3, <2>2, <1>m, <1>h DEF Flow
      <3> QED BY <3>1, <3>4
    <2> QED BY <2>3, <2>4, <1>a, <1>b
  <1>3. CASE PeerEnds(s)
    <2>1. peer' = peer /\ \A x \in Side : /\ sock'[x].in = sock[x].in /\ sock'[x].out = sock[x].out
                                          /\ sock'[x].rst = sock[x].rst
      BY <1>3, <1>t DEF PeerEnds, Socket
    <2>2. CASE main = "head" BY <2>1, <2>2, <1>m, <1>c DEF Flows
    <2>3. CASE main # "head"
      <3>1. ASSUME Flow(s), Flow(Other(s)) PROVE Flow(s)' /\ Flow(Other(s))'
        BY <3>1, <2>1, <1>m, <1>0, FlowKept
      <3> QED BY <3>1, <2>3, <1>a, <1>b
    <2> QED BY <2>2, <2>3
  <1>4. CASE PeerResets(s)
    <2>1. /\ peer' = peer /\ sock[s].st = "open"
          /\ sock' = [sock EXCEPT ![s].rst = TRUE, ![s].in = <<>>, ![s].out = <<>>]
      BY <1>4 DEF PeerResets, Alive
    <2>2. /\ sock'[s].in = <<>> /\ sock'[s].out = <<>> /\ sock'[s].rst = TRUE
          /\ sock'[Other(s)] = sock[Other(s)]
      BY <2>1, <1>0, <1>t DEF Socket
    <2>3. CASE main = "head"
      <3>1. s = "client"
        <4>1. sock["upstream"].st = "none" BY <2>3 DEF Shape, Phases, newSocket
        <4> QED BY <4>1, <2>1, Sides
      <3>2. Counts(sock'[s].in, 0) /\ Len(sock'[s].in) <= peer'[s].sent
        BY <2>1, <2>2, <1>g, CountsEmpty
      <3> QED BY <3>1, <3>2, <2>2, <2>3, <1>m DEF Flows
    <2>4. CASE main # "head"
      <3>1. ASSUME Flow(s), Flow(Other(s)) PROVE Flow(s)' /\ Flow(Other(s))'
        <4>1. Flow(s)' BY <2>2 DEF Flow
        <4>2. ASSUME ~sock[Other(s)].rst PROVE Flow(Other(s))'
          <5>1. Chain(peer[Other(s)].got, sock[Other(s)].out, thr[s].buf, sock[s].in,
                      Shift(Other(s)), peer[s].sent, sock[s].rst)
            BY <4>2, <3>1, <1>0 DEF Flow
          <5>2. Chain(peer[Other(s)].got, sock[Other(s)].out, thr[s].buf, <<>>,
                      Shift(Other(s)), peer[s].sent, TRUE)
            <6>1. /\ peer[Other(s)].got \in Seq(Nat) /\ sock[Other(s)].out \in Seq(Nat)
                  /\ thr[s].buf \in Seq(Nat) /\ sock[s].in \in Seq(Nat)
                  /\ Shift(Other(s)) \in Int /\ peer[s].sent \in Nat /\ sock[s].rst \in BOOLEAN
              BY <1>g, <1>h
            <6> QED BY <5>1, <6>1, ChainLost, ZenonT(60)
          <5> QED BY <5>2, <2>1, <2>2, <1>m, <1>h, <1>0 DEF Flow
        <4>3. ASSUME sock[Other(s)].rst PROVE Flow(Other(s))' BY <4>3, <2>2 DEF Flow
        <4> QED BY <4>1, <4>2, <4>3
      <3> QED BY <3>1, <2>4, <1>a, <1>b
    <2> QED BY <2>3, <2>4
  <1> QED BY <1>1, <1>2, <1>3, <1>4 DEF PeerStep

LEMMA FlowsStep ==
  ASSUME TypeOK, Shape, Ends, Flows, [Next]_vars
  PROVE  Flows'
  <1>1. CASE Setup BY <1>1, FlowsSetup
  <1>2. CASE Finish
    <2>0. "client" \in Side /\ "upstream" \in Side /\ sock \in [Side -> Socket] BY Sides DEF TypeOK
    <2>1. /\ main = "relay" /\ main' = "done" /\ variant' = variant /\ peer' = peer /\ thr' = thr
          /\ sock' = CloseAll
      BY <1>2 DEF Finish
    <2>2. \A s \in Side : /\ sock'[s].out = sock[s].out /\ sock'[s].in = sock[s].in
                          /\ sock'[s].rst = sock[s].rst
      BY <2>0, <2>1, Closing
    <2>3. Flow("client") /\ Flow("upstream") BY <2>0, <2>1 DEF Flows, Refused
    <2>4. Flow("client")' /\ Flow("upstream")' BY <2>0, <2>1, <2>2, <2>3, Sides, FlowKept
    <2> QED BY <2>1, <2>4, Sides DEF Flows
  <1>3. CASE \E s \in Side : RelayStep(s) BY <1>3, FlowsRelay
  <1>4. CASE \E s \in Side : PeerStep(s) BY <1>4, FlowsPeer
  <1>5. CASE UNCHANGED vars
    BY <1>5 DEF vars, Flows, Flow, Shift, Consumed, Tunnels, Refused
  <1> QED BY <1>1, <1>2, <1>3, <1>4, <1>5 DEF Next, Terminated

LEMMA InitInv == Init => RelayInv
  <1> SUFFICES ASSUME Init PROVE RelayInv OBVIOUS
  <1>1. TypeOK BY InitTypes
  <1>2. /\ sock["client"] = [newSocket EXCEPT !.st = "open"] /\ sock["upstream"] = newSocket
        /\ \A s \in Side : thr[s] = [at |-> "idle", buf |-> <<>>]
        /\ \A s \in Side : peer[s] = [sent |-> 0, got |-> <<>>]
        /\ main = "head"
    BY Sides DEF Init
  <1>3. \A s \in Side : /\ sock[s].in = <<>> /\ sock[s].out = <<>> /\ ~sock[s].rst /\ ~sock[s].shut
                        /\ thr[s].at = "idle" /\ thr[s].buf = <<>>
                        /\ peer[s].got = <<>> /\ peer[s].sent = 0
    BY <1>2, Sides DEF newSocket
  <1>4. sock["client"].st = "open" /\ sock["upstream"].st = "none" BY <1>2 DEF newSocket
  <1>5. HandleDiscipline /\ Phases
    BY <1>2, <1>3, <1>4, Sides DEF HandleDiscipline, Phases, Refused
  <1>6. Ends BY <1>2, <1>3, Sides DEF Ends, Refused
  <1>7. Flows BY <1>2, <1>3, Sides DEF Flows, Counts
  <1> QED BY <1>1, <1>5, <1>6, <1>7 DEF RelayInv

LEMMA InvStep ==
  ASSUME RelayInv, [Next]_vars
  PROVE  RelayInv'
  BY Types, ShapeStep, EndsStep, FlowsStep DEF RelayInv, Shape

\* In every state of every session the threads hold open sockets only, an end is
\* passed on only after all that came before it, and the bytes on their way are
\* numbered through from one peer to the other.
THEOREM RelayInvariant == Spec => []RelayInv
  BY InitInv, InvStep, PTL DEF Spec

-----------------------------------------------------------------------------
(* Order.                                                                  *)

\* The queues of a chain, one after the other, are the numbers up to the last one.
LEMMA ChainWhole ==
  ASSUME NEW g \in Seq(Nat), NEW o \in Seq(Nat), NEW b \in Seq(Nat), NEW i \in Seq(Nat),
         NEW d \in Int, NEW n \in Nat, Chain(g, o, b, i, d, n, FALSE)
  PROVE  /\ g \o o \o b \o i \in Seq(Nat) /\ Len(g \o o \o b \o i) = n - d
         /\ Counts(g \o o \o b \o i, d)
  <1>1. /\ Counts(g, d) /\ Counts(o, d + Len(g)) /\ Counts(b, d + Len(g) + Len(o))
        /\ Counts(i, d + Len(g) + Len(o) + Len(b))
        /\ d + Len(g) + Len(o) + Len(b) + Len(i) = n
    BY DEF Chain
  <1>2. g \o o \in Seq(Nat) /\ Counts(g \o o, d) /\ Len(g \o o) = Len(g) + Len(o)
    BY <1>1, CountsConcat
  <1>3. d + Len(g \o o) = d + Len(g) + Len(o) BY <1>2
  <1>4. /\ g \o o \o b \in Seq(Nat) /\ Counts(g \o o \o b, d)
        /\ Len(g \o o \o b) = Len(g \o o) + Len(b)
    BY <1>1, <1>2, <1>3, CountsConcat
  <1>5. d + Len(g \o o \o b) = d + Len(g) + Len(o) + Len(b) BY <1>2, <1>4
  <1>6. /\ g \o o \o b \o i \in Seq(Nat) /\ Counts(g \o o \o b \o i, d)
        /\ Len(g \o o \o b \o i) = Len(g \o o \o b) + Len(i)
    BY <1>1, <1>4, <1>5, CountsConcat
  <1>7. Len(g \o o \o b \o i) = n - d BY <1>1, <1>2, <1>4, <1>6
  <1> QED BY <1>6, <1>7

LEMMA WholeNumbers ==
  ASSUME NEW q \in Seq(Nat), NEW d \in Int, NEW n \in Nat, Counts(q, d), Len(q) = n - d
  PROVE  q = Numbers(d, n)
  BY DEF Counts, Numbers

LEMMA WholeReplied ==
  ASSUME NEW q \in Seq(Nat), NEW n \in Nat, Counts(q, -1), Len(q) = n + 1
  PROVE  q = <<0>> \o Numbers(0, n)
  <1>1. /\ Numbers(0, n) \in Seq(Nat) /\ Len(Numbers(0, n)) = n
        /\ \A i \in 1..n : Numbers(0, n)[i] = i
    BY DEF Numbers
  <1>2. \A i \in 1..(n + 1) : q[i] = i - 1 BY DEF Counts
  <1> HIDE DEF Numbers
  <1>3. /\ <<0>> \o Numbers(0, n) \in Seq(Nat) /\ Len(<<0>> \o Numbers(0, n)) = n + 1
        /\ \A i \in 1..(n + 1) : (<<0>> \o Numbers(0, n))[i] = i - 1
    BY <1>1
  <1> QED BY <1>2, <1>3, SeqEqual

LEMMA InvOrder == RelayInv => BytesInOrder
  <1> SUFFICES ASSUME RelayInv, Intact, main \notin {"head", "done"}, NEW s \in Side
               PROVE  Pipeline(s) = Expected(s)
    BY DEF BytesInOrder
  <1>0. Other(s) \in Side BY Sides
  <1>1. TypeOK /\ Flow(s) /\ ~sock[s].rst BY DEF RelayInv, Flows, Refused, Intact
  <1> DEFINE g == peer[s].got
             o == sock[s].out
             b == thr[Other(s)].buf
             i == sock[Other(s)].in
             d == Shift(s)
             n == peer[Other(s)].sent
  <1>2. sock[Other(s)].rst = FALSE BY <1>0, <1>1, FlowTypes DEF Intact
  <1>3. Chain(g, o, b, i, d, n, FALSE) BY <1>1, <1>2 DEF Flow
  <1>4. g \in Seq(Nat) /\ o \in Seq(Nat) /\ d \in Int BY <1>1, FlowTypes
  <1>5. b \in Seq(Nat) /\ i \in Seq(Nat) /\ n \in Nat BY <1>0, <1>1, FlowTypes
  <1> DEFINE q == g \o o \o b \o i
  <1>6. q = Pipeline(s) BY DEF Pipeline
  <1> HIDE DEF g, o, b, i, d, n
  <1>7. q \in Seq(Nat) /\ Len(q) = n - d /\ Counts(q, d) BY <1>3, <1>4, <1>5, ChainWhole
  <1> HIDE DEF q
  <1>8. CASE s = "upstream"
    <2>1. d = Consumed /\ n = peer["client"].sent BY <1>8, Sides DEF d, n, Shift
    <2>2. q = Numbers(d, n) BY <1>4, <1>5, <1>7, WholeNumbers
    <2> QED BY <2>1, <2>2, <1>6, <1>8 DEF Expected
  <1>9. CASE s = "client"
    <2>1. n = peer["upstream"].sent BY <1>9, Sides DEF n
    <2>2. main \in {"connect", "reply", "first", "relay"} BY <1>1 DEF TypeOK
    <2>3. CASE Tunnels /\ main \in {"first", "relay"}
      <3>1. d = -1 BY <2>3, <1>9 DEF d, Shift
      <3>0. Counts(q, -1) /\ Len(q) = n + 1 BY <3>1, <1>5, <1>7
      <3>2. q = <<0>> \o Numbers(0, n) BY <3>0, <1>5, <1>7, WholeReplied
      <3>3. sock["upstream"].st = "open" BY <2>3 DEF RelayInv, Phases
      <3>4. Expected(s) = <<0>> \o Numbers(0, n)
        BY <3>3, <2>1, <2>3, <1>9 DEF Expected, Replied, Reply
      <3> QED BY <3>2, <3>4, <1>6
    <2>4. CASE ~(Tunnels /\ main \in {"first", "relay"})
      <3>1. d = 0 BY <2>2, <2>4, <1>9 DEF d, Shift
      <3>2. q = Numbers(0, n) BY <3>1, <1>5, <1>7, WholeNumbers
      <3>3. Expected(s) = <<>> \o Numbers(0, n)
        BY <2>1, <2>2, <2>4, <1>9 DEF Expected, Replied, Reply
      <3>4. Numbers(0, n) \in Seq(Nat) BY <3>2, <1>7
      <3>5. <<>> \o Numbers(0, n) = Numbers(0, n) BY <3>4, ConcatEmptySeq
      <3> QED BY <3>2, <3>3, <3>5, <1>6
    <2> QED BY <2>3, <2>4
  <1> QED BY <1>8, <1>9 DEF Side

\* Short reads, short sends and the bytes read with the head lose, repeat or
\* reorder nothing, whatever the window and however much the peers send.
THEOREM AlwaysInOrder == Spec => []BytesInOrder
  BY RelayInvariant, InvOrder, PTL

-----------------------------------------------------------------------------
(* The pipe.                                                               *)

Failed == HasTimeout \/ Refused \/ ~Intact

\* What the peer has read of the other's stream, and how much that one offered.
LEMMA StreamSize ==
  ASSUME TypeOK, NEW s \in Side
  PROVE  /\ Stream(s) \in Seq(Int) /\ Offered(s) \in Nat
         /\ s = "upstream" => Len(Stream(s)) = Len(peer[s].got)
         /\ s = "client" /\ Len(Reply) <= Len(peer[s].got) =>
                Len(Stream(s)) = Len(peer[s].got) - Len(Reply)
  <1>1. peer[s].got \in Seq(Nat) /\ peer[s].sent \in Nat BY FlowTypes
  <1>2. Offered(s) \in Nat BY <1>1 DEF Offered, Consumed
  <1>3. CASE s = "upstream"
    <2>1. \A i \in DOMAIN peer[s].got : peer[s].got[i] - Consumed \in Int
      BY <1>1, ElementOfSeq DEF Consumed
    <2>2. Stream(s) = [i \in 1..Len(peer[s].got) |-> peer[s].got[i] - Consumed]
      BY <1>1, <1>3 DEF Stream
    <2>3. Stream(s) \in Seq(Int) /\ Len(Stream(s)) = Len(peer[s].got)
      BY <2>1, <2>2, <1>1
    <2> QED BY <2>3, <1>2, <1>3
  <1>4. CASE s = "client"
    <2>1. Stream(s) = From(peer[s].got, Len(Reply)) BY <1>4 DEF Stream
    <2>2. Len(Reply) \in Nat BY DEF Reply
    <2>3. CASE Len(Reply) <= Len(peer[s].got)
      <3>1. Len(Reply) \in 0..Len(peer[s].got) BY <2>2, <2>3, <1>1
      <3>2. /\ From(peer[s].got, Len(Reply)) \in Seq(Nat)
            /\ Len(From(peer[s].got, Len(Reply))) = Len(peer[s].got) - Len(Reply)
        BY <3>1, <1>1, Cut
      <3> QED BY <3>2, <2>1, <1>2, <1>4
    <2>4. CASE ~(Len(Reply) <= Len(peer[s].got))
      <3>1. From(peer[s].got, Len(Reply)) = <<>> BY <2>4, <2>2, <1>1 DEF From
      <3> QED BY <3>1, <2>1, <2>4, <1>2, <1>4
    <2> QED BY <2>3, <2>4
  <1> QED BY <1>3, <1>4 DEF Side

\* An end that a peer has read is true.
Honest == \A s \in Side : Told(s) /\ ~Failed =>
              sock[Other(s)].fin /\ Len(Stream(s)) = Offered(Other(s))

LEMMA HonestEnds == RelayInv => Honest
  <1> SUFFICES ASSUME RelayInv, NEW s \in Side, Told(s), ~Failed
               PROVE  sock[Other(s)].fin /\ Len(Stream(s)) = Offered(Other(s))
    BY DEF Honest
  <1>0. Other(s) \in Side /\ Other(Other(s)) = s BY Sides
  <1>1. TypeOK /\ Phases /\ Ends /\ Flows BY DEF RelayInv
  <1>2. Intact /\ ~HasTimeout /\ ~Refused BY DEF Failed
  <1>3. thr[Other(s)].at = "over"
    <2>1. CASE sock[s].shut BY <2>1, <1>1 DEF Ends
    <2>2. CASE sock[s].st = "closed"
      <3>1. main = "done"
        <4>1. sock["upstream"].st # "closed" \/ main \notin {"head", "connect"}
          BY <1>1 DEF Phases, newSocket
        <4> QED BY <4>1, <2>2, <1>1 DEF Phases, TypeOK, Side
      <3> QED BY <3>1, <1>0, <1>1, <1>2 DEF Ends
    <2> QED BY <2>1, <2>2 DEF Told
  <1>4. sock[Other(s)].fin /\ sock[Other(s)].in = <<>> BY <1>0, <1>1, <1>2, <1>3 DEF Ends
  <1>5. thr[Other(s)].buf = <<>> /\ sock[s].out = <<>> BY <1>0, <1>1, <1>3 DEF Phases, Told
  <1>6. main \in {"relay", "done"}
    <2>1. main # "first"
      <3>1. main = "first" => thr["client"].at = "first" /\ thr["upstream"].at = "idle"
        BY <1>1 DEF Phases
      <3> QED BY <3>1, <1>3, <1>0 DEF Side
    <2>2. main \notin {"head", "connect", "reply"}
      <3>1. main \in {"head", "connect", "reply"} =>
              thr["client"].at = "idle" /\ thr["upstream"].at = "idle"
        BY <1>1 DEF Phases
      <3> QED BY <3>1, <1>3, <1>0 DEF Side
    <2> QED BY <2>1, <2>2, <1>1 DEF TypeOK
  <1>7. Flow(s) BY <1>1, <1>2, <1>6 DEF Flows
  <1> DEFINE g == peer[s].got
             n == peer[Other(s)].sent
  <1>8. ~sock[s].rst /\ ~sock[Other(s)].rst BY <1>0, <1>2 DEF Intact
  <1>9. sock[Other(s)].rst = FALSE BY <1>8, <1>0, <1>1, FlowTypes
  <1>10. Chain(g, <<>>, <<>>, <<>>, Shift(s), n, FALSE)
    BY <1>4, <1>5, <1>7, <1>8, <1>9 DEF Flow
  <1>11. g \in Seq(Nat) /\ Shift(s) \in Int BY <1>1, FlowTypes
  <1>12. n \in Nat BY <1>0, <1>1, FlowTypes
  <1> HIDE DEF g, n
  <1>13. Shift(s) + Len(g) = n BY <1>10, <1>11, <1>12 DEF Chain
  <1>14. Len(g) \in Nat BY <1>11
  <1>15. CASE s = "upstream"
    <2>1. Len(Stream(s)) = Len(g) BY <1>1, <1>15, StreamSize DEF g
    <2>2. Shift(s) = Consumed /\ Other(s) = "client" BY <1>15, Sides DEF Shift
    <2>3. Offered("client") = IF n > 0 THEN n - Consumed ELSE n BY <2>2 DEF Offered, n
    <2>4. Consumed \in 0..1 BY DEF Consumed
    <2> QED BY <2>1, <2>2, <2>3, <2>4, <1>4, <1>12, <1>13, <1>14
  <1>16. CASE s = "client"
    <2>1. Shift(s) = -Len(Reply) /\ Len(Reply) \in 0..1 BY <1>6, <1>16 DEF Shift, Reply
    <2>2. Len(Reply) <= Len(g) BY <2>1, <1>12, <1>13, <1>14
    <2>3. Len(Stream(s)) = Len(g) - Len(Reply) BY <2>2, <1>1, <1>16, StreamSize DEF g
    <2>4. Other(s) = "upstream" BY <1>16, Sides
    <2>5. Offered("upstream") = n BY <2>4 DEF Offered, n
    <2> QED BY <2>1, <2>3, <2>4, <2>5, <1>4, <1>12, <1>13, <1>14
  <1> QED BY <1>15, <1>16 DEF Side

\* Nothing is sent after an end, and an end is not taken back.
LEMMA EndsStay ==
  ASSUME RelayInv, [Next]_vars, NEW s \in Side, Told(s)
  PROVE  Told(s)'
  <1> USE Sides DEF Told
  <1>i. TypeOK /\ Phases /\ Ends /\ HandleDiscipline BY DEF RelayInv
  <1>t. sock \in [Side -> Socket] /\ thr \in [Side -> Thread] BY <1>i DEF TypeOK
  <1>0. Other(s) \in Side /\ Other(Other(s)) = s OBVIOUS
  <1>o. sock[s].out = <<>> OBVIOUS
  <1>a. thr[Other(s)].at = "over" \/ sock[s].st = "closed" BY <1>i DEF Ends
  <1>b. ASSUME sock'[s].out = <<>>, sock[s].shut => sock'[s].shut,
               sock[s].st = "closed" => sock'[s].st = "closed"
        PROVE  Told(s)'
    BY <1>b
  <1>1. CASE Setup
    <2>1. ASSUME NEW k \in 1..Window, ReadHead(k) PROVE Told(s)'
      BY <2>1, <1>t, <1>b, <1>o DEF ReadHead, Socket
    <2>2. ASSUME NEW k \in 1..Window, SendFirst(k) PROVE Told(s)'
      <3>1. main = "first" /\ sock' = [sock EXCEPT !["upstream"].out = @ \o Upto(thr["client"].buf, k)]
        BY <2>2 DEF SendFirst
      <3>2. s = "client"
        <4>1. thr["client"].at = "first" BY <3>1, <1>i DEF Phases
        <4>2. sock["upstream"].st = "open" BY <4>1, <1>i DEF HandleDiscipline
        <4> QED BY <4>1, <4>2, <1>a
      <3>3. sock'[s] = sock[s] BY <3>1, <3>2, <1>t
      <3> QED BY <3>3, <1>b, <1>o
    <2>3. CASE Refuse
      <3>1. sock' = CloseAll BY <2>3 DEF Refuse
      <3> QED BY <3>1, <1>t, <1>b, <1>o, Closing
    <2>4. CASE Connect
      <3>1. main = "connect" /\ sock' = [sock EXCEPT !["upstream"].st = "open"] BY <2>4 DEF Connect
      <3>2. sock["upstream"] = newSocket BY <3>1, <1>i DEF Phases
      <3>3. sock["upstream"].st = "none" BY <3>2 DEF newSocket
      <3> QED BY <3>1, <3>3, <1>t, <1>b, <1>o DEF Socket
    <2>5. CASE SendReply
      <3>1. main = "reply" /\ \E q : sock' = [sock EXCEPT !["client"].out = q] BY <2>5 DEF SendReply
      <3>2. s = "upstream"
        <4>1. thr["upstream"].at = "idle" /\ sock["client"].st = "open" BY <3>1, <1>i DEF Phases
        <4> QED BY <4>1, <1>a
      <3>3. sock'[s] = sock[s] BY <3>1, <3>2, <1>t
      <3> QED BY <3>3, <1>b, <1>o
    <2>6. CASE ReplyFails
      <3>1. sock' = CloseAll BY <2>6 DEF ReplyFails
      <3> QED BY <3>1, <1>t, <1>b, <1>o, Closing
    <2>7. CASE StartRelay BY <2>7, <1>b, <1>o DEF StartRelay
    <2> QED BY <1>1, <2>1, <2>2, <2>3, <2>4, <2>5, <2>6, <2>7 DEF Setup
  <1>2. CASE Finish
    <2>1. sock' = CloseAll BY <1>2 DEF Finish
    <2> QED BY <2>1, <1>t, <1>b, <1>o, Closing
  <1>3. ASSUME NEW f \in Side, RelayStep(f) PROVE Told(s)'
    <2>1. ASSUME NEW k \in 1..Window, Recv(f, k) PROVE Told(s)'
      <3>1. sock' = [sock EXCEPT ![f].in = From(@, k)] BY <2>1 DEF Recv
      <3> QED BY <3>1, <1>t, <1>b, <1>o DEF Socket
    <2>2. ASSUME NEW k \in 1..Window, Send(f, k) PROVE Told(s)'
      <3>1. thr[f].at = "send" /\ sock' = [sock EXCEPT ![Other(f)].out = @ \o Upto(thr[f].buf, k)]
        BY <2>2 DEF Send
      <3>2. s # Other(f)
        <4>1. \A x \in Side : sock[x].st = "open" BY <3>1, <1>i DEF HandleDiscipline
        <4> QED BY <4>1, <3>1, <1>a
      <3>3. sock'[s] = sock[s] BY <3>1, <3>2, <1>t
      <3> QED BY <3>3, <1>b, <1>o
    <2>3. ASSUME sock' = HalfClosed(Other(f)) \/ sock' = sock PROVE Told(s)'
      <3>1. CASE sock' = HalfClosed(Other(f)) BY <3>1, <1>t, <1>b, <1>o DEF HalfClosed, Socket
      <3> QED BY <3>1, <2>3, <1>b, <1>o
    <2>4. CASE RecvEnd(f) BY <2>4, <2>3 DEF RecvEnd
    <2>5. CASE RecvTimeout(f) BY <2>5, <2>3 DEF RecvTimeout
    <2>6. CASE SendFails(f) BY <2>6, <2>3 DEF SendFails
    <2> QED BY <1>3, <2>1, <2>2, <2>4, <2>5, <2>6 DEF RelayStep
  <1>4. ASSUME NEW x \in Side, PeerStep(x) PROVE Told(s)'
    <2>1. CASE PeerSends(x)
      <3>1. \E q : sock' = [sock EXCEPT ![x].in = q] BY <2>1 DEF PeerSends
      <3> QED BY <3>1, <1>t, <1>b, <1>o DEF Socket
    <2>2. CASE PeerReads(x)
      <3>1. x # s /\ \E q : sock' = [sock EXCEPT ![x].out = q] BY <2>2, <1>o DEF PeerReads
      <3> QED BY <3>1, <1>t, <1>b, <1>o
    <2>3. CASE PeerEnds(x)
      <3>1. sock' = [sock EXCEPT ![x].fin = TRUE] BY <2>3 DEF PeerEnds
      <3> QED BY <3>1, <1>t, <1>b, <1>o DEF Socket
    <2>4. CASE PeerResets(x)
      <3>1. sock' = [sock EXCEPT ![x].rst = TRUE, ![x].in = <<>>, ![x].out = <<>>]
        BY <2>4 DEF PeerResets
      <3> QED BY <3>1, <1>t, <1>b, <1>o DEF Socket
    <2> QED BY <1>4, <2>1, <2>2, <2>3, <2>4 DEF PeerStep
  <1>5. CASE UNCHANGED vars BY <1>5, <1>b, <1>o DEF vars
  <1> QED BY <1>1, <1>2, <1>3, <1>4, <1>5 DEF Next, Terminated

\* No other field of a socket has to do with its reset.
LEMMA ResetKept ==
  ASSUME sock \in [Side -> Socket], NEW s \in Side, NEW x \in Side
  PROVE  \A q : /\ [sock EXCEPT ![s].in = q][x].rst = sock[x].rst
                /\ [sock EXCEPT ![s].out = q][x].rst = sock[x].rst
                /\ [sock EXCEPT ![s].st = q][x].rst = sock[x].rst
                /\ [sock EXCEPT ![s].shut = q][x].rst = sock[x].rst
  BY DEF Socket

\* A pipe that failed stays so.
LEMMA FailedStays ==
  ASSUME RelayInv, [Next]_vars, Failed
  PROVE  Failed'
  <1>i. TypeOK /\ Phases BY DEF RelayInv
  <1>t. sock \in [Side -> Socket] /\ "upstream" \in Side BY <1>i, Sides DEF TypeOK
  <1>v. variant' = variant
    BY DEF Next, Setup, ReadHead, SendFirst, Refuse, Connect, SendReply, ReplyFails, StartRelay,
       Finish, RelayStep, Recv, RecvEnd, RecvTimeout, Send, SendFails,
       PeerStep, PeerSends, PeerReads, PeerEnds, PeerResets, Terminated, vars
  <1>1. CASE HasTimeout BY <1>1, <1>v DEF HasTimeout, Failed
  <1>2. ASSUME \A s \in Side : sock'[s].rst = sock[s].rst, ~Intact PROVE Failed'
    BY <1>2 DEF Intact, Failed
  <1>3. ASSUME sock'["upstream"].st = sock["upstream"].st, main' = main, Refused PROVE Failed'
    BY <1>3 DEF Refused, Failed
  <1>4. ASSUME NEW s \in Side, PeerStep(s) PROVE Failed'
    <2>1. CASE PeerSends(s)
      <3>1. main' = main /\ \E q : sock' = [sock EXCEPT ![s].in = q] BY <2>1 DEF PeerSends
      <3>2. \A x \in Side : sock'[x].rst = sock[x].rst /\ sock'[x].st = sock[x].st
        BY <3>1, <1>t DEF Socket
      <3> QED BY <3>1, <3>2, <1>1, <1>2, <1>3, <1>t DEF Failed
    <2>2. CASE PeerReads(s)
      <3>1. main' = main /\ \E q : sock' = [sock EXCEPT ![s].out = q] BY <2>2 DEF PeerReads
      <3>2. \A x \in Side : sock'[x].rst = sock[x].rst /\ sock'[x].st = sock[x].st
        BY <3>1, <1>t DEF Socket
      <3> QED BY <3>1, <3>2, <1>1, <1>2, <1>3, <1>t DEF Failed
    <2>3. CASE PeerEnds(s)
      <3>1. main' = main /\ sock' = [sock EXCEPT ![s].fin = TRUE] BY <2>3 DEF PeerEnds
      <3>2. \A x \in Side : sock'[x].rst = sock[x].rst /\ sock'[x].st = sock[x].st
        BY <3>1, <1>t DEF Socket
      <3> QED BY <3>1, <3>2, <1>1, <1>2, <1>3, <1>t DEF Failed
    <2>4. CASE PeerResets(s)
      <3>1. sock' = [sock EXCEPT ![s].rst = TRUE, ![s].in = <<>>, ![s].out = <<>>]
        BY <2>4 DEF PeerResets
      <3>2. sock'[s].rst BY <3>1, <1>t DEF Socket
      <3> QED BY <3>2 DEF Failed, Intact
    <2> QED BY <1>4, <2>1, <2>2, <2>3, <2>4 DEF PeerStep
  <1>5. CASE Setup \/ Finish \/ \E s \in Side : RelayStep(s)
    <2>1. \A s \in Side : sock'[s].rst = sock[s].rst
      <3> SUFFICES ASSUME NEW s \in Side PROVE sock'[s].rst = sock[s].rst OBVIOUS
      <3>0. "client" \in Side BY Sides
      <3>1. CASE Setup
        <4>1. ASSUME NEW k \in 1..Window, ReadHead(k) PROVE sock'[s].rst = sock[s].rst
          BY <4>1, <3>0, <1>t, ResetKept DEF ReadHead
        <4>2. ASSUME NEW k \in 1..Window, SendFirst(k) PROVE sock'[s].rst = sock[s].rst
          BY <4>2, <1>t, ResetKept DEF SendFirst
        <4>3. CASE sock' = CloseAll BY <4>3, <1>t, Closing
        <4>4. CASE Connect BY <4>4, <1>t, ResetKept DEF Connect
        <4>5. CASE SendReply BY <4>5, <3>0, <1>t, ResetKept DEF SendReply
        <4>6. CASE StartRelay BY <4>6 DEF StartRelay
        <4> QED BY <3>1, <4>1, <4>2, <4>3, <4>4, <4>5, <4>6 DEF Setup, Refuse, ReplyFails
      <3>2. CASE Finish BY <3>2, <1>t, Closing DEF Finish
      <3>3. ASSUME NEW f \in Side, RelayStep(f) PROVE sock'[s].rst = sock[s].rst
        <4>0. Other(f) \in Side BY Sides
        <4>1. ASSUME NEW k \in 1..Window, Recv(f, k) PROVE sock'[s].rst = sock[s].rst
          BY <4>1, <1>t, ResetKept DEF Recv
        <4>2. ASSUME NEW k \in 1..Window, Send(f, k) PROVE sock'[s].rst = sock[s].rst
          <5>1. sock' = [sock EXCEPT ![Other(f)].out = @ \o Upto(thr[f].buf, k)] BY <4>2 DEF Send
          <5> QED BY <5>1, <4>0, <1>t, ResetKept
        <4>3. CASE sock' = HalfClosed(Other(f)) BY <4>3, <4>0, <1>t, ResetKept DEF HalfClosed
        <4>4. CASE sock' = sock BY <4>4
        <4>5. CASE RecvEnd(f) BY <4>5, <4>3 DEF RecvEnd
        <4>6. CASE RecvTimeout(f) BY <4>6, <4>3 DEF RecvTimeout
        <4>7. CASE SendFails(f) BY <4>7, <4>3, <4>4 DEF SendFails
        <4> QED BY <3>3, <4>1, <4>2, <4>5, <4>6, <4>7 DEF RelayStep
      <3> QED BY <3>1, <3>2, <3>3, <1>5
    <2>2. ~Refused
      <3>1. main # "done"
        <4>1. CASE Setup
          BY <4>1 DEF Setup, ReadHead, SendFirst, Refuse, Connect, SendReply, ReplyFails, StartRelay
        <4>2. CASE Finish BY <4>2 DEF Finish
        <4>3. ASSUME NEW f \in Side, RelayStep(f) PROVE main # "done"
          <5>1. thr[f].at \in {"recv", "send"}
            BY <4>3 DEF RelayStep, Recv, RecvEnd, RecvTimeout, Send, SendFails
          <5> QED BY <5>1, <1>i DEF Phases
        <4> QED BY <4>1, <4>2, <4>3, <1>5
      <3> QED BY <3>1 DEF Refused
    <2> QED BY <2>1, <2>2, <1>1, <1>2 DEF Failed
  <1>6. CASE UNCHANGED vars BY <1>6 DEF vars, Failed, HasTimeout, Refused, Intact
  <1> QED BY <1>4, <1>5, <1>6 DEF Next, Terminated

LEMMA StepHonest ==
  ASSUME RelayInv, [Next]_vars
  PROVE  Honest /\ Honest'
  <1>1. RelayInv' BY InvStep
  <1>2. Honest BY HonestEnds
  <1>3. RelayInv' => Honest' BY HonestEnds, PTL
  <1> QED BY <1>1, <1>2, <1>3

LEMMA PipeSides == Pipe!Side = Side /\ \A s : Pipe!Other(s) = Other(s)
  BY DEF Pipe!Side, Pipe!Other, Side, Other

LEMMA PipeLearns ==
  ASSUME NEW L \in SUBSET Side,
         \A s \in L : Failed' \/ (sock[Other(s)].fin /\ Len(Stream(s)') = Offered(Other(s))),
         \A s \in Side : Told(s)' = (Told(s) \/ s \in L)
  PROVE  Pipe!Learn(L)
  <1>1. [s \in Side |-> Told(s)]' = [s \in Side |-> Told(s) \/ s \in L] OBVIOUS
  <1>2. \A s \in L : \/ (HasTimeout \/ Refused \/ ~Intact)'
                    \/ /\ ([x \in Side |-> sock[x].fin])[Other(s)]
                       /\ Len(([x \in Side |-> Stream(x)]')[s]) = ([x \in Side |-> Offered(x)])[Other(s)]
    BY Sides DEF Failed
  <1> QED BY <1>1, <1>2, PipeSides DEF Pipe!Learn

\* A step that moves nothing of what the peers see, but perhaps shows them an end.
LEMMA PipeCloses ==
  ASSUME RelayInv, [Next]_vars,
         \A s \in Side : Offered(s)' = Offered(s),
         \A s \in Side : Stream(s)' = Stream(s),
         \A s \in Side : sock'[s].fin = sock[s].fin
  PROVE  Pipe!Next
  <1> DEFINE L == {s \in Side : Told(s)'}
  <1>1. \A s \in Side : Told(s) => Told(s)' BY EndsStay
  <1>2. Failed => Failed' BY FailedStays
  <1>3. Honest' BY StepHonest
  <1>4. L \in SUBSET Pipe!Side BY PipeSides
  <1>5. Pipe!Learn(L)
    <2>1. ASSUME NEW s \in L
          PROVE  Failed' \/ (sock[Other(s)].fin /\ Len(Stream(s)') = Offered(Other(s)))
      BY <1>3, Sides DEF Honest
    <2>2. \A s \in Side : Told(s)' = (Told(s) \/ s \in L)
      <3> SUFFICES ASSUME NEW s \in Side PROVE Told(s)' = (Told(s) \/ s \in L) OBVIOUS
      <3>1. Told(s)' \in BOOLEAN /\ Told(s) \in BOOLEAN BY DEF Told
      <3>2. Told(s)' <=> s \in L OBVIOUS
      <3>3. Told(s) => Told(s)' BY <1>1
      <3> HIDE DEF L
      <3> QED BY <3>1, <3>2, <3>3
    <2> HIDE DEF L
    <2> QED BY <2>1, <2>2, PipeLearns, <1>4, PipeSides
  <1>6. (HasTimeout \/ Refused \/ ~Intact)' \in {HasTimeout \/ Refused \/ ~Intact, TRUE}
    <2>1. Failed \in BOOLEAN /\ Failed' \in BOOLEAN BY DEF Failed
    <2>2. Failed' \in {Failed, TRUE} BY <2>1, <1>2
    <2> QED BY <2>2 DEF Failed
  <1> HIDE DEF L
  <1>7. Pipe!Close(L) BY <1>5, <1>6 DEF Pipe!Close, Pipe!Side, Side
  <1> QED BY <1>4, <1>7 DEF Pipe!Next

LEMMA PipePuts ==
  ASSUME RelayInv, [Next]_vars, NEW s \in Side, PeerSends(s)
  PROVE  Pipe!Next
  <1>t. TypeOK BY DEF RelayInv
  <1>1. /\ peer' = [peer EXCEPT ![s].sent = @ + 1] /\ variant' = variant /\ main' = main
        /\ \E q : sock' = [sock EXCEPT ![s].in = q]
        /\ ~sock[s].fin
    BY DEF PeerSends
  <1>2. \A x \in Side : /\ sock'[x].fin = sock[x].fin /\ sock'[x].rst = sock[x].rst
                        /\ sock'[x].out = sock[x].out /\ sock'[x].st = sock[x].st
                        /\ sock'[x].shut = sock[x].shut
    BY <1>1, <1>t DEF TypeOK, Socket
  <1>3. \A x \in Side : /\ peer'[x].got = peer[x].got
                        /\ peer'[x].sent = IF x = s THEN peer[x].sent + 1 ELSE peer[x].sent
                        /\ peer[x].sent \in Nat
    BY <1>1, <1>t DEF TypeOK
  <1>4. Consumed' = Consumed /\ Reply' = Reply /\ Tunnels' = Tunnels
    BY <1>1 DEF Consumed, Reply, Tunnels
  <1>5. \A x \in Side : Stream(x)' = Stream(x) BY <1>3, <1>4 DEF Stream
  <1>6. \A x \in Side : x # s => Offered(x)' = Offered(x) BY <1>3, <1>4 DEF Offered
  <1>7. Offered(s)' = Offered(s) + 1 \/ Offered(s)' = Offered(s)
    <2>1. Consumed \in 0..1 BY DEF Consumed
    <2> QED BY <2>1, <1>3, <1>4 DEF Offered
  <1>8. CASE Offered(s)' = Offered(s)
    <2>1. \A x \in Side : Offered(x)' = Offered(x) BY <1>6, <1>8
    <2> QED BY <2>1, <1>2, <1>5, PipeCloses
  <1>9. CASE Offered(s)' = Offered(s) + 1
    <2>1. \A x \in Side : Told(x)' = Told(x) BY <1>2 DEF Told
    <2>2. (HasTimeout \/ Refused \/ ~Intact)' = (HasTimeout \/ Refused \/ ~Intact)
      BY <1>1, <1>2, Sides DEF HasTimeout, Refused, Intact
    <2>3. Pipe!Put(s) BY <2>1, <2>2, <1>1, <1>2, <1>5, <1>6, <1>9, PipeSides DEF Pipe!Put
    <2> QED BY <2>3, PipeSides DEF Pipe!Next
  <1> QED BY <1>7, <1>8, <1>9

LEMMA PipeEnds ==
  ASSUME RelayInv, [Next]_vars, NEW s \in Side, PeerEnds(s)
  PROVE  Pipe!Next
  <1>t. TypeOK BY DEF RelayInv
  <1>1. /\ peer' = peer /\ variant' = variant /\ main' = main
        /\ sock' = [sock EXCEPT ![s].fin = TRUE] /\ ~sock[s].fin
    BY DEF PeerEnds
  <1>2. \A x \in Side : /\ sock'[x].fin = (IF x = s THEN TRUE ELSE sock[x].fin)
                        /\ sock'[x].rst = sock[x].rst
                        /\ sock'[x].out = sock[x].out /\ sock'[x].st = sock[x].st
                        /\ sock'[x].shut = sock[x].shut
    BY <1>1, <1>t DEF TypeOK, Socket
  <1>3. \A x \in Side : Stream(x)' = Stream(x) /\ Offered(x)' = Offered(x)
    BY <1>1 DEF Stream, Offered, Reply, Consumed, Tunnels
  <1>4. \A x \in Side : Told(x)' = Told(x) BY <1>2 DEF Told
  <1>5. (HasTimeout \/ Refused \/ ~Intact)' = (HasTimeout \/ Refused \/ ~Intact)
    BY <1>1, <1>2, Sides DEF HasTimeout, Refused, Intact
  <1>6. Pipe!End(s) BY <1>1, <1>2, <1>3, <1>4, <1>5, PipeSides DEF Pipe!End
  <1> QED BY <1>6, PipeSides DEF Pipe!Next

\* A byte that is read is the next one of the stream, or the 200 of the tunnel.
LEMMA NextByte ==
  ASSUME RelayInv, NEW s \in Side, PeerReads(s)
  PROVE  \/ Stream(s)' = Stream(s)
         \/ /\ Stream(s)' = Append(Stream(s), Len(Stream(s)) + 1)
            /\ Len(Stream(s)) < Offered(Other(s))
  <1>t. TypeOK /\ Phases /\ Flows BY DEF RelayInv
  <1>0. Other(s) \in Side BY Sides
  <1>1. /\ peer'[s].got = Append(peer[s].got, Head(sock[s].out)) /\ variant' = variant
        /\ ~sock[s].rst /\ sock[s].out # <<>>
    BY <1>t DEF PeerReads, TypeOK
  <1>2. main \in {"first", "relay", "done"} /\ ~Refused
    <2>1. main \notin {"head", "connect", "reply"} /\ ~Refused BY <1>1, <1>t DEF Phases
    <2> QED BY <2>1, <1>t DEF TypeOK
  <1>3. Flow(s) BY <1>t, <1>2 DEF Flows
  <1> DEFINE g == peer[s].got
             o == sock[s].out
             b == thr[Other(s)].buf
             i == sock[Other(s)].in
             d == Shift(s)
             n == peer[Other(s)].sent
             x == sock[Other(s)].rst
  <1>4. Chain(g, o, b, i, d, n, x) BY <1>1, <1>3 DEF Flow
  <1>5. g \in Seq(Nat) /\ o \in Seq(Nat) /\ d \in Int BY <1>t, FlowTypes
  <1>6. b \in Seq(Nat) /\ i \in Seq(Nat) /\ n \in Nat /\ x \in BOOLEAN BY <1>0, <1>t, FlowTypes
  <1>7. o # <<>> /\ peer'[s].got = Append(g, Head(o)) BY <1>1
  <1> HIDE DEF g, o, b, i, d, n, x
  <1>8. Head(o) = d + Len(g) + 1
    <2>1. Counts(o, d + Len(g)) /\ o # <<>> BY <1>4, <1>7 DEF Chain
    <2>2. d + Len(g) \in Int BY <1>5
    <2> QED BY <2>1, <2>2, <1>5, CountsTail
  <1>9. Counts(g, d) /\ d + Len(g) + 1 <= n
    <2>1. Len(o) \in Nat /\ Len(o) >= 1 /\ Len(b) \in Nat /\ Len(i) \in Nat /\ Len(g) \in Nat
      BY <1>5, <1>6, <1>7
    <2>2. d + Len(g) + Len(o) + Len(b) + Len(i) <= n /\ Counts(g, d) BY <1>4 DEF Chain
    <2> QED BY <2>1, <2>2, <1>5, <1>6
  <1>10. Head(o) \in Nat /\ Len(g) \in Nat BY <1>5, <1>7, HeadTailProperties
  <1>11. CASE s = "upstream"
    <2>1. d = Consumed /\ Consumed \in 0..1 /\ Consumed' = Consumed
      BY <1>1, <1>11 DEF d, Shift, Consumed, Tunnels
    <2>2. Stream(s) = [j \in DOMAIN g |-> g[j] - Consumed] BY <1>11 DEF Stream, g
    <2>3. Stream(s)' = [j \in DOMAIN Append(g, Head(o)) |-> Append(g, Head(o))[j] - Consumed]
      BY <2>1, <1>7, <1>11 DEF Stream
    <2>4. Stream(s) \in Seq(Int) /\ Len(Stream(s)) = Len(g) BY <1>t, <1>11, StreamSize DEF g
    <2>5. Stream(s)' = Append(Stream(s), Len(Stream(s)) + 1)
      <3>1. Head(o) - Consumed = Len(g) + 1 BY <2>1, <1>8, <1>10
      <3> HIDE DEF g
      <3>2. \A j \in 1..Len(g) : g[j] \in Nat BY <1>5, ElementOfSeq
      <3> DEFINE S == [j \in 1..Len(g) |-> g[j] - Consumed]
                 R == [j \in 1..(Len(g) + 1) |-> IF j = Len(g) + 1 THEN Len(g) + 1 ELSE g[j] - Consumed]
      <3>3. Stream(s) = S BY <2>2, <1>5
      <3>4. DOMAIN Append(g, Head(o)) = 1..(Len(g) + 1)
            /\ \A j \in 1..(Len(g) + 1) :
                  Append(g, Head(o))[j] = IF j = Len(g) + 1 THEN Head(o) ELSE g[j]
        BY <1>5, <1>10
      <3>5. Stream(s)' = R BY <2>3, <3>1, <3>4
      <3>6. Append(S, Len(g) + 1) = R BY <1>10, <2>1, <3>2
      <3> QED BY <2>4, <3>3, <3>5, <3>6
    <2>6. Other(s) = "client" BY <1>11, Sides
    <2>7. Offered("client") = IF n > 0 THEN n - Consumed ELSE n BY <2>6 DEF Offered, n
    <2>8. Len(Stream(s)) < Offered(Other(s))
      BY <2>1, <2>4, <2>6, <2>7, <1>6, <1>9, <1>10
    <2> QED BY <2>5, <2>8
  <1>12. CASE s = "client"
    <2>1. Reply' = Reply BY <1>1 DEF Reply, Tunnels
    <2>2. Stream(s) = From(g, Len(Reply)) /\ Stream(s)' = From(Append(g, Head(o)), Len(Reply))
      BY <2>1, <1>7, <1>12 DEF Stream, g
    <2>3. d = -Len(Reply) /\ Len(Reply) \in 0..1 BY <1>2, <1>12 DEF d, Shift, Reply
    <2>4. CASE Len(g) < Len(Reply)
      <3>0. \A l \in Nat, r \in 0..1 : l < r => l = 0 /\ r = 1 OBVIOUS
      <3>1. Len(g) = 0 /\ Len(Reply) = 1 BY <3>0, <2>3, <2>4, <1>10
      <3>2. From(g, Len(Reply)) = <<>> BY <3>1, <1>5 DEF From
      <3>3. Append(g, Head(o)) \in Seq(Nat) /\ Len(Append(g, Head(o))) = 1 BY <3>1, <1>5, <1>10
      <3>4. From(Append(g, Head(o)), Len(Reply)) = <<>> BY <3>1, <3>3 DEF From
      <3> QED BY <3>2, <3>4, <2>2
    <2>5. CASE Len(Reply) <= Len(g)
      <3> DEFINE r == Len(Reply)
                 h == Append(g, Head(o))
      <3>1. r \in 0..Len(g) /\ r \in Nat BY <2>3, <2>5, <1>10
      <3>2. /\ From(g, r) \in Seq(Nat) /\ Len(From(g, r)) = Len(g) - r
            /\ \A j \in 1..(Len(g) - r) : From(g, r)[j] = g[j + r]
        BY <3>1, <1>5, Cut
      <3>3. h \in Seq(Nat) /\ Len(h) = Len(g) + 1
            /\ \A j \in 1..(Len(g) + 1) : h[j] = IF j = Len(g) + 1 THEN Head(o) ELSE g[j]
        BY <1>5, <1>10
      <3> HIDE DEF h, r
      <3>4. r \in 0..Len(h) BY <3>1, <3>3, <1>10
      <3>5. /\ From(h, r) \in Seq(Nat) /\ Len(From(h, r)) = Len(h) - r
            /\ \A j \in 1..(Len(h) - r) : From(h, r)[j] = h[j + r]
        BY <3>3, <3>4, Cut
      <3>6. Head(o) = Len(g) - r + 1 BY <2>3, <1>8, <1>10 DEF r
      <3>7. From(h, r) = Append(From(g, r), Len(From(g, r)) + 1)
        <4>1. Len(From(g, r)) + 1 \in Nat /\ Len(From(g, r)) + 1 = Head(o) BY <3>2, <3>6, <1>10
        <4> DEFINE q == Append(From(g, r), Len(From(g, r)) + 1)
        <4>2. /\ q \in Seq(Nat) /\ Len(q) = Len(g) - r + 1
              /\ \A j \in 1..(Len(g) - r + 1) :
                    q[j] = IF j = Len(g) - r + 1 THEN Head(o) ELSE From(g, r)[j]
          BY <3>2, <4>1
        <4>3. \A j \in 1..(Len(g) - r + 1) : From(h, r)[j] = q[j]
          <5> SUFFICES ASSUME NEW j \in 1..(Len(g) - r + 1) PROVE From(h, r)[j] = q[j] OBVIOUS
          <5>1. From(h, r)[j] = h[j + r] BY <3>1, <3>3, <3>5, <1>10
          <5>2. j + r \in 1..(Len(g) + 1) BY <3>1, <1>10
          <5>3. h[j + r] = IF j + r = Len(g) + 1 THEN Head(o) ELSE g[j + r] BY <5>2, <3>3
          <5>4. q[j] = IF j = Len(g) - r + 1 THEN Head(o) ELSE From(g, r)[j] BY <4>2
          <5> HIDE DEF q
          <5>5. CASE j = Len(g) - r + 1 BY <5>1, <5>3, <5>4, <5>5, <3>1, <1>10
          <5>6. CASE j # Len(g) - r + 1
            <6>1. j \in 1..(Len(g) - r) /\ j + r # Len(g) + 1 BY <5>6, <3>1, <1>10
            <6> QED BY <6>1, <5>1, <5>3, <5>4, <3>2
          <5> QED BY <5>5, <5>6
        <4> HIDE DEF q
        <4>4. Len(From(h, r)) = Len(q) BY <3>1, <3>3, <3>5, <4>2, <1>10
        <4>5. From(h, r) = q BY <3>5, <4>2, <4>3, <4>4, SeqEqual
        <4> QED BY <4>5 DEF q
      <3>8. Other(s) = "upstream" /\ Offered("upstream") = n BY <1>12, Sides DEF Offered, n
      <3>9. Len(Stream(s)) < Offered(Other(s))
        BY <2>2, <2>3, <3>1, <3>2, <3>8, <1>6, <1>9, <1>10 DEF r
      <3> QED BY <2>2, <3>7, <3>9 DEF h, r
    <2> QED BY <2>3, <2>4, <2>5, <1>10
  <1> QED BY <1>11, <1>12 DEF Side

LEMMA PipeTakes ==
  ASSUME RelayInv, [Next]_vars, NEW s \in Side, PeerReads(s)
  PROVE  Pipe!Next
  <1>t. TypeOK BY DEF RelayInv
  <1>1. /\ variant' = variant /\ main' = main /\ sock[s].out # <<>>
        /\ \E q : peer' = [peer EXCEPT ![s].got = q]
        /\ \E q : sock' = [sock EXCEPT ![s].out = q]
    BY DEF PeerReads
  <1>2. \A x \in Side : /\ sock'[x].fin = sock[x].fin /\ sock'[x].rst = sock[x].rst
                        /\ sock'[x].st = sock[x].st
                        /\ x # s => sock'[x] = sock[x] /\ peer'[x] = peer[x]
                        /\ peer'[x].sent = peer[x].sent
    BY <1>1, <1>t DEF TypeOK, Socket
  <1>3. \A x \in Side : Offered(x)' = Offered(x)
    BY <1>1, <1>2 DEF Offered, Consumed, Tunnels
  <1>4. \A x \in Side : x # s => Stream(x)' = Stream(x)
    BY <1>1, <1>2 DEF Stream, Reply, Consumed, Tunnels
  <1>5. CASE Stream(s)' = Stream(s)
    <2>1. \A x \in Side : Stream(x)' = Stream(x) BY <1>4, <1>5
    <2> QED BY <2>1, <1>2, <1>3, PipeCloses
  <1>6. CASE /\ Stream(s)' = Append(Stream(s), Len(Stream(s)) + 1)
             /\ Len(Stream(s)) < Offered(Other(s))
    <2>1. ~Told(s) BY <1>1 DEF Told
    <2>2. \A x \in Side : x # s => Told(x)' = Told(x) BY <1>2 DEF Told
    <2>3. (HasTimeout \/ Refused \/ ~Intact)' = (HasTimeout \/ Refused \/ ~Intact)
      BY <1>1, <1>2, Sides DEF HasTimeout, Refused, Intact
    <2>4. Pipe!Take(s)
      <3> DEFINE got == [x \in Side |-> Stream(x)]
      <3>1. got' = [got EXCEPT ![s] = Append(@, Len(@) + 1)]
        <4>1. got[s] = Stream(s) OBVIOUS
        <4>2. \A x \in Side : got'[x] = IF x = s THEN Append(got[s], Len(got[s]) + 1) ELSE got[x]
          BY <1>4, <1>6
        <4> HIDE DEF got
        <4>3. got = [x \in Side |-> got[x]] /\ got' = [x \in Side |-> got'[x]] BY DEF got
        <4> QED BY <4>2, <4>3
      <3>2. ~([x \in Side |-> Told(x)])[s] BY <2>1
      <3>3. Len(got[s]) < ([x \in Side |-> Offered(x)])[Other(s)] BY <1>6, Sides
      <3>4. [x \in Side |-> Offered(x)]' = [x \in Side |-> Offered(x)] BY <1>3
      <3>5. [x \in Side |-> sock[x].fin]' = [x \in Side |-> sock[x].fin] BY <1>2
      <3> QED BY <3>1, <3>2, <3>3, <3>4, <3>5, <2>3, PipeSides DEF Pipe!Take
    <2>5. CASE Told(s)'
      <3>1. Failed' \/ (sock[Other(s)].fin /\ Len(Stream(s)') = Offered(Other(s)))
        BY <2>5, <1>2, <1>3, StepHonest, Sides DEF Honest
      <3>2. \A x \in Side : Told(x)' = (Told(x) \/ x \in {s})
        <4> SUFFICES ASSUME NEW x \in Side PROVE Told(x)' = (Told(x) \/ x \in {s}) OBVIOUS
        <4>1. Told(x)' \in BOOLEAN /\ Told(x) \in BOOLEAN BY DEF Told
        <4>2. x = s => Told(x)' BY <2>5
        <4>3. x # s => Told(x)' = Told(x) BY <2>2
        <4> QED BY <4>1, <4>2, <4>3
      <3>3. Pipe!Learn({s}) BY <3>1, <3>2, PipeLearns
      <3> QED BY <3>3, <2>4, PipeSides DEF Pipe!Next
    <2>6. CASE ~Told(s)'
      <3>1. \A x \in Side : Told(x)' = Told(x)
        <4> SUFFICES ASSUME NEW x \in Side PROVE Told(x)' = Told(x) OBVIOUS
        <4>1. CASE x = s
          <5>1. Told(s)' \in BOOLEAN /\ Told(s) \in BOOLEAN BY DEF Told
          <5> QED BY <5>1, <4>1, <2>1, <2>6
        <4>2. CASE x # s BY <4>2, <2>2
        <4> QED BY <4>1, <4>2
      <3>2. [x \in Side |-> Told(x)]' = [x \in Side |-> Told(x)] BY <3>1
      <3> QED BY <3>2, <2>4, PipeSides DEF Pipe!Next
    <2> QED BY <2>5, <2>6
  <1> QED BY <1>5, <1>6, NextByte

\* Every other step leaves alone what the peers have sent, read and ended.
LEMMA PipeQuiet ==
  ASSUME TypeOK, peer' = peer, variant' = variant, \A s \in Side : sock'[s].fin = sock[s].fin
  PROVE  /\ \A s \in Side : Offered(s)' = Offered(s)
         /\ \A s \in Side : Stream(s)' = Stream(s)
  BY DEF Offered, Stream, Reply, Consumed, Tunnels

LEMMA FinKept ==
  ASSUME sock \in [Side -> Socket], NEW s \in Side, NEW x \in Side
  PROVE  \A q : /\ [sock EXCEPT ![s].in = q][x].fin = sock[x].fin
                /\ [sock EXCEPT ![s].out = q][x].fin = sock[x].fin
                /\ [sock EXCEPT ![s].st = q][x].fin = sock[x].fin
                /\ [sock EXCEPT ![s].shut = q][x].fin = sock[x].fin
  BY DEF Socket

LEMMA PipeStep ==
  ASSUME RelayInv, [Next]_vars
  PROVE  Pipe!Next
  <1>0. "client" \in Side /\ "upstream" \in Side BY Sides
  <1>i. TypeOK BY DEF RelayInv
  <1>t. sock \in [Side -> Socket] BY <1>i DEF TypeOK
  <1>a. ASSUME peer' = peer, variant' = variant, \A s \in Side : sock'[s].fin = sock[s].fin
        PROVE  Pipe!Next
    BY <1>a, <1>i, PipeQuiet, PipeCloses
  <1>c. ASSUME peer' = peer, variant' = variant, sock' = CloseAll PROVE Pipe!Next
    BY <1>c, <1>a, <1>t, Closing
  <1>1. CASE Setup
    <2>1. ASSUME NEW k \in 1..Window, ReadHead(k) PROVE Pipe!Next
      <3>1. peer' = peer /\ variant' = variant BY <2>1 DEF ReadHead
      <3>2. \A s \in Side : sock'[s].fin = sock[s].fin BY <2>1, <1>0, <1>t, FinKept DEF ReadHead
      <3> QED BY <3>1, <3>2, <1>a
    <2>2. ASSUME NEW k \in 1..Window, SendFirst(k) PROVE Pipe!Next
      <3>1. peer' = peer /\ variant' = variant BY <2>2 DEF SendFirst
      <3>2. \A s \in Side : sock'[s].fin = sock[s].fin BY <2>2, <1>0, <1>t, FinKept DEF SendFirst
      <3> QED BY <3>1, <3>2, <1>a
    <2>3. CASE Refuse BY <2>3, <1>c DEF Refuse
    <2>4. CASE Connect
      <3>1. \A s \in Side : sock'[s].fin = sock[s].fin BY <2>4, <1>0, <1>t, FinKept DEF Connect
      <3> QED BY <3>1, <2>4, <1>a DEF Connect
    <2>5. CASE SendReply
      <3>1. \A s \in Side : sock'[s].fin = sock[s].fin BY <2>5, <1>0, <1>t, FinKept DEF SendReply
      <3> QED BY <3>1, <2>5, <1>a DEF SendReply
    <2>6. CASE ReplyFails BY <2>6, <1>c DEF ReplyFails
    <2>7. CASE StartRelay BY <2>7, <1>a DEF StartRelay
    <2> QED BY <1>1, <2>1, <2>2, <2>3, <2>4, <2>5, <2>6, <2>7 DEF Setup
  <1>2. CASE Finish BY <1>2, <1>c DEF Finish
  <1>3. ASSUME NEW f \in Side, RelayStep(f) PROVE Pipe!Next
    <2>0. Other(f) \in Side BY Sides
    <2>1. peer' = peer /\ variant' = variant
      BY <1>3 DEF RelayStep, Recv, RecvEnd, RecvTimeout, Send, SendFails
    <2>2. ASSUME NEW k \in 1..Window, Recv(f, k) PROVE Pipe!Next
      <3>1. \A s \in Side : sock'[s].fin = sock[s].fin BY <2>2, <1>t, FinKept DEF Recv
      <3> QED BY <3>1, <2>1, <1>a
    <2>3. ASSUME NEW k \in 1..Window, Send(f, k) PROVE Pipe!Next
      <3>1. sock' = [sock EXCEPT ![Other(f)].out = @ \o Upto(thr[f].buf, k)] BY <2>3 DEF Send
      <3>2. \A s \in Side : sock'[s].fin = sock[s].fin BY <3>1, <2>0, <1>t, FinKept
      <3> QED BY <3>2, <2>1, <1>a
    <2>4. ASSUME sock' = HalfClosed(Other(f)) \/ sock' = sock PROVE Pipe!Next
      <3>1. \A s \in Side : sock'[s].fin = sock[s].fin
        <4>1. CASE sock' = HalfClosed(Other(f)) BY <4>1, <2>0, <1>t, FinKept DEF HalfClosed
        <4> QED BY <4>1, <2>4
      <3> QED BY <3>1, <2>1, <1>a
    <2>5. CASE RecvEnd(f) BY <2>5, <2>4 DEF RecvEnd
    <2>6. CASE RecvTimeout(f) BY <2>6, <2>4 DEF RecvTimeout
    <2>7. CASE SendFails(f) BY <2>7, <2>4 DEF SendFails
    <2> QED BY <1>3, <2>2, <2>3, <2>5, <2>6, <2>7 DEF RelayStep
  <1>4. ASSUME NEW s \in Side, PeerStep(s) PROVE Pipe!Next
    <2>1. CASE PeerResets(s)
      <3>1. \A x \in Side : sock'[x].fin = sock[x].fin BY <2>1, <1>t DEF PeerResets, Socket
      <3> QED BY <3>1, <2>1, <1>a DEF PeerResets
    <2> QED BY <1>4, <2>1, PipePuts, PipeTakes, PipeEnds DEF PeerStep
  <1>5. CASE UNCHANGED vars BY <1>5, <1>a DEF vars
  <1> QED BY <1>1, <1>2, <1>3, <1>4, <1>5 DEF Next, Terminated

LEMMA PipeInit == Init => Pipe!Init
  <1> SUFFICES ASSUME Init PROVE Pipe!Init OBVIOUS
  <1>1. \A s \in Side : peer[s] = [sent |-> 0, got |-> <<>>] BY DEF Init
  <1>2. sock["client"] = [newSocket EXCEPT !.st = "open"] /\ sock["upstream"] = newSocket
    BY Sides DEF Init
  <1>3. \A s \in Side : sock[s].fin = FALSE /\ ~sock[s].shut /\ sock[s].st # "closed"
    BY <1>2, Sides DEF newSocket
  <1>4. \A s \in Side : Stream(s) = <<>>
    <2> SUFFICES ASSUME NEW s \in Side PROVE Stream(s) = <<>> OBVIOUS
    <2>1. peer[s].got = <<>> BY <1>1
    <2>2. CASE s = "client" BY <2>1, <2>2 DEF Stream, From, Reply
    <2>3. CASE s = "upstream"
      <3>1. Stream(s) = [i \in DOMAIN <<>> |-> <<>>[i] - Consumed] BY <2>1, <2>3 DEF Stream
      <3> QED BY <3>1
    <2> QED BY <2>2, <2>3 DEF Side
  <1>5. \A s \in Side : Offered(s) = 0 BY <1>1 DEF Offered
  <1>6. \A s \in Side : Told(s) = FALSE BY <1>3 DEF Told
  <1>7. (HasTimeout \/ Refused \/ ~Intact) \in BOOLEAN OBVIOUS
  <1> QED BY <1>3, <1>4, <1>5, <1>6, <1>7, PipeSides DEF Pipe!Init

\* Every program's relay is a pipe: to its peers it looks as if there were nothing
\* between them but an ordered stream in each direction, whose end, where no
\* connection broke or timed out, is the other's own.
THEOREM RelayImplementsPipe == Spec => ImplementsPipe
  <1>1. Init => Pipe!Init BY PipeInit
  <1>2. RelayInv /\ [Next]_vars => [Pipe!Next]_(Pipe!vars) BY PipeStep
  <1>3. Spec => []RelayInv BY RelayInvariant
  <1> QED BY <1>1, <1>2, <1>3, PTL DEF Spec, ImplementsPipe, Pipe!Spec
=============================================================================
