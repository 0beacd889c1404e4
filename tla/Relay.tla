-------------------------------- MODULE Relay --------------------------------
(***************************************************************************)
(* The full-duplex relay of proxy_v1 (HandleClient, Relay), of its short   *)
(* form proxy_pure_m1, and the CONNECT tunnels of proxy_v3 (HandleConnect, *)
(* TunnelRelay), proxy_NoMITM and proxy_pure_m3 (HandleConnect, Relay).    *)
(* Two threads copy one direction each with blocking recv and send; when   *)
(* one direction ends it half-closes its destination, and the main thread  *)
(* closes both sockets after it has joined the other one.                  *)
(*                                                                         *)
(* Side s is a peer and the proxy's socket to it; direction f is the thread*)
(* that reads from side f.  A byte is a number: each peer sends 1, 2, ...  *)
(* The kernel's and the peer's socket buffers are one queue of Window      *)
(* bytes.  A blocking send takes the bytes as room appears.                *)
(***************************************************************************)
EXTENDS Integers, Sequences

CONSTANTS
    Variants,   \* the programs: "v1", "pure" (pure_m1, and pure_m3 without CONNECT),
                \* "tunnel" (v3), "blind" (the tunnels of NoMITM and pure_m3)
    MaxSend,    \* most bytes each peer sends
    Window,     \* bytes a connection holds in one direction
    Peer,       \* "reset": connections break
    HalfOpen    \* the programs whose peers, told that the other side is over,
                \* need not end their own

ASSUME RelayAssumption ==
    /\ Variants \subseteq {"v1", "pure", "tunnel", "blind"} /\ HalfOpen \subseteq Variants
    /\ MaxSend \in [{"client", "upstream"} -> Nat] /\ Window \in Nat \ {0}
    /\ Peer \subseteq {"reset"}

Side == {"client", "upstream"}
Other(s) == IF s = "client" THEN "upstream" ELSE "client"

VARIABLES
    variant,    \* the program that runs
    main,       \* where HandleClient / HandleConnect is
    thr,        \* each direction's thread: where it is, the bytes it still has to send
    sock,       \* each socket
    peer,       \* what each peer has sent and read
    quiet       \* quiet[f]: nothing arrived from any peer since f's recv began

vars == <<variant, main, thr, sock, peer, quiet>>

Socket == [st : {"none", "open", "closed"}, in : Seq(Nat), fin : BOOLEAN, rst : BOOLEAN,
           out : Seq(Nat), shut : BOOLEAN]
Thread == [at : {"idle", "first", "recv", "send", "over"}, buf : Seq(Nat)]

newSocket == [st |-> "none", in |-> <<>>, fin |-> FALSE, rst |-> FALSE,
              out |-> <<>>, shut |-> FALSE]

\* accept has returned the client's socket.
Init ==
    /\ variant \in Variants
    /\ main = "head"
    /\ thr = [f \in Side |-> [at |-> "idle", buf |-> <<>>]]
    /\ sock = [s \in Side |-> IF s = "client" THEN [newSocket EXCEPT !.st = "open"] ELSE newSocket]
    /\ peer = [s \in Side |-> [sent |-> 0, got |-> <<>>]]
    /\ quiet = [f \in Side |-> TRUE]

Upto(q, k) == SubSeq(q, 1, k)
From(q, k) == SubSeq(q, k + 1, Len(q))
Room(s) == Window - Len(sock[s].out)

\* Whether recv returns bytes, or returns 0 or an error, instead of blocking.
HasBytes(s) == sock[s].in # <<>> /\ ~sock[s].rst
AtEnd(s) == sock[s].rst \/ (sock[s].fin /\ sock[s].in = <<>>)

-----------------------------------------------------------------------------
(* HandleClient, up to the relay.  Bytes read with the head are forwarded  *)
(* first; a tunnel takes the CONNECT request (byte 1) out of them.         *)

Tunnels == variant \in {"tunnel", "blind"}
Consumed == IF Tunnels THEN 1 ELSE 0
Reply == IF Tunnels THEN <<0>> ELSE <<>>     \* 200 Connection Established

\* Mutant: no SO_RCVTIMEO is set.
HasTimeout_None == FALSE
HasTimeout == variant = "tunnel"

CloseAll == [s \in Side |-> [sock[s] EXCEPT !.st = IF @ = "open" THEN "closed" ELSE @]]

\* A blind tunnel loses what one recv brings beyond the request (SockReader shows
\* that); here the client waits for the reply.
ReadHead(k) ==
    /\ main = "head" /\ HasBytes("client") /\ k \in 1..Len(sock["client"].in)
    /\ variant = "blind" => k = 1
    /\ main' = "connect"
    /\ sock' = [sock EXCEPT !["client"].in = From(@, k)]
    /\ thr' = [thr EXCEPT !["client"].buf = From(Upto(sock["client"].in, k), Consumed)]
    /\ UNCHANGED <<variant, peer, quiet>>

\* No head arrives (the tunnel also gives up after the receive timeout), no
\* Host or no allowed target is found in it, or the connect fails.  (The error
\* replies of the tunnel are left out.)
Refuse ==
    /\ \/ main = "head" /\ (AtEnd("client") \/ (HasTimeout /\ ~HasBytes("client")))
       \/ main = "connect"
    /\ main' = "done"
    /\ sock' = CloseAll
    /\ thr' = [thr EXCEPT !["client"].buf = <<>>]
    /\ UNCHANGED <<variant, peer, quiet>>

Connect ==
    /\ main = "connect" /\ main' = "reply"
    /\ sock' = [sock EXCEPT !["upstream"].st = "open"]
    /\ UNCHANGED <<variant, thr, peer, quiet>>

\* Only tunnels answer; that of proxy_v3 gives up when it cannot.
SendReply ==
    /\ main = "reply" /\ (variant = "tunnel" => ~sock["client"].rst)
    /\ main' = "first"
    /\ sock' = [sock EXCEPT !["client"].out = IF sock["client"].rst THEN <<>> ELSE Reply]
    /\ thr' = [thr EXCEPT !["client"].at = "first"]
    /\ UNCHANGED <<variant, peer, quiet>>

ReplyFails ==
    /\ main = "reply" /\ variant = "tunnel" /\ sock["client"].rst
    /\ main' = "done"
    /\ sock' = CloseAll
    /\ thr' = [thr EXCEPT !["client"].buf = <<>>]
    /\ UNCHANGED <<variant, peer, quiet>>

SendFirst(k) ==
    /\ main = "first" /\ ~sock["upstream"].rst
    /\ k \in 1..Len(thr["client"].buf) /\ k <= Room("upstream")
    /\ sock' = [sock EXCEPT !["upstream"].out = @ \o Upto(thr["client"].buf, k)]
    /\ thr' = [thr EXCEPT !["client"].buf = From(@, k)]
    /\ UNCHANGED <<variant, main, peer, quiet>>

\* Mutant: the other direction starts when this one is over.
Started_OneByOne == [f \in Side |-> [at |-> IF f = "upstream" THEN "recv" ELSE "over", buf |-> <<>>]]

\* std::thread(Relay, client, upstream), and Relay(upstream, client) here.
Started == [f \in Side |-> [at |-> "recv", buf |-> <<>>]]

\* A failure to send the first bytes is not noticed.
StartRelay ==
    /\ main = "first" /\ (thr["client"].buf = <<>> \/ sock["upstream"].rst)
    /\ main' = "relay"
    /\ thr' = Started
    /\ quiet' = [f \in Side |-> TRUE]
    /\ UNCHANGED <<variant, sock, peer>>

-----------------------------------------------------------------------------
(* Relay(from, to): recv until it returns 0 or less, send all of it, and   *)
(* shutdown(to, SD_SEND) at the end.                                       *)

Over(f) == [thr EXCEPT ![f] = [at |-> "over", buf |-> <<>>]]

\* Mutant: the end of one direction goes back to where it came from.
HalfClosed_Source(s) == [sock EXCEPT ![Other(s)].shut = TRUE]
HalfClosed(s) == [sock EXCEPT ![s].shut = TRUE]

Recv(f, k) ==
    /\ thr[f].at = "recv" /\ HasBytes(f) /\ k \in 1..Len(sock[f].in)
    /\ sock' = [sock EXCEPT ![f].in = From(@, k)]
    /\ thr' = [thr EXCEPT ![f] = [at |-> "send", buf |-> Upto(sock[f].in, k)]]
    /\ quiet' = [quiet EXCEPT ![Other(f)] = FALSE]
    /\ UNCHANGED <<variant, main, peer>>

RecvEnd(f) ==
    /\ thr[f].at = "recv" /\ AtEnd(f)
    /\ thr' = Over(f)
    /\ sock' = HalfClosed(Other(f))
    /\ UNCHANGED <<variant, main, peer, quiet>>

\* SO_RCVTIMEO of the tunnel: 30 s in which this side sent nothing.
RecvTimeout(f) ==
    /\ HasTimeout /\ thr[f].at = "recv" /\ ~HasBytes(f) /\ ~AtEnd(f)
    /\ thr' = Over(f)
    /\ sock' = HalfClosed(Other(f))
    /\ UNCHANGED <<variant, main, peer, quiet>>

\* Mutant: what a partial send left over is forgotten.
Unsent_Dropped(buf, k) == <<>>
Unsent(buf, k) == From(buf, k)

Send(f, k) ==
    LET to == Other(f)
        left == Unsent(thr[f].buf, k)
    IN
    /\ thr[f].at = "send" /\ ~sock[to].rst
    /\ k \in 1..Len(thr[f].buf) /\ k <= Room(to)
    /\ sock' = [sock EXCEPT ![to].out = @ \o Upto(thr[f].buf, k)]
    /\ thr' = [thr EXCEPT ![f] = [at |-> IF left = <<>> THEN "recv" ELSE "send", buf |-> left]]
    /\ quiet' = [quiet EXCEPT ![f] = left = <<>> \/ @]
    /\ UNCHANGED <<variant, main, peer>>

\* The pure versions return without the shutdown.
SendFails(f) ==
    /\ thr[f].at = "send" /\ sock[Other(f)].rst
    /\ thr' = Over(f)
    /\ sock' = IF variant \in {"pure", "blind"} THEN sock ELSE HalfClosed(Other(f))
    /\ UNCHANGED <<variant, main, peer, quiet>>

\* Mutant: the sockets are closed without waiting for the thread.
Joined_Never == TRUE
Joined == thr["client"].at = "over"

\* Relay(upstream, client) has returned; join, closesocket, closesocket.
Finish ==
    /\ main = "relay" /\ thr["upstream"].at = "over" /\ Joined
    /\ main' = "done"
    /\ sock' = CloseAll
    /\ UNCHANGED <<variant, thr, peer, quiet>>

-----------------------------------------------------------------------------
(* The peers and the network.                                              *)

Alive(s) == sock[s].st = "open" /\ ~sock[s].rst

PeerSends(s) ==
    /\ Alive(s) /\ ~sock[s].fin
    /\ peer[s].sent < MaxSend[s] /\ Len(sock[s].in) < Window
    /\ peer' = [peer EXCEPT ![s].sent = @ + 1]
    /\ sock' = [sock EXCEPT ![s].in = Append(@, peer[s].sent + 1)]
    /\ UNCHANGED <<variant, main, thr, quiet>>

PeerReads(s) ==
    /\ ~sock[s].rst /\ sock[s].out # <<>>
    /\ peer' = [peer EXCEPT ![s].got = Append(@, Head(sock[s].out))]
    /\ sock' = [sock EXCEPT ![s].out = Tail(@)]
    /\ UNCHANGED <<variant, main, thr, quiet>>

PeerEnds(s) ==
    /\ Alive(s) /\ ~sock[s].fin
    /\ sock' = [sock EXCEPT ![s].fin = TRUE]
    /\ UNCHANGED <<variant, main, thr, peer, quiet>>

PeerResets(s) ==
    /\ Alive(s) /\ "reset" \in Peer
    /\ sock' = [sock EXCEPT ![s].rst = TRUE, ![s].in = <<>>, ![s].out = <<>>]
    /\ UNCHANGED <<variant, main, thr, peer, quiet>>

\* The peer has read the end of what the proxy sends.
Told(s) == sock[s].out = <<>> /\ (sock[s].shut \/ sock[s].st = "closed")

-----------------------------------------------------------------------------
Setup == (\E k \in 1..Window : ReadHead(k) \/ SendFirst(k))
         \/ Refuse \/ Connect \/ SendReply \/ ReplyFails \/ StartRelay

RelayStep(f) ==
    \/ \E k \in 1..Window : Recv(f, k) \/ Send(f, k)
    \/ RecvEnd(f) \/ RecvTimeout(f) \/ SendFails(f)

PeerStep(s) == PeerSends(s) \/ PeerReads(s) \/ PeerEnds(s) \/ PeerResets(s)

Terminated == main = "done" /\ (\A s \in Side : sock[s].out = <<>>) /\ UNCHANGED vars

Next ==
    \/ Setup \/ Finish
    \/ \E s \in Side : RelayStep(s) \/ PeerStep(s)
    \/ Terminated

Spec == Init /\ [][Next]_vars

\* The threads run, the peers read what arrives, and, unless they may keep
\* their side open, they end it once they were told that the other is over.
FairSpec ==
    /\ Spec /\ WF_vars(Setup) /\ WF_vars(Finish)
    /\ \A s \in Side :
          /\ WF_vars(RelayStep(s))
          /\ WF_vars(PeerReads(s))
          /\ WF_vars(variant \notin HalfOpen /\ Told(s) /\ PeerEnds(s))

-----------------------------------------------------------------------------
TypeOK ==
    /\ variant \in Variants
    /\ main \in {"head", "connect", "reply", "first", "relay", "done"}
    /\ thr \in [Side -> Thread]
    /\ sock \in [Side -> Socket]
    /\ peer \in [Side -> [sent : Nat, got : Seq(Nat)]]
    /\ quiet \in [Side -> BOOLEAN]

\* What peer s has read, what is on its way to it and what the thread and the
\* kernel still hold is, in this order, all that the other peer has sent (in the
\* tunnel, without the CONNECT request and after the 200): nothing is lost,
\* repeated or reordered by short reads, short sends or the bytes read with the
\* head, as long as no connection breaks or is given up.
Numbers(from, n) == [i \in 1..(n - from) |-> from + i]
Replied == main \in {"first", "relay", "done"} /\ sock["upstream"].st # "none"
Expected(s) ==
    IF s = "client"
    THEN (IF Replied THEN Reply ELSE <<>>) \o Numbers(0, peer["upstream"].sent)
    ELSE Numbers(Consumed, peer["client"].sent)
Pipeline(s) == peer[s].got \o sock[s].out \o thr[Other(s)].buf \o sock[Other(s)].in
Intact == \A s \in Side : ~sock[s].rst
BytesInOrder ==
    Intact /\ main \notin {"head", "done"} => \A s \in Side : Pipeline(s) = Expected(s)

\* A thread in recv or send works on sockets that are open (a closed handle may
\* belong to another connection by then), and when the session is over both are
\* closed.
HandleDiscipline ==
    /\ \A f \in Side : thr[f].at \in {"first", "recv", "send"} =>
          \A s \in Side : sock[s].st = "open"
    /\ main = "done" => \A s \in Side : sock[s].st # "open"

\* What HandleClient has done so far, and what the threads may hold at that point:
\* nothing is sent or half-closed before its time, and a thread that receives or
\* is over has nothing left to send.
Refused == main = "done" /\ sock["upstream"].st = "none"
Phases ==
    /\ main \in {"head", "connect"} => sock["upstream"] = newSocket /\ peer["upstream"].sent = 0
    /\ main \in {"head", "connect", "reply"} => thr["client"].at = "idle"
    /\ main \in {"head", "connect", "reply"} \/ Refused =>
          \A s \in Side : peer[s].got = <<>> /\ sock[s].out = <<>>
    /\ main \in {"head", "done"} => thr["client"].buf = <<>>
    /\ main \in {"head", "connect", "reply", "first"} => thr["upstream"] = [at |-> "idle", buf |-> <<>>]
    /\ main = "first" => thr["client"].at = "first"
    /\ main = "relay" => \A f \in Side : thr[f].at \in {"recv", "send", "over"}
    /\ main = "done" => \A f \in Side : thr[f].at \in {"idle", "over"}
    /\ \A f \in Side : (thr[f].at \in {"recv", "over"} \/ main = "done") => thr[f].buf = <<>>
    /\ main # "done" => sock["client"].st = "open"
    /\ main \in {"reply", "first", "relay"} => sock["upstream"].st = "open"

\* An end is passed on by a thread that is over, and a thread is over when the peer
\* it reads from has ended and was read to the end, unless a connection broke or
\* the receive timeout ended it.
Ends ==
    /\ \A s \in Side : sock[s].shut => thr[Other(s)].at = "over"
    /\ \A s \in Side : sock[s].rst => sock[s].in = <<>> /\ sock[s].out = <<>>
    /\ Intact /\ ~HasTimeout /\ ~Refused =>
          /\ \A f \in Side : thr[f].at = "over" => sock[f].fin /\ sock[f].in = <<>>
          /\ main = "done" => \A f \in Side : thr[f].at = "over"

\* The bytes on their way to s are numbered through from what s has read to what
\* the other side sent last; if that one broke, its last ones are missing.
Counts(q, d) == \A i \in 1..Len(q) : q[i] = d + i
Shift(s) == IF s = "upstream" THEN Consumed
            ELSE IF Tunnels /\ main \in {"first", "relay", "done"} THEN -1 ELSE 0
Chain(got, out, buf, in, d, n, broken) ==
    LET a == d + Len(got)
        b == a + Len(out)
        c == b + Len(buf)
        e == c + Len(in)
    IN /\ Counts(got, d) /\ Counts(out, a) /\ Counts(buf, b) /\ Counts(in, c)
       /\ e <= n /\ (~broken => e = n)
Flow(s) ==
    ~sock[s].rst =>
        Chain(peer[s].got, sock[s].out, thr[Other(s)].buf, sock[Other(s)].in,
              Shift(s), peer[Other(s)].sent, sock[Other(s)].rst)
Flows ==
    /\ main = "head" =>
          /\ Counts(sock["client"].in, 0) /\ Len(sock["client"].in) <= peer["client"].sent
          /\ ~sock["client"].rst => Len(sock["client"].in) = peer["client"].sent
    /\ main # "head" /\ ~Refused => \A s \in Side : Flow(s)

\* All of it together: what a session keeps at every step (main thread, both relay
\* threads, both sockets), strong enough to follow from itself.
RelayInv == TypeOK /\ HandleDiscipline /\ Phases /\ Ends /\ Flows

\* The relay implements the pipe: what a peer reads is what the other one sent,
\* in order and without gaps, and a peer that reads the end of the stream has read
\* all of it, and the other has ended: an end the relay passes on is never a
\* truncation.  Not promised once a connection broke, for a session that was
\* refused, nor by the tunnel of proxy_v3, whose receive timeout looks like an end.
Stream(s) ==
    IF s = "client" THEN From(peer[s].got, Len(Reply))
    ELSE [i \in DOMAIN peer[s].got |-> peer[s].got[i] - Consumed]
Offered(s) ==
    IF s = "client" /\ peer[s].sent > 0 THEN peer[s].sent - Consumed ELSE peer[s].sent
Pipe == INSTANCE StreamPipe WITH
    sent <- [s \in Side |-> Offered(s)], got <- [s \in Side |-> Stream(s)],
    over <- [s \in Side |-> sock[s].fin], told <- [s \in Side |-> Told(s)],
    failed <- HasTimeout \/ Refused \/ ~Intact
ImplementsPipe == Pipe!Spec

\* Whatever the other direction does, a byte a peer has sent is delivered,
\* unless a connection breaks or the proxy refuses the session; the tunnel of
\* proxy_v3 may give up on an idle peer.
EveryByteArrives ==
    \A s \in Side : \A n \in 1..MaxSend[s] :
        (peer[s].sent = n /\ ~HasTimeout)
            ~> (~Intact \/ Refused \/ Len(Stream(Other(s))) >= Offered(s))

\* Once one side has ended or broken, the whole session ends.
SessionEnds ==
    (main = "relay" /\ \E s \in Side : AtEnd(s)) ~> (main = "done")

\* The receive timeout ends only connections on which nothing moves.
OnlyIdleConnectionsTimeOut ==
    [][\A f \in Side : RecvTimeout(f) => quiet[f]]_vars
=============================================================================
