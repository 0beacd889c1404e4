------------------------------ MODULE Connections ------------------------------
(***************************************************************************)
(* The connections of one process: each has a thread that goes one of the  *)
(* ways of ConnectionPaths, and they share the numbers the system gives to *)
(* sockets.  A number that was closed goes to whoever opens the next       *)
(* socket, and closesocket closes what has the number, whose it is or not. *)
(***************************************************************************)
EXTENDS Naturals, Sequences, ConnectionPaths

CONSTANTS
    Checked,    \* the programs of ConnectionPaths
    Conn,       \* the connections of one process
    Handle      \* the socket numbers the system gives out

VARIABLES
    program,
    table,      \* whose socket a number is
    life,       \* the connection is "new", "open" or "over"
    way,        \* "connect" or "plain"
    step,       \* the step the thread is at
    undo,       \* what it still gives back
    failed,     \* a step has failed: the thread ends when undo is empty
    sock,       \* the numbers in clientSock and upstream
    closed,     \* closesocket(clientSock) was called
    object,     \* the SSL objects, the context and the BIO's data
    speaks      \* the protocol agreed on with each side

vars == <<program, table, life, way, step, undo, failed, sock, closed, object, speaks>>

Free == [conn |-> "none", side |-> "none"]
Owner(c, side) == [conn |-> c, side |-> side]
Sides == {"client", "origin"}
Invalid == "invalid"
Objects == {"clientSsl", "originSsl", "ctx", "bio"}
Protocols == {"h2", "http/1.1"}

ASSUME ConnectionsAssumption ==
    /\ Checked \subseteq DOMAIN PathOf
    /\ Invalid \notin Handle /\ "none" \notin Conn

Path == PathOf[program]
Current(c) == IF way[c] = "connect" THEN Path.connect ELSE Path.plain
Op(c) == Current(c).steps[step[c]].op
AtStep(c, ops) == life[c] = "open" /\ undo[c] = <<>> /\ ~failed[c] /\ Op(c) \in ops

Init ==
    /\ program \in Checked
    /\ table = [h \in Handle |-> Free]
    /\ life = [c \in Conn |-> "new"] /\ way = [c \in Conn |-> "plain"] /\ step = [c \in Conn |-> 1]
    /\ undo = [c \in Conn |-> <<>>] /\ failed = [c \in Conn |-> FALSE]
    /\ sock = [c \in Conn |-> [s \in Sides |-> Invalid]]
    /\ closed = [c \in Conn |-> FALSE]
    /\ object = [c \in Conn |-> [o \in Objects |-> "none"]]
    /\ speaks = [c \in Conn |-> [s \in Sides |-> "http/1.1"]]

\* A new socket gets some number that is free.
Open(c, side, h) ==
    /\ table[h] = Free
    /\ table' = [table EXCEPT ![h] = Owner(c, side)]
    /\ sock' = [sock EXCEPT ![c][side] = h]

\* accept, and a thread of its own for the connection.
Accept(c) ==
    /\ life[c] = "new" /\ life' = [life EXCEPT ![c] = "open"]
    /\ \E h \in Handle : Open(c, "client", h)
    /\ UNCHANGED <<program, way, step, undo, failed, closed, object, speaks>>

-----------------------------------------------------------------------------
(* The ends of a step.                                                     *)

Passed(c) == step' = [step EXCEPT ![c] = @ + 1] /\ UNCHANGED <<way, undo, failed>>

\* An early return, a break, or the end of the scope: one release after the other.
Failed(c) ==
    /\ undo' = [undo EXCEPT ![c] = Current(c).steps[step[c]].undo]
    /\ failed' = [failed EXCEPT ![c] = TRUE]
    /\ UNCHANGED <<way, step>>

\* The last step is over: the thread ends, or the next request is read.
Finished(c) ==
    LET again == Current(c).again IN
    /\ undo' = [undo EXCEPT ![c] = Current(c).finish]
    /\ failed' = [failed EXCEPT ![c] = again = 0]
    /\ step' = [step EXCEPT ![c] = IF again = 0 THEN @ ELSE again]
    /\ UNCHANGED way

-----------------------------------------------------------------------------
(* The steps.                                                              *)

\* Steps that only succeed or fail: reading a head, the port list, the host of a
\* request, the write of 200, the context from the cache.
Plainly(c) ==
    /\ AtStep(c, {"request", "next", "port", "target", "reply", "context"}) /\ (Passed(c) \/ Failed(c))
    /\ UNCHANGED <<program, life, table, sock, closed, object, speaks>>

\* Http1Engine drops whatever is not a CONNECT.
Refuse(c) ==
    /\ AtStep(c, {"refuse"}) /\ Failed(c)
    /\ UNCHANGED <<program, life, table, sock, closed, object, speaks>>

\* The 200 is written and the result is not looked at.
BlindReply(c) ==
    /\ AtStep(c, {"blindReply"}) /\ Passed(c)
    /\ UNCHANGED <<program, life, table, sock, closed, object, speaks>>

\* The request is a CONNECT: a kept origin is closed first.
Upgrade(c) ==
    /\ AtStep(c, {"request"}) /\ way[c] = "plain"
    /\ way' = [way EXCEPT ![c] = "connect"]
    /\ undo' = [undo EXCEPT ![c] = <<"origin">>]
    /\ UNCHANGED <<program, life, table, step, failed, sock, closed, object, speaks>>

\* Mutant: the socket of a connect that fails stays open.
ConnectFails_Open(c) ==
    /\ \E h \in Handle : table[h] = Free /\ table' = [table EXCEPT ![h] = Owner(c, "origin")]
    /\ UNCHANGED sock
ConnectFails(c) == UNCHANGED <<table, sock>>

\* ConnectUpstream.
Dial(c) ==
    /\ AtStep(c, {"dial", "redial"}) /\ sock[c]["origin"] = Invalid
    /\ \/ Passed(c) /\ \E h \in Handle : Open(c, "origin", h)
       \/ Failed(c) /\ ConnectFails(c)
    /\ UNCHANGED <<program, life, closed, object, speaks>>

\* The kept origin is that of the request, or is closed for another one.
Redial(c) ==
    /\ AtStep(c, {"redial"}) /\ sock[c]["origin"] # Invalid
    /\ \/ Passed(c)
       \/ undo' = [undo EXCEPT ![c] = <<"origin">>] /\ UNCHANGED <<way, step, failed>>
    /\ UNCHANGED <<program, life, table, sock, closed, object, speaks>>

\* A context for this connection alone.
OwnContext(c) ==
    /\ AtStep(c, {"ownContext"})
    /\ \/ Passed(c) /\ object' = [object EXCEPT ![c]["ctx"] = "live"]
       \/ Failed(c) /\ UNCHANGED object
    /\ UNCHANGED <<program, life, table, sock, closed, speaks>>

\* The n-th protocol is the first of those the program speaks that was offered.
Selects(offers, n) ==
    Path.alpn[n] \in offers /\ \A m \in 1..n - 1 : Path.alpn[m] \notin offers

\* The handshake with the client, which may do without ALPN; it fails when ALPN
\* finds no protocol.
AcceptTls(c) ==
    /\ AtStep(c, {"accept", "acceptBio"})
    /\ object' = [object EXCEPT ![c]["clientSsl"] = "live",
                                ![c]["bio"] = IF Op(c) = "acceptBio" THEN "live" ELSE @]
    /\ \/ Failed(c) /\ UNCHANGED speaks
       \/ /\ Passed(c)
          /\ \E offers \in SUBSET Protocols :
                IF Path.alpn = NoAlpn \/ offers = {} THEN UNCHANGED speaks
                ELSE \E n \in 1..Len(Path.alpn) :
                        Selects(offers, n) /\ speaks' = [speaks EXCEPT ![c]["client"] = Path.alpn[n]]
    /\ UNCHANGED <<program, life, table, sock, closed>>

\* What the origin is offered: the protocol of the client's side.
Offered(c) == IF Path.alpn = NoAlpn THEN {} ELSE {speaks[c]["client"]}

\* The handshake with the origin, which takes an offer or does without ALPN.
Handshake(c) ==
    /\ AtStep(c, {"handshake"})
    /\ object' = [object EXCEPT ![c]["originSsl"] = "live"]
    /\ \/ Failed(c) /\ UNCHANGED speaks
       \/ /\ Passed(c)
          /\ \E protocol \in Offered(c) \cup {"http/1.1"} :
                speaks' = [speaks EXCEPT ![c]["origin"] = protocol]
    /\ UNCHANGED <<program, life, table, sock, closed>>

Agreed(c) == speaks[c]["client"] = speaks[c]["origin"]

\* Plan B translates nothing: both sides must speak the same.
Agree(c) ==
    /\ AtStep(c, {"agree"}) /\ IF Agreed(c) THEN Passed(c) ELSE Failed(c)
    /\ UNCHANGED <<program, life, table, sock, closed, object, speaks>>

\* The tunnel, the loop or the bridge ends; one exchange fails or succeeds.
Serve(c) ==
    /\ \/ AtStep(c, {"serve"}) /\ Finished(c)
       \/ AtStep(c, {"exchange"}) /\ (Finished(c) \/ Failed(c))
    /\ UNCHANGED <<program, life, table, sock, closed, object, speaks>>

-----------------------------------------------------------------------------
(* Giving back.                                                            *)

\* Mutant: upstream is not set to INVALID_SOCKET.
Keeps_Both == Sides
\* The variables that still hold the number after closesocket: upstream is set to
\* INVALID_SOCKET, goes out of scope or is assigned again, clientSock is not.
Keeps == {"client"}

\* closesocket on the number in the variable.
CloseSocket(c, side) ==
    LET h == sock[c][side] IN
    /\ table' = IF h = Invalid THEN table ELSE [table EXCEPT ![h] = Free]
    /\ sock' = IF side \in Keeps THEN sock ELSE [sock EXCEPT ![c][side] = Invalid]
    /\ closed' = [closed EXCEPT ![c] = @ \/ side = "client"]
    /\ UNCHANGED object

\* SSL_free, SSL_CTX_free, delete.
FreeObject(c, o) ==
    /\ object' = [object EXCEPT ![c][o] = CASE @ = "none" -> "none" [] @ = "live" -> "freed"
                                            [] OTHER -> "freedTwice"]
    /\ UNCHANGED <<table, sock, closed>>

Release(c) ==
    /\ life[c] = "open" /\ undo[c] # <<>>
    /\ LET what == Head(undo[c]) IN
       IF what \in Sides THEN CloseSocket(c, what) ELSE FreeObject(c, what)
    /\ undo' = [undo EXCEPT ![c] = Tail(@)]
    /\ UNCHANGED <<program, life, way, step, failed, speaks>>

End(c) ==
    /\ life[c] = "open" /\ failed[c] /\ undo[c] = <<>>
    /\ life' = [life EXCEPT ![c] = "over"]
    /\ UNCHANGED <<program, table, way, step, undo, failed, sock, closed, object, speaks>>

-----------------------------------------------------------------------------
Thread(c) ==
    \/ Plainly(c) \/ Refuse(c) \/ BlindReply(c) \/ Upgrade(c) \/ Dial(c) \/ Redial(c)
    \/ OwnContext(c) \/ AcceptTls(c) \/ Handshake(c) \/ Agree(c) \/ Serve(c)
    \/ Release(c) \/ End(c)

\* The numbers may run out: accept fails, and is tried again.
Terminated ==
    /\ \A c \in Conn : life[c] = "over" \/ (life[c] = "new" /\ \A h \in Handle : table[h] # Free)
    /\ UNCHANGED vars

Next == (\E c \in Conn : Accept(c) \/ Thread(c)) \/ Terminated

Spec == Init /\ [][Next]_vars

-----------------------------------------------------------------------------
TypeOK ==
    /\ program \in Checked
    /\ table \in [Handle -> {Free} \cup {Owner(c, s) : c \in Conn, s \in Sides}]
    /\ life \in [Conn -> {"new", "open", "over"}] /\ way \in [Conn -> {"connect", "plain"}]
    /\ step \in [Conn -> Nat] /\ \A c \in Conn : step[c] \in 1..Len(Current(c).steps)
    /\ undo \in [Conn -> Seq(Sides \cup Objects)]
    /\ sock \in [Conn -> [Sides -> Handle \cup {Invalid}]]
    /\ object \in [Conn -> [Objects -> {"none", "live", "freed", "freedTwice"}]]
    /\ failed \in [Conn -> BOOLEAN] /\ closed \in [Conn -> BOOLEAN]
    /\ speaks \in [Conn -> [Sides -> Protocols]]

Fails(c, kind, ops) == failed[c] /\ way[c] = kind /\ Op(c) \in ops

\* Until a thread closes a socket the number in its variable is that socket: no
\* other thread closes it, and closing it closes nothing of another connection.
\* The early returns of proxy_pure_m3's HandleHttp, after which the client's
\* socket is closed twice, are the one exception.
ClosesTwice(d) == program = "pureM3" /\ Fails(d, "plain", {"target", "dial"})
SocketsStayOurs ==
    \A c \in Conn :
        /\ life[c] # "new" /\ ~closed[c] /\ table[sock[c]["client"]] # Owner(c, "client")
              => \E d \in Conn : d # c /\ ClosesTwice(d)
        /\ sock[c]["origin"] # Invalid /\ table[sock[c]["origin"]] # Owner(c, "origin")
              => \E d \in Conn : d # c /\ ClosesTwice(d)

\* When a thread ends, on whatever path, it has given back both sockets and
\* every object; plan B keeps the client's socket when it refuses a port.
ForgetsClient(c) == program = "planB" /\ Fails(c, "connect", {"port"})
NothingLeaks ==
    \A c \in Conn : life[c] = "over" =>
        /\ \A h \in Handle : table[h].conn = c => ForgetsClient(c) /\ table[h].side = "client"
        /\ \A o \in Objects : object[c][o] # "live"

\* Nothing is freed twice, and the data of the BIO outlives the session whose
\* reads go through it.
HasBio(c) == object[c]["clientSsl"] = "live" /\ program # "engine" => object[c]["bio"] = "live"
FreedInOrder ==
    \A c \in Conn : HasBio(c) /\ \A o \in Objects : object[c][o] # "freedTwice"

\* A connection that is served speaks one protocol on both sides: what is read on
\* one is written on the other.  The comments in Http1Engine::process say that
\* offering the origin only the client's protocol is enough for it.
SameProtocol ==
    \A c \in Conn : AtStep(c, {"serve"}) => speaks[c]["client"] = speaks[c]["origin"]
-----------------------------------------------------------------------------
(* Why they hold: what is true of every state, and kept by every step.     *)

\* A number that is in use is in a variable of its owner.
InVariables ==
    /\ \A h \in Handle, c \in Conn, s \in Sides : table[h] = Owner(c, s) => sock[c][s] = h
    /\ \A c \in Conn : life[c] # "new" => sock[c]["client"] \in Handle
    /\ \A c \in Conn, h \in Handle : closed[c] => table[h] # Owner(c, "client")

\* As long as no thread has closed its client's socket and will close the
\* number again, every number in a variable is that of its owner.
Disturbed == \E c \in Conn : closed[c] /\ ClosesTwice(c)
Undisturbed ==
    ~Disturbed => \A c \in Conn :
        /\ life[c] # "new" /\ ~closed[c] => table[sock[c]["client"]] = Owner(c, "client")
        /\ sock[c]["origin"] # Invalid => table[sock[c]["origin"]] = Owner(c, "origin")

\* A thread begins with nothing.
Untouched(c) ==
    life[c] = "new" =>
        /\ way[c] = "plain" /\ step[c] = 1 /\ undo[c] = <<>> /\ ~failed[c]
        /\ \A s \in Sides : sock[c][s] = Invalid
        /\ \A o \in Objects : object[c][o] = "none"

\* One that goes on has what the steps behind it made, and at most an origin to
\* give back.
GoingOn(c) ==
    ~failed[c] =>
        /\ life[c] # "over" /\ ~closed[c] /\ Things(undo[c]) \subseteq {"origin"}
        /\ sock[c]["origin"] # Invalid =>
              "origin" \in Things(undo[c]) \/ MayHoldOrigin(Current(c), step[c])
        /\ \A o \in Objects :
              object[c][o] = "none" \/ (object[c][o] = "live" /\ o \in Made(Current(c), step[c]))

\* One that has failed gives back all it has, each thing once, and the session
\* before the data of its BIO.
GivingBack(c) ==
    failed[c] =>
        /\ life[c] = "over" => undo[c] = <<>>
        /\ closed[c] \/ "client" \in Things(undo[c]) \/ ForgetsClient(c)
        /\ IF ClosesTwice(c) THEN sock[c]["origin"] = Invalid /\ Things(undo[c]) \subseteq {"client"}
           ELSE InOrder(undo[c]) /\ (closed[c] => "client" \notin Things(undo[c]))
        /\ sock[c]["origin"] # Invalid => "origin" \in Things(undo[c])
        /\ \A o \in Objects : \/ object[c][o] = "none"
                              \/ object[c][o] = "live" /\ o \in Things(undo[c])
                              \/ object[c][o] = "freed" /\ o \notin Things(undo[c])

\* Who speaks h2, and when both sides are known to speak the same.
Speaking(c) ==
    /\ way[c] = "plain" => \A s \in Sides : speaks[c][s] = "http/1.1"
    /\ \A s \in Sides : speaks[c][s] = "h2" => program \in {"planB", "engine"}
    /\ ~failed[c] /\ (\E n \in 1..step[c] - 1 : Current(c).steps[n].op = "agree") => Agreed(c)

ConnectionsInv ==
    /\ TypeOK /\ InVariables /\ Undisturbed
    /\ \A c \in Conn : Untouched(c) /\ GoingOn(c) /\ GivingBack(c) /\ HasBio(c) /\ Speaking(c)
=============================================================================
