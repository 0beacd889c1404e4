---------------------------- MODULE ConnectionPaths ----------------------------
(***************************************************************************)
(* The way of a connection through each program: the steps its thread      *)
(* takes, and what it gives back, in order, when a step fails and when the *)
(* last one is over.  Connections interprets them.                         *)
(*                                                                         *)
(* Two ways of every program: that of plain requests, on which each        *)
(* connection begins, and that of CONNECT, which a request may lead to.    *)
(* A "request" may be a CONNECT, "next" is not looked at for it.  Objects: *)
(* the sockets "client" and "origin", the SSL of both sides, the context   *)
(* made for one connection ("ctx") and the data of the BIO that feeds      *)
(* bytes already read into the handshake ("bio").                          *)
(***************************************************************************)
EXTENDS Naturals, Sequences

Step(op, undo) == [op |-> op, undo |-> undo]
\* A way ends with its last step, or goes on from an earlier one.
Way(steps, finish) == [steps |-> steps, finish |-> finish, again |-> 0]
LoopingWay(again, steps, finish) == [steps |-> steps, finish |-> finish, again |-> again]

\* Mutant: the data of the BIO goes before the session that reads through it.
Session_Reversed == <<"bio", "clientSsl">>
\* SSL_free(cssl), then delete bd.
Session == <<"clientSsl", "bio">>

\* proxy_v3, HandleConnect; HandleClient closes the client's socket.
V3Connect ==
    Way(<<Step("port", <<"client">>), Step("dial", <<"client">>),
          Step("reply", <<"origin", "client">>), Step("serve", <<>>)>>,
        <<"origin", "client">>)

\* proxy_v3, HandleClient: the origin is kept from one request to the next.
V3Plain ==
    LoopingWay(1, <<Step("request", <<"origin", "client">>), Step("redial", <<"client">>),
                    Step("exchange", <<"origin", "client">>)>>, <<>>)

\* proxy_v4, HandleConnectMITM; HandleClient closes the client's socket.
V4Connect ==
    LET client == <<"client">>
        session == Session \o client
    IN Way(<<Step("port", client), Step("reply", client), Step("context", client),
             Step("acceptBio", session), Step("dial", session),
             Step("handshake", <<"originSsl", "origin">> \o session), Step("serve", <<>>)>>,
           <<"clientSsl", "originSsl", "origin", "bio", "client">>)
V4Plain == V3Plain

\* proxy_plan_A: as proxy_v4; what it negotiates differs.
PlanAConnect == V4Connect
PlanAPlain == V4Plain

\* proxy_plan_B: HandleConnectMITM closes the client's socket itself, but for a
\* port it refuses; it checks that both sides speak the same protocol.
PlanBConnect ==
    LET client == <<"client">>
        session == Session \o client
        both == <<"originSsl", "origin">> \o session
    IN Way(<<Step("port", <<>>), Step("reply", client), Step("context", client),
             Step("acceptBio", session), Step("dial", session), Step("handshake", both),
             Step("agree", both), Step("serve", <<>>)>>,
           <<"clientSsl", "originSsl", "origin", "bio", "client">>)

\* proxy_plan_B, HandleClient: a connection for each request.
PlanBPlain ==
    LoopingWay(1, <<Step("request", <<"client">>), Step("dial", <<"client">>),
                    Step("exchange", <<"origin", "client">>)>>, <<"origin">>)

\* proxy_MITM_pure: no list of ports, the write of the reply is not checked, and
\* every connection has a context of its own.
MitmPureConnect ==
    LET client == <<"client">>
        session == <<"clientSsl", "ctx", "bio", "client">>
    IN Way(<<Step("blindReply", <<>>), Step("ownContext", client), Step("acceptBio", session),
             Step("dial", session), Step("handshake", <<"originSsl", "origin">> \o session),
             Step("serve", <<>>)>>,
           <<"clientSsl", "originSsl", "ctx", "origin", "bio", "client">>)
MitmPurePlain == PlanBPlain

\* proxy_NoMITM, HandleClient and HandleConnect, and HandleHttp.
NoMitmConnect ==
    Way(<<Step("target", <<"client">>), Step("dial", <<"client">>), Step("blindReply", <<>>),
          Step("serve", <<>>)>>, <<"origin", "client">>)
NoMitmPlain ==
    LoopingWay(2, <<Step("request", <<"client">>), Step("next", <<"client">>),
                    Step("dial", <<"client">>), Step("exchange", <<"origin", "client">>)>>,
               <<"origin">>)

\* proxy_pure_m3, HandleConnect: HandleClient closes the client's socket.
PureM3Connect ==
    Way(<<Step("dial", <<"client">>), Step("blindReply", <<>>), Step("serve", <<>>)>>,
        <<"origin", "client">>)

\* proxy_pure_m3, HandleHttp: both early returns close the client's socket, and
\* HandleClient closes it once more.
PureM3Plain ==
    LET twice == <<"client", "client">>
    IN Way(<<Step("request", <<"client">>), Step("target", twice), Step("dial", twice),
             Step("serve", <<>>)>>, <<"origin", "client">>)

\* proxy_ToInfinity, Context::~Context: whatever is there, in this order.
Destructor == <<"clientSsl", "originSsl", "client", "origin">>

\* Http1Engine::process: every return ends in the destructor.  The reply's write
\* is not checked, the protocol of the origin is not compared.
EngineConnect ==
    Way(<<Step("blindReply", <<>>), Step("context", Destructor), Step("accept", Destructor),
          Step("dial", Destructor), Step("handshake", Destructor), Step("serve", <<>>)>>,
        Destructor)
\* Mutant: nothing is done about a request that is not a CONNECT.
EnginePlain_Falls == Way(<<Step("request", Destructor)>>, Destructor)
EnginePlain == Way(<<Step("request", Destructor), Step("refuse", Destructor)>>, Destructor)

\* alpn: what the sessions may speak, in the order of preference.
Program(connect, plain, alpn) == [connect |-> connect, plain |-> plain, alpn |-> alpn]
NoAlpn == <<>>
Http1 == <<"http/1.1">>
PreferH2 == <<"h2", "http/1.1">>

PathOf == [v3 |-> Program(V3Connect, V3Plain, NoAlpn),
           v4 |-> Program(V4Connect, V4Plain, NoAlpn),
           planA |-> Program(PlanAConnect, PlanAPlain, Http1),
           planB |-> Program(PlanBConnect, PlanBPlain, PreferH2),
           mitmPure |-> Program(MitmPureConnect, MitmPurePlain, NoAlpn),
           noMitm |-> Program(NoMitmConnect, NoMitmPlain, NoAlpn),
           pureM3 |-> Program(PureM3Connect, PureM3Plain, NoAlpn),
           engine |-> Program(EngineConnect, EnginePlain, PreferH2)]

-----------------------------------------------------------------------------
(* What makes a way right, whoever interprets it.                          *)

\* The objects a step makes, and those it makes even if it fails.
Makes(op) ==
    CASE op = "ownContext" -> {"ctx"} [] op = "accept" -> {"clientSsl"}
      [] op = "acceptBio" -> {"clientSsl", "bio"} [] op = "handshake" -> {"originSsl"}
      [] OTHER -> {}
MakesAnyway(op) == IF op = "ownContext" THEN {} ELSE Makes(op)
Made(w, n) == UNION {Makes(w.steps[m].op) : m \in 1..n - 1}

\* A way that keeps its origin comes to any of its steps with one.
KeepsOrigin(w) == \E m \in 1..Len(w.steps) : w.steps[m].op = "redial"
MayHoldOrigin(w, n) == KeepsOrigin(w) \/ \E m \in 1..n - 1 : w.steps[m].op = "dial"

Things(list) == {list[i] : i \in 1..Len(list)}
\* Everything once, and the session before the data of its BIO.
InOrder(list) ==
    \A i, j \in 1..Len(list) : i < j => list[i] # list[j] /\ ~(list[i] = "bio" /\ list[j] = "clientSsl")

Blind == {"blindReply", "serve"}
\* A step that fails gives back all there is.
GivesBack(w, n) ==
    LET op == w.steps[n].op
        things == Things(w.steps[n].undo)
    IN op \notin Blind =>
        /\ Made(w, n) \cup MakesAnyway(op) \subseteq things
        /\ op \notin {"dial", "redial"} /\ MayHoldOrigin(w, n) => "origin" \in things
\* So does the end of the last step; a way that goes on again makes no object and
\* gives back the origin unless it keeps it.
Completes(w) ==
    IF w.again = 0
    THEN /\ InOrder(w.finish) /\ Made(w, Len(w.steps)) \cup {"client"} \subseteq Things(w.finish)
         /\ MayHoldOrigin(w, Len(w.steps)) => "origin" \in Things(w.finish)
    ELSE /\ Made(w, Len(w.steps)) = {} /\ Things(w.finish) \subseteq {"origin"}
         /\ KeepsOrigin(w) \/ "origin" \in Things(w.finish)
Balanced(w) == Completes(w) /\ \A n \in 1..Len(w.steps) : GivesBack(w, n)
=============================================================================
