------------------------------ MODULE Http1Loops ------------------------------
(***************************************************************************)
(* The HTTP/1.1 request loops of the repository, one record each: where    *)
(* the program's loop differs from the others.  Http1Exchange interprets   *)
(* them.  A loop runs over a plain client connection, or over the two TLS  *)
(* sessions of a CONNECT.                                                  *)
(***************************************************************************)
\* What may fail in one turn of a loop, and what the program does about it: it
\* closes the connection, answers first, or does not look and goes on.
Failure == {"framing", "connect", "sendHead", "reqBody", "respHead", "sendResp", "respBody"}
Outcome == {"close", "400", "502", "goOn"}
Strict == [f \in Failure |-> "close"]
Answering == [Strict EXCEPT !["framing"] = "400", !["connect"] = "502", !["respHead"] = "502"]

(* upstream  "kept" over the requests and replaced when the host changes,    *)
(*           a "fresh" connection for each request, or the one of the TLS    *)
(*           "session";                                                      *)
(* timeouts  the connections with SO_RCVTIMEO, "client" and "origin";        *)
(* version   HTTP/1.0 without keep-alive closes;                             *)
(* method    the answer to HEAD is known to have no body;                    *)
(* inspects  "all" messages go to an analyzer, the "uploads", or "none";     *)
(* truncated what makes an upload's log line say that the capture is cut:    *)
(*           it is "full", or full with a body that was "longer".            *)
Loop == [upstream : {"kept", "fresh", "session"}, timeouts : SUBSET {"client", "origin"},
         fails : [Failure -> Outcome], version : BOOLEAN, method : BOOLEAN,
         inspects : {"all", "uploads", "none"}, truncated : {"full", "longer"}]

Both == {"client", "origin"}

\* proxy_v2, HandleClient: the upstream is kept while the host is the same.
ProxyV2 == [upstream |-> "kept", timeouts |-> Both, fails |-> Answering,
            version |-> TRUE, method |-> TRUE, inspects |-> "none", truncated |-> "full"]
\* proxy_v3 and proxy_v4 for requests other than CONNECT.
ProxyV3 == ProxyV2
ProxyV4 == ProxyV2

\* proxy_v4, proxyExchange under HandleConnectMITM: no error is answered.
ProxyV4Tls == [ProxyV4 EXCEPT !.upstream = "session", !.fails = Strict]

\* proxy_plan_A: both loops log uploads, cut only if more was announced.
PlanA == [ProxyV4 EXCEPT !.inspects = "uploads", !.truncated = "longer"]
PlanATls == [ProxyV4Tls EXCEPT !.inspects = "uploads", !.truncated = "longer"]

\* proxy_plan_B: the plain loop connects for every request, sets no timeout on
\* that connection, and does not look at what the two body transfers return.
PlanB == [upstream |-> "fresh", timeouts |-> {"client"},
          fails |-> [Strict EXCEPT !["reqBody"] = "goOn", !["respBody"] = "goOn"],
          version |-> TRUE, method |-> TRUE, inspects |-> "uploads", truncated |-> "full"]
PlanBTls == [ProxyV4Tls EXCEPT !.inspects = "uploads"]

\* proxy_pure_m2, proxy_NoMITM (HandleHttp), proxy_MITM_pure: as plan B, without
\* timeouts and without HTTP/1.0.
PureM2 == [PlanB EXCEPT !.timeouts = {}, !.version = FALSE, !.inspects = "none"]
NoMitm == PureM2
MitmPure == PureM2

\* proxy_MITM_pure, proxyExchange: only the request's transfer is checked.
MitmPureTls == [MitmPure EXCEPT !.upstream = "session", !.fails = [Strict EXCEPT !["respBody"] = "goOn"]]

\* Http1Engine::process of proxy_ToInfinity: every message is captured for the
\* analyzer; the method is not asked for, nor the version.
Engine == [upstream |-> "session", timeouts |-> {}, fails |-> Strict,
           version |-> FALSE, method |-> FALSE, inspects |-> "all", truncated |-> "full"]

LoopOf == [v2 |-> ProxyV2, v3 |-> ProxyV3, v4 |-> ProxyV4, v4Tls |-> ProxyV4Tls,
           planA |-> PlanA, planATls |-> PlanATls, planB |-> PlanB, planBTls |-> PlanBTls,
           pureM2 |-> PureM2, noMitm |-> NoMitm, mitmPure |-> MitmPure,
           mitmPureTls |-> MitmPureTls, engine |-> Engine]
Programs == DOMAIN LoopOf

\* One program for every loop that is different.  A loop that logs nothing runs
\* as the same loop that logs uploads, which stands for it.
Logs(l, m) == [l EXCEPT !.inspects = m.inspects, !.truncated = m.truncated]
Representatives(programs) ==
    LET loops == {LoopOf[p] : p \in programs}
        shown == {l \in loops : ~\E m \in loops : l.inspects = "none" /\ m.inspects # "none"
                                                   /\ Logs(l, m) = m}
    IN {CHOOSE p \in programs : LoopOf[p] = l : l \in shown}
=============================================================================
