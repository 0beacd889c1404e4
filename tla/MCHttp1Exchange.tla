--------------------------- MODULE MCHttp1Exchange ---------------------------
(* Requests and responses for TLC: every body mode, two hosts, every way   *)
(* to ask for the end of the connection, uploads longer than the capture   *)
(* and just as long, HEAD, and a request to refuse.                        *)
EXTENDS Http1Exchange

Message(mode, len, conn) == [mode |-> mode, len |-> len, conn |-> conn]
Ask(method, target, m) ==
    [method |-> method, target |-> target, mode |-> m.mode, len |-> m.len, conn |-> m.conn]
Say(status, m) == [status |-> status, mode |-> m.mode, len |-> m.len, conn |-> m.conn]

MCRequests ==
    {Ask("GET", "a", Message("none", 0, "close")), Ask("POST", "b", Message("length", 2, "keep")),
     Ask("POST", "a", Message("chunked", 1, "keep")), Ask("HEAD", "b", Message("none", 0, "keep")),
     Ask("GET", "a", Message("error", 0, "keep"))}
MCResponses ==
    {Say("ok", Message("length", 1, "keep")), Say("ok", Message("chunked", 0, "close")),
     Say("ok", Message("until", 1, "keep")), Say("empty", Message("length", 1, "1.0"))}
=============================================================================
