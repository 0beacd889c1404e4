----------------------------- MODULE MCSockReader -----------------------------
(***************************************************************************)
(* Every framing on both sides, the heads that are refused, lines beyond   *)
(* MaxHead, sizes that are none, lengths that contradict each other, and a *)
(* CONNECT with a first flight of four units.                              *)
(***************************************************************************)
EXTENDS SockReader

MCLengthOf == [cl0 |-> 0, cl1 |-> 1, cl2 |-> 2]
MCSizeOf == "0" :> 0 @@ "1" :> 1 @@ "2" :> 2

Message(side, method, lines, plain, next) ==
    [side |-> side, method |-> method, lines |-> lines, eol |-> <<"cr", "lf">>,
     plain |-> plain, chunks |-> <<>>, trailers |-> <<>>, next |-> next]
Cut(m, chunks) == [m EXCEPT !.plain = <<>>, !.chunks = chunks, !.trailers = <<<<"trailer">>, <<>>>>]
Part(size, data) == [size |-> size, data |-> data]

Get == <<"GET">>
Post == <<"POST">>
Ok == <<"200">>
Data == <<"d1", "d2">>
TwoChunks == <<Part(<<"2">>, Data), Part(<<"1", "extension">>, <<"lf">>), Part(<<"0">>, <<>>)>>
OddChunk(size) == <<Part(<<"1">>, <<"d1">>), Part(<<size>>, <<"d1">>), Part(<<"0">>, <<>>)>>

Request(lines, plain) == Message("request", "", lines, plain, <<"GET", "cr">>)
Response(method, lines, plain) == Message("response", method, lines, plain, Ok)
Long(word) == <<word, "x", "x", "x", "x", "x", "x", "x", "x", "x", "x">>

MCMessages ==
    {Request(<<<<>>, Get, <<"host">>>>, <<>>), Request(<<Post, <<"cl0">>>>, <<>>),
     [Request(<<Post, <<"cl2">>, <<"cl2">>>>, <<"d1", "lf">>) EXCEPT !.eol = <<"lf">>],
     Cut(Request(<<Post, <<"chunked">>>>, <<>>), TwoChunks),
     Cut(Request(<<Post, <<"gzip">>, <<"chunked">>>>, <<>>), TwoChunks),
     Request(<<Get, Long("host")>>, <<>>), Request(<<Long("GET")>>, <<>>),
     Request(<<Get, <<"noName">>>>, <<>>), Request(<<Get, <<"noColon">>>>, <<>>)}
    \cup
    {Cut(Request(<<Post, <<"cl1">>, <<"chunked">>>>, <<>>), TwoChunks),
     Request(<<Post, <<"cl1">>, <<"cl2">>>>, Data), Request(<<Post, <<"clBad">>>>, Data),
     Request(<<Post, <<"clBeyond">>>>, Data),
     Request(<<Post, <<"gzip">>>>, Data)}
    \cup
    {Cut(m, SubSeq(OddChunk(size), 1, 2)) : size \in {"d0", "huge", "wraps"},
        m \in {Request(<<Post, <<"chunked">>>>, <<>>), Response("GET", <<Ok, <<"chunked">>>>, <<>>)}}
    \cup
    {Response("GET", <<Ok, <<"cl2">>>>, Data),
     Cut(Response("GET", <<Ok, <<"cl1">>, <<"chunked">>>>, <<>>), TwoChunks),
     [Response("GET", <<Ok>>, <<"d1", "d2", "lf", "d3">>) EXCEPT !.next = <<>>],
     Response("GET", <<Ok, <<"clBeyond">>>>, Data),
     Response("GET", <<<<"204">>, <<"cl2">>>>, <<>>), Response("HEAD", <<Ok, <<"cl2">>>>, <<>>),
     Cut(Response("GET", <<Ok, <<"gzip">>, <<"chunked">>>>, <<>>), TwoChunks)}
    \cup
    {Message("connect", "", empty \o <<<<"CONNECT", "target", "version">>, <<"host">>>>, <<>>,
             <<"h1", "h2", "h3", "h4">>) : empty \in {<<>>, <<<<>>>>}}
=============================================================================
