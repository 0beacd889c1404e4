------------------------------- MODULE SockReader -------------------------------
(***************************************************************************)
(* One message on its way through a SockReader: recv brings the stream in  *)
(* fragments of any length, readHead takes the lines of the head, the      *)
(* framing says where the body ends, and the body goes to the other side   *)
(* as it comes.  After a CONNECT what follows is the client's first TLS    *)
(* bytes.                                                                  *)
(*                                                                         *)
(* The stream is a sequence of units: a word of a line, a byte of a body,  *)
(* "cr" and "lf".  A fragment may end between any two of them.             *)
(***************************************************************************)
EXTENDS Naturals, Sequences, SequencesExt, FiniteSetsExt, SockReaders

CONSTANTS
    Checked,    \* the programs of SockReaders
    Messages,   \* the messages
    LengthOf,   \* the values of the Content-Lengths
    SizeOf,     \* the values of the chunk sizes
    Chunk,      \* IO_CHUNK
    MaxHead,    \* MAX_HEAD_BYTES
    Cap         \* UPLOAD_CAPTURE_CAP

VARIABLES
    program,
    message,
    received,   \* the units of the stream that recv has brought
    used,       \* those of them that were consumed: off
    at,         \* where the reader is
    head,       \* the names of its headers so far
    total,      \* the size of the head so far
    mode,       \* the framing: BodyMode
    left,       \* what is left of the body, or of the chunk
    out,        \* what was passed on
    capture,    \* the captured part of the body
    prefix      \* what was read ahead of a tunnel and not passed on yet

vars == <<program, message, received, used, at, head, total, mode, left, out, capture, prefix>>

(* A message: its side, the method of the request, the lines of its head   *)
(* with the end of line it uses, its body, either plain or in chunks with   *)
(* trailers, and what follows.                                             *)
Line(words) == words \o <<"cr", "lf">>
LinesOf(m) == [n \in DOMAIN m.lines |-> m.lines[n] \o m.eol]
HeadOf(m) == FlattenSeq(LinesOf(m)) \o m.eol
EndOf(chunk) == IF chunk.data = <<>> THEN <<>> ELSE <<"cr", "lf">>
ChunksOf(m) == [n \in DOMAIN m.chunks |-> Line(m.chunks[n].size) \o m.chunks[n].data \o EndOf(m.chunks[n])]
TrailersOf(m) == [n \in DOMAIN m.trailers |-> Line(m.trailers[n])]
BodyOf(m) == m.plain \o FlattenSeq(ChunksOf(m)) \o FlattenSeq(TrailersOf(m))
Stream(m) == HeadOf(m) \o BodyOf(m) \o m.next

IsPlain(m) == m.chunks = <<>> /\ m.trailers = <<>>

\* Empty lines may come ahead of the start line.
StartOf(m) == Min({n \in DOMAIN m.lines : m.lines[n] # <<>>})
NamesOf(m) == [n \in 1..Len(m.lines) - StartOf(m) |-> m.lines[StartOf(m) + n][1]]

Word == STRING \ {"cr", "lf"}
Unit == Word \cup {"cr", "lf"}
IsMessage(m) ==
    /\ m.side \in {"request", "response", "connect"}
    /\ m.lines \in Seq(Seq(Word)) /\ m.eol \in {<<"lf">>, <<"cr", "lf">>}
    /\ \E start \in DOMAIN m.lines : \A n \in DOMAIN m.lines : m.lines[n] = <<>> <=> n < start
    /\ m.plain \in Seq(Unit) /\ m.next \in Seq(Unit)
    /\ m.chunks \in Seq([size : Seq(Word), data : Seq(Unit)])
    /\ m.trailers \in Seq(Seq(Word))
    /\ m.side = "connect" => m.plain = <<>> /\ IsPlain(m)

\* Names of headers that mean something, and words that are no chunk size.  A bad
\* Content-Length has no digit, or ("clBeyond") is negative or larger than any body.
BadLengths == {"clBad", "clBeyond"}
Lengths == DOMAIN LengthOf \cup BadLengths
Codings == {"chunked", "gzip"}
Headers == Lengths \cup Codings \cup {"host", "noName"}
Oversized == {"huge", "wraps"}

ASSUME SockReaderAssumption ==
    /\ Checked \subseteq DOMAIN CopyOf
    /\ Chunk \in Nat \ {0} /\ MaxHead \in Nat \ {0} /\ Cap \in Nat
    /\ LengthOf \in [DOMAIN LengthOf -> Nat]
    /\ DOMAIN LengthOf \cap (BadLengths \cup {"host", "noName"} \cup Codings) = {}
    /\ SizeOf \in [DOMAIN SizeOf -> Nat] /\ DOMAIN SizeOf \cap Oversized = {}
    /\ \A m \in Messages : IsMessage(m)

Self == CopyOf[program]
UpTo(n, units) == SubSeq(units, 1, Min({n, Len(units)}))
Buffer == SubSeq(Stream(message), used + 1, received)
Coming == SubSeq(Stream(message), received + 1, Len(Stream(message)))

\* A CONNECT to proxy_NoMITM, which decides by its first recv alone.
Decides == Self.ahead = "first" /\ message.side = "connect"

Init ==
    /\ program \in Different(Checked) /\ message \in Messages
    /\ message.side = "connect" => Self.ahead # "no"
    /\ received = 0 /\ used = 0 /\ at = IF Decides THEN "first" ELSE "start"
    /\ head = <<>> /\ total = 0 /\ mode = "none" /\ left = 0
    /\ out = <<>> /\ capture = <<>> /\ prefix = <<>>

-----------------------------------------------------------------------------
(* fill: the reader asks for more only when it cannot go on.               *)

AtLine == at \in {"start", "headers", "size", "trailers"}
LineFeed == SelectInSeq(Buffer, LAMBDA unit : unit = "lf")

\* Mutant: a line is not bounded.
TooLong_Never == FALSE
TooLong == Self.reader.bounded /\ LineFeed = 0 /\ Len(Buffer) > MaxHead

Starved ==
    \/ AtLine /\ LineFeed = 0 /\ ~TooLong
    \/ at \in {"first", "exact", "close"} /\ Buffer = <<>>
    \/ at = "crlf" /\ Len(Buffer) < 2

Fill ==
    /\ Starved /\ at # "close"
    /\ \E k \in 1..Chunk : k <= Len(Coming) /\ received' = received + k
    /\ UNCHANGED <<program, message, used, at, head, total, mode, left, out, capture, prefix>>

Goes(where) ==
    /\ at' = where
    /\ UNCHANGED <<program, message, received, used, head, total, mode, left, out, capture, prefix>>

\* recv returns 0 or an error: the peer is gone, or the receive timeout is over.
RecvFails ==
    /\ Starved
    /\ Goes(IF at = "close" \/ (at = "trailers" /\ Self.reader.endsEarly) THEN "done" ELSE "failed")

LineTooLong == AtLine /\ TooLong /\ Goes("failed")

-----------------------------------------------------------------------------
(* readHead.                                                               *)

\* The next line, without its end.
Words ==
    LET words == SubSeq(Buffer, 1, LineFeed - 1) IN
    IF words # <<>> /\ Last(words) = "cr" THEN Front(words) ELSE words
LineAt(where) == at = where /\ LineFeed # 0
Consumed(n) == used' = used + n

\* Empty lines ahead of the start line are skipped.
StartLine ==
    /\ LineAt("start") /\ Consumed(LineFeed)
    /\ IF Words = <<>> THEN UNCHANGED <<at, total>> ELSE at' = "headers" /\ total' = Len(Words) + 2
    /\ UNCHANGED <<program, message, received, head, mode, left, out, capture, prefix>>

\* readHead returns false: no colon, or what only careful programs look at.
BadHeader ==
    \/ Words[1] \notin Headers
    \/ Self.head.careful /\ (Words[1] = "noName" \/ total + Len(Words) + 2 > MaxHead)
HeaderLine ==
    /\ LineAt("headers") /\ Words # <<>> /\ Consumed(LineFeed)
    /\ total' = total + Len(Words) + 2
    /\ IF BadHeader THEN at' = "failed" /\ UNCHANGED head
       ELSE UNCHANGED at /\ head' = Append(head, Words[1])
    /\ UNCHANGED <<program, message, received, mode, left, out, capture, prefix>>

-----------------------------------------------------------------------------
(* The framing.                                                            *)

Mode(m, n) == [mode |-> m, n |-> n]
\* Where a header of some kind is, and the first and the last of them.
Among(names, kind) == {n \in DOMAIN names : names[n] \in kind}
Has(names, kind) == Among(names, kind) # {}
FirstOf(names, kind) == names[Min(Among(names, kind))]
LastOf(names, kind) == names[Max(Among(names, kind))]
Conflicting(names) ==
    \E a, b \in Among(names, DOMAIN LengthOf) : LengthOf[names[a]] # LengthOf[names[b]]

\* More than the sender ever sends: to forwardExact a negative number is one.
Endless == Len(Stream(message)) + 1
\* parseContentLength, parseLL or strtoll.
Value(word) ==
    IF word \in DOMAIN LengthOf THEN LengthOf[word] ELSE IF word = "clBeyond" THEN Endless ELSE 0
Usable(word) == word \in DOMAIN LengthOf \/ Self.head.lengths = "strtoll"

\* Mutant: Transfer-Encoding wins over Content-Length.
CarefulRequestMode_Coding ==
    IF Has(head, Codings) THEN Mode("chunked", 0)
    ELSE IF Has(head, Lengths) THEN Mode("length", Value(FirstOf(head, Lengths))) ELSE Mode("none", 0)
\* requestBodyMode of the careful programs: one length, or one coding, the last.
CarefulRequestMode ==
    IF \/ Has(head, BadLengths) \/ Conflicting(head)
       \/ Has(head, Lengths) /\ Has(head, Codings)
       \/ Has(head, Codings) /\ LastOf(head, Codings) # "chunked"
    THEN Mode("error", 0)
    ELSE CASE Has(head, Codings) -> Mode("chunked", 0)
           [] Has(head, Lengths) -> Mode("length", Value(FirstOf(head, Lengths)))
           [] OTHER -> Mode("none", 0)

\* headerGet returns the first.
FirstMode(otherwise) ==
    IF Has(head, Codings) /\ FirstOf(head, Codings) = "chunked" THEN Mode("chunked", 0)
    ELSE IF Has(head, Lengths) /\ Usable(FirstOf(head, Lengths))
    THEN Mode("length", Value(FirstOf(head, Lengths)))
    ELSE Mode(otherwise, 0)

\* requestBodyMode of the other programs: what they cannot use does not count.
RequestMode == IF Self.head.careful THEN CarefulRequestMode ELSE FirstMode("none")

\* responseBodyMode.  204 stands for all that have no body.
NoContent(m) == m.lines[StartOf(m)] = <<"204">>
ResponseMode ==
    IF NoContent(message) \/ (Self.head.method /\ message.method = "HEAD")
    THEN Mode("none", 0) ELSE FirstMode("close")

Framing == IF message.side = "response" THEN ResponseMode ELSE RequestMode
Framed(m) ==
    /\ mode' = m.mode /\ left' = m.n
    /\ at' = CASE m.mode = "error" -> "failed"
               [] m.mode = "none" \/ (m.mode = "length" /\ m.n = 0) -> "done"
               [] m.mode = "length" /\ m.n # 0 -> "exact"
               [] m.mode = "chunked" -> "size"
               [] m.mode = "close" -> "close"

EndOfHead ==
    /\ LineAt("headers") /\ Words = <<>> /\ (message.side # "connect" \/ Decides) /\ Consumed(LineFeed)
    /\ Framed(Framing)
    /\ UNCHANGED <<program, message, received, head, total, out, capture, prefix>>

-----------------------------------------------------------------------------
(* forwardExact, forwardChunked, forwardUntilClose.                        *)

\* writeAll fails: the other side is gone.
WriteFails ==
    /\ at = "close" \/ (~Starved /\ at \in {"size", "exact", "crlf", "trailers"})
    /\ Goes("failed")

\* Mutant: the last fragment is captured whole.
Captured_Whole(units) == capture \o units
Captured(units) == capture \o UpTo(Cap - Len(capture), units)
Capture(units) ==
    capture' = IF message.side \in Self.reader.captures /\ Len(capture) < Cap
               THEN Captured(units) ELSE capture

\* A size that is one: in SizeOf.  Others overflow, or have no digit.
Sized(words) == words # <<>> /\ words[1] \in DOMAIN SizeOf
\* parseHexChunkSize, strtoll, or the loop without a check.
Size(words) ==
    IF Sized(words) THEN SizeOf[words[1]]
    ELSE IF words = <<>> \/ words[1] \notin Oversized THEN 0
    ELSE IF words[1] = "wraps" /\ Self.reader.sizes = "wraps" THEN 0 ELSE Endless
BadSize == Self.reader.sizes = "checked" /\ ~Sized(Words)

SizeLine ==
    /\ LineAt("size") /\ Consumed(LineFeed)
    /\ IF BadSize THEN at' = "failed" /\ UNCHANGED <<left, out>>
       ELSE /\ out' = out \o Line(Words) /\ left' = Size(Words)
            /\ at' = IF Size(Words) = 0 THEN "trailers" ELSE "exact"
    /\ UNCHANGED <<program, message, received, head, total, mode, capture, prefix>>

\* Mutant: all that was read goes on.
Available_All == Len(Buffer)
Available == Min({left, Len(Buffer)})

ForwardExact ==
    /\ at = "exact" /\ Buffer # <<>> /\ Consumed(Available)
    /\ out' = out \o SubSeq(Buffer, 1, Available)
    /\ Capture(SubSeq(Buffer, 1, Available))
    /\ left' = IF Available >= left THEN 0 ELSE left - Available
    /\ at' = IF left' > 0 THEN "exact" ELSE IF mode = "chunked" THEN "crlf" ELSE "done"
    /\ UNCHANGED <<program, message, received, head, total, mode, prefix>>

\* readExact(2): whatever the two are.
EndOfChunk ==
    /\ at = "crlf" /\ Len(Buffer) >= 2 /\ Consumed(2)
    /\ out' = out \o SubSeq(Buffer, 1, 2) /\ at' = "size"
    /\ UNCHANGED <<program, message, received, head, total, mode, left, capture, prefix>>

Trailer ==
    /\ LineAt("trailers") /\ Consumed(LineFeed)
    /\ out' = out \o Line(Words)
    /\ at' = IF Words = <<>> THEN "done" ELSE "trailers"
    /\ UNCHANGED <<program, message, received, head, total, mode, left, capture, prefix>>

\* What was read with the head goes first, then what recv brings.
ForwardUntilClose ==
    /\ at = "close"
    /\ \/ Buffer # <<>> /\ UNCHANGED received
       \/ Buffer = <<>> /\ \E k \in 1..Chunk : k <= Len(Coming) /\ received' = received + k
    /\ LET units == SubSeq(Stream(message), used + 1, received') IN
       out' = out \o units /\ Capture(units)
    /\ used' = received'
    /\ UNCHANGED <<program, message, at, head, total, mode, left, prefix>>

-----------------------------------------------------------------------------
(* CONNECT.                                                                *)

\* Mutant: the buffer is not handed over.
ReadAhead_Lost == <<>>
\* takeBuffered.
ReadAhead == IF Self.ahead = "kept" THEN SubSeq(Buffer, LineFeed + 1, Len(Buffer)) ELSE <<>>

Tunnelled(ahead) ==
    /\ at' = "tunnel" /\ used' = received /\ prefix' = ahead
    /\ UNCHANGED <<program, message, received, head, total, mode, left, out, capture>>

EndOfConnect ==
    LineAt("headers") /\ Words = <<>> /\ message.side = "connect" /\ ~Decides /\ Tunnelled(ReadAhead)

\* The first recv begins a tunnel if it holds the target and the space behind it.
\* If it has only "CONNECT " and no second space the client is dropped.  If it
\* ends before that, or an empty line comes first, readHead reads on: the CONNECT
\* is a request like any other, sent to the host of its Host header.
FirstRecv ==
    /\ at = "first" /\ Buffer # <<>>
    /\ LET begins == message.lines[1] # <<>> IN
       \/ begins /\ received >= 2 /\ Tunnelled(<<>>)
       \/ begins /\ received <= 2 /\ Goes("failed")
       \/ (~begins \/ received = 1) /\ Goes("start")

\* prefixBioRead, or proxy_v3's send ahead of its relay: the prefix, then the socket.
TunnelRead ==
    /\ at = "tunnel"
    /\ IF prefix # <<>>
       THEN \E k \in 1..Len(prefix) :
               /\ out' = out \o SubSeq(prefix, 1, k)
               /\ prefix' = SubSeq(prefix, k + 1, Len(prefix))
               /\ UNCHANGED <<received, used>>
       ELSE \E k \in 1..Chunk :
               /\ k <= Len(Coming) /\ received' = received + k /\ used' = received'
               /\ out' = out \o SubSeq(Coming, 1, k) /\ UNCHANGED prefix
    /\ UNCHANGED <<program, message, at, head, total, mode, left, capture>>

-----------------------------------------------------------------------------
ReadHead == Fill \/ RecvFails \/ LineTooLong \/ StartLine \/ HeaderLine \/ EndOfHead \/ EndOfConnect
Forward == SizeLine \/ ForwardExact \/ EndOfChunk \/ Trailer \/ ForwardUntilClose \/ WriteFails
Over == (at \in {"done", "failed"} \/ (at = "tunnel" /\ prefix = <<>> /\ Coming = <<>>)) /\ UNCHANGED vars

Next == ReadHead \/ Forward \/ FirstRecv \/ TunnelRead \/ Over

Spec == Init /\ [][Next]_vars

-----------------------------------------------------------------------------
TypeOK ==
    /\ program \in Checked /\ message \in Messages
    /\ received \in 0..Len(Stream(message)) /\ used \in 0..received
    /\ at \in {"first", "start", "headers", "size", "exact", "crlf", "trailers", "close", "tunnel", "done", "failed"}
    /\ mode \in {"none", "length", "chunked", "close", "error"}
    /\ head \in Seq(Headers) /\ total \in Nat /\ left \in Nat
    /\ out \in Seq(Unit) /\ prefix \in Seq(Unit)
    /\ capture \in Seq(Unit) /\ Len(capture) <= Cap

-----------------------------------------------------------------------------
(* What the sender means: the framing of a message by its own head.        *)

NoBody(m) == m.side = "response" /\ (NoContent(m) \/ m.method = "HEAD")
\* Chunks as announced, the last one empty, and trailers up to an empty line.
FullChunk(chunk) == Sized(chunk.size) /\ SizeOf[chunk.size[1]] = Len(chunk.data)
IsChunked(m) ==
    /\ m.plain = <<>> /\ m.chunks # <<>> /\ m.trailers # <<>>
    /\ \A n \in DOMAIN m.chunks : FullChunk(m.chunks[n]) /\ (m.chunks[n].data = <<>> <=> n = Len(m.chunks))
    /\ \A n \in DOMAIN m.trailers : m.trailers[n] = <<>> <=> n = Len(m.trailers)
\* The body is as the head says, which says it in one way only.
Certain(m) ==
    LET names == NamesOf(m) IN
    /\ m.side # "connect"
    /\ IF NoBody(m) THEN m.plain = <<>> /\ IsPlain(m)
       ELSE IF Has(names, Codings)
       THEN LastOf(names, Codings) = "chunked" /\ IsChunked(m) /\ (m.side = "request" => ~Has(names, Lengths))
       ELSE IF Has(names, Lengths)
       THEN /\ IsPlain(m) /\ ~Has(names, BadLengths)
            /\ \A n \in Among(names, Lengths) : LengthOf[names[n]] = Len(m.plain)
       ELSE IsPlain(m) /\ IF m.side = "request" THEN m.plain = <<>> ELSE m.next = <<>>

\* A request whose length can be read in two ways, or not at all.
Ambiguous(m) ==
    LET names == NamesOf(m) IN
    /\ m.side = "request"
    /\ \/ Has(names, BadLengths) \/ Conflicting(names)
       \/ Has(names, Lengths) /\ Has(names, Codings)
       \/ Has(names, Codings) /\ LastOf(names, Codings) # "chunked"
\* Chunks as announced up to one whose size is too large, or none.
BadlyChunked(m) ==
    /\ m.side # "connect" /\ ~NoBody(m) /\ Has(NamesOf(m), Codings)
    /\ (IF m.side = "request" THEN LastOf(NamesOf(m), Codings) ELSE FirstOf(NamesOf(m), Codings)) = "chunked"
    /\ m.plain = <<>> /\ m.chunks # <<>> /\ ~Sized(m.chunks[Len(m.chunks)].size)
    /\ \A n \in 1..Len(m.chunks) - 1 : FullChunk(m.chunks[n]) /\ m.chunks[n].data # <<>>

\* Two disagreements with the sender that no fragmentation has a part in: the
\* engine waits for the body of an answer to HEAD, and where headerGet asks for
\* the coding only the first of two counts.
Disagrees ==
    \/ message.method = "HEAD" /\ ~Self.head.method
    \/ /\ ~(Self.head.careful /\ message.side = "request")
       /\ Has(NamesOf(message), Codings) /\ FirstOf(NamesOf(message), Codings) # "chunked"

Agreed == Certain(message) /\ ~Disagrees

\* However recv cuts the stream, the body that is passed on is the sender's, no
\* byte more, less or out of order, and the next message is still there when it
\* is over.  Without an announced end, and in the trailers of the three programs
\* whose loop ends with the stream, a broken connection passes for the end.
EndsUnnoticed == mode = "close" \/ (mode = "chunked" /\ Self.reader.endsEarly)
BodyIntact ==
    Agreed =>
        /\ IsPrefix(out, BodyOf(message))
        /\ at = "done" => \/ out = BodyOf(message) /\ Buffer \o Coming = message.next
                          \/ EndsUnnoticed /\ received < Len(HeadOf(message) \o BodyOf(message))

\* A request whose length can be read in two ways, and a chunk size that is none
\* or too large, are never passed on as a complete message by careful programs.
NeverGuesses ==
    Self.head.careful /\ (Ambiguous(message) \/ BadlyChunked(message)) => at # "done"

\* A reader with a bound on lines never holds more than that and one recv.
BufferBounded == Self.reader.bounded => Len(Buffer) <= MaxHead + Chunk

\* The capture is the beginning of the body without its framing, and at the end
\* all of it or exactly Cap.
DatasOf(m) == [n \in DOMAIN m.chunks |-> m.chunks[n].data]
DataOf(m) == m.plain \o FlattenSeq(DatasOf(m))
CaptureIsBody ==
    Agreed /\ message.side \in Self.reader.captures =>
        /\ IsPrefix(capture, DataOf(message))
        /\ at = "done" /\ out = BodyOf(message) => capture = UpTo(Cap, DataOf(message))

\* What follows the head of a CONNECT reaches the tunnel, or the handshake, in
\* order and from the first byte.  The engine loses what it had read ahead, and
\* proxy_NoMITM takes its first recv for the head, be it less or more.
TunnelFromTheFirstByte ==
    message.side = "connect" /\ at = "tunnel" =>
        LET arrives == out \o prefix \o Coming IN
        CASE Self.ahead = "kept" -> arrives = message.next
          [] Self.ahead = "dropped" -> IsSuffix(arrives, message.next)
          [] OTHER -> IsSuffix(arrives, Stream(message))
-----------------------------------------------------------------------------
(* Why they hold: where the reader is in the stream.                       *)

Before(parts, n) == Len(FlattenSeq(SubSeq(parts, 1, n)))
HeadEnd(m) == Len(HeadOf(m))
BodyEnd(m) == HeadEnd(m) + Len(BodyOf(m))
ChunkAt(m, n) == HeadEnd(m) + Before(ChunksOf(m), n - 1)
DataAt(m, n) == ChunkAt(m, n) + Len(Line(m.chunks[n].size))
TrailerAt(m, n) == HeadEnd(m) + Len(FlattenSeq(ChunksOf(m))) + Before(TrailersOf(m), n - 1)

\* In the head: at the beginning of a line, with the names of those before it.
InHead ==
    /\ at = "first" => Decides
    /\ at \in {"first", "start"} =>
          head = <<>> /\ \E n \in 0..StartOf(message) - 1 : used = Before(LinesOf(message), n)
    /\ at = "headers" =>
          \E n \in StartOf(message)..Len(message.lines) :
              /\ used = Before(LinesOf(message), n)
              /\ head = SubSeq(NamesOf(message), 1, n - StartOf(message))
    /\ at \in {"first", "start", "headers"} => out = <<>> /\ capture = <<>> /\ prefix = <<>>

\* Behind it: the framing is that of the whole head, and the places are its own.
InTransfer == at \in {"exact", "size", "crlf", "trailers", "close", "done"}
Followed ==
    /\ InTransfer =>
          /\ head = NamesOf(message)
          /\ mode = Framing.mode /\ mode # "error" /\ used >= HeadEnd(message)
    /\ at \in {"size", "crlf", "trailers"} => mode = "chunked"
    /\ at = "exact" => mode \in {"length", "chunked"} /\ left > 0
    /\ at = "close" => mode = "close"

\* What was passed on is the body as far as the reader is.
Passed ==
    Agreed =>
        /\ Len(out) <= Len(BodyOf(message)) /\ out = SubSeq(BodyOf(message), 1, Len(out))
        /\ InTransfer => Len(out) = used - HeadEnd(message)

\* The capture is the first n units of the data, or Cap of them.
Captures(n) ==
    message.side \in Self.reader.captures => capture = UpTo(Cap, SubSeq(DataOf(message), 1, n))

InPlain ==
    Agreed /\ mode # "chunked" /\ InTransfer =>
        /\ Captures(used - HeadEnd(message))
        /\ mode = "length" /\ at = "exact" => used + left = BodyEnd(message)
        /\ at = "done" => used = BodyEnd(message) \/ (mode = "close" /\ received < BodyEnd(message))

\* In a chunked body: at the beginning of a size, in the data, at its end, or at
\* the beginning of a trailer.  A size that is none is not passed.
Chunking ==
    mode = "chunked" /\ (IsChunked(message) \/ (Self.head.careful /\ BadlyChunked(message)))
InChunks ==
    Chunking =>
        /\ at = "size" =>
              \E n \in DOMAIN message.chunks :
                  used = ChunkAt(message, n) /\ Captures(Before(DatasOf(message), n - 1))
        /\ at = "exact" =>
              \E n \in DOMAIN message.chunks :
                  /\ FullChunk(message.chunks[n]) /\ left <= Len(message.chunks[n].data)
                  /\ used + left = DataAt(message, n) + Len(message.chunks[n].data)
                  /\ Captures(Before(DatasOf(message), n) - left)
        /\ at = "crlf" =>
              \E n \in DOMAIN message.chunks :
                  /\ FullChunk(message.chunks[n]) /\ message.chunks[n].data # <<>>
                  /\ used = DataAt(message, n) + Len(message.chunks[n].data)
                  /\ Captures(Before(DatasOf(message), n))
        /\ at \in {"trailers", "done"} => IsChunked(message) /\ Captures(Len(DataOf(message)))
        /\ at = "trailers" => \E n \in DOMAIN message.trailers : used = TrailerAt(message, n)
        /\ at = "done" =>
              used = BodyEnd(message) \/ (Self.reader.endsEarly /\ received < BodyEnd(message))

\* A capture stays a beginning of the data when the transfer fails.
CaptureBegins ==
    Agreed /\ message.side \in Self.reader.captures =>
        \E n \in 0..Len(DataOf(message)) : Captures(n)

\* Into a tunnel goes all of the stream from some place on.
InTunnel ==
    at = "tunnel" =>
        /\ message.side = "connect" /\ used = received
        /\ \E from \in 0..received :
              /\ out \o prefix = SubSeq(Stream(message), from + 1, received)
              /\ Self.ahead = "kept" => from = HeadEnd(message)
              /\ Self.ahead = "dropped" => from >= HeadEnd(message)

ReaderInv ==
    TypeOK /\ InHead /\ Followed /\ Passed /\ InPlain /\ InChunks /\ CaptureBegins /\ InTunnel
=============================================================================
