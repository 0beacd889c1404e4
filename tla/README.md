# local-proxy-lab: models and proofs

The repository is a series of proxies that grow from a one-shot relay to an
HTTPS-decrypting proxy with an HTTP/2 bridge (`proxy_ToInfinity`).  This
directory holds TLA+ models of the parts that carry state over several steps or
actors, the TLC configurations that check them, and TLAPS proofs of the most
important invariants.

| module | what it models | proved in |
|---|---|---|
| `H2Bridge` (`MCH2Bridge`) | the HTTP/2 bridge, `proxy_ToInfinity/src/Protocol/Http2Engine.cpp` | `H2BridgeProofs`, `H2PassingProofs` |
| `CertCache` (`MCCertCache`) | the leaf certificate cache and the threads that use it, `Crypto/TlsManager.cpp`, `Http1Engine.cpp:304-307`, `Core/Context.h` | `CertCacheProofs` |
| `Relay` (`MCRelay`), `StreamPipe` | the full-duplex relays (`proxy_v1`, `proxy_pure_m1`) and tunnels (`proxy_v3`, `proxy_NoMITM`, `proxy_pure_m3`); `StreamPipe` is what they promise | `RelayProofs`, `StreamPipeProofs` |
| `Http1Exchange` (`MCHttp1Exchange`), `Http1Loops` | the thirteen HTTP/1.1 keep-alive loops; `Http1Loops` says where they differ | `Http1ExchangeProofs` |
| `SockReader` (`MCSockReader`), `SockReaders` | the buffered reader, the head and the framing of nine programs; `SockReaders` says where the copies differ | `SockReaderProofs` |
| `Connections` (`MCConnections`), `ConnectionPaths` | the connections of one process, their socket numbers, handshakes and releases, in eight programs; `ConnectionPaths` lists each program's steps | `ConnectionsProofs` |

To check them: `tlc -config H2Streams.cfg MCH2Bridge` (each run below names its
module), and `tlapm H2BridgeProofs.tla`.  `PROJECT.json` lists the runs, the
source lines of every definition, the hazards, and for every checked property a
mutant: a plausible bug in one operator that makes TLC find the property
violated.  The mutants stand in the modules, next to the operator they change
(`ResumeC_Forgotten` beside `ResumeC`).

The repository has nine copies of the same classes and functions, each a little
different.  They are not modelled nine times: a module of records
(`Http1Loops`, `SockReaders`, `ConnectionPaths`) holds one entry per program and
says what that program does at the places where the copies differ, and one
module interprets the records.  `PROJECT.json` maps each record to the code of
its program, and the interpreting definitions to the program that shows them
best.

## 1. Inventory

**HTTP/2 bridge (`Http2Engine`).**  One thread per connection couples an
nghttp2 server session (browser) with a client session (origin).  State: one
`H2Stream` per client stream with both body buffers, their end marks, the header
block and the upload capture; the map `byUpstream`; nghttp2's sessions; the two
"closed" flags.  Operations: the callbacks (begin headers, header, frame, data
chunk, stream close), the two body providers (`reqBodyRead`, `respBodyRead`),
`submitUpstreamRequest`, `submitClientResponse`, and the loop send / send /
select / receive / receive.  Callbacks of one session change buffers that the
providers of the other read.  Hard: a provider that answers DEFERRED sleeps
until some later callback wakes it (docs: `proxy_beyond_docs/resume-hard-task.md`);
frames of many streams interleave; aborts must cross from one side to the other;
sockets block; the origin limits concurrent streams; the end of a body must come
with its last byte.  Correct when: no lost wakeup, no cross-talk, bodies whole,
aborts passed on, nothing owed when the loop sleeps, the analyzer called once.

**Leaf certificate cache (`CertAuthority` in `TlsManager.cpp`; the same class in
proxy_v4 and the plans).**  State: `cache_` (host to `SSL_CTX*`) under `mtx_`,
OpenSSL's reference counts.  `serverCtxForHost` looks up, builds without the
lock, looks again and publishes.  Every connection thread calls it.  Hard: races
for one host; a raw pointer used after the lock is released.  Correct when: one
leaf per host, no leak, no double free, no use after free.

**Full-duplex relay (`proxy_v1`, `proxy_pure_m1`) and CONNECT tunnel
(`proxy_v3`, `proxy_NoMITM`, `proxy_pure_m3`).**  State: two sockets, two threads
with a buffer each, the bytes read with the head.  Hard: short reads and sends,
back-pressure in one direction, half-close, a join before the close, broken
connections, the receive timeout.  Correct when: bytes in order, no thread on a
closed handle, an end of stream is never a truncation, every session ends.

**HTTP/1.1 exchange (`HandleClient` of `proxy_v2`, `proxy_v3`, `proxy_v4`,
`proxy_pure_m2`, `proxy_NoMITM`, `proxy_MITM_pure` and both plans; `proxyExchange`
of the decrypting ones; `Http1Engine::process`).**  State: the connection to an
origin and its `host:port`, the framing of the current message, the captured
body.  One thread reads a request, forwards it, reads the response, forwards it,
decides on keep-alive.  Hard: pipelining, retargeting, stale keep-alive
connections, early or late responses, cut bodies, responses without bodies,
timeouts, transfers whose result is ignored.  Correct when: answers belong to
their requests, a cut response is the last thing sent, close is honoured, every
request settles, the analyzer and the upload log get each request once.

**`SockReader`, `readHead` and the framing (a copy in every program above).**
State: a buffer with an offset, the message's framing, what is left of it, the
capture, and what was read ahead of a tunnel (`PrefixBio` in the decrypting
programs).  Operations: `readLine`, `readHead`, `requestBodyMode`,
`responseBodyMode`, `forwardExact`, `forwardChunked`, `forwardUntilClose`,
`takeBuffered`.  Hard: `recv` cuts the stream anywhere; what is read beyond a
message belongs to the next one or to the handshake; ambiguous lengths; chunk
sizes that overflow; lines without an end.  Correct when: the body that is passed
on is the sender's, nothing ambiguous is passed on as complete, buffers and
captures are bounded.

**Connection set-up and release (`HandleClient`, `HandleConnect`,
`HandleConnectMITM`, `Http1Engine::process` with `Context`).**  State: the
sockets, the SSL objects, the per-connection context, the BIO's data, what ALPN
chose on both sides.  Every step may fail, and each early return releases by
hand what was made so far (the engine has a destructor).  The system gives a
number that was closed to the next socket of any thread.  Correct when: nothing
leaks, nothing is released twice, no thread closes another one's socket, both
sides speak one protocol.

**Accept loop and threads (`ProxyServer`, `main`).**  One detached thread per
connection; `stop()` is not called by `main`.  It is `Accept` in `Connections`.

**Traffic analyzer, Logger.**  Text scanning of captured bodies; a mutex around
`printf`.  Not modelled (section 5); the models say when the analyzer is called
and with which part of the body.

**Plan B (`proxy_plan_B`).**  The single-file predecessor of `proxy_ToInfinity`:
its loops, reader and set-up are records of the modules above; its bridge is the
one of `Http2Engine` but for the capture, which it makes of uploads only.

**Teaching programs** (`proxy_multithread`, `proxy_relay`, `TCP_toy`,
`c_basics_lab`, `server_client_proxy`).  One request and one buffer; not modelled.

Interactions: `ProxyServer` starts a thread per connection; the thread runs
`Http1Engine`, which uses the certificate cache, performs both handshakes and
hands h2 connections to `Http2Engine`.  The threads share only the cache, the
analyzer's counter and the log.  So each protocol engine can be modelled for one
connection, and the cache for many.

## 2. The modules

### H2Bridge

`str` is the map of `H2Stream`s (`uid = 0` stands for -1), `byUpstream` is
`br.byUpstream`, `csess` and `usess` are nghttp2's streams as the bridge uses
them, `pc` the place in the loop of `Http2Engine::process` (lines 335-363).
`client` and `origin` only observe what each peer sent and received.

| code | actions |
|---|---|
| `nghttp2_session_send(csess)`, 336, with `respBodyRead` 80-92 | `SendHeadersC`, `SendRstC`, `SendDataC`, `DeferC`; `SendDoneC`, `SendBlockC`, `SendFailC` |
| `nghttp2_session_send(usess)`, 337, with `reqBodyRead` 66-78 | `SendRstU`, `SendHeadersU`, `DropHeadersU`, `SendDataU`, `DeferU`; `SendDoneU`, `SendBlockU`, `SendFailU` |
| the end tests and `select`, 339-355 | `Stop`, `Wake`, `Timeout` |
| `pumpRecv(csess)` and the callbacks | `ClientHeaders` (with `submitUpstreamRequest`), `ClientData`, `ClientTrailers`, `ClientRst`, `ClientGoaway`, `ClientEof`, `RecvDoneC`, `RecvFailC` |
| `pumpRecv(usess)` and the callbacks | `OriginHeaders` (with `submitClientResponse`), `OriginData`, `OriginRst`, `OriginGoaway`, `OriginEof`, `RecvDoneU`, `RecvFailU` |

A frame and every callback nghttp2 runs for it are one action: the thread does
nothing in between.  `DATA` with END_STREAM is one action although nghttp2 calls
`cb_on_data_chunk` and then `cb_on_frame_recv`, because no other step can come
between them.

nghttp2 itself is not in the repository.  It is modelled from its use: HEADERS
and RST_STREAM items go before DATA; a provider is attached when its HEADERS go
out; END_STREAM or a reset drops what is queued; a request waits while the
origin's limit is reached; a queued request is dropped after a GOAWAY; a close
callback runs once.  Left out: flow-control windows and partial frames (a blocked
socket, `stall`, has the same effect on the bridge: bytes stay queued and the
loop goes on to select), header contents, `respSubmitted` and status (written,
and read only for logs), priorities.  A frame the proxy sends reaches its peer
at once, and a peer chooses its frame when the loop receives it; the loop cannot
tell a frame in flight from one not sent yet.

`Peer` switches what peers and sockets may do (`rst`, `goaway`, `eof`, `stall`,
`fail`, `info` for 1xx, `trailers`, `reqTrailers`).

### CertCache

One action per block under the lock and per step outside it (`LookupHit`,
`LookupMiss`, `Build`, `BuildFail`, `PublishLoses`, `PublishWins`, `SslNew`,
`Close`).  A context is named after the connection that built it, since a
connection builds at most one.  `refs` is OpenSSL's count: `SSL_CTX_new` gives
one reference, which the cache takes over; `SSL_new` and `SSL_free` take and drop
one.  `TlsManager::cleanup` is shut-down code that no connection thread runs.

### Relay and StreamPipe

`main` is `HandleClient` / `HandleConnect` up to the relay, `thr[f]` the thread
that reads from side `f`, `sock[s]` the socket to peer `s` with what has arrived
(`in`), what is on the way out (`out`) and the two half-closes.  One action per
system call: `ReadHead`, `Connect`, `SendReply`, `SendFirst`, `StartRelay`,
`Recv`, `Send`, `RecvEnd`, `RecvTimeout`, `SendFails`, `Finish`.  `variant`
selects the program: `v1`, `pure` (`proxy_pure_m1`, and `proxy_pure_m3` for plain
requests), `tunnel` (`proxy_v3`) and `blind` (the tunnels of `proxy_NoMITM` and
`proxy_pure_m3`, which do not look at what the sending of the reply returns).
`proxy_v1` loops over partial sends, `proxy_pure_m1` calls `send` once; on a
blocking socket both take the bytes as room appears and return when all are
taken, so both are `Send`.  The peers' steps are external: they send, read, end
their side, and with `reset` their connection breaks.  The error replies of the
tunnel are left out.

`StreamPipe` is the promise: each side reads what the other sent, in order, and
the end only after all of it.  A pipe that has failed keeps the order and
promises nothing about ends.  `ImplementsPipe` in `Relay` instantiates it with
what the peers have sent and read; the pipe counts as failed once a connection
broke, when the session was refused, and for `tunnel`, whose receive timeout
looks like an end.  A CONNECT request and the 200 are not part of the stream.

### Http1Exchange and Http1Loops

`pc` is the place in the loop: `reqHead`, `sendHead`, `reqBody`, `respHead`,
`respBody`, `done`.  `cin` and `up.out` are what each `SockReader` will read: its
buffer and the kernel's, as one queue of pieces (a head, pieces of a body, a last
chunk).  Heads are records that say what the loop asks of them: method class,
host, framing, length, `Connection`.  `TakeRequest` is `readHead`, the framing and
the connection to the right origin; `RefuseRequest` the early replies;
`SendHead` and `ForwardRequest` the sending; `TakeResponse`, `ForwardResponse`,
`ResponseEnds` the response; `NoResponse`, `RequestEnds`, `SendFails`,
`ReplyFails` the failures; `Ended` the decision on keep-alive.

The plain loop of plan B and the three pure programs go on after a request body
that did not get through, and `readHead` then reads what is left of it (`Unread`).
The last bytes of a body with a length have no line end of their own, so they and the
next request's start line are one line: `TakeUnread` sends that request on, with a
method nobody knows in place of its own (GET stands for such a method, which asks for
no upload and whose answer has a body).  A last chunk whose first line was already
read is an empty line, which `readHead` skips: the next request is then read as it is.
The lines of a chunk or of a body are no head, and the connection is given up
(`RefuseRequest`); `RefuseUnended` is the same for a body that holds a line end while
its next request has not come.  Such a line end is up to the sender of the body, so
`RefuseUnended` is not in `Exchange` and no fairness is assumed of it; without it the
loop waits there for its timeout (`RequestEnds`) or for the client.

A record of `Http1Loops` says of a program: whether the connection to the origin
is kept over requests, made for each, or belongs to the TLS session; which
connections have a receive timeout; what is done about each of seven failures
(close, answer 400 or 502, do not look); whether HTTP/1.0 and HEAD are known;
what is captured, and when a log line calls the capture cut.  Loops whose records
are equal run once (`Representatives`).

Peers frame their messages correctly; text parsing is abstracted to its
outcome ("error": a head this program refuses), and is the subject of
`SockReader`.  A body is text that holds no head and no header of its own: a rest of a
body that is itself a request is not modelled.  After a 1xx response or an answer to
HEAD in the engine the loop may read a piece of a response where it expects a head, or
the reverse; what the parser makes of those bytes is abstracted to giving the connection
up.  Writes block only until they are taken.

### SockReader and SockReaders

One message on its way through the reader.  A message is what its sender put
together: lines with one of the two ends of line, a plain body or chunks with
trailers, and what follows (`next`); `IsMessage` says what is taken for granted of
one, which is not that its framing is right.  Its stream is a sequence of units (a
word of a line, a byte of a body, `cr`, `lf`) and `Fill` is `recv` with any
fragment of it; `RecvFails` its end, an error or the timeout.  `StartLine`,
`HeaderLine`, `EndOfHead` are `readHead` with the framing decision
(`CarefulRequestMode`, `FirstMode`, `ResponseMode`), `SizeLine`, `ForwardExact`,
`EndOfChunk`, `Trailer`, `ForwardUntilClose` the transfers, `EndOfConnect`,
`FirstRecv`, `TunnelRead` the way into a tunnel or handshake.  A chunk size is a
word: one with a value in `SizeOf`, one that is too large, one that wraps to a small
number in 64 bits, or none; a length has its value in `LengthOf`, or is no number
(`clBad`), or negative or larger than any body (`clBeyond`).  `strtoll` and the
conversion to `size_t` make a negative length of a pure program a number of bytes that
never come; the other readers refuse both words or do not count them.

`proxy_NoMITM` decides by its first `recv` alone what a connection is
(`FirstRecv`).  If that holds the target of a CONNECT the tunnel begins, and the rest
of what was read is lost; if it ends in the target the client is dropped; if it ends
before the target, or an empty line comes first, `HandleHttp` reads on and the CONNECT
is a plain request, framed and sent to its `Host` like any other.

The properties compare what the reader does with what the sender means, which is
defined from the message alone: `Certain` (its head frames its body, and in one
way only), `Ambiguous` (a request with two lengths that differ, a length and a coding, a
length that is none or a coding other than chunked) and `BadlyChunked` (a chunk
whose size is no number or too large).

A record of `SockReaders` says whether lines and heads are bounded, how sizes and
lengths are read (checked, `strtoll`, a loop that wraps), whether the end of the
stream among trailers counts as the end, what is captured, and what becomes of
bytes read together with the head of a CONNECT.

### Connections and ConnectionPaths

A program is two ways, that of plain requests and that of CONNECT.  A way is a
sequence of steps, and a step names what is released, in order, when it fails;
`finish` is what is released at the end, `again` where a loop goes on.
`Connections` runs one thread per connection along a way: `Plainly`, `Upgrade`,
`Dial`, `Redial`, `OwnContext`, `AcceptTls`, `Handshake`, `Agree`, `Serve` are the
steps, `Release` is one `closesocket`, `SSL_free`, `SSL_CTX_free` or `delete`.
`table` says whose socket a number is: `closesocket` frees the number in the
thread's variable whoever has it by then.  `speaks` is what ALPN chose per side.

## 3. Runs

State counts are those of TLC with the given bounds.

| run | module, specification | bounds | properties |
|---|---|---|---|
| `H2Streams` | `MCH2Bridge`, `Spec` | 2 streams, 1 chunk per body, limit 1; `rst`, `goaway`, `reqTrailers` (1.7 M states) | `PassingInv`, `NoCrossTalk`, `AbortsPropagate` |
| `H2OneStream` | `MCH2Bridge`, `FairSpec` | 1 stream, 2 chunks, capture of 1; everything peers and sockets may do but send trailers (673 k) | `NoLostWakeup`, `StreamMapsAgree`, `CompleteRequest`, `CompleteResponse`, `AnalyzedOnce`, `OwesNothing`, `SettledIsFinal`, `ResponsesArrive`, `RequestsArrive` |
| `H2TrailersTruncate` | `MCH2Bridge`, `Spec` | `trailers` | `CompleteResponse` is **violated** |
| `H2ReqTrailersIgnored` | `MCH2Bridge`, `Spec` | `reqTrailers` | `EndIsHandled` is **violated** |
| `CertCache` | `MCCertCache`, `Spec` | 4 connections, 2 hosts, symmetric | `CacheInv`, `NoUseAfterFree`, `OneLeafPerHost`, `PublishedForever` |
| `Relay` | `MCRelay`, `FairSpec` | all variants, 3 and 2 bytes, window 2; `reset`; the tunnel's peers may keep their side open (121 k) | `RelayInv`, `BytesInOrder`, `ImplementsPipe`, `EveryByteArrives`, `SessionEnds` |
| `RelayHalfOpen` | `MCRelay`, `FairSpec` | `proxy_v1`, 2 and 1 bytes; peers may keep their side open | `SessionEnds` is **violated** |
| `TunnelTimeout` | `MCRelay`, `Spec` | the tunnel of `proxy_v3`, 2 and 1 bytes | `OnlyIdleConnectionsTimeOut` is **violated** |
| `Http1Loop` | `MCHttp1Exchange`, `FairSpec` | thirteen loops, 2 requests out of 5, 4 responses, 2 hosts, capture of 1; `info` (695 k) | `ExchangeInv`, `Paired`, `CutIsVisible`, `RightOrigin`, `AnalyzedInOrder`, `CutCaptureIsTold`, `CloseIsHonoured`, `EveryRequestSettles` |
| `SockReader` | `MCSockReader`, `Spec` | nine readers, 29 messages, fragments of up to 5 units, lines of 9, capture of 2 (16 k) | `ReaderInv`, `BodyIntact`, `NeverGuesses`, `BufferBounded`, `CaptureIsBody`, `TunnelFromTheFirstByte` |
| `Connections` | `MCConnections`, `Spec` | eight programs, 2 connections, 3 socket numbers, symmetric (24 k of 247 k) | `ConnectionsInv`, `SocketsStayOurs`, `NothingLeaks`, `FreedInOrder` |
| `EngineAlpn` | `MCConnections`, `Spec` | the engine, 1 connection, 2 socket numbers | `SameProtocol` is **violated** |

Why these bounds.  Two streams under a limit of one make one request wait in
nghttp2 while the other is open, be cancelled there, or be refused by GOAWAY;
any confusion of two streams shows with two.  `OwesNothing`, false with trailers, is
checked of one stream and proved of any number; trailers of a response are in the run
that shows what they do, and the proofs of the other properties hold with them.  Two chunks give a body that is
read in one turn, in two, or left over when the end arrives; a capture of one is
smaller and larger than a body.  Four connections race three for a host with a
fourth elsewhere, or two and two.  A window of 2 and 3 bytes give short reads,
short sends and a full buffer.  Two requests are a keep-alive decision, a
pipelined request, a retarget and a stale connection; a third request finds the
loop in a state the second one has seen (the loop keeps nothing but `up` and its
reader from one request to the next).  That is true of the loop and not of the
client: with three requests one can be answered wrongly after a 1xx and another
follow, so the proof, and then a run with three requests and a capture of 2
(too long for the standing run), showed that `CutIsVisible` needs
the exception `Told`.  A body of two pieces leaves a rest of one or two for the next
head; the chunked response has only its last chunk, for the data of a chunk is like that
of the response with a length.  Two
connections over three numbers make one thread reuse a number the other has just
closed, and run out of numbers; a third connection adds a bystander.  A message of
`SockReader` is a dozen units, so fragments of up to five end inside every line,
between `cr` and `lf`, inside a chunk, and past the end of the message.  The
symmetries in `CertCache` (connections and hosts) and `Connections` (connections
and socket numbers) are sound: what they permute is told apart by nothing but its
name, and the properties are safety properties.

Deadlock is checked everywhere; the only states without a further step are those
after the program is done (`Terminated`).

**Fairness.**  `H2Bridge`: the thread keeps running its loop (weak fairness of
the loop's steps); a socket that blocks takes bytes again (strong fairness of
sending, which is disabled between turns).  A peer that stops reading for ever
is ended by the 30 s timeout, but only when the other side is quiet as well.
`Relay`: each thread runs, peers read what arrives, and, except for the programs in
`HalfOpen`, a peer that has read the end of the stream ends its own side.
`Http1Exchange`: the thread runs (where there is a receive timeout this is
enough: waiting is bounded); for the engine, which has no timeout, the origin
must answer and must close where its close is the end of the body.  No fairness
is assumed of clients.  `SockReader` and `Connections` are checked for safety only:
they have no waiting that another part could end.

### Findings

1. `H2TrailersTruncate`: a response with trailers is ended for the client before
   its buffered body is sent (`Http2Engine.cpp:208-212`).  Every HEADERS frame
   submits a response, trailers without a provider end the stream, and HEADERS go
   before DATA.
2. `H2ReqTrailersIgnored`: a request that ends with trailers is never ended
   towards the origin nor analysed (`Http2Engine.cpp:185, 197`).
3. `RelayHalfOpen`: the half-close that a comment of `proxy_v1` says ends both
   directions only tells the other peer; one that keeps its half open keeps both
   threads and sockets.
4. `TunnelTimeout`: the "idle" receive timeout of the tunnel is per direction, so
   a one-way transfer of more than 30 s is half-closed while data flows.
5. `EngineAlpn`: comments in `Http1Engine::process` (302-303, 317-318) say that offering
   the origin only the client's protocol prevents a mismatch of h2 and HTTP/1.1.  An
   origin may ignore the offer; what it selected is stored (338) and never compared, so
   the engine serves an h2 client with an origin that speaks HTTP/1.1.  Plan B compares
   the two and gives up (1093-1098).

### Exceptions

The following behaviours are in the models, and a property that would fail of
them names them.  For all but the first two rows we know of no document that claims
otherwise.

| name | program and code | exception of |
|---|---|---|
| `Checks("respBody")`, `Checks("reqBody")` | the plain loops of plan B and of the pure programs do not look at what a body transfer returns | `CutIsVisible`, `RightOrigin`, `AnalyzedInOrder`, `CutCaptureIsTold` |
| `~WholeBeforeNext` | the same loops take the rest of a body for the beginning of a head, and the client gets the answer to what came of it | `Paired` |
| `Told` | every loop takes a 1xx response for the answer | `Paired`, `CutIsVisible`, `EveryRequestSettles` |
| `Stuck` | a loop without timeouts waits for ever: the engine for the body of an answer to HEAD, a pure program for what a cut response owes | `EveryRequestSettles` |
| `Disagrees` | the engine frames an answer to HEAD by its headers; `headerGet` finds the first of two `Transfer-Encoding` lines | `BodyIntact`, `CaptureIsBody` |
| `EndsUnnoticed` | a body without a length ends with the connection, however that ends; the pure readers also take a broken trailer for the last | `BodyIntact` |
| `Self.ahead` | the engine drops what it read after the head of a CONNECT; `proxy_NoMITM` drops the rest of the `recv` that begins a tunnel, and sends what it did not read of the head into it | `TunnelFromTheFirstByte` |
| `ClosesTwice` | early returns of `proxy_pure_m3`'s `HandleHttp` close the client's socket, and `HandleClient` closes the number again | `SocketsStayOurs` |
| `ForgetsClient` | plan B keeps the client's socket when it refuses a port | `NothingLeaks` |

About the first two rows.  `proxy_plan_B.cpp:1168-1169`, `proxy_pure_m2.cpp:312-313`,
`proxy_NoMITM.cpp:400-401` and `proxy_MITM_pure.cpp:620-621` ignore what `forwardExact`
and `forwardChunked` return, and the loop returns to `readHead`.  So a request with a
body, an origin that answers early and closes, and a send that then fails leave the rest
of the body in the reader; in plan B a client that stalls for 30 s is enough.  If that
rest ends in `b`, the next request is sent on as `bGET / HTTP/1.1` while the first one
is incomplete.  `WholeBeforeNext` is false of these four loops: as an invariant of
`MCHttp1Exchange` with `Checked = {"pureM2"}`, or one of the other three, TLC gives this
trace in 13 or 14 states.  It is part of `RightOrigin` for the other nine.  The pure
programs say that product features were left out on purpose, yet also that the body is
forwarded exactly by its framing (`proxy_pure_m2.cpp:5-8`), and
`Report_docs/Report-proxy.md:227` says "손실 없이 전달·추출할 수 있다" ("can be forwarded
and extracted without loss").

## 4. Proofs

`H2BridgeProofs`, for every `N`, `MaxBody`, `Cap`, `UpLimit` and `Peer` that
satisfy `ConstantsAssumption`:

- `BridgeInvariant`: `Spec => []BridgeInv`.
- `NeverALostWakeup`, `MapsAlwaysAgree`: its parts `NoLostWakeup` and
  `StreamMapsAgree`.

`BridgeInv == TypeOK /\ StreamMapsAgree /\ Bookkeeping /\ NoLostWakeup` is
inductive.  `NoLostWakeup` alone is not: an upstream provider sleeps on the
buffer of the stream `byUpstream` names, while `ClientData` wakes the provider
that `uid` names, so the two maps must agree; and a callback that sets `respEof`
after a reset must find no provider, so `Bookkeeping` says that only live streams
have one and that `respEof` means the origin may send no more.  The proof has
two halves.  Types come first, one lemma per group of actions (`SendCTypes`,
`SendUTypes`, `RecvCTypes`, `RecvUTypes`).  For the rest, most actions leave a
stream unchanged, close it or start to abort it; `StepFacts` collects those
effects and `Strengthened` derives the invariant from them once, so each action
only shows its facts.  `ClientHeaders`, `ClientData`, `OriginHeaders` and
`OriginData`, which change buffers, are done one by one.

`H2PassingProofs`, for the same constants:

- `PassingInvariant`: `Spec => []PassingInv`, and from it `NeverCrossTalk`
  (`NoCrossTalk`), `RequestsAreWhole` (`CompleteRequest`), `AlwaysAnalyzedOnce`
  (`AnalyzedOnce`), `AbortsAlwaysPropagate` (`AbortsPropagate`) and the action
  property `SettledForGood` (`SettledIsFinal`).
- `ResponsesAreWhole`: if `"trailers" \notin Peer`, then `Spec => []CompleteResponse`.
- `SleepsOwingNothing`: if neither peer sends trailers, then `Spec => []OwesNothing`.

The two hypotheses are those that the findings of section 3 require: with response
trailers `CompleteResponse` is false (`H2TrailersTruncate`), and a request that ends
with trailers leaves its end owed to the origin (`H2ReqTrailersIgnored` shows that
it is never handled).  Everything else peers and sockets may do (resets, GOAWAY, closes,
1xx, stalls, failures) is covered.

`PassingInv` adds to `BridgeInv` what the two sides have in common.  `Bodies`
numbers the chunks of a body through: what the receiver has, and then the
buffer, are the first chunks of that stream (`Passes`), so a chunk that is taken
out of the buffer is the receiver's next one.  `Ends` ties together the four
places that know of an end: the sender, `reqEof` or `respEof`, nghttp2's half-closed
flags and the receiver; without it the EOF a provider returns could be early.
`PassedOn` says that what is no longer queued has arrived, which is what
`OwesNothing` needs when the loop sleeps.  `Untouched` says that nothing has come
through a stream before it is open, and that an origin knows a request by the
stream `byUpstream` names; it is what keeps one client's chunks from another.
`Untrailed` is the part that trailers break.  Most steps only end streams or move
`pc`; `EndsOnly` describes them and `EndsOnlyKeeps` shows once that they preserve
all of it.  The other actions have a lemma each (`SendDataCPasses`,
`ClientDataPasses`, ...), which rests on lemmas about bodies, queues and captures:
`PassesPut`, `PassesTake`, `PassesLeft`, `PassesWhole`, `QueuePut`, `QueueTail`,
`CapturePut`.

`CertCacheProofs`, for every finite `Conn` and any `Hosts`
(`ConnAssumption`): `CacheInvariant` (`CacheInv == TypeOK /\ Pointers /\
RefsExact` is inductive), `NeverUseAfterFree`, `AlwaysOneLeafPerHost`, and the
action property `CacheIsStable` (`PublishedForever`).  `Pointers` is what makes
the counts provable: a holder's pointer is the cached one, a builder's is its own
and unpublished, so the loser's `SSL_CTX_free` can only free its own.

`StreamPipeProofs`: `PipeKeepsItsPromise`, `Spec => []PipeInv` of the abstract pipe:
what a side has read is a beginning of what the other sent, and an end that was
read is true unless the pipe failed.  `TrueEnds` needs `NoGaps`: that a side which
has read as many bytes as were sent has read those bytes.

`RelayProofs`, for every `Window`, every `MaxSend` and any of the programs (the
proofs do not even need `RelayAssumption`):

- `RelayInvariant`: `Spec => []RelayInv`.
- `AlwaysInOrder`: `Spec => []BytesInOrder`.
- `RelayImplementsPipe`: `Spec => ImplementsPipe`, the refinement of `StreamPipe`.

`RelayInv == TypeOK /\ HandleDiscipline /\ Phases /\ Ends /\ Flows` is inductive.
`BytesInOrder` alone is not: it says nothing of the head, of sessions that are
over, nor of a direction whose source broke.  `Flows` numbers the bytes in the
four places between two peers (read, on their way, in the thread's buffer,
arrived) through, each place going on where the one before it stops (`Chain`);
the lemmas `ChainRecv`, `ChainSend`, `ChainRead`, `ChainPut` and `ChainLost` say
what each kind of step does to a chain.  `Phases` says that nothing moves before
its time (the 200 shifts the numbers towards the client by one, and it may only
be sent while there are none), `Ends` that a thread is over only when its source
has ended and was read to the end; together they make an end that a peer reads
true (`HonestEnds`).  For the refinement, `EndsStay` and `FailedStays` show that
nothing follows an end and that a failure lasts; so a step that moves no byte is
a `Close` of the pipe or a stutter (`PipeCloses`), and only `PeerSends`,
`PeerReads` and `PeerEnds` are left (`PipePuts`, `PipeTakes`, `PipeEnds`).

`Http1ExchangeProofs`, for any `Host`, `Requests`,
`Responses`, `Cap`, `MaxReq` and `Peer` that satisfy `ExchangeAssumption`, and any of the
thirteen loops:

- `ExchangeInvariant`: `Spec => []ExchangeInv`.
- `AlwaysPaired`, `CutsAreVisible`, `AlwaysRightOrigin`, `AlwaysAnalyzedInOrder`,
  `CutCapturesAreTold`: `Spec => []P` for `Paired`, `CutIsVisible`, `RightOrigin`,
  `AnalyzedInOrder` and `CutCaptureIsTold`.
- `CloseIsAlwaysHonoured`: the action property `CloseIsHonoured`.

`Paired` speaks only of what the client has; why the next piece it gets is the
right one is a fact about all three parties, and `ExchangeInv` states it one
party at a time.  `ClientInLine`: the pieces in the reader go on from the last
one the loop took to the last one the client sent.  `AtRequest`: the loop's
`left`, `captured` and target are those of the request it is at, so a body ends
where the client ended it.  `OriginInLine`: requests are answered once, in
order, and only after their heads were sent.  `InStep`: while the client is there
and no 1xx was passed on, the connection to the origin is in one of four states:
nothing is under way, it ended, the answer is still to come, or it is on its way
from its n-th piece (`Silent`, `Dead`, `Unanswered`, `AnswerFrom`).  This is where
a loop that kept a connection with the rest of a response on it would fail.
`RightOrigin` says of all thirteen loops where a piece goes and in which order, and of
those that look whether a body got through that a request is whole before the next one
begins; for the latter `AtRequest` has it that the loop never is at a new head with
pieces of the last request unread.  The four that do not look are not left out:
`TakeUnread` is a step like any other, and the proof shows that even then requests keep
their order and their hosts.  `ExchangeInv` carries `Told \/ InTurn`, which is stronger
than `Paired` and holds after `TakeUnread` too, because GET stands for the mangled
method on both sides.  `Paired` claims less: what an origin answers to such a request is
no answer to what the client asked.
`NobodyAsked` (nobody has asked for the end before the exchange the loop is at)
gives `CloseIsHonoured`, and `LogInLine` (the log is as far as the loop)
`AnalyzedInOrder`.

What differs from program to program is used in one place: the lemma
`LaxPrograms` reads off the records which programs ignore which failure.  Each
action has one lemma that says what it does whatever the record
(`TakeRequestEffect`, `ForwardResponseEffect`, ...); from these the
first half of the module proves the parts about the client, the requests and the
log, and the second half `InStep`, `Paired` and `CutIsVisible`.

`ConnectionsProofs`, for any `Conn`, any finite set `Handle` of positive socket
numbers and any of the eight programs (`ConnectionsAssumption`):

- `EveryWayIsBalanced`: a statement about the lists of `ConnectionPaths` alone.
  Wherever a function of these programs returns, after its last step or after one
  that failed, it gives back everything made so far, in an order that frees no
  BIO's session early, and the socket to the origin if it may hold one.  A missing
  `close` at one early return is what would break it.
- `ConnectionsInvariant`: `Spec => []ConnectionsInv`.
- `SocketsAlwaysOurs`, `NeverLeaks`, `AlwaysFreedInOrder`: `Spec => []P` for
  `SocketsStayOurs`, `NothingLeaks` and `FreedInOrder`.

`SocketsStayOurs` is not inductive: that a `close` closes a thread's own socket
needs that every number a thread keeps is open and nobody else's.  `ConnectionsInv`
says so (`InVariables`), and with it `Undisturbed`: no socket was closed under its
owner, except once a thread of `proxy_pure_m3` has closed its client's socket and
will close it a second time (`Disturbed`).  Four parts follow one thread
along its way.  `Untouched`: a thread that has not started or is done holds
nothing.  `GoingOn`: one that goes on has made only what the steps behind it make,
and may hold an origin only where the way says so.  `GivingBack`: in one that
failed, what is left to undo names everything it still holds, once, sessions
before their BIOs.  `Speaking`: HTTP/2 is spoken only by plan B and the engine,
and after the protocols were compared both sides speak the same.

The ways are worked out once (`Balanced`, `Shaped`, `Regular` for each of them), and the
steps are proved for any way that is right: `PassedKeeps`, `FailedKeeps`,
`FinishedKeeps`, `ReleaseKeeps` and `UpgradeKeeps` for the thread that moves,
`OthersKeep` for the rest, `SocketOpens`, `SocketCloses` and `SocketsAlone` for
the numbers they share.  The exceptions between programs (`ClosesTwice`,
`ForgetsClient`) enter through one lemma, `WaysAreRegular`.

`SockReaderProofs`, for any `Messages`, `LengthOf`, `SizeOf`, `Chunk`, `MaxHead` and
`Cap` that satisfy `SockReaderAssumption` (the messages are messages, the limits are
positive, and every word means one thing), and any of the nine programs:

- `ReaderInvariant`: `Spec => []ReaderInv`.
- `AlwaysBodyIntact`, `AlwaysRefusesToGuess`, `AlwaysCapturesTheBody`,
  `AlwaysFromTheFirstByte`, `AlwaysBounded`: `Spec => []P` for `BodyIntact`,
  `NeverGuesses`, `CaptureIsBody`, `TunnelFromTheFirstByte` and `BufferBounded`.

`BodyIntact` is far from inductive: that the next unit passed on is the right one
depends on the reader being where the sender put the body, and that on every line
and every chunk before it.  `ReaderInv` says for each place of the reader (`at`)
where in the stream it is.  `InHead`: at the beginning of the n-th line, with the
names of those before it.  `Followed`: behind the head the framing is the one
computed from all its names.  `InPlain` and `InChunks`: in a plain body, or at the
size, in the data, at the end of the n-th chunk, or at the n-th trailer; the latter
also for a badly chunked body, which a careful program follows up to the bad size and
no further.  `Passed`: what was passed on is the body up to that place.
`CaptureBegins` and `Captures`: so is the capture, without the framing and up to the
cap.  `InTunnel`: the tunnel has all of the stream from some place on.

The argument is about places.  `Part(s, p, q)` is the part of `s` between two
places and `Stands(s, p, w)` says that `w` is in `s` at `p`; `PartJoin`, `PartOfPart`
and `StandsPart` are their algebra.  A stream is flattened from lists, so the first
half of the module shows where `FlattenSeq` puts each of its parts (`FlatStands`),
and from it where the lines, chunks, data and trailers of a message stand (`HeadLines`,
`ChunkPlaces`, `DataPlaces`, `TrailerPlaces`).  These are inductions over the length of
a list; they use the least counterexample in a well-founded set (`LeastOf`, `FromZero`),
because the library's induction theorems take an operator as a parameter, which no
installed prover can instantiate.  `LineRead` is the step from the buffer to the
message: when the buffer starts at a line, the first `lf` in it is that line's, and if
there is none the line has not arrived.  `CertainFraming`, `AmbiguousRefused` and
`BadlyChunkedIs` compare the program's framing with the sender's; `CaptureGrows` is
about the cap.  Then there is one lemma per action (`SizeLineStep`, `ForwardExactStep`, ...),
where `BodyStep` says once what all steps within a body have in common.
`AlwaysBounded` needs only `TypeOK`: the buffer grows by one `recv`, and only where the
reader cannot go on with at most `MaxHead` units.

Only model-checked are the liveness properties of all modules: the prover does not
handle fairness and ENABLED.  Every invariant and every action property that a passing
run checks is proved.

## 5. Not modelled, and what could come next

Not modelled:

- `TrafficAnalyzer` beyond the calls to it: scanning captured text for multipart
  parts, decompressing and writing files.  The scan is a pure function of a string
  with no state over steps; the file sequence number restarts with the process and
  overwrites files, but no document says it should not.
- `Logger`, the text of logs, certificate fields, `CertAuthority::load` and
  `cleanup`, the set-up of the listening socket: sequential start-up or shut-down
  code, or text only.
- The teaching programs: one request, one buffer, no state.
- The internals of OpenSSL, nghttp2 and the sockets, modelled from their use.

Further refinement: one stream of `H2Bridge` implements a `StreamPipe` with aborts.
