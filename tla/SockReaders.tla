------------------------------ MODULE SockReaders ------------------------------
(***************************************************************************)
(* Every program has its own copy of SockReader, of readHead and the       *)
(* framing, and of what happens to bytes that were read together with the  *)
(* head of a CONNECT.  The records say where the copies differ; SockReader *)
(* interprets them.                                                        *)
(***************************************************************************)
(* The class.                                                              *)
(*   bounded   readLine gives up on a line beyond MAX_HEAD_BYTES;          *)
(*   sizes     a chunk size is "checked" (a digit, and at most             *)
(*             MAX_BODY_LEN), what "strtoll" makes of it, or "wraps";      *)
(*   endsEarly an end of the stream among the trailers is the last one;    *)
(*   captures  the sides whose bodies are captured.                        *)
V2Reader == [bounded |-> TRUE, sizes |-> "checked", endsEarly |-> FALSE, captures |-> {}]
V3Reader == V2Reader
V4Reader == V2Reader
PlanAReader == [V2Reader EXCEPT !.captures = {"request"}]
PlanBReader == PlanAReader
PureM2Reader == [bounded |-> FALSE, sizes |-> "strtoll", endsEarly |-> TRUE, captures |-> {}]
NoMitmReader == PureM2Reader
MitmPureReader == PureM2Reader
EngineReader == [bounded |-> TRUE, sizes |-> "wraps", endsEarly |-> FALSE,
                 captures |-> {"request", "response"}]

(* readHead and the framing.                                               *)
(*   careful   the whole head has a limit, names may not be empty, and a   *)
(*             request whose length is not certain is an error;            *)
(*   lengths   a Content-Length is "checked" or what "strtoll" makes of it;*)
(*   method    the answer to HEAD is known to have no body.                *)
V2Head == [careful |-> TRUE, lengths |-> "checked", method |-> TRUE]
V3Head == V2Head
V4Head == V2Head
PlanAHead == V2Head
PlanBHead == V2Head
PureM2Head == [careful |-> FALSE, lengths |-> "strtoll", method |-> TRUE]
NoMitmHead == PureM2Head
MitmPureHead == PureM2Head
EngineHead == [careful |-> FALSE, lengths |-> "checked", method |-> FALSE]

(* After the head of a CONNECT, what was read ahead is "kept": sent ahead  *)
(* of the tunnel by proxy_v3, given to the handshake by the BIO of the     *)
(* others.  The engine has it "dropped".  proxy_NoMITM looks at what the   *)
(* "first" recv brought, and drops it.  Or there is "no" CONNECT.          *)
V3Ahead == "kept"
V4Ahead == "kept"
PlanAAhead == "kept"
PlanBAhead == "kept"
MitmPureAhead == "kept"
EngineAhead == "dropped"
NoMitmAhead == "first"

Copy(reader, head, ahead) == [reader |-> reader, head |-> head, ahead |-> ahead]

CopyOf == [v2 |-> Copy(V2Reader, V2Head, "no"), v3 |-> Copy(V3Reader, V3Head, V3Ahead),
           v4 |-> Copy(V4Reader, V4Head, V4Ahead),
           planA |-> Copy(PlanAReader, PlanAHead, PlanAAhead),
           planB |-> Copy(PlanBReader, PlanBHead, PlanBAhead),
           pureM2 |-> Copy(PureM2Reader, PureM2Head, "no"),
           noMitm |-> Copy(NoMitmReader, NoMitmHead, NoMitmAhead),
           mitmPure |-> Copy(MitmPureReader, MitmPureHead, MitmPureAhead),
           engine |-> Copy(EngineReader, EngineHead, EngineAhead)]

\* One program for all that are the same.
Different(programs) ==
    {CHOOSE p \in programs : CopyOf[p] = copy : copy \in {CopyOf[p] : p \in programs}}
=============================================================================
