----------------------------- MODULE MCH2Bridge -----------------------------
(* Instances of H2Bridge for TLC: what the peers may do in each run.       *)
EXTENDS H2Bridge

RespTrailers == {"trailers"}
ReqTrailers == {"reqTrailers"}
TwoStreams == {"rst", "goaway"} \cup ReqTrailers
OneStream == PeerBehaviours \ (RespTrailers \cup ReqTrailers)
=============================================================================
