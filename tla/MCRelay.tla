------------------------------- MODULE MCRelay -------------------------------
(***************************************************************************)
(* One side sends more than a connection holds; the other as much.         *)
(***************************************************************************)
EXTENDS Relay

MCMaxSend == [client |-> 3, upstream |-> 2]
MCFew == [client |-> 2, upstream |-> 1]
=============================================================================
