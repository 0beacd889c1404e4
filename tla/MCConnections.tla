----------------------------- MODULE MCConnections -----------------------------
(***************************************************************************)
(* Two connections and three numbers: fewer than the four sockets the two  *)
(* may want, so a number that was closed soon has another owner.  Neither  *)
(* the numbers nor the connections are told apart by anything but their    *)
(* names.                                                                  *)
(***************************************************************************)
EXTENDS Connections, TLC

Alike == Permutations(Conn) \cup Permutations(Handle)
=============================================================================
