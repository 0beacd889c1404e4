---------------------------- MODULE MCCertCache ----------------------------
(* Four connections, two hosts: two races at once, or three threads racing *)
(* for one host while a fourth is served.                                  *)
EXTENDS CertCache, TLC
CONSTANTS c1, c2, c3, c4, h1, h2

MCConn == {c1, c2, c3, c4}
MCHosts == {h1, h2}
Symmetric == Permutations(MCConn) \cup Permutations(MCHosts)
=============================================================================
