----------------------------- MODULE MCTunnels -----------------------------
(* Model-checking instance of Tunnels: one or two URLs, a pool of records *)
(* large enough for a URL to be re-created and reconnected twice.         *)
EXTENDS Tunnels

MCRecs == 1..3
MCSizeMod == 2^20
MCRecs4 == 1..4
MCRecs2 == 1..2
=============================================================================
