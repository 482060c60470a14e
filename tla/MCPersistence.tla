---------------------------- MODULE MCPersistence ----------------------------
(* Model-checking instance of Persistence. *)
EXTENDS Persistence, TLC
=============================================================================
