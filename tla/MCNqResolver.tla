---------------------------- MODULE MCNqResolver ----------------------------
(* NqResolver for TLC. *)
EXTENDS NqResolver
=============================================================================
