----------------------------- MODULE MCNqServer -----------------------------
(* NqServer for TLC. *)
EXTENDS NqServer
=============================================================================
