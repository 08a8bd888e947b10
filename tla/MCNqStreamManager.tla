-------------------------- MODULE MCNqStreamManager -------------------------
(* NqStreamManager for TLC. *)
EXTENDS NqStreamManager
=============================================================================
