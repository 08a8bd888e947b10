------------------------------ MODULE MCNqClient ----------------------------
(* NqClient for TLC. *)
EXTENDS NqClient
=============================================================================
