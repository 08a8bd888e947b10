----------------------------- MODULE MCNqHandle -----------------------------
(* NqHandle for TLC. *)
EXTENDS NqHandle
=============================================================================
