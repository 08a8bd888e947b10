------------------------------ MODULE MCNqLoop ------------------------------
(* NqLoop for TLC. *)
EXTENDS NqLoop
=============================================================================
