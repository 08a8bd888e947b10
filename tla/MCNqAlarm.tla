------------------------------ MODULE MCNqAlarm -----------------------------
(* NqAlarm for TLC. *)
EXTENDS NqAlarm
=============================================================================
