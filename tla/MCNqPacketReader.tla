-------------------------- MODULE MCNqPacketReader --------------------------
(* NqPacketReader for TLC. *)
EXTENDS NqPacketReader
=============================================================================
