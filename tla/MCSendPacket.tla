---------------------------- MODULE MCSendPacket ----------------------------
(* A small instance of SendPacket for TLC. *)
EXTENDS SendPacket
=============================================================================
