---------------------------- MODULE MCKeyDriver ----------------------------
(* KeyDriver where a long press takes 20 ticks. *)
EXTENDS KeyDriver

MCLongTicks == 20
=============================================================================
