---------------------------- MODULE MCSmartPlug ----------------------------
(* SmartPlug where a long press takes 4 ticks, with room for one report. *)
EXTENDS SmartPlug

MCLongTicks == 4
MCQueueLen  == 1
=============================================================================
