--------------------------- MODULE MCProvisioning ---------------------------
(* Provisioning with two descriptors, so that a leak shows. *)
EXTENDS Provisioning

MCNumSockets == 2
=============================================================================
