-------------------------- MODULE MCMqttClientRaces --------------------------
(* Small instances of MqttClientRaces for TLC. *)
EXTENDS MCMqttClient, MqttClientRaces
=============================================================================
