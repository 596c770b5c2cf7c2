---------------------------- MODULE MCMqttClient ----------------------------
(* Small instances of MqttClient for TLC. *)
EXTENDS MqttClientSession, TLC

CONSTANTS main, run, h1, h2

OneHandler  == {main, run, h1}
TwoHandlers == {main, run, h1, h2}
HandlerSymmetry == Permutations({h1, h2})

\* A message with QoS 1, and a PUBREC, which cycle answers in another way.
OneMessage  == {[type |-> PUBLISH, code |-> 1]}
TwoMessages == OneMessage \cup {[type |-> PUBREC, code |-> 0]}
=============================================================================
