--------------------------- MODULE MCMqttFraming ---------------------------
(* MqttFraming with binary digits: lengths of 8 and more need all four. *)
EXTENDS MqttFraming

MCPackets == {[type |-> 1, body |-> <<>>],
              [type |-> 3, body |-> <<2>>],
              [type |-> 2, body |-> <<0, 1, 2, 3, 0, 1, 3, 2, 1>>]}
=============================================================================
