---------------------------- MODULE MCMqttCodec ----------------------------
(* Packets on both sides of each threshold: lengths of one and two digits,  *)
(* and buffers that are just full.                                          *)
EXTENDS MqttCodec

Run(n) == [i \in 1 .. n |-> (7 * i) % 256]
Id1 == <<1, 65535, 256, 258>>
Id2 == <<43981, 2, 255, 0>>

MCConnects ==
    [type : {CONNECT}, version : {19}, clean : {1}, keepAlive : {30, 300}, clientID : {Run(3)},
     will : {<<>>}, username : {<<Run(2)>>}, password : {<<Run(12)>>, <<Run(166)>>, <<Run(167)>>}]
    \union
    [type : {CONNECT}, version : {4}, clean : {0, 1}, keepAlive : {60}, clientID : {<<>>},
     will : {<<>>, <<[topic |-> <<1>>, message |-> Run(4), qos |-> 2, retained |-> 1]>>},
     username : {<<>>, <<Run(1)>>}, password : {<<>>}]

\* MQTTSetAlias leaves retained as it finds it on the stack.
MCPublishes ==
    [type : {PUBLISH}, qos : {1}, retained : {0, 1}, topic : {Run(1)}, id : {Id1},
     payload : {<<>>, Run(116), Run(117), Run(186), Run(187)}]
    \union [type : {PUBLISH}, qos : {0}, retained : {1}, topic : {Run(2)}, id : {<<>>}, payload : {Run(3)}]

MCRequests ==
    MCConnects \union MCPublishes
    \union [type : {SUBSCRIBE}, id : {Id1}, topic : {<<9>>, Run(186), Run(187)}, req : {2}]
    \union [type : {UNSUBSCRIBE}, id : {Id2}, topic : {<<9>>, Run(188)}]
    \union [type : {EXTCMD}, id : {Id2}, topic : {Run(2)}, payload : {<<>>, Run(178)},
            opt : {<<>>, <<[key |-> 6, val |-> Run(1)]>>}]
    \union {[type |-> PINGREQ], [type |-> DISCONNECT]}

MCIncoming ==
    {[type |-> CONNACK, code |-> 0], [type |-> CONNACK, code |-> 5], [type |-> PINGRESP],
     [type |-> SUBACK, id |-> Id1, granted |-> 128], [type |-> PUBACK, id |-> Id1],
     [type |-> PUBREC, id |-> Id1], [type |-> PUBREL, id |-> Id2], [type |-> PUBCOMP, id |-> Id1],
     [type |-> EXTCMD, id |-> Id2, cmd |-> 8, status |-> 0, payload |-> Run(2)],
     [type |-> EXTCMD, id |-> Id2, cmd |-> 2, status |-> 1, payload |-> Run(150)]}
    \union [type : {PUBLISH}, dup : {0, 1}, qos : {1, 2}, retained : {0}, topic : {Run(2)}, id : {Id1, Id2},
            payload : {Run(1), Run(120)}]
    \union [type : {PUBLISH}, dup : {0}, qos : {1}, retained : {1}, topic : {Run(180)}, id : {Id2}, payload : {<<>>}]
    \union [type : {PUBLISH}, dup : {0}, qos : {0}, retained : {1}, topic : {Run(2)}, id : {<<>>}, payload : {Run(2)}]
=============================================================================
