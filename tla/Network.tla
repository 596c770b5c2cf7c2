------------------------------ MODULE Network ------------------------------
(***************************************************************************)
(* The TCP connection of the device to the MQTT broker, as the yunba       *)
(* client uses it through mqtt/MQTTFreeRTOS.c:                             *)
(*                                                                         *)
(*   - my_socket is the only field of `Network' that changes.  It is read  *)
(*     afresh by every call and written by NetworkConnect, and no lock     *)
(*     protects it;                                                        *)
(*   - the lwIP socket table (external): a small table of descriptors, the *)
(*     lowest free one is handed out, and a closed one is reused at once;  *)
(*   - the broker's end of each connection (external): what session it     *)
(*     holds there and which answers are under way.                        *)
(*                                                                         *)
(* A packet is a record of its MQTT type and one number, the only datum    *)
(* the client's control flow looks at: the return code of a CONNACK, the   *)
(* granted QoS of a SUBACK, the QoS of a PUBLISH.                          *)
(***************************************************************************)
EXTENDS Integers, Sequences

CONSTANTS
    Tasks,        \* the FreeRTOS tasks that use the connection
    NumSockets,   \* NUM_SOCKETS of lwIP
    InboxMax,     \* bound: answers under way on one connection
    MaxFaults     \* bound: failures of the environment in one behaviour

ASSUME NumSocketsAssumption == NumSockets \in Nat \ {0}
ASSUME InboxMaxAssumption == InboxMax \in Nat \ {0}
ASSUME MaxFaultsAssumption == MaxFaults \in Nat

VARIABLES
    my_socket,    \* Network.my_socket: a descriptor, -1 after a failed socket()
    conn,         \* state of every descriptor
    sess,         \* what the broker holds for the connection on a descriptor
    inbox,        \* packets of the broker not yet read from a descriptor
    dial,         \* dial[t]: the descriptor on which t is blocked in connect()
    faults        \* failures of the environment so far

netVars == <<my_socket, conn, sess, inbox, dial, faults>>

Fds  == 0 .. NumSockets - 1
NoFd == -1

(***************************************************************************)
(* "fresh": allocated by socket(), "syn": connect() is running, "open":    *)
(* established, "mute": the peer is gone or closed its end but TCP still   *)
(* accepts data, "dead": reset or given up, every call fails.              *)
(***************************************************************************)
ConnStates == {"free", "fresh", "syn", "open", "mute", "dead"}

(***************************************************************************)
(* "none": no CONNECT received, "up": CONNECT accepted, "sub": accepted    *)
(* and subscribed (sessions are clean, a new connection has no             *)
(* subscription), "bad": refused or in breach of the protocol.             *)
(***************************************************************************)
SessStates == {"none", "up", "sub", "bad"}

CONNECT == 1      CONNACK == 2      PUBLISH == 3
PUBACK == 4       PUBREC == 5       PUBREL == 6
PUBCOMP == 7      SUBSCRIBE == 8    SUBACK == 9
PINGREQ == 12     PINGRESP == 13    DISCONNECT == 14
EXTCMD == 15

PacketTypes == 0 .. 15
Codes       == 0 .. 255
Packet      == [type : PacketTypes, code : Codes]

NetTypeOK ==
    /\ my_socket \in Fds \cup {NoFd}
    /\ conn \in [Fds -> ConnStates]
    /\ sess \in [Fds -> SessStates]
    /\ inbox \in [Fds -> Seq(Packet)]
    /\ dial \in [Tasks -> Fds \cup {NoFd}]
    /\ faults \in 0 .. MaxFaults

\* NetworkInit: my_socket = 0, although descriptor 0 was not allocated.
NetInit ==
    /\ my_socket = 0
    /\ conn = [f \in Fds |-> "free"]
    /\ sess = [f \in Fds |-> "none"]
    /\ inbox = [f \in Fds |-> <<>>]
    /\ dial = [t \in Tasks |-> NoFd]
    /\ faults = 0

Fault == faults < MaxFaults /\ faults' = faults + 1

----------------------------------------------------------------------------
(* The lwIP calls. *)

\* send() accepts data on f.
Writable(f) == f \in Fds /\ conn[f] \in {"open", "mute"}

\* Data of the broker can be read from f.
HasPacket(f) == Writable(f) /\ inbox[f] # <<>>

\* socket(): the lowest free descriptor, -1 when there is none.
FreeFds == {f \in Fds : conn[f] = "free"}

Socket(f) == IF FreeFds = {} THEN f = NoFd
             ELSE f \in FreeFds /\ \A g \in FreeFds : f <= g

\* close(f), which fails with EBADF, changing nothing, unless f is allocated.
\* A connect() blocked on f can no longer succeed.
CloseSocket(f) ==
    IF f \in Fds
    THEN /\ conn' = [conn EXCEPT ![f] = "free"]
         /\ sess' = [sess EXCEPT ![f] = "none"]
         /\ inbox' = [inbox EXCEPT ![f] = <<>>]
         /\ dial' = [t \in Tasks |-> IF dial[t] = f THEN NoFd ELSE dial[t]]
    ELSE UNCHANGED <<conn, sess, inbox, dial>>

----------------------------------------------------------------------------
(* NetworkConnect, in the steps between which other tasks run. *)

\* getIpForHost finds no address.
ResolveFails == Fault /\ UNCHANGED <<my_socket, conn, sess, inbox, dial>>

\* my_socket = socket()
OpenSocket ==
    /\ \E f \in Fds \cup {NoFd} :
         /\ Socket(f)
         /\ my_socket' = f
         /\ conn' = IF f \in Fds THEN [conn EXCEPT ![f] = "fresh"] ELSE conn
    /\ UNCHANGED <<sess, inbox, dial, faults>>

\* connect(my_socket) is called: the handshake starts on a fresh descriptor.
StartConnect(t) ==
    /\ IF my_socket \in Fds /\ conn[my_socket] = "fresh"
       THEN /\ conn' = [conn EXCEPT ![my_socket] = "syn"]
            /\ dial' = [dial EXCEPT ![t] = my_socket]
       ELSE UNCHANGED <<conn, dial>>
    /\ UNCHANGED <<my_socket, sess, inbox, faults>>

\* connect() returns 0.
ConnectSucceeds(t) ==
    /\ dial[t] # NoFd
    /\ conn' = [conn EXCEPT ![dial[t]] = "open"]
    /\ dial' = [dial EXCEPT ![t] = NoFd]
    /\ UNCHANGED <<my_socket, sess, inbox, faults>>

\* connect() fails, always so when its descriptor was not fresh or was closed
\* meanwhile; NetworkConnect closes what my_socket names by now.
ConnectFails(t) ==
    /\ IF dial[t] # NoFd THEN Fault ELSE UNCHANGED faults
    /\ IF my_socket \in Fds
       THEN /\ conn' = [conn EXCEPT ![my_socket] = "free"]
            /\ sess' = [sess EXCEPT ![my_socket] = "none"]
            /\ inbox' = [inbox EXCEPT ![my_socket] = <<>>]
            /\ dial' = [u \in Tasks |-> IF u = t \/ dial[u] = my_socket
                                        THEN NoFd ELSE dial[u]]
       ELSE /\ dial' = [dial EXCEPT ![t] = NoFd]
            /\ UNCHANGED <<conn, sess, inbox>>
    /\ UNCHANGED my_socket

----------------------------------------------------------------------------
(* What the broker makes of a packet sent on f while the connection is     *)
(* open.  A client must send CONNECT once, and first.  The answer is under *)
(* way at once: how late it is shows in when the client reads it.          *)

Answer(f, type, code) ==
    inbox' = [inbox EXCEPT ![f] =
                IF Len(@) < InboxMax
                THEN Append(@, [type |-> type, code |-> code]) ELSE @]

Breach(f) == sess' = [sess EXCEPT ![f] = "bad"] /\ UNCHANGED inbox

BrokerTakesConnect(f, refusals) ==
    IF sess[f] # "none" THEN Breach(f) /\ UNCHANGED faults
    ELSE \/ /\ sess' = [sess EXCEPT ![f] = "up"]
            /\ Answer(f, CONNACK, 0)
            /\ UNCHANGED faults
         \/ /\ Fault
            /\ sess' = [sess EXCEPT ![f] = "bad"]
            /\ \E code \in refusals : Answer(f, CONNACK, code)

BrokerTakes(f, type, grants) ==
    /\ UNCHANGED faults
    /\ \/ sess[f] = "bad" /\ UNCHANGED <<sess, inbox>>
       \/ sess[f] = "none" /\ Breach(f)
       \/ /\ sess[f] \in {"up", "sub"}
          /\ \/ type = DISCONNECT /\ Breach(f)
             \/ /\ type = SUBSCRIBE
                /\ \E code \in grants :
                     /\ sess' = [sess EXCEPT ![f] = IF code = 128 THEN @ ELSE "sub"]
                     /\ Answer(f, SUBACK, code)
             \/ type = PINGREQ /\ Answer(f, PINGRESP, 0) /\ UNCHANGED sess
             \/ type \in {PUBLISH, EXTCMD} /\ Answer(f, PUBACK, 0) /\ UNCHANGED sess
             \/ /\ type \notin {DISCONNECT, SUBSCRIBE, PINGREQ, PUBLISH, EXTCMD}
                /\ UNCHANGED <<sess, inbox>>

----------------------------------------------------------------------------
(* The environment: the network and the broker act on their own. *)

\* The broker pushes a packet: a message only to a subscriber.
BrokerPushes(f, p) ==
    /\ conn[f] = "open" /\ Len(inbox[f]) < InboxMax
    /\ sess[f] = "sub" \/ (sess[f] = "up" /\ p.type # PUBLISH)
    /\ inbox' = [inbox EXCEPT ![f] = Append(@, p)]
    /\ UNCHANGED <<my_socket, conn, sess, dial, faults>>

\* The broker closes a connection it has no use for.
BrokerDrops(f) ==
    /\ conn[f] = "open" /\ sess[f] = "bad"
    /\ conn' = [conn EXCEPT ![f] = "mute"]
    /\ UNCHANGED <<my_socket, sess, inbox, dial, faults>>

\* The link disappears without a trace, or the connection is reset.
LinkFails(f) ==
    /\ conn[f] \in {"open", "mute"}
    /\ Fault
    /\ \/ conn' = [conn EXCEPT ![f] = "mute"] /\ conn[f] = "open"
       \/ conn' = [conn EXCEPT ![f] = "dead"]
    /\ inbox' = [inbox EXCEPT ![f] = <<>>]
    /\ UNCHANGED <<my_socket, sess, dial>>

\* TCP gives up its retransmissions, or the peer answers data with a reset.
TcpGivesUp(f) ==
    /\ conn[f] = "mute"
    /\ conn' = [conn EXCEPT ![f] = "dead"]
    /\ inbox' = [inbox EXCEPT ![f] = <<>>]
    /\ UNCHANGED <<my_socket, sess, dial, faults>>
=============================================================================
