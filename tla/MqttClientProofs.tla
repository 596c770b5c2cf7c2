-------------------------- MODULE MqttClientProofs --------------------------
(***************************************************************************)
(* Proofs about MqttClient for every number of descriptors, every bound    *)
(* and every behaviour of the broker, and for any number of handlers that  *)
(* overlap in any way.  Types, mutual exclusion and the rule for           *)
(* isconnected hold throughout; what concerns the socket holds until the   *)
(* races that MqttClientRaces keeps in mind have happened.                 *)
(***************************************************************************)
EXTENDS MqttClientRaces, TLAPS

----------------------------------------------------------------------------
(* The network keeps its types. *)

\* A failure is counted within the bound.
LEMMA FaultType ==
    ASSUME faults \in 0 .. MaxFaults, Fault
    PROVE  faults' \in 0 .. MaxFaults
  BY MaxFaultsAssumption DEF Fault

\* The broker answers with packets.
LEMMA AnswerType ==
    ASSUME inbox \in [Fds -> Seq(Packet)], NEW f \in Fds,
           NEW type \in PacketTypes, NEW code \in Codes, Answer(f, type, code)
    PROVE  inbox' \in [Fds -> Seq(Packet)]
  <1>1. [type |-> type, code |-> code] \in Packet
    BY DEF Packet
  <1>2. Append(inbox[f], [type |-> type, code |-> code]) \in Seq(Packet)
    BY <1>1
  <1> QED
    BY <1>2 DEF Answer

\* A CONNECT keeps the types of the network,
LEMMA BrokerTakesConnectType ==
    ASSUME NetTypeOK, my_socket \in Fds, BrokerTakesConnect(my_socket, Refusals),
           UNCHANGED <<my_socket, conn, dial>>
    PROVE  NetTypeOK'
  <1>1. CASE sess[my_socket] # "none"
    BY <1>1 DEF BrokerTakesConnect, Breach, NetTypeOK, SessStates
  <1>2. CASE /\ sess' = [sess EXCEPT ![my_socket] = "up"]
             /\ Answer(my_socket, CONNACK, 0)
             /\ UNCHANGED faults
    <2>0. CONNACK \in PacketTypes /\ 0 \in Codes
      BY DEF CONNACK, PacketTypes, Codes
    <2>1. inbox' \in [Fds -> Seq(Packet)]
      BY <1>2, <2>0, AnswerType DEF NetTypeOK
    <2> QED
      BY <1>2, <2>1 DEF NetTypeOK, SessStates
  <1>3. CASE /\ Fault
             /\ sess' = [sess EXCEPT ![my_socket] = "bad"]
             /\ \E code \in Refusals : Answer(my_socket, CONNACK, code)
    <2>0. PICK code \in Refusals : Answer(my_socket, CONNACK, code)
      BY <1>3
    <2>1. code \in Codes /\ CONNACK \in PacketTypes
      BY CodesAssumption DEF CONNACK, PacketTypes, Codes
    <2>2. inbox' \in [Fds -> Seq(Packet)]
      BY <2>0, <2>1, AnswerType DEF NetTypeOK
    <2>3. faults' \in 0 .. MaxFaults
      BY <1>3, FaultType DEF NetTypeOK
    <2> QED
      BY <1>3, <2>2, <2>3 DEF NetTypeOK, SessStates
  <1> QED
    BY <1>1, <1>2, <1>3 DEF BrokerTakesConnect

\* and so does any other packet the broker takes.
LEMMA BrokerTakesType ==
    ASSUME NetTypeOK, my_socket \in Fds, NEW type, BrokerTakes(my_socket, type, Grants),
           UNCHANGED <<my_socket, conn, dial>>
    PROVE  NetTypeOK'
  <1>1. sess' \in [Fds -> SessStates] /\ faults' = faults
    BY DEF BrokerTakes, Breach, NetTypeOK, SessStates
  <1>2. \/ UNCHANGED inbox
        \/ \E t \in PacketTypes, code \in Codes : Answer(my_socket, t, code)
    BY CodesAssumption DEF BrokerTakes, Breach, SUBACK, PINGRESP, PUBACK, PacketTypes, Codes
  <1>3. inbox' \in [Fds -> Seq(Packet)]
    BY <1>2, AnswerType DEF NetTypeOK
  <1> QED
    BY <1>1, <1>3 DEF NetTypeOK

\* What was under way may be lost.
LEMMA EmptyInboxType ==
    ASSUME inbox \in [Fds -> Seq(Packet)], NEW f \in Fds,
           inbox' = [inbox EXCEPT ![f] = <<>>]
    PROVE  inbox' \in [Fds -> Seq(Packet)]
  <1>1. <<>> \in Seq(Packet)
    OBVIOUS
  <1>2. \A e \in Seq(Packet) : [inbox EXCEPT ![f] = e] \in [Fds -> Seq(Packet)]
    OBVIOUS
  <1> QED
    BY <1>1, <1>2

\* disconnect() keeps the types of the network;
LEMMA CloseType ==
    ASSUME NetTypeOK, CloseSocket(my_socket), UNCHANGED <<my_socket, faults>>
    PROVE  NetTypeOK'
  <1>1. CASE my_socket \in Fds
    <2>2. inbox' \in [Fds -> Seq(Packet)]
      BY <1>1, EmptyInboxType DEF CloseSocket, NetTypeOK
    <2>3. conn' \in [Fds -> ConnStates] /\ sess' \in [Fds -> SessStates]
      BY <1>1 DEF CloseSocket, NetTypeOK, ConnStates, SessStates
    <2>4. dial' \in [Tasks -> Fds \cup {NoFd}]
      BY <1>1 DEF CloseSocket, NetTypeOK
    <2> QED
      BY <2>2, <2>3, <2>4 DEF NetTypeOK
  <1>2. CASE my_socket \notin Fds
    BY <1>2 DEF CloseSocket, NetTypeOK
  <1> QED
    BY <1>1, <1>2

\* so does a connect() that fails,
LEMMA ConnectFailsType ==
    ASSUME NetTypeOK, NEW t \in Tasks, ConnectFails(t)
    PROVE  NetTypeOK'
  <1>1. faults' \in 0 .. MaxFaults /\ my_socket' = my_socket
    BY FaultType DEF ConnectFails, NetTypeOK
  <1>2. dial' \in [Tasks -> Fds \cup {NoFd}]
    BY DEF ConnectFails, NetTypeOK
  <1>3. CASE my_socket \in Fds
    <2>1. inbox' \in [Fds -> Seq(Packet)]
      BY <1>3, EmptyInboxType DEF ConnectFails, NetTypeOK
    <2>2. conn' \in [Fds -> ConnStates] /\ sess' \in [Fds -> SessStates]
      BY <1>3 DEF ConnectFails, NetTypeOK, ConnStates, SessStates
    <2> QED
      BY <1>1, <1>2, <2>1, <2>2 DEF NetTypeOK
  <1>4. CASE my_socket \notin Fds
    BY <1>1, <1>2, <1>4 DEF ConnectFails, NetTypeOK
  <1> QED
    BY <1>3, <1>4

\* every other step of NetworkConnect,
LEMMA NetworkConnectType ==
    ASSUME NetTypeOK, NEW t \in Tasks,
           ResolveFails \/ OpenSocket \/ StartConnect(t) \/ ConnectSucceeds(t)
    PROVE  NetTypeOK'
  <1>1. CASE ResolveFails
    <2>1. faults' \in 0 .. MaxFaults
      BY <1>1, FaultType DEF ResolveFails, NetTypeOK
    <2> QED
      BY <1>1, <2>1 DEF ResolveFails, NetTypeOK
  <1>2. CASE OpenSocket
    BY <1>2 DEF OpenSocket, NetTypeOK, ConnStates
  <1>3. CASE StartConnect(t)
    <2>1. conn' \in [Fds -> ConnStates] /\ dial' \in [Tasks -> Fds \cup {NoFd}]
      BY <1>3 DEF StartConnect, NetTypeOK, ConnStates
    <2> QED
      BY <1>3, <2>1 DEF StartConnect, NetTypeOK
  <1>4. CASE ConnectSucceeds(t)
    BY <1>4 DEF ConnectSucceeds, NetTypeOK, ConnStates
  <1> QED
    BY <1>1, <1>2, <1>3, <1>4

\* every step of the environment,
LEMMA EnvironmentType ==
    ASSUME NetTypeOK, NEW f \in Fds,
           \/ BrokerDrops(f) \/ LinkFails(f) \/ TcpGivesUp(f)
           \/ \E p \in Pushes : BrokerPushes(f, p)
    PROVE  NetTypeOK'
  <1>1. CASE BrokerDrops(f)
    BY <1>1 DEF BrokerDrops, NetTypeOK, ConnStates
  <1>2. CASE LinkFails(f)
    <2>1. faults' \in 0 .. MaxFaults
      BY <1>2, FaultType DEF LinkFails, NetTypeOK
    <2>2. inbox' \in [Fds -> Seq(Packet)]
      BY <1>2, EmptyInboxType DEF LinkFails, NetTypeOK
    <2> QED
      BY <1>2, <2>1, <2>2 DEF LinkFails, NetTypeOK, ConnStates
  <1>3. CASE TcpGivesUp(f)
    <2>1. inbox' \in [Fds -> Seq(Packet)]
      BY <1>3, EmptyInboxType DEF TcpGivesUp, NetTypeOK
    <2> QED
      BY <1>3, <2>1 DEF TcpGivesUp, NetTypeOK, ConnStates
  <1>4. CASE \E p \in Pushes : BrokerPushes(f, p)
    <2>1. PICK p \in Pushes : BrokerPushes(f, p)
      BY <1>4
    <2>2. p \in Packet
      BY CodesAssumption
    <2>3. Append(inbox[f], p) \in Seq(Packet)
      BY <2>2 DEF NetTypeOK
    <2> QED
      BY <2>1, <2>3 DEF BrokerPushes, NetTypeOK
  <1> QED
    BY <1>1, <1>2, <1>3, <1>4

\* every packet sent,
LEMMA SendType ==
    ASSUME NetTypeOK, NEW type, Send(type)
    PROVE  NetTypeOK' /\ pingDue' \in BOOLEAN
  <1>1. my_socket \in Fds /\ UNCHANGED <<my_socket, conn, dial>> /\ pingDue' = FALSE
    BY DEF Send, SendOk, Writable
  <1>2. CASE BrokerTakes(my_socket, type, Grants)
    BY <1>1, <1>2, BrokerTakesType
  <1>3. CASE UNCHANGED <<sess, inbox, faults>>
    BY <1>1, <1>3 DEF NetTypeOK
  <1>4. BrokerTakes(my_socket, type, Grants) \/ UNCHANGED <<sess, inbox, faults>>
    BY DEF Send, Reaches
  <1> QED
    BY <1>1, <1>2, <1>3, <1>4

\* and a step that leaves the network alone.
LEMMA NetUnchangedType ==
    ASSUME NetTypeOK, UNCHANGED netVars
    PROVE  NetTypeOK'
  BY DEF NetTypeOK, netVars

----------------------------------------------------------------------------
(* Type correctness, part by part: each part of TypeOK is kept by every    *)
(* action on its own, but for what the answers to a packet put in inbox.   *)

\* Packet types, return codes, SUCCESS and FAILURE share one integer in cycle().
LEMMA ResultFacts ==
    /\ PacketTypes \subseteq Results
    /\ Codes \subseteq Results
    /\ {SUCCESS, FAILURE, 65535} \subseteq Results
  BY DEF PacketTypes, Codes, Results, SUCCESS, FAILURE

\* What readbuf holds is a result, even when nothing was read.
LEMMA ReadbufResult ==
    ASSUME ClientTypeOK
    PROVE  readbuf.code \in Results /\ readbuf.type \in Results
  <1>1. ASSUME readbuf \in Packet
        PROVE  readbuf.code \in Codes /\ readbuf.type \in PacketTypes
    BY <1>1 DEF Packet
  <1>2. ASSUME readbuf = NoPacket
        PROVE  readbuf.code = SUCCESS /\ readbuf.type = 65535
    BY <1>2 DEF NoPacket, SUCCESS
  <1> QED
    BY <1>1, <1>2, ResultFacts DEF ClientTypeOK

\* rc stays such an integer, wherever it was taken from.
LEMMA RcResult ==
    ASSUME ClientTypeOK,
           rc' \in {rc, SUCCESS, FAILURE, readbuf.code, readbuf.type}
    PROVE  rc' \in Results
  <1>1. rc \in Results
    BY DEF ClientTypeOK
  <1> QED
    BY <1>1, ReadbufResult, ResultFacts

\* The client starts with everything in its type.
LEMMA InitType == Init => TypeOK
  <1> SUFFICES ASSUME Init PROVE TypeOK
    OBVIOUS
  <1>1. NetTypeOK
    <2>1. <<>> \in Seq(Packet)
      OBVIOUS
    <2>2. inbox \in [Fds -> Seq(Packet)]
      BY <2>1 DEF Init, NetInit
    <2> QED
      BY <2>2, NumSocketsAssumption, MaxFaultsAssumption
      DEF Init, NetInit, NetTypeOK, Fds, NoFd, ConnStates, SessStates
  <1>2. FlagsTypeOK
    BY DEF Init, FlagsTypeOK
  <1>3. ClientTypeOK
    <2>1. rc \in Results /\ readbuf \in Packet \cup {NoPacket} /\ mutex \in Tasks \cup {NoTask}
      BY ResultFacts DEF Init
    <2>2. fail_conn_count \in 0 .. CountMod - 1 /\ queue \in 0 .. QueueLen
      BY CountModAssumption, QueueLenAssumption DEF Init
    <2> QED
      BY <2>1, <2>2 DEF ClientTypeOK
  <1>4. TaskTypeOK
    BY DEF Init, TaskTypeOK, Labels, Dialling, States
  <1> QED
    BY <1>1, <1>2, <1>3, <1>4 DEF TypeOK

\* Every step moves a task to a label.
LEMMA TaskStepType == TaskTypeOK /\ [Next]_vars => TaskTypeOK'
  <1> SUFFICES ASSUME TaskTypeOK, [Next]_vars PROVE TaskTypeOK'
    OBVIOUS
  <1> USE DEF TaskTypeOK, Goto, NetFailed, NetReturned, States,
              Labels, Guarded, Waiting, Dialling, Cycle
  <1>1. ASSUME NEW t \in Tasks, TaskStep(t) PROVE TaskTypeOK'
    <2>1. CASE Resolve(t) \/ AllocSocket(t) \/ Dial(t) \/ DialDone(t)
      BY <2>1 DEF Resolve, AllocSocket, Dial, DialDone
    <2>2. CASE ConnectLock(t) \/ ConnectSend(t) \/ WaitforDone(t)
      BY <2>2 DEF ConnectLock, ConnectSend, WaitforDone
    <2>3. CASE ConnectExit(t)
      BY <2>3 DEF ConnectExit
    <2>4. CASE ReadNothing(t) \/ ReadPacket(t) \/ AnswerPacket(t) \/ Deliver(t)
      BY <2>4 DEF ReadNothing, ReadPacket, AfterRead, AnswerPacket, Deliver
    <2>5. CASE Keepalive(t)
      BY <2>5 DEF Keepalive, KeepaliveIdle, KeepalivePing, KeepaliveFails,
                  SpawnHandler, Handlers
    <2>6. CASE DisconnectLock(t) \/ DisconnectSend(t) \/ HandlerClose(t)
      BY <2>6 DEF DisconnectLock, DisconnectSend, HandlerClose
    <2> QED
      BY <1>1, <2>1, <2>2, <2>3, <2>4, <2>5, <2>6 DEF TaskStep
  <1>2. CASE OnlyMain
    BY <1>2 DEF OnlyMain, CommandLock, CommandSend, Dequeue
  <1>3. CASE OnlyRun
    BY <1>3 DEF OnlyRun, RunLock, RunUnlock
  <1>4. CASE ConnectTimerExpires \/ PingTimerExpires \/ KeyMessage
    BY <1>4 DEF ConnectTimerExpires, PingTimerExpires, KeyMessage
  <1>5. CASE Environment
    BY <1>5 DEF Environment
  <1>6. CASE UNCHANGED vars
    BY <1>6 DEF vars
  <1> QED
    BY <1>1, <1>2, <1>3, <1>4, <1>5, <1>6 DEF Next

\* Every step keeps the flags.
LEMMA FlagsStepType == FlagsTypeOK /\ [Next]_vars => FlagsTypeOK'
  <1> SUFFICES ASSUME FlagsTypeOK, [Next]_vars PROVE FlagsTypeOK'
    OBVIOUS
  <1> USE DEF FlagsTypeOK, clientVars
  <1>1. ASSUME NEW t \in Tasks, TaskStep(t) PROVE FlagsTypeOK'
    <2>1. CASE Resolve(t) \/ AllocSocket(t) \/ Dial(t) \/ DialDone(t)
      BY <2>1 DEF Resolve, AllocSocket, Dial, DialDone
    <2>2. CASE ConnectLock(t) \/ ConnectSend(t) \/ WaitforDone(t) \/ ConnectExit(t)
      BY <2>2 DEF ConnectLock, ConnectSend, WaitforDone, ConnectExit
    <2>3. CASE ReadNothing(t) \/ ReadPacket(t) \/ AnswerPacket(t) \/ Deliver(t)
      BY <2>3 DEF ReadNothing, ReadPacket, AnswerPacket, Send, Deliver
    <2>4. CASE Keepalive(t)
      BY <2>4 DEF Keepalive, KeepaliveIdle, KeepalivePing, KeepaliveFails, Send
    <2>5. CASE DisconnectLock(t) \/ DisconnectSend(t) \/ HandlerClose(t)
      BY <2>5 DEF DisconnectLock, DisconnectSend, Send, HandlerClose
    <2> QED
      BY <1>1, <2>1, <2>2, <2>3, <2>4, <2>5 DEF TaskStep
  <1>2. CASE OnlyMain
    BY <1>2 DEF OnlyMain, CommandLock, CommandSend, Send, Dequeue
  <1>3. CASE OnlyRun
    BY <1>3 DEF OnlyRun, RunLock, RunUnlock
  <1>4. CASE ConnectTimerExpires \/ PingTimerExpires \/ KeyMessage
    BY <1>4 DEF ConnectTimerExpires, PingTimerExpires, KeyMessage
  <1>5. CASE Environment
    BY <1>5 DEF Environment
  <1>6. CASE UNCHANGED vars
    BY <1>6 DEF vars
  <1> QED
    BY <1>1, <1>2, <1>3, <1>4, <1>5, <1>6 DEF Next

\* What is read was a packet.
LEMMA ReadType ==
    ASSUME NetTypeOK, HasPacket(my_socket)
    PROVE  /\ my_socket \in Fds
           /\ Head(inbox[my_socket]) \in Packet
           /\ Tail(inbox[my_socket]) \in Seq(Packet)
  <1>1. my_socket \in Fds /\ inbox[my_socket] # <<>>
    BY DEF HasPacket, Writable
  <1>2. inbox[my_socket] \in Seq(Packet)
    BY <1>1 DEF NetTypeOK
  <1> QED
    BY <1>1, <1>2

\* Every step keeps the types of the network.
LEMMA NetStepType == NetTypeOK /\ [Next]_vars => NetTypeOK'
  <1> SUFFICES ASSUME NetTypeOK, [Next]_vars PROVE NetTypeOK'
    OBVIOUS
  <1>1. ASSUME NEW t \in Tasks, TaskStep(t) PROVE NetTypeOK'
    <2>1. CASE Resolve(t) \/ AllocSocket(t) \/ Dial(t)
      BY <2>1, NetworkConnectType, NetUnchangedType DEF Resolve, AllocSocket, Dial
    <2>2. CASE DialDone(t)
      BY <2>2, NetworkConnectType, ConnectFailsType DEF DialDone
    <2>3. CASE ConnectLock(t) \/ WaitforDone(t) \/ ConnectExit(t) \/ ReadNothing(t)
               \/ Deliver(t) \/ DisconnectLock(t)
      BY <2>3, NetUnchangedType
      DEF ConnectLock, WaitforDone, ConnectExit, ReadNothing, Deliver, DisconnectLock
    <2>4. CASE ConnectSend(t)
      <3>1. CASE SendOk
        <4>1. my_socket \in Fds /\ UNCHANGED <<my_socket, conn, dial>>
          BY <2>4, <3>1 DEF ConnectSend, SendOk, Writable
        <4>2. CASE BrokerTakesConnect(my_socket, Refusals)
          BY <4>1, <4>2, BrokerTakesConnectType
        <4>3. CASE UNCHANGED <<sess, inbox, faults>>
          BY <4>1, <4>3 DEF NetTypeOK
        <4> QED
          BY <2>4, <3>1, <4>2, <4>3 DEF ConnectSend, Reaches
      <3>2. CASE ~SendOk
        BY <2>4, <3>2, NetUnchangedType DEF ConnectSend
      <3> QED
        BY <3>1, <3>2
    <2>5. CASE ReadPacket(t)
      <3>1. UNCHANGED <<my_socket, conn, sess, dial, faults>> /\ HasPacket(my_socket)
        BY <2>5 DEF ReadPacket
      <3>2. inbox' = [inbox EXCEPT ![my_socket] = Tail(@)]
        BY <2>5 DEF ReadPacket
      <3>3. inbox' \in [Fds -> Seq(Packet)]
        BY <3>1, <3>2, ReadType DEF NetTypeOK
      <3> QED
        BY <3>1, <3>3 DEF NetTypeOK
    <2>6. CASE AnswerPacket(t)
      BY <2>6, SendType, NetUnchangedType DEF AnswerPacket
    <2>7. CASE Keepalive(t)
      BY <2>7, SendType, NetUnchangedType
      DEF Keepalive, KeepaliveIdle, KeepalivePing, KeepaliveFails, netVars
    <2>8. CASE DisconnectSend(t)
      BY <2>8, SendType, NetUnchangedType DEF DisconnectSend
    <2>9. CASE HandlerClose(t)
      BY <2>9, CloseType DEF HandlerClose
    <2> QED
      BY <1>1, <2>1, <2>2, <2>3, <2>4, <2>5, <2>6, <2>7, <2>8, <2>9 DEF TaskStep
  <1>2. CASE OnlyMain
    BY <1>2, SendType, NetUnchangedType DEF OnlyMain, CommandLock, CommandSend, Dequeue
  <1>3. CASE OnlyRun
    BY <1>3, NetUnchangedType DEF OnlyRun, RunLock, RunUnlock
  <1>4. CASE ConnectTimerExpires
    <2>1. faults' \in 0 .. MaxFaults
      BY <1>4, FaultType DEF ConnectTimerExpires, NetTypeOK
    <2> QED
      BY <1>4, <2>1 DEF ConnectTimerExpires, NetTypeOK
  <1>5. CASE PingTimerExpires \/ KeyMessage
    BY <1>5, NetUnchangedType DEF PingTimerExpires, KeyMessage
  <1>6. CASE Environment
    BY <1>6, EnvironmentType DEF Environment
  <1>7. CASE UNCHANGED vars
    BY <1>7, NetUnchangedType DEF vars
  <1> QED
    BY <1>1, <1>2, <1>3, <1>4, <1>5, <1>6, <1>7 DEF Next

\* What a step does to mutex, rc, fail_conn_count, readbuf and queue, when it
\* does not touch most of them.
LEMMA ClientKeptType ==
    ASSUME ClientTypeOK, UNCHANGED <<fail_conn_count, readbuf>>,
           mutex' \in Tasks \cup {NoTask}, rc' \in Results, queue' \in 0 .. QueueLen
    PROVE  ClientTypeOK'
  BY DEF ClientTypeOK

\* The same for a step that sets some of them.
LEMMA ClientSetType ==
    ASSUME ClientTypeOK, UNCHANGED <<mutex, queue>>,
           fail_conn_count' \in 0 .. CountMod - 1,
           rc' \in Results,
           readbuf' = readbuf \/ readbuf' \in Packet \/ readbuf' = NoPacket
    PROVE  ClientTypeOK'
  <1>1. readbuf' \in Packet \cup {NoPacket} /\ NoPacket' = NoPacket
    BY DEF ClientTypeOK, NoPacket
  <1>2. mutex' \in Tasks \cup {NoTask} /\ queue' \in 0 .. QueueLen
    BY DEF ClientTypeOK
  <1> QED
    BY <1>1, <1>2 DEF ClientTypeOK

\* Every step keeps the types of the client.
LEMMA ClientStepType == NetTypeOK /\ ClientTypeOK /\ [Next]_vars => ClientTypeOK'
  <1> SUFFICES ASSUME NetTypeOK, ClientTypeOK, [Next]_vars PROVE ClientTypeOK'
    OBVIOUS
  <1>0. /\ mutex \in Tasks \cup {NoTask}
        /\ fail_conn_count \in 0 .. CountMod - 1
        /\ readbuf \in Packet \cup {NoPacket}
        /\ rc \in Results
        /\ queue \in 0 .. QueueLen
    BY DEF ClientTypeOK
  <1>1. ASSUME NEW t \in Tasks, TaskStep(t) PROVE ClientTypeOK'
    <2>1. CASE Resolve(t) \/ AllocSocket(t) \/ Dial(t) \/ DialDone(t) \/ HandlerClose(t)
      <3>1. UNCHANGED <<mutex, fail_conn_count, readbuf, rc, queue>>
        BY <2>1 DEF Resolve, AllocSocket, Dial, DialDone, HandlerClose, clientVars
      <3> QED
        BY <3>1, <1>0, ClientKeptType
    <2>2. CASE ConnectLock(t) \/ DisconnectLock(t)
      <3>1. UNCHANGED <<fail_conn_count, readbuf, queue>> /\ mutex' = t
        BY <2>2 DEF ConnectLock, DisconnectLock, MutexLock
      <3>2. rc' \in Results
        BY <2>2, RcResult DEF ConnectLock, DisconnectLock
      <3> QED
        BY <3>1, <3>2, <1>0, ClientKeptType
    <2>3. CASE ConnectExit(t) \/ DisconnectSend(t)
      <3>1. UNCHANGED <<fail_conn_count, readbuf, queue>> /\ mutex' = NoTask
        BY <2>3 DEF ConnectExit, DisconnectSend, MutexUnlock
      <3>2. rc' \in Results
        BY <2>3, RcResult DEF ConnectExit, DisconnectSend
      <3> QED
        BY <3>1, <3>2, <1>0, ClientKeptType
    <2>4. CASE ConnectSend(t) \/ AnswerPacket(t)
      <3>1. UNCHANGED <<mutex, fail_conn_count, readbuf, queue>>
        BY <2>4 DEF ConnectSend, AnswerPacket
      <3>2. rc' \in Results
        BY <2>4, RcResult DEF ConnectSend, AnswerPacket
      <3> QED
        BY <3>1, <3>2, <1>0, ClientKeptType
    <2>5. CASE WaitforDone(t)
      <3>1. UNCHANGED <<mutex, fail_conn_count, readbuf, queue>>
        BY <2>5 DEF WaitforDone
      <3>3. rc' \in Results
        BY <2>5, RcResult DEF WaitforDone
      <3> QED
        BY <3>1, <3>3, <1>0, ClientSetType
    <2>6. CASE ReadNothing(t)
      <3>1. readbuf' = NoPacket /\ UNCHANGED <<mutex, fail_conn_count, queue>>
        BY <2>6 DEF ReadNothing
      <3>2. rc' \in Results
        BY <2>6, RcResult DEF ReadNothing
      <3> QED
        BY <3>1, <3>2, <1>0, ClientSetType
    <2>7. CASE ReadPacket(t)
      <3> DEFINE p == Head(inbox[my_socket])
      <3>1. HasPacket(my_socket)
        BY <2>7 DEF ReadPacket
      <3>2. p \in Packet
        BY <3>1, ReadType
      <3>3. p.code \in Results
        BY <3>2, ResultFacts DEF Packet
      <3>4. readbuf' \in Packet /\ UNCHANGED <<mutex, queue>>
        BY <2>7, <3>2 DEF ReadPacket
      <3>5. rc' \in {p.code, SUCCESS}
        BY <2>7 DEF ReadPacket
      <3>6. fail_conn_count' \in {0, fail_conn_count}
        BY <2>7 DEF ReadPacket
      <3>7. fail_conn_count' \in 0 .. CountMod - 1
        BY <3>6, <1>0, CountModAssumption
      <3>8. rc' \in Results
        BY <3>3, <3>5, ResultFacts
      <3> QED
        BY <3>4, <3>7, <3>8, ClientSetType
    <2>8. CASE Deliver(t)
      <3>1. UNCHANGED <<mutex, fail_conn_count, readbuf, rc>>
        BY <2>8 DEF Deliver, clientVars
      <3>2. queue' \in 0 .. QueueLen
        BY <2>8, <1>0, QueueLenAssumption DEF Deliver
      <3> QED
        BY <3>1, <3>2, <1>0, ClientKeptType
    <2>9. CASE Keepalive(t)
      <3>1. UNCHANGED <<mutex, readbuf, queue>>
        BY <2>9 DEF Keepalive
      <3>3. rc' \in Results
        BY <2>9, RcResult DEF Keepalive, CycleResult
      <3>4. fail_conn_count' \in {fail_conn_count, 0, (fail_conn_count + 1) % CountMod}
        BY <2>9 DEF Keepalive, KeepaliveIdle, KeepalivePing, KeepaliveFails
      <3>5. fail_conn_count' \in 0 .. CountMod - 1
        BY <3>4, <1>0, CountModAssumption
      <3> QED
        BY <3>1, <3>3, <3>5, ClientSetType
    <2> QED
      BY <1>1, <2>1, <2>2, <2>3, <2>4, <2>5, <2>6, <2>7, <2>8, <2>9 DEF TaskStep
  <1>2. CASE OnlyMain
    <2>1. UNCHANGED <<fail_conn_count, readbuf, rc>>
      BY <1>2 DEF OnlyMain, CommandLock, CommandSend, Dequeue, clientVars
    <2>2. mutex' \in {mutex, NoTask, Main}
      BY <1>2 DEF OnlyMain, CommandLock, CommandSend, Dequeue, clientVars,
                  MutexLock, MutexUnlock
    <2>3. queue' = queue \/ (queue > 0 /\ queue' = queue - 1)
      BY <1>2 DEF OnlyMain, CommandLock, CommandSend, Dequeue
    <2>4. queue' \in 0 .. QueueLen
      BY <1>0, <2>3, QueueLenAssumption
    <2> QED
      BY <2>1, <2>2, <2>4, <1>0, TasksAssumption, ClientKeptType
  <1>3. CASE OnlyRun
    <2>1. UNCHANGED <<fail_conn_count, readbuf, queue>>
      BY <1>3 DEF OnlyRun, RunLock, RunUnlock
    <2>3. rc' \in Results
      BY <1>3, RcResult DEF OnlyRun, RunLock, RunUnlock
    <2>2. mutex' \in {NoTask, Run}
      BY <1>3 DEF OnlyRun, RunLock, RunUnlock, MutexLock, MutexUnlock
    <2> QED
      BY <2>1, <2>2, <2>3, <1>0, TasksAssumption, ClientKeptType
  <1>4. CASE ConnectTimerExpires \/ PingTimerExpires \/ Environment \/ UNCHANGED vars
    <2>1. UNCHANGED <<mutex, fail_conn_count, readbuf, rc, queue>>
      BY <1>4 DEF ConnectTimerExpires, PingTimerExpires, Environment, vars, clientVars
    <2> QED
      BY <2>1, <1>0, ClientKeptType
  <1>5. CASE KeyMessage
    <2>1. UNCHANGED <<mutex, fail_conn_count, readbuf, rc>>
      BY <1>5 DEF KeyMessage, clientVars
    <2>2. queue' \in 0 .. QueueLen
      BY <1>5, <1>0, QueueLenAssumption DEF KeyMessage
    <2> QED
      BY <2>1, <2>2, <1>0, ClientKeptType
  <1> QED
    BY <1>1, <1>2, <1>3, <1>4, <1>5 DEF Next

\* TypeOK: every variable keeps its type, whatever the tasks, the broker and the
\* network do; in particular fail_conn_count stays an unsigned byte and the queue
\* within its length.
THEOREM TypeCorrect == Safe => []TypeOK
  <1>1. TypeOK /\ [Next]_vars => TypeOK'
    BY NetStepType, ClientStepType, TaskStepType, FlagsStepType DEF TypeOK
  <1> QED
    BY <1>1, InitType, PTL DEF Safe
----------------------------------------------------------------------------
(* Mutual exclusion.  With the type of pc it is inductive.  Each action    *)
(* moves a task within the guarded code, outside it, into it or out of it. *)

\* A task that stays inside or outside the mutex keeps mutual exclusion;
LEMMA MovesInside ==
    ASSUME TaskTypeOK, MutualExclusion, NEW t \in Tasks, UNCHANGED mutex,
           NEW l, pc[t] \in Guarded <=> l \in Guarded, pc' = [pc EXCEPT ![t] = l]
    PROVE  MutualExclusion'
  BY DEF TaskTypeOK, MutualExclusion

\* one that enters takes the mutex,
LEMMA MovesIn ==
    ASSUME TaskTypeOK, MutualExclusion, NEW t \in Tasks, MutexLock(t),
           NEW l \in Guarded, pc' = [pc EXCEPT ![t] = l]
    PROVE  MutualExclusion'
  BY TasksAssumption DEF TaskTypeOK, MutualExclusion, MutexLock

\* and one that leaves gives it back.
LEMMA MovesOut ==
    ASSUME TaskTypeOK, MutualExclusion, NEW t \in Tasks, MutexUnlock,
           pc[t] \in Guarded, NEW l, l \notin Guarded, pc' = [pc EXCEPT ![t] = l]
    PROVE  MutualExclusion'
  BY TasksAssumption DEF TaskTypeOK, MutualExclusion, MutexUnlock

\* So every step of every task keeps mutual exclusion.
LEMMA MutualExclusionStep ==
    TaskTypeOK /\ MutualExclusion /\ [Next]_vars => MutualExclusion'
  <1> SUFFICES ASSUME TaskTypeOK, MutualExclusion, [Next]_vars
               PROVE  MutualExclusion'
    OBVIOUS
  <1> USE DEF Goto, Guarded, Cycle
  <1>1. ASSUME NEW t \in Tasks, TaskStep(t) PROVE MutualExclusion'
    <2>1. CASE Resolve(t) \/ AllocSocket(t) \/ Dial(t) \/ DialDone(t) \/ HandlerClose(t)
      BY <2>1, MovesInside
      DEF Resolve, AllocSocket, Dial, DialDone, HandlerClose, NetFailed, clientVars
    <2>2. CASE ConnectLock(t) \/ DisconnectLock(t)
      BY <2>2, MovesIn DEF ConnectLock, DisconnectLock
    <2>3. CASE ConnectSend(t) \/ WaitforDone(t)
      BY <2>3, MovesInside DEF ConnectSend, WaitforDone
    <2>4. CASE ConnectExit(t)
      <3>1. CASE t # Main \/ rc # SUCCESS
        BY <2>4, <3>1, MovesOut DEF ConnectExit
      <3>2. CASE t = Main /\ rc = SUCCESS
        BY <2>4, <3>2, TasksAssumption
        DEF ConnectExit, MutexUnlock, TaskTypeOK, MutualExclusion
      <3> QED
        BY <3>1, <3>2
    <2>5. CASE ReadNothing(t) \/ AnswerPacket(t)
      BY <2>5, MovesInside DEF ReadNothing, AnswerPacket
    <2>6. CASE ReadPacket(t)
      BY <2>6, MovesInside DEF ReadPacket, AfterRead
    <2>7. CASE Deliver(t)
      BY <2>7, MovesInside DEF Deliver, clientVars
    <2>8. CASE Keepalive(t)
      <3>1. UNCHANGED mutex /\ pc[t] = "keepalive"
        BY <2>8 DEF Keepalive, KeepaliveIdle, KeepalivePing, KeepaliveFails
      <3>2. CASE pc' = [pc EXCEPT ![t] = "cycled"]
        BY <3>1, <3>2, MovesInside
      <3>3. CASE \E h \in Handlers : /\ pc[h] = "none"
                                     /\ pc' = [pc EXCEPT ![t] = "cycled", ![h] = "disc_lock"]
        BY <3>1, <3>3 DEF Handlers, TaskTypeOK, MutualExclusion
      <3> QED
        BY <2>8, <3>2, <3>3
        DEF Keepalive, KeepaliveIdle, KeepalivePing, KeepaliveFails, SpawnHandler
    <2>9. CASE DisconnectSend(t)
      BY <2>9, MovesOut DEF DisconnectSend
    <2> QED
      BY <1>1, <2>1, <2>2, <2>3, <2>4, <2>5, <2>6, <2>7, <2>8, <2>9 DEF TaskStep
  <1>2. CASE OnlyMain
    <2>1. CASE CommandLock
      BY <2>1, MovesIn, TasksAssumption DEF CommandLock
    <2>2. CASE CommandSend
      <3>1. \E l \in {"cmd_lock", "serve"} : pc' = [pc EXCEPT ![Main] = l]
        BY <2>2 DEF CommandSend
      <3>2. pc[Main] \in Guarded /\ MutexUnlock
        BY <2>2 DEF CommandSend
      <3> QED
        BY <3>1, <3>2, MovesOut, TasksAssumption
    <2>3. CASE Dequeue
      BY <2>3, MovesInside, TasksAssumption DEF Dequeue, clientVars
    <2> QED
      BY <1>2, <2>1, <2>2, <2>3 DEF OnlyMain
  <1>3. CASE OnlyRun
    <2>1. CASE RunLock
      BY <2>1, MovesIn, TasksAssumption DEF RunLock
    <2>2. CASE RunUnlock
      BY <2>2, MovesOut, TasksAssumption DEF RunUnlock
    <2> QED
      BY <1>3, <2>1, <2>2 DEF OnlyRun
  <1>4. CASE ConnectTimerExpires \/ PingTimerExpires \/ KeyMessage \/ Environment
             \/ UNCHANGED vars
    <2>1. UNCHANGED <<pc, mutex>>
      BY <1>4 DEF ConnectTimerExpires, PingTimerExpires, KeyMessage, Environment,
                  vars, clientVars
    <2> QED
      BY <2>1 DEF MutualExclusion
  <1> QED
    BY <1>1, <1>2, <1>3, <1>4 DEF Next

\* MutexLock and MutexUnlock do what they are for: at most one of Main, Run and
\* any number of handlers is within the guarded code, and it owns the mutex.
THEOREM MutualExclusionHolds == Safe => []MutualExclusion
  <1>1. Init => TaskTypeOK /\ MutualExclusion
    BY InitType, TasksAssumption
    DEF TypeOK, Init, MutualExclusion, Guarded, Cycle, TaskTypeOK
  <1>2. TaskTypeOK /\ MutualExclusion /\ [Next]_vars
            => TaskTypeOK' /\ MutualExclusion'
    BY TaskStepType, MutualExclusionStep
  <1> QED
    BY <1>1, <1>2, PTL DEF Safe
----------------------------------------------------------------------------
(* isconnected is raised by an accepting CONNACK only.  ReadPacket raises  *)
(* it with the packet at hand; ConnectExit goes by rc, so the proof needs  *)
(* that a task that leaves MQTTConnect with SUCCESS left that CONNACK in   *)
(* readbuf, which in turn holds because nobody else writes rc or readbuf   *)
(* meanwhile: mutual exclusion.                                            *)

Accepted == [type |-> CONNACK, code |-> 0]

ExitAccepted ==
    \A t \in Tasks : pc[t] = "mc_exit" /\ rc = SUCCESS => readbuf = Accepted

IInv == TypeOK /\ MutualExclusion /\ ExitAccepted

\* A step away from the exit of MQTTConnect keeps ExitAccepted,
LEMMA ExitKept ==
    ASSUME ExitAccepted, UNCHANGED <<rc, readbuf>>,
           \A t \in Tasks : pc'[t] = "mc_exit" => pc[t] = "mc_exit"
    PROVE  ExitAccepted'
  BY DEF ExitAccepted, Accepted, SUCCESS

\* Who is at the exit owns the mutex: nobody is, when it is free or another's.
LEMMA ExitEmpty ==
    ASSUME MutualExclusion',
           \/ mutex' = NoTask
           \/ \E t \in Tasks : pc'[t] \in Guarded /\ pc'[t] # "mc_exit"
    PROVE  ExitAccepted'
  BY TasksAssumption DEF ExitAccepted, MutualExclusion, Guarded

\* and so does one that fails.
LEMMA ExitFailed ==
    ASSUME rc' = FAILURE
    PROVE  ExitAccepted'
  BY DEF ExitAccepted, SUCCESS, FAILURE

\* A CONNACK in readbuf with return code 0 is the accepting one.
LEMMA AcceptedByCode ==
    ASSUME NEW p \in Packet, p.type = CONNACK, p.code = 0
    PROVE  p = Accepted
  BY DEF Packet, Accepted

\* A CONNACK with code 0 is the accepting one.
LEMMA ReadbufAccepted ==
    ASSUME ClientTypeOK, readbuf.type = CONNACK, readbuf.code = 0
    PROVE  readbuf = Accepted
  <1>1. readbuf # NoPacket
    BY DEF NoPacket, CONNACK
  <1> QED
    BY <1>1, AcceptedByCode DEF ClientTypeOK

\* At the exit of MQTTConnect, SUCCESS comes from an accepting CONNACK, whatever the
\* other tasks do: they are not in cycle() then.
LEMMA ExitAcceptedStep ==
    IInv /\ MutualExclusion' /\ [Next]_vars => ExitAccepted'
  <1> SUFFICES ASSUME IInv, MutualExclusion', [Next]_vars PROVE ExitAccepted'
    OBVIOUS
  <1>0. TaskTypeOK /\ ClientTypeOK /\ ExitAccepted
    BY DEF IInv, TypeOK
  <1> USE DEF Goto
  <1>1. ASSUME NEW t \in Tasks, TaskStep(t) PROVE ExitAccepted'
    <2>1. CASE Resolve(t) \/ AllocSocket(t) \/ Dial(t) \/ DialDone(t) \/ HandlerClose(t)
      <3>1. UNCHANGED <<rc, readbuf>>
        BY <2>1 DEF Resolve, AllocSocket, Dial, DialDone, HandlerClose, clientVars
      <3>2. \E l \in Labels \ {"mc_exit"} : pc' = [pc EXCEPT ![t] = l]
        BY <2>1 DEF Resolve, AllocSocket, Dial, DialDone, HandlerClose, NetFailed,
                    Labels, Waiting, Dialling
      <3> QED
        BY <3>1, <3>2, <1>0, ExitKept DEF TaskTypeOK
    <2>2. CASE ConnectLock(t)
      <3>1. CASE isconnected
        BY <2>2, <3>1, ExitFailed DEF ConnectLock
      <3>2. CASE ~isconnected
        BY <2>2, <3>2, <1>0, ExitEmpty DEF ConnectLock, TaskTypeOK, Guarded
      <3> QED
        BY <3>1, <3>2
    <2>3. CASE ConnectSend(t)
      <3>1. CASE SendOk
        BY <2>3, <3>1, <1>0, ExitEmpty DEF ConnectSend, TaskTypeOK, Guarded, Cycle
      <3>2. CASE ~SendOk
        BY <2>3, <3>2, ExitFailed DEF ConnectSend
      <3> QED
        BY <3>1, <3>2
    <2>4. CASE WaitforDone(t)
      <3>1. CASE rc = CONNACK /\ readbuf.type = CONNACK
        <4>1. rc' = readbuf.code /\ UNCHANGED readbuf
          BY <2>4, <3>1 DEF WaitforDone
        <4>2. rc' = SUCCESS => readbuf' = Accepted
          BY <4>1, <3>1, <1>0, ReadbufAccepted DEF SUCCESS
        <4> QED
          BY <4>2 DEF ExitAccepted, Accepted, SUCCESS
      <3>2. CASE (rc = CONNACK /\ readbuf.type # CONNACK) \/ (rc # CONNACK /\ waitOver)
        BY <2>4, <3>2, ExitFailed DEF WaitforDone
      <3>3. CASE rc # CONNACK /\ ~waitOver
        BY <2>4, <3>3, <1>0, ExitEmpty DEF WaitforDone, TaskTypeOK, Guarded, Cycle
      <3> QED
        BY <3>1, <3>2, <3>3
    <2>5. CASE ConnectExit(t) \/ DisconnectSend(t)
      BY <2>5, ExitEmpty DEF ConnectExit, DisconnectSend, MutexUnlock
    <2>6. CASE ReadNothing(t) \/ ReadPacket(t) \/ AnswerPacket(t) \/ Deliver(t)
      <3>1. \E l \in Cycle : pc' = [pc EXCEPT ![t] = l]
        BY <2>6 DEF ReadNothing, ReadPacket, AfterRead, AnswerPacket, Deliver, Cycle
      <3> QED
        BY <3>1, <1>0, ExitEmpty DEF TaskTypeOK, Guarded, Cycle
    <2>7. CASE Keepalive(t)
      <3>1. pc'[t] = "cycled"
        BY <2>7, <1>0
        DEF Keepalive, KeepaliveIdle, KeepalivePing, KeepaliveFails, SpawnHandler,
            TaskTypeOK, Handlers
      <3> QED
        BY <3>1, ExitEmpty DEF Guarded, Cycle
    <2>8. CASE DisconnectLock(t)
      BY <2>8, <1>0, ExitEmpty DEF DisconnectLock, TaskTypeOK, Guarded
    <2> QED
      BY <1>1, <2>1, <2>2, <2>3, <2>4, <2>5, <2>6, <2>7, <2>8 DEF TaskStep
  <1>2. CASE OnlyMain
    <2>1. CASE CommandLock
      BY <2>1, <1>0, TasksAssumption, ExitEmpty DEF CommandLock, TaskTypeOK, Guarded
    <2>2. CASE CommandSend
      BY <2>2, ExitEmpty DEF CommandSend, MutexUnlock
    <2>3. CASE Dequeue
      BY <2>3, <1>0, ExitKept DEF Dequeue, clientVars, TaskTypeOK
    <2> QED
      BY <1>2, <2>1, <2>2, <2>3 DEF OnlyMain
  <1>3. CASE OnlyRun
    <2>1. CASE RunLock
      BY <2>1, <1>0, TasksAssumption, ExitEmpty DEF RunLock, TaskTypeOK, Guarded, Cycle
    <2>2. CASE RunUnlock
      BY <2>2, ExitEmpty DEF RunUnlock, MutexUnlock
    <2> QED
      BY <1>3, <2>1, <2>2 DEF OnlyRun
  <1>4. CASE ConnectTimerExpires \/ PingTimerExpires \/ KeyMessage \/ Environment
             \/ UNCHANGED vars
    <2>1. UNCHANGED <<pc, rc, readbuf>>
      BY <1>4 DEF ConnectTimerExpires, PingTimerExpires, KeyMessage, Environment,
                  vars, clientVars
    <2> QED
      BY <2>1, <1>0, ExitKept
  <1> QED
    BY <1>1, <1>2, <1>3, <1>4 DEF Next

\* The strengthened invariant.
THEOREM IInvHolds == Safe => []IInv
  <1>1. Init => IInv
    BY InitType, TasksAssumption
    DEF TypeOK, Init, IInv, MutualExclusion, ExitAccepted, Guarded, Cycle, TaskTypeOK
  <1>2. IInv /\ [Next]_vars => IInv'
    BY NetStepType, ClientStepType, TaskStepType, FlagsStepType, MutualExclusionStep,
       ExitAcceptedStep
    DEF IInv, TypeOK
  <1> QED
    BY <1>1, <1>2, PTL DEF Safe

\* Which steps raise isconnected, and with which packet.
LEMMA RaisedByAccepted ==
    IInv /\ [Next]_vars => (~isconnected /\ isconnected' => readbuf' = Accepted)
  <1> SUFFICES ASSUME IInv, [Next]_vars, ~isconnected, isconnected'
               PROVE  readbuf' = Accepted
    OBVIOUS
  <1>0. NetTypeOK /\ ExitAccepted
    BY DEF IInv, TypeOK
  <1>1. ASSUME NEW t \in Tasks, TaskStep(t) PROVE readbuf' = Accepted
    <2>1. CASE ConnectExit(t)
      <3>1. pc[t] = "mc_exit" /\ rc = SUCCESS /\ UNCHANGED readbuf
        BY <2>1 DEF ConnectExit
      <3> QED
        BY <3>1, <1>0 DEF ExitAccepted
    <2>2. CASE ReadPacket(t)
      <3> DEFINE p == Head(inbox[my_socket])
      <3>1. readbuf' = p /\ p.type = CONNACK /\ p.code = 0 /\ HasPacket(my_socket)
        BY <2>2 DEF ReadPacket
      <3>2. p \in Packet
        BY <3>1, <1>0, ReadType
      <3> QED
        BY <3>1, <3>2, AcceptedByCode
    <2>3. CASE ~ConnectExit(t) /\ ~ReadPacket(t)
      BY <1>1, <2>3
      DEF TaskStep, Resolve, AllocSocket, Dial, DialDone, ConnectLock, ConnectSend,
          WaitforDone, ReadNothing, AnswerPacket, Deliver, Keepalive, DisconnectLock,
          DisconnectSend, HandlerClose, clientVars
    <2> QED
      BY <2>1, <2>2, <2>3
  <1>2. CASE OnlyMain \/ OnlyRun
    BY <1>2 DEF OnlyMain, CommandLock, CommandSend, Dequeue, OnlyRun, RunLock,
                RunUnlock, clientVars
  <1>3. CASE ConnectTimerExpires \/ PingTimerExpires \/ KeyMessage \/ Environment
             \/ UNCHANGED vars
    BY <1>3 DEF ConnectTimerExpires, PingTimerExpires, KeyMessage, Environment,
                vars, clientVars
  <1> QED
    BY <1>1, <1>2, <1>3 DEF Next

\* A client never believes it is connected but for a CONNACK that says so: not for
\* a refusal with code 2 or a SUBACK granting QoS 2, which cycle() returns as the
\* same number, and not for the CONNACK of somebody else's attempt.
THEOREM RefusalNeverConnectsHolds == Safe => RefusalNeverConnects
  <1>1. IInv /\ [Next]_vars
            => [~isconnected /\ isconnected'
                => readbuf' = [type |-> CONNACK, code |-> 0]]_vars
    BY RaisedByAccepted DEF Accepted
  <1> QED
    BY <1>1, IInvHolds, PTL DEF Safe, RefusalNeverConnects
----------------------------------------------------------------------------
(* With the memory of MqttClientRaces.                                     *)

Step == [Next /\ Watch]_<<vars, races>>

\* The memory takes no part in what the client does.
LEMMA StepIsNext == Step => [Next]_vars
  BY DEF Step

LEMMA WatchedIsSafe == Watched => Safe
  <1>1. [Next /\ Watch]_<<vars, races>> => [Next]_vars
    OBVIOUS
  <1> QED
    BY <1>1, PTL DEF Watched, Safe

\* What has not happened after a step had not happened before it, nor by it.
LEMMA NotRaced ==
    ASSUME Step, ~raced'
    PROVE  ~raced /\ \A t \in Tasks : ~Reopens(t)
  <1>1. CASE Next /\ Watch
    BY <1>1 DEF Watch
  <1>2. CASE UNCHANGED <<vars, races>>
    BY <1>2 DEF vars, races, Reopens, Leaves
  <1> QED
    BY <1>1, <1>2 DEF Step

LEMMA NotCrossed ==
    ASSUME Step, ~crossed'
    PROVE  ~crossed /\ (Raised => \A t \in Tasks : pc[t] \notin Replacing)
  <1>1. CASE Next /\ Watch
    BY <1>1 DEF Watch
  <1>2. CASE UNCHANGED <<vars, races>>
    BY <1>2 DEF vars, races, clientVars, Raised
  <1> QED
    BY <1>1, <1>2 DEF Step

LEMMA NotOvertaken ==
    ASSUME Step, NEW h \in Handlers, StillToEnd(h), h \notin overtaken'
    PROVE  h \notin overtaken /\ ~Overtakes(h)
  <1>1. CASE Next /\ Watch
    BY <1>1 DEF Watch
  <1>2. CASE UNCHANGED <<vars, races>>
    BY <1>2 DEF vars, races, Overtakes
  <1> QED
    BY <1>1, <1>2 DEF Step

----------------------------------------------------------------------------
(* Which steps touch the descriptors, and which bring a task to the labels *)
(* where it has closed the connection or is about to end it.               *)

Connects(t) == AllocSocket(t) \/ Dial(t) \/ DialDone(t) \/ HandlerClose(t)

\* All others leave the descriptors alone,
LEMMA OthersKeep ==
    ASSUME [Next]_vars, ~Environment, \A t \in Tasks : ~Connects(t)
    PROVE  UNCHANGED <<my_socket, conn, dial>>
  <1>1. ASSUME NEW t \in Tasks, TaskStep(t) PROVE UNCHANGED <<my_socket, conn, dial>>
    <2>1. CASE Resolve(t) \/ ConnectLock(t) \/ ConnectSend(t) \/ WaitforDone(t)
               \/ ConnectExit(t) \/ DisconnectLock(t) \/ DisconnectSend(t)
      BY <2>1 DEF Resolve, ResolveFails, ConnectLock, ConnectSend, WaitforDone,
                  ConnectExit, DisconnectLock, DisconnectSend, Send, netVars
    <2>2. CASE ReadNothing(t) \/ ReadPacket(t) \/ AnswerPacket(t) \/ Deliver(t)
               \/ Keepalive(t)
      BY <2>2 DEF ReadNothing, ReadPacket, AnswerPacket, Deliver, Keepalive,
                  KeepaliveIdle, KeepalivePing, KeepaliveFails, Send, netVars
    <2> QED
      BY <1>1, <2>1, <2>2 DEF TaskStep, Connects
  <1>2. CASE OnlyMain \/ OnlyRun
    BY <1>2 DEF OnlyMain, CommandLock, CommandSend, Dequeue, Send, OnlyRun, RunLock,
                RunUnlock, netVars
  <1>3. CASE ConnectTimerExpires \/ PingTimerExpires \/ KeyMessage \/ UNCHANGED vars
    BY <1>3 DEF ConnectTimerExpires, PingTimerExpires, KeyMessage, vars, netVars
  <1> QED
    BY <1>1, <1>2, <1>3 DEF Next

\* and the environment only breaks what is connected.
LEMMA EnvironmentBreaks ==
    ASSUME TypeOK, Environment
    PROVE  /\ UNCHANGED <<pc, my_socket, dial, sess>>
           /\ \A f \in Fds : \/ conn'[f] = conn[f]
                             \/ conn[f] \in {"open", "mute"} /\ conn'[f] \in {"mute", "dead"}
  BY DEF Environment, BrokerDrops, LinkFails, TcpGivesUp, BrokerPushes, TypeOK, NetTypeOK

Ending == {"disc_lock", "disc_send"}

\* A label that no step leads to but those named.
LEMMA Entered ==
    ASSUME TaskTypeOK, [Next]_vars, NEW u \in Tasks, pc'[u] # pc[u]
    PROVE  /\ pc'[u] \in Closed => pc[u] \in Closed \/ HandlerClose(u)
           /\ pc'[u] \in Replacing => pc[u] \in Replacing \/ DisconnectSend(u)
           /\ pc'[u] \in Ending => pc[u] \in Ending \/ (~SendOk /\ UNCHANGED netVars)
  <1> USE DEF Goto, Closed, Replacing, Dialling, Ending
  <1>1. ASSUME NEW t \in Tasks, TaskStep(t)
        PROVE  /\ pc'[u] \in Closed => pc[u] \in Closed \/ HandlerClose(u)
               /\ pc'[u] \in Replacing => pc[u] \in Replacing \/ DisconnectSend(u)
               /\ pc'[u] \in Ending => pc[u] \in Ending \/ (~SendOk /\ UNCHANGED netVars)
    <2>1. CASE Resolve(t) \/ AllocSocket(t) \/ Dial(t) \/ DialDone(t)
      <3>1. /\ \/ pc[t] = "dns" /\ \E l \in {"socket", "mc_lock", "none"} :
                                      pc' = [pc EXCEPT ![t] = l]
               \/ pc[t] \in {"socket", "connect", "dialling"}
                  /\ \E l \in {"connect", "dialling", "mc_lock", "none"} :
                        pc' = [pc EXCEPT ![t] = l]
        BY <2>1 DEF Resolve, AllocSocket, Dial, DialDone, NetFailed
      <3> QED
        BY <3>1 DEF TaskTypeOK
    <2>2. CASE ConnectLock(t) \/ ConnectSend(t) \/ WaitforDone(t) \/ ReadNothing(t)
               \/ ReadPacket(t) \/ AnswerPacket(t) \/ Deliver(t)
      <3>1. \E l \in {"mc_exit", "mc_send", "read", "keepalive", "answer", "deliver", "cycled"} :
               pc' = [pc EXCEPT ![t] = l]
        BY <2>2 DEF ConnectLock, ConnectSend, WaitforDone, ReadNothing, ReadPacket,
                    AfterRead, AnswerPacket, Deliver
      <3> QED
        BY <3>1 DEF TaskTypeOK
    <2>3. CASE ConnectExit(t)
      <3>1. pc'[u] \in {pc[u], "none", "cmd_lock", "run_lock", "mc_lock"}
        BY <2>3, TasksAssumption DEF ConnectExit, TaskTypeOK
      <3> QED
        BY <3>1
    <2>4. CASE Keepalive(t)
      <3>1. pc'[u] \in {pc[u], "cycled", "disc_lock"}
        BY <2>4 DEF Keepalive, KeepaliveIdle, KeepalivePing, KeepaliveFails, SpawnHandler,
                    TaskTypeOK, Handlers
      <3>2. CASE pc' = [pc EXCEPT ![t] = "cycled"]
        BY <3>2 DEF TaskTypeOK
      <3>3. CASE KeepaliveFails(t)
        BY <3>1, <3>3 DEF KeepaliveFails
      <3> QED
        BY <2>4, <3>2, <3>3 DEF Keepalive, KeepaliveIdle, KeepalivePing
    <2>5. CASE DisconnectLock(t) \/ DisconnectSend(t) \/ HandlerClose(t)
      <3>1. u = t
        BY <2>5 DEF DisconnectLock, DisconnectSend, HandlerClose, TaskTypeOK
      <3>2. \/ pc[u] = "disc_lock" /\ pc'[u] = "disc_send"
            \/ DisconnectSend(u) /\ pc'[u] = "close"
            \/ HandlerClose(u) /\ pc[u] = "close" /\ pc'[u] = "dns"
        BY <2>5, <3>1 DEF DisconnectLock, DisconnectSend, HandlerClose, TaskTypeOK
      <3> QED
        BY <3>2
    <2> QED
      BY <1>1, <2>1, <2>2, <2>3, <2>4, <2>5 DEF TaskStep
  <1>2. CASE OnlyMain \/ OnlyRun
    <2>1. \E t \in Tasks, l \in {"cmd_lock", "cmd_send", "serve", "read", "run_lock"} :
             pc' = [pc EXCEPT ![t] = l]
      BY <1>2, TasksAssumption
      DEF OnlyMain, CommandLock, CommandSend, Dequeue, OnlyRun, RunLock, RunUnlock
    <2> QED
      BY <2>1 DEF TaskTypeOK
  <1>3. CASE ConnectTimerExpires \/ PingTimerExpires \/ KeyMessage \/ Environment
             \/ UNCHANGED vars
    BY <1>3 DEF ConnectTimerExpires, PingTimerExpires, KeyMessage, Environment, vars
  <1> QED
    BY <1>1, <1>2, <1>3 DEF Next

----------------------------------------------------------------------------
(* The descriptors.                                                        *)

\* A connect() under way is on a descriptor of its own, which is half open.
DialInv ==
    /\ \A t \in Tasks : dial[t] # NoFd => conn[dial[t]] = "syn"
    /\ \A t, u \in Tasks : dial[t] # NoFd /\ dial[t] = dial[u] => t = u

\* As long as nobody reopened what another had closed: one descriptor at most is
\* allocated, and none where a task is about to call socket().
SocketInv == ~raced =>
    /\ \A f \in Fds : conn[f] # "free" => f = my_socket
    /\ \A t \in Tasks : pc[t] \in Closed => \A f \in Fds : conn[f] = "free"

\* Closing f ends the connect() on it and changes no other descriptor.
LEMMA ClosedDials ==
    ASSUME TypeOK, DialInv, NEW f \in Fds,
           conn' = [conn EXCEPT ![f] = "free"],
           \A t \in Tasks : dial'[t] = NoFd \/ (dial'[t] = dial[t] /\ dial[t] # f)
    PROVE  DialInv'
  <1>1. \A t \in Tasks : dial'[t] # NoFd => dial[t] \in Fds /\ dial[t] # f
    BY DEF TypeOK, NetTypeOK
  <1>2. \A g \in Fds : g # f => conn'[g] = conn[g]
    BY DEF TypeOK, NetTypeOK
  <1> QED
    BY <1>1, <1>2 DEF DialInv

\* socket() hands out a descriptor that was free.
LEMMA AllocFree ==
    ASSUME TypeOK, NEW t \in Tasks, AllocSocket(t)
    PROVE  /\ UNCHANGED <<dial, sess>>
           /\ my_socket' \in Fds \cup {NoFd}
           /\ my_socket' \in Fds => /\ conn[my_socket'] = "free"
                                    /\ conn' = [conn EXCEPT ![my_socket'] = "fresh"]
           /\ my_socket' \notin Fds => conn' = conn
  <1>1. PICK f \in Fds \cup {NoFd} :
          /\ Socket(f)
          /\ my_socket' = f
          /\ conn' = IF f \in Fds THEN [conn EXCEPT ![f] = "fresh"] ELSE conn
    BY DEF AllocSocket, OpenSocket
  <1>2. f \in Fds => conn[f] = "free"
    BY <1>1, NumSocketsAssumption DEF Socket, FreeFds, Fds, NoFd
  <1>3. UNCHANGED <<dial, sess>>
    BY DEF AllocSocket, OpenSocket
  <1> QED
    BY <1>1, <1>2, <1>3

LEMMA DialStep == TypeOK /\ DialInv /\ [Next]_vars => DialInv'
  <1> SUFFICES ASSUME TypeOK, DialInv, [Next]_vars PROVE DialInv'
    OBVIOUS
  <1>0. /\ conn \in [Fds -> ConnStates]
        /\ dial \in [Tasks -> Fds \cup {NoFd}]
        /\ NoFd \notin Fds
    BY NumSocketsAssumption DEF TypeOK, NetTypeOK, Fds, NoFd
  <1>1. ASSUME NEW t \in Tasks, AllocSocket(t) PROVE DialInv'
    <2>1. /\ UNCHANGED dial
          /\ \A f \in Fds : conn'[f] = conn[f] \/ conn[f] = "free"
      BY <1>0, <1>1, AllocFree
    <2> QED
      BY <2>1, <1>0 DEF DialInv
  <1>2. ASSUME NEW t \in Tasks, Dial(t) PROVE DialInv'
    <2>1. CASE my_socket \in Fds /\ conn[my_socket] = "fresh"
      <3>1. /\ conn' = [conn EXCEPT ![my_socket] = "syn"]
            /\ dial' = [dial EXCEPT ![t] = my_socket]
        BY <1>2, <2>1 DEF Dial, StartConnect
      <3>2. \A u \in Tasks : dial[u] # my_socket
        BY <2>1, <1>0 DEF DialInv
      <3>3. conn'[my_socket] = "syn" /\ \A f \in Fds : f # my_socket => conn'[f] = conn[f]
        BY <2>1, <3>1, <1>0
      <3>4. dial'[t] = my_socket /\ \A u \in Tasks : u # t => dial'[u] = dial[u]
        BY <3>1, <1>0
      <3> QED
        BY <3>2, <3>3, <3>4, <1>0 DEF DialInv
    <2>2. CASE ~(my_socket \in Fds /\ conn[my_socket] = "fresh")
      BY <1>2, <2>2 DEF Dial, StartConnect, DialInv
    <2> QED
      BY <2>1, <2>2
  <1>3. ASSUME NEW t \in Tasks, DialDone(t) PROVE DialInv'
    <2>1. CASE ConnectSucceeds(t)
      <3>1. /\ dial[t] # NoFd
            /\ conn' = [conn EXCEPT ![dial[t]] = "open"]
            /\ dial' = [dial EXCEPT ![t] = NoFd]
        BY <2>1 DEF ConnectSucceeds
      <3>2. \A u \in Tasks : dial'[u] # NoFd => u # t /\ dial'[u] = dial[u]
        BY <3>1, <1>0
      <3>3. \A u \in Tasks : dial'[u] # NoFd => dial[u] # dial[t] /\ conn'[dial[u]] = conn[dial[u]]
        BY <3>1, <3>2, <1>0 DEF DialInv
      <3> QED
        BY <3>2, <3>3 DEF DialInv
    <2>2. CASE ConnectFails(t)
      <3>1. CASE my_socket \in Fds
        BY <2>2, <3>1, ClosedDials DEF ConnectFails
      <3>2. CASE my_socket \notin Fds
        BY <2>2, <3>2, <1>0 DEF ConnectFails, DialInv
      <3> QED
        BY <3>1, <3>2
    <2> QED
      BY <1>3, <2>1, <2>2 DEF DialDone
  <1>4. ASSUME NEW t \in Tasks, HandlerClose(t) PROVE DialInv'
    <2>1. CASE my_socket \in Fds
      BY <1>4, <2>1, ClosedDials DEF HandlerClose, CloseSocket
    <2>2. CASE my_socket \notin Fds
      BY <1>4, <2>2 DEF HandlerClose, CloseSocket, DialInv
    <2> QED
      BY <2>1, <2>2
  <1>5. CASE Environment
    <2>1. UNCHANGED dial /\ \A f \in Fds : conn[f] = "syn" => conn'[f] = "syn"
      BY <1>5, EnvironmentBreaks
    <2> QED
      BY <2>1, <1>0 DEF DialInv
  <1>6. CASE ~Environment /\ \A t \in Tasks : ~Connects(t)
    BY <1>6, OthersKeep DEF DialInv
  <1> QED
    BY <1>1, <1>2, <1>3, <1>4, <1>5, <1>6 DEF Connects

\* A step that allocates nothing and brings nobody to a label of Closed.
LEMMA SocketsKept ==
    ASSUME SocketInv, Step, UNCHANGED my_socket,
           \A f \in Fds : conn'[f] # "free" => conn[f] # "free",
           \A t \in Tasks : pc'[t] \in Closed => pc[t] \in Closed
    PROVE  SocketInv'
  BY NotRaced DEF SocketInv

LEMMA SocketStep == TypeOK /\ DialInv /\ SocketInv /\ Step => SocketInv'
  <1> SUFFICES ASSUME TypeOK, DialInv, SocketInv, Step PROVE SocketInv'
    OBVIOUS
  <1>0. /\ conn \in [Fds -> ConnStates]
        /\ dial \in [Tasks -> Fds \cup {NoFd}]
        /\ NoFd \notin Fds
        /\ TaskTypeOK /\ [Next]_vars
    BY StepIsNext, NumSocketsAssumption DEF TypeOK, NetTypeOK, Fds, NoFd
  <1>a. ASSUME \A t \in Tasks : ~HandlerClose(t)
        PROVE  \A t \in Tasks : pc'[t] \in Closed => pc[t] \in Closed
    BY <1>0, <1>a, Entered
  <1>1. ASSUME NEW t \in Tasks, AllocSocket(t) PROVE SocketInv'
    <2> SUFFICES ASSUME ~raced' PROVE SocketInv'
      BY DEF SocketInv
    <2>1. ~raced /\ ~Reopens(t)
      BY NotRaced
    <2>2. pc[t] = "socket" /\ \A f \in Fds : conn[f] = "free"
      BY <1>1, <2>1 DEF AllocSocket, SocketInv, Closed
    <2>3. \A f \in Fds : conn'[f] # "free" => f = my_socket'
      BY <1>0, <1>1, <2>2, AllocFree
    <2>4. \E l \in {"connect", "mc_lock", "none"} : pc' = [pc EXCEPT ![t] = l]
      BY <1>1 DEF AllocSocket, Goto, NetFailed
    <2>5. /\ pc'[t] \notin Closed
          /\ \A u \in Tasks : u # t => pc'[u] = pc[u]
      BY <2>4, <1>0 DEF TaskTypeOK, Closed
    <2>6. \A u \in Tasks : u # t => pc[u] \notin Closed
      BY <2>1, <2>2, <2>5 DEF Reopens, Leaves, Closed
    <2> QED
      BY <2>3, <2>5, <2>6 DEF SocketInv
  <1>2. ASSUME NEW t \in Tasks, HandlerClose(t) PROVE SocketInv'
    <2> SUFFICES ASSUME ~raced' PROVE SocketInv'
      BY DEF SocketInv
    <2>1. \A f \in Fds : conn[f] # "free" => f = my_socket
      BY NotRaced DEF SocketInv
    <2>2. \A f \in Fds : conn'[f] = "free"
      BY <1>0, <1>2, <2>1 DEF HandlerClose, CloseSocket
    <2> QED
      BY <2>2 DEF SocketInv
  <1>3. ASSUME NEW t \in Tasks, Dial(t) PROVE SocketInv'
    <2>1. UNCHANGED my_socket /\ \A f \in Fds : conn'[f] # "free" => conn[f] # "free"
      BY <1>0, <1>3 DEF Dial, StartConnect
    <2>2. \A u \in Tasks : pc'[u] \in Closed => pc[u] \in Closed
      BY <1>0, <1>3 DEF Dial, Goto, Closed, TaskTypeOK
    <2> QED
      BY <2>1, <2>2, SocketsKept
  <1>4. ASSUME NEW t \in Tasks, DialDone(t) PROVE SocketInv'
    <2>1. UNCHANGED my_socket /\ \A f \in Fds : conn'[f] # "free" => conn[f] # "free"
      <3>1. CASE ConnectSucceeds(t)
        BY <1>0, <3>1 DEF ConnectSucceeds, DialInv
      <3>2. CASE ConnectFails(t)
        BY <1>0, <3>2 DEF ConnectFails
      <3> QED
        BY <1>4, <3>1, <3>2 DEF DialDone
    <2>2. \E l \in {"mc_lock", "none"} : pc' = [pc EXCEPT ![t] = l]
      BY <1>4 DEF DialDone, Goto, NetFailed
    <2>3. \A u \in Tasks : pc'[u] \in Closed => pc[u] \in Closed
      BY <2>2, <1>0 DEF Closed, TaskTypeOK
    <2> QED
      BY <2>1, <2>3, SocketsKept
  <1>5. CASE Environment
    <2>1. UNCHANGED <<pc, my_socket>> /\ \A f \in Fds : conn'[f] # "free" => conn[f] # "free"
      BY <1>5, EnvironmentBreaks
    <2> QED
      BY <2>1, SocketsKept
  <1>6. CASE ~Environment /\ \A t \in Tasks : ~Connects(t)
    <2>1. UNCHANGED <<my_socket, conn>>
      BY <1>0, <1>6, OthersKeep
    <2> QED
      BY <2>1, <1>6, <1>a, SocketsKept DEF Connects
  <1> QED
    BY <1>1, <1>2, <1>3, <1>4, <1>5, <1>6 DEF Connects

----------------------------------------------------------------------------
(* The flag isconnected and the session it stands for.                     *)

\* Unless it was raised there, the flag is down from MQTTDisconnect to MQTTConnect.
DownWhileReplacing ==
    ~crossed => \A t \in Tasks : pc[t] \in Replacing => ~isconnected

\* The broker sends only where it was sent something.
InboxHasSession == \A f \in Fds : inbox[f] # <<>> => sess[f] # "none"

\* An accepting CONNACK that cycle() has read, or that MQTTConnect returns on, has
\* raised the flag, and nobody has lowered it since.
AcceptedIsRaised == \A t \in Tasks :
    /\ pc[t] = "mc_exit" /\ rc = SUCCESS => isconnected
    /\ pc[t] \in Cycle \ {"read"} /\ readbuf = Accepted => isconnected

FlagInv == DownWhileReplacing /\ InboxHasSession /\ AcceptedIsRaised /\ FlagNotStale

\* What a step may do to the sessions: the broker answers only where it has been
\* sent something, and forgets only what was closed.
SessionsKept ==
    /\ \A f \in Fds : sess[f] # "none" /\ sess'[f] = "none" => inbox'[f] = <<>>
    /\ \A f \in Fds : inbox'[f] # <<>> => inbox[f] # <<>> \/ sess'[f] # "none"

\* A session ends only with its connection.
SessionsLast ==
    \A f \in Fds : sess[f] # "none" /\ conn'[f] = "open" => sess'[f] # "none"

LEMMA SessionsUnchanged ==
    ASSUME UNCHANGED <<sess, inbox>>
    PROVE  SessionsKept /\ SessionsLast
  BY DEF SessionsKept, SessionsLast

LEMMA AnswerSessions ==
    ASSUME TypeOK, NEW f \in Fds, sess' \in [Fds -> SessStates],
           \A g \in Fds : sess[g] # "none" => sess'[g] # "none",
           sess'[f] # "none",
           UNCHANGED inbox \/ \E type, code : Answer(f, type, code)
    PROVE  SessionsKept /\ SessionsLast
  <1>1. \A g \in Fds : g # f => inbox'[g] = inbox[g]
    BY DEF Answer, TypeOK, NetTypeOK
  <1> QED
    BY <1>1 DEF SessionsKept, SessionsLast

LEMMA SendSessions ==
    ASSUME TypeOK, NEW type, Send(type)
    PROVE  SessionsKept /\ SessionsLast
  <1>1. my_socket \in Fds
    BY DEF Send, SendOk, Writable
  <1>2. CASE BrokerTakes(my_socket, type, Grants)
    <2>0. \/ UNCHANGED sess /\ sess[my_socket] # "none"
          \/ \E s \in {"bad", "up", "sub"} : sess' = [sess EXCEPT ![my_socket] = s]
      BY <1>2 DEF BrokerTakes, Breach
    <2>1. /\ sess' \in [Fds -> SessStates]
          /\ \A g \in Fds : sess[g] # "none" => sess'[g] # "none"
          /\ sess'[my_socket] # "none"
      BY <1>1, <2>0 DEF TypeOK, NetTypeOK, SessStates
    <2>2. UNCHANGED inbox \/ \E ty, code : Answer(my_socket, ty, code)
      BY <1>2 DEF BrokerTakes, Breach
    <2> QED
      BY <1>1, <2>1, <2>2, AnswerSessions
  <1> QED
    BY <1>2, SessionsUnchanged DEF Send, Reaches

\* Every step is such a step.
LEMMA SessionStep ==
    TypeOK /\ [Next]_vars => SessionsKept /\ SessionsLast
  <1> SUFFICES ASSUME TypeOK, [Next]_vars PROVE SessionsKept /\ SessionsLast
    OBVIOUS
  <1>1. ASSUME NEW t \in Tasks, TaskStep(t) PROVE SessionsKept /\ SessionsLast
    <2>1. CASE Resolve(t) \/ AllocSocket(t) \/ Dial(t)
      BY <2>1, SessionsUnchanged
      DEF Resolve, ResolveFails, AllocSocket, OpenSocket, Dial, StartConnect, netVars
    <2>2. CASE DialDone(t) \/ HandlerClose(t)
      <3>1. CASE UNCHANGED <<sess, inbox>>
        BY <3>1, SessionsUnchanged
      <3>2. CASE /\ my_socket \in Fds
                 /\ conn' = [conn EXCEPT ![my_socket] = "free"]
                 /\ sess' = [sess EXCEPT ![my_socket] = "none"]
                 /\ inbox' = [inbox EXCEPT ![my_socket] = <<>>]
        BY <3>2 DEF SessionsKept, SessionsLast, TypeOK, NetTypeOK
      <3> QED
        BY <2>2, <3>1, <3>2
        DEF DialDone, ConnectSucceeds, ConnectFails, HandlerClose, CloseSocket
    <2>3. CASE ConnectLock(t) \/ WaitforDone(t) \/ ConnectExit(t) \/ ReadNothing(t)
               \/ Deliver(t) \/ DisconnectLock(t)
      BY <2>3, SessionsUnchanged
      DEF ConnectLock, WaitforDone, ConnectExit, ReadNothing, Deliver, DisconnectLock,
          netVars
    <2>4. CASE ConnectSend(t)
      <3>1. CASE SendOk /\ BrokerTakesConnect(my_socket, Refusals)
        <4>1. my_socket \in Fds
          BY <3>1 DEF SendOk, Writable
        <4>2. /\ sess' \in [Fds -> SessStates]
              /\ \A g \in Fds : sess[g] # "none" => sess'[g] # "none"
              /\ sess'[my_socket] # "none"
          BY <3>1, <4>1 DEF BrokerTakesConnect, Breach, TypeOK, NetTypeOK, SessStates
        <4>3. UNCHANGED inbox \/ \E ty, code : Answer(my_socket, ty, code)
          BY <3>1 DEF BrokerTakesConnect, Breach
        <4> QED
          BY <4>1, <4>2, <4>3, AnswerSessions
      <3>2. CASE UNCHANGED <<sess, inbox>>
        BY <3>2, SessionsUnchanged
      <3> QED
        BY <2>4, <3>1, <3>2 DEF ConnectSend, Reaches, netVars
    <2>5. CASE ReadPacket(t)
      <3>1. /\ UNCHANGED sess
            /\ my_socket \in Fds /\ inbox[my_socket] # <<>>
            /\ inbox' = [inbox EXCEPT ![my_socket] = Tail(@)]
        BY <2>5 DEF ReadPacket, HasPacket, Writable
      <3> QED
        BY <3>1 DEF SessionsKept, SessionsLast, TypeOK, NetTypeOK
    <2>6. CASE AnswerPacket(t) \/ Keepalive(t) \/ DisconnectSend(t)
      <3>1. (\E type : Send(type)) \/ UNCHANGED <<sess, inbox>>
        BY <2>6 DEF AnswerPacket, Keepalive, KeepaliveIdle, KeepalivePing,
                    KeepaliveFails, DisconnectSend, netVars
      <3> QED
        BY <3>1, SendSessions, SessionsUnchanged
    <2> QED
      BY <1>1, <2>1, <2>2, <2>3, <2>4, <2>5, <2>6 DEF TaskStep
  <1>2. CASE OnlyMain
    <2>1. (\E type : Send(type)) \/ UNCHANGED <<sess, inbox>>
      BY <1>2 DEF OnlyMain, CommandLock, CommandSend, Dequeue, netVars
    <2> QED
      BY <2>1, SendSessions, SessionsUnchanged
  <1>3. CASE OnlyRun \/ ConnectTimerExpires \/ PingTimerExpires \/ KeyMessage
             \/ UNCHANGED vars
    BY <1>3, SessionsUnchanged
    DEF OnlyRun, RunLock, RunUnlock, ConnectTimerExpires, PingTimerExpires, KeyMessage,
        vars, netVars
  <1>4. CASE Environment
    <2>1. PICK f \in Fds : \/ BrokerDrops(f) \/ LinkFails(f) \/ TcpGivesUp(f)
                           \/ \E p \in Pushes : BrokerPushes(f, p)
      BY <1>4 DEF Environment
    <2>2. UNCHANGED sess
      BY <2>1 DEF BrokerDrops, LinkFails, TcpGivesUp, BrokerPushes
    <2>3. \A g \in Fds : inbox'[g] # <<>> => inbox[g] # <<>> \/ sess[g] # "none"
      BY <2>1 DEF BrokerDrops, LinkFails, TcpGivesUp, BrokerPushes, TypeOK, NetTypeOK
    <2> QED
      BY <2>2, <2>3 DEF SessionsKept, SessionsLast
  <1> QED
    BY <1>1, <1>2, <1>3, <1>4 DEF Next

\* With those, no inbox outlives its session,
LEMMA InboxStep ==
    ASSUME InboxHasSession, SessionsKept
    PROVE  InboxHasSession'
  BY DEF InboxHasSession, SessionsKept

\* and a flag that stays keeps its session, as long as nobody is connecting.
LEMMA SessionFollows ==
    ASSUME ConnectedHasSession, SessionsLast, UNCHANGED my_socket,
           isconnected' => isconnected,
           isconnected' /\ my_socket \in Fds /\ conn'[my_socket] = "open"
               => conn[my_socket] = "open"
    PROVE  ConnectedHasSession'
  BY DEF ConnectedHasSession, SessionsLast

\* AcceptedIsRaised is about whoever owns the mutex: a step outside it,
LEMMA RaisedKept ==
    ASSUME AcceptedIsRaised, UNCHANGED <<isconnected, readbuf, rc>>,
           \A u \in Tasks : pc'[u] \in Guarded => pc'[u] = pc[u]
    PROVE  AcceptedIsRaised'
  BY DEF AcceptedIsRaised, Guarded, Accepted

\* one that gives the mutex back,
LEMMA RaisedFree ==
    ASSUME MutualExclusion', mutex' = NoTask
    PROVE  AcceptedIsRaised'
  BY TasksAssumption DEF AcceptedIsRaised, MutualExclusion, Guarded

\* and one of the owner.
LEMMA RaisedOwner ==
    ASSUME MutualExclusion', NEW t \in Tasks, pc'[t] \in Guarded,
           pc'[t] = "mc_exit" /\ rc' = SUCCESS => isconnected',
           pc'[t] \in Cycle \ {"read"} /\ readbuf' = Accepted => isconnected'
    PROVE  AcceptedIsRaised'
  <1>1. \A u \in Tasks : pc'[u] \in Guarded => u = t
    BY DEF MutualExclusion
  <1> QED
    BY <1>1 DEF AcceptedIsRaised, Guarded

LinkInv == IInv /\ DialInv /\ SocketInv /\ FlagInv

\* Nobody comes to replace the connection with the flag up.
LEMMA DownStep == LinkInv /\ Step => DownWhileReplacing'
  <1> SUFFICES ASSUME LinkInv, Step, ~crossed', NEW u \in Tasks, pc'[u] \in Replacing
               PROVE  ~isconnected'
    BY DEF DownWhileReplacing
  <1>1. DownWhileReplacing /\ TaskTypeOK /\ [Next]_vars
    BY StepIsNext DEF LinkInv, FlagInv, IInv, TypeOK
  <1>2. CASE pc[u] \in Replacing
    <2>1. ~isconnected /\ ~Raised
      BY <1>1, <1>2, NotCrossed DEF DownWhileReplacing
    <2> QED
      BY <2>1 DEF Raised
  <1>3. CASE pc[u] \notin Replacing
    <2>1. DisconnectSend(u)
      BY <1>1, <1>3, Entered
    <2> QED
      BY <2>1 DEF DisconnectSend
  <1> QED
    BY <1>2, <1>3

\* Every step leaves the flag raised for an accepting CONNACK.
LEMMA RaisedStep ==
    LinkInv /\ MutualExclusion' /\ [Next]_vars => AcceptedIsRaised'
  <1> SUFFICES ASSUME LinkInv, MutualExclusion', [Next]_vars PROVE AcceptedIsRaised'
    OBVIOUS
  <1>0. TypeOK /\ TaskTypeOK /\ ClientTypeOK /\ NetTypeOK /\ AcceptedIsRaised
    BY DEF LinkInv, IInv, TypeOK, FlagInv
  <1> USE DEF Goto
  <1>1. ASSUME NEW t \in Tasks, TaskStep(t) PROVE AcceptedIsRaised'
    <2>1. CASE Resolve(t) \/ AllocSocket(t) \/ Dial(t) \/ DialDone(t) \/ HandlerClose(t)
      <3>1. UNCHANGED <<isconnected, readbuf, rc>>
        BY <2>1 DEF Resolve, AllocSocket, Dial, DialDone, HandlerClose, clientVars
      <3>2. \E l \in {"dns", "socket", "connect", "dialling", "mc_lock", "none"} :
               pc' = [pc EXCEPT ![t] = l]
        BY <2>1 DEF Resolve, AllocSocket, Dial, DialDone, HandlerClose, NetFailed
      <3>3. \A u \in Tasks : pc'[u] \in Guarded => pc'[u] = pc[u]
        BY <3>2, <1>0 DEF TaskTypeOK, Guarded, Cycle
      <3> QED
        BY <3>1, <3>3, <1>0, RaisedKept
    <2>2. CASE ConnectLock(t)
      <3>1. pc'[t] = "mc_send" \/ (pc'[t] = "mc_exit" /\ rc' = FAILURE)
        BY <2>2, <1>0 DEF ConnectLock, TaskTypeOK
      <3> QED
        BY <3>1, RaisedOwner DEF Guarded, Cycle, SUCCESS, FAILURE
    <2>3. CASE ConnectSend(t)
      <3>1. pc'[t] = "read" \/ (pc'[t] = "mc_exit" /\ rc' = FAILURE)
        BY <2>3, <1>0 DEF ConnectSend, TaskTypeOK
      <3> QED
        BY <3>1, RaisedOwner DEF Guarded, Cycle, SUCCESS, FAILURE
    <2>4. CASE WaitforDone(t)
      <3>1. UNCHANGED <<isconnected, readbuf>> /\ pc[t] = "cycled"
        BY <2>4 DEF WaitforDone
      <3>2. \/ pc'[t] = "read"
            \/ pc'[t] = "mc_exit" /\ rc' = FAILURE
            \/ pc'[t] = "mc_exit" /\ readbuf.type = CONNACK /\ rc' = readbuf.code
        BY <2>4, <1>0 DEF WaitforDone, TaskTypeOK
      <3>3. readbuf.type = CONNACK /\ readbuf.code = 0 => isconnected
        <4>1. readbuf.type = CONNACK /\ readbuf.code = 0 => readbuf = Accepted
          BY <1>0, ReadbufAccepted
        <4>2. readbuf = Accepted => isconnected
          BY <3>1, <1>0 DEF AcceptedIsRaised, Cycle
        <4> QED
          BY <4>1, <4>2
      <3>4. pc'[t] = "mc_exit" /\ rc' = SUCCESS => isconnected'
        BY <3>1, <3>2, <3>3 DEF SUCCESS, FAILURE
      <3>5. pc'[t] \in Guarded /\ pc'[t] \notin Cycle \ {"read"}
        BY <3>2 DEF Guarded, Cycle
      <3> QED
        BY <3>4, <3>5, RaisedOwner
    <2>5. CASE ConnectExit(t) \/ DisconnectSend(t)
      BY <2>5, RaisedFree DEF ConnectExit, DisconnectSend, MutexUnlock
    <2>6. CASE ReadNothing(t)
      <3>1. pc'[t] = "keepalive" /\ readbuf' = NoPacket
        BY <2>6, <1>0 DEF ReadNothing, TaskTypeOK
      <3>2. NoPacket # Accepted
        <4>1. NoPacket.type # Accepted.type
          BY DEF NoPacket, Accepted, CONNACK
        <4> QED
          BY <4>1
      <3> QED
        BY <3>1, <3>2, RaisedOwner DEF Guarded, Cycle
    <2>7. CASE ReadPacket(t)
      <3>1. pc'[t] \in {"answer", "keepalive"}
        BY <2>7, <1>0 DEF ReadPacket, AfterRead, TaskTypeOK
      <3>2. readbuf' = Accepted => isconnected'
        <4>1. Accepted.type = CONNACK /\ Accepted.code = 0
          BY DEF Accepted
        <4>2. readbuf'.type = CONNACK /\ readbuf'.code = 0 => isconnected'
          BY <2>7 DEF ReadPacket
        <4> QED
          BY <4>1, <4>2
      <3> QED
        BY <3>1, <3>2, RaisedOwner DEF Guarded, Cycle
    <2>8. CASE AnswerPacket(t) \/ Deliver(t) \/ Keepalive(t)
      <3>1. UNCHANGED <<isconnected, readbuf>>
        BY <2>8 DEF AnswerPacket, Deliver, Keepalive, clientVars
      <3>2. pc[t] \in Cycle \ {"read"} /\ pc'[t] \in Cycle \ {"read"}
        BY <2>8, <1>0
        DEF AnswerPacket, Deliver, Keepalive, KeepaliveIdle, KeepalivePing,
            KeepaliveFails, SpawnHandler, TaskTypeOK, Handlers, Cycle
      <3>3. readbuf' = Accepted => isconnected'
        BY <3>1, <3>2, <1>0 DEF AcceptedIsRaised, Accepted
      <3> QED
        BY <3>2, <3>3, RaisedOwner DEF Guarded, Cycle
    <2>9. CASE DisconnectLock(t)
      <3>1. pc'[t] = "disc_send"
        BY <2>9, <1>0 DEF DisconnectLock, TaskTypeOK
      <3> QED
        BY <3>1, RaisedOwner DEF Guarded, Cycle
    <2> QED
      BY <1>1, <2>1, <2>2, <2>3, <2>4, <2>5, <2>6, <2>7, <2>8, <2>9 DEF TaskStep
  <1>2. CASE OnlyMain
    <2>1. CASE CommandLock
      <3>1. pc'[Main] = "cmd_send"
        BY <2>1, <1>0, TasksAssumption DEF CommandLock, TaskTypeOK
      <3> QED
        BY <3>1, RaisedOwner, TasksAssumption DEF Guarded, Cycle
    <2>2. CASE CommandSend
      BY <2>2, RaisedFree DEF CommandSend, MutexUnlock
    <2>3. CASE Dequeue
      <3>1. UNCHANGED <<isconnected, readbuf, rc>> /\ pc' = [pc EXCEPT ![Main] = "cmd_lock"]
        BY <2>3 DEF Dequeue, clientVars
      <3>2. \A u \in Tasks : pc'[u] \in Guarded => pc'[u] = pc[u]
        BY <3>1, <1>0 DEF TaskTypeOK, Guarded, Cycle
      <3> QED
        BY <3>1, <3>2, <1>0, RaisedKept
    <2> QED
      BY <1>2, <2>1, <2>2, <2>3 DEF OnlyMain
  <1>3. CASE OnlyRun
    <2>1. CASE RunLock
      <3>1. pc'[Run] = "read"
        BY <2>1, <1>0, TasksAssumption DEF RunLock, TaskTypeOK
      <3> QED
        BY <3>1, RaisedOwner, TasksAssumption DEF Guarded, Cycle
    <2>2. CASE RunUnlock
      BY <2>2, RaisedFree DEF RunUnlock, MutexUnlock
    <2> QED
      BY <1>3, <2>1, <2>2 DEF OnlyRun
  <1>4. CASE ConnectTimerExpires \/ PingTimerExpires \/ KeyMessage \/ Environment
             \/ UNCHANGED vars
    <2>1. UNCHANGED <<pc, isconnected, readbuf, rc>>
      BY <1>4 DEF ConnectTimerExpires, PingTimerExpires, KeyMessage, Environment,
                  vars, clientVars
    <2> QED
      BY <2>1, <1>0, RaisedKept
  <1> QED
    BY <1>1, <1>2, <1>3, <1>4 DEF Next

\* Every step keeps the session of a client that believes it has one.
LEMMA NotStaleStep == LinkInv /\ Step => FlagNotStale'
  <1> SUFFICES ASSUME LinkInv, Step, ~crossed' PROVE ConnectedHasSession'
    BY DEF FlagNotStale
  <1>n. [Next]_vars
    BY StepIsNext
  <1>0. /\ TypeOK /\ InboxHasSession /\ AcceptedIsRaised /\ ConnectedHasSession
        /\ \A t \in Tasks : pc[t] \in Replacing => ~isconnected
    BY NotCrossed DEF LinkInv, IInv, FlagInv, FlagNotStale, DownWhileReplacing
  <1>a. SessionsLast
    BY <1>n, <1>0, SessionStep
  <1>1. ASSUME NEW t \in Tasks, TaskStep(t) PROVE ConnectedHasSession'
    <2>1. CASE Resolve(t) \/ AllocSocket(t) \/ Dial(t) \/ DialDone(t) \/ HandlerClose(t)
      <3>1. UNCHANGED isconnected /\ pc[t] \in Replacing
        BY <2>1 DEF Resolve, AllocSocket, Dial, DialDone, HandlerClose, clientVars, Goto,
                    Replacing, Dialling
      <3> QED
        BY <3>1, <1>0 DEF ConnectedHasSession
    <2>2. CASE ConnectLock(t) \/ ConnectSend(t) \/ WaitforDone(t) \/ DisconnectLock(t)
               \/ ReadNothing(t) \/ AnswerPacket(t) \/ Deliver(t) \/ Keepalive(t)
      <3>1. UNCHANGED <<isconnected, my_socket, conn>>
        BY <2>2
        DEF ConnectLock, ConnectSend, WaitforDone, DisconnectLock, ReadNothing,
            AnswerPacket, Deliver, Keepalive, KeepaliveIdle, KeepalivePing,
            KeepaliveFails, Send, netVars, clientVars
      <3> QED
        BY <3>1, <1>0, <1>a, SessionFollows
    <2>3. CASE ConnectExit(t)
      <3>1. UNCHANGED <<my_socket, conn>> /\ (isconnected' => isconnected)
        BY <2>3, <1>0 DEF ConnectExit, AcceptedIsRaised, netVars
      <3> QED
        BY <3>1, <1>0, <1>a, SessionFollows
    <2>4. CASE ReadPacket(t)
      <3>1. /\ UNCHANGED <<my_socket, sess>>
            /\ my_socket \in Fds /\ inbox[my_socket] # <<>>
        BY <2>4 DEF ReadPacket, HasPacket, Writable
      <3> QED
        BY <3>1, <1>0 DEF InboxHasSession, ConnectedHasSession
    <2>5. CASE DisconnectSend(t)
      BY <2>5 DEF DisconnectSend, ConnectedHasSession
    <2> QED
      BY <1>1, <2>1, <2>2, <2>3, <2>4, <2>5 DEF TaskStep
  <1>2. CASE OnlyMain \/ OnlyRun \/ ConnectTimerExpires \/ PingTimerExpires \/ KeyMessage
             \/ UNCHANGED vars
    <2>1. UNCHANGED <<isconnected, my_socket, conn>>
      BY <1>2
      DEF OnlyMain, CommandLock, CommandSend, Send, Dequeue, OnlyRun, RunLock, RunUnlock,
          ConnectTimerExpires, PingTimerExpires, KeyMessage, vars, netVars, clientVars
    <2> QED
      BY <2>1, <1>0, <1>a, SessionFollows
  <1>3. CASE Environment
    <2>1. UNCHANGED <<isconnected, my_socket>>
      BY <1>3 DEF Environment, BrokerDrops, LinkFails, TcpGivesUp, BrokerPushes, clientVars
    <2>2. \A f \in Fds : conn'[f] = "open" => conn[f] = "open"
      BY <1>3, <1>0 DEF Environment, BrokerDrops, LinkFails, TcpGivesUp, BrokerPushes,
                        TypeOK, NetTypeOK
    <2> QED
      BY <2>1, <2>2, <1>0, <1>a, SessionFollows
  <1> QED
    BY <1>n, <1>1, <1>2, <1>3 DEF Next

\* The invariant.
LEMMA LinkInvHolds == Watched => []LinkInv
  <1>1. Init /\ raced = FALSE /\ crossed = FALSE /\ overtaken = {} => LinkInv
    <2> SUFFICES ASSUME Init PROVE LinkInv
      OBVIOUS
    <2>1. IInv
      BY InitType, TasksAssumption
      DEF TypeOK, Init, IInv, MutualExclusion, ExitAccepted, Guarded, Cycle, TaskTypeOK
    <2>2. DialInv /\ SocketInv
      BY DEF Init, NetInit, DialInv, SocketInv
    <2>3. FlagInv
      BY DEF Init, NetInit, FlagInv, DownWhileReplacing, InboxHasSession, AcceptedIsRaised,
             FlagNotStale, ConnectedHasSession, Cycle
    <2> QED
      BY <2>1, <2>2, <2>3 DEF LinkInv
  <1>2. LinkInv /\ [Next /\ Watch]_<<vars, races>> => LinkInv'
    <2> SUFFICES ASSUME LinkInv, Step PROVE LinkInv'
      BY DEF Step
    <2>0. [Next]_vars
      BY StepIsNext
    <2>1. IInv'
      BY <2>0, NetStepType, ClientStepType, TaskStepType, FlagsStepType,
         MutualExclusionStep, ExitAcceptedStep
      DEF LinkInv, IInv, TypeOK
    <2>2. DialInv' /\ SocketInv'
      BY <2>0, DialStep, SocketStep DEF LinkInv, IInv
    <2>3. FlagInv'
      <3>1. InboxHasSession'
        BY <2>0, SessionStep, InboxStep DEF LinkInv, IInv, FlagInv
      <3>2. AcceptedIsRaised'
        BY <2>0, <2>1, RaisedStep DEF IInv
      <3> QED
        BY <3>1, <3>2, DownStep, NotStaleStep DEF FlagInv
    <2> QED
      BY <2>1, <2>2, <2>3 DEF LinkInv
  <1> QED
    BY <1>1, <1>2, PTL DEF Watched

\* Whatever the order of failures and however any number of handlers overlap, a
\* descriptor is forgotten only after one task's socket() came between another's
\* close() and socket().
THEOREM NoSocketLeakHolds == Watched => []NoSocketLeak
  <1>1. LinkInv => NoSocketLeak
    BY DEF LinkInv, SocketInv, NoSocketLeak
  <1> QED
    BY <1>1, LinkInvHolds, PTL

\* However handlers overlap, the flag belongs to a connection that was replaced only
\* after it was raised while a task was between MQTTDisconnect and the new connection.
THEOREM FlagNotStaleHolds == Watched => []FlagNotStale
  <1>1. LinkInv => FlagNotStale
    BY DEF LinkInv, FlagInv
  <1> QED
    BY <1>1, LinkInvHolds, PTL
----------------------------------------------------------------------------
(* ClientSession.  Besides LinkInv the simulation needs to know what a     *)
(* descriptor and a label stand for.                                       *)

\* A descriptor that is not connected has no session: a new one starts without.
NoSessionYet == \A f \in Fds : conn[f] \in {"free", "fresh", "syn"} => sess[f] = "none"

\* CONNECT is sent by a client that is not connected.
AsksWhenDown == \A t \in Tasks : pc[t] = "mc_send" => ~isconnected

\* Main takes reports when start-up is over, and does not start up again.
StartsOnce ==
    /\ pc[Main] = "serve" => MQTT_State = "ST_RUNNING"
    /\ MQTT_State = "ST_RUNNING" => pc[Main] \in {"cmd_lock", "cmd_send", "serve"}

SessionInv == LinkInv /\ NoSessionYet /\ AsksWhenDown /\ StartsOnce

\* What a packet does to the session on the connection it is sent on.
LEMMA SendSession ==
    ASSUME TypeOK, NEW type, Send(type)
    PROVE  /\ my_socket \in Fds /\ conn[my_socket] \in {"open", "mute"}
           /\ UNCHANGED <<my_socket, conn>>
           /\ \/ UNCHANGED sess
              \/ /\ conn[my_socket] = "open"
                 /\ sess' = [sess EXCEPT ![my_socket] = "bad"]
                 /\ sess[my_socket] = "none" \/ type = DISCONNECT
              \/ /\ conn[my_socket] = "open" /\ sess[my_socket] = "up"
                 /\ sess' = [sess EXCEPT ![my_socket] = "sub"]
                 /\ type = SUBSCRIBE
  <1>1. /\ my_socket \in Fds /\ conn[my_socket] \in {"open", "mute"}
        /\ UNCHANGED <<my_socket, conn>>
    BY DEF Send, SendOk, Writable
  <1>2. CASE conn[my_socket] # "open"
    BY <1>1, <1>2 DEF Send, Reaches
  <1>3. CASE conn[my_socket] = "open"
    <2>1. BrokerTakes(my_socket, type, Grants)
      BY <1>3 DEF Send, Reaches
    <2>2. \/ UNCHANGED sess
          \/ Breach(my_socket) /\ (sess[my_socket] = "none" \/ type = DISCONNECT)
          \/ /\ type = SUBSCRIBE /\ sess[my_socket] \in {"up", "sub"}
             /\ \/ sess' = [sess EXCEPT ![my_socket] = sess[my_socket]]
                \/ sess' = [sess EXCEPT ![my_socket] = "sub"]
      BY <2>1 DEF BrokerTakes
    <2>3. [sess EXCEPT ![my_socket] = sess[my_socket]] = sess
      BY <1>1 DEF TypeOK, NetTypeOK
    <2>4. sess[my_socket] = "sub" => [sess EXCEPT ![my_socket] = "sub"] = sess
      BY <2>3
    <2> QED
      BY <1>1, <1>3, <2>2, <2>3, <2>4 DEF Breach
  <1> QED
    BY <1>1, <1>2, <1>3

\* A step that keeps conn and what a descriptor without connection holds.
LEMMA NoSessionKept ==
    ASSUME NoSessionYet,
           \A f \in Fds : conn'[f] \in {"free", "fresh", "syn"}
               => \/ sess'[f] = "none"
                  \/ conn[f] \in {"free", "fresh", "syn"} /\ sess'[f] = sess[f]
    PROVE  NoSessionYet'
  BY DEF NoSessionYet

LEMMA SendNoSession ==
    ASSUME TypeOK, NoSessionYet, NEW type, Send(type)
    PROVE  NoSessionYet'
  <1>1. \A f \in Fds : conn[f] \in {"free", "fresh", "syn"} => sess'[f] = sess[f]
    BY SendSession DEF TypeOK, NetTypeOK
  <1> QED
    BY <1>1, SendSession, NoSessionKept

\* Every step keeps that.
LEMMA NoSessionStep ==
    SessionInv /\ [Next]_vars => NoSessionYet'
  <1> SUFFICES ASSUME SessionInv, [Next]_vars PROVE NoSessionYet'
    OBVIOUS
  <1>0. TypeOK /\ NoSessionYet
    BY DEF SessionInv, LinkInv, IInv
  <1>a. ASSUME UNCHANGED <<conn, sess>> PROVE NoSessionYet'
    BY <1>0, <1>a, NoSessionKept
  <1>1. ASSUME NEW t \in Tasks, TaskStep(t) PROVE NoSessionYet'
    <2>1. CASE Resolve(t) \/ ConnectLock(t) \/ WaitforDone(t) \/ ConnectExit(t)
               \/ ReadNothing(t) \/ ReadPacket(t) \/ Deliver(t) \/ DisconnectLock(t)
      BY <2>1, <1>a
      DEF Resolve, ResolveFails, ConnectLock, WaitforDone, ConnectExit, ReadNothing,
          ReadPacket, Deliver, DisconnectLock, netVars
    <2>2. CASE AllocSocket(t)
      <3>1. /\ UNCHANGED sess
            /\ \A f \in Fds : conn'[f] = conn[f] \/ conn[f] = "free"
        <4>1. PICK f \in Fds \cup {NoFd} :
                /\ Socket(f)
                /\ conn' = IF f \in Fds THEN [conn EXCEPT ![f] = "fresh"] ELSE conn
          BY <2>2 DEF AllocSocket, OpenSocket
        <4>2. f \in Fds => conn[f] = "free"
          BY <4>1, NumSocketsAssumption DEF Socket, FreeFds, Fds, NoFd
        <4>3. UNCHANGED sess
          BY <2>2 DEF AllocSocket, OpenSocket
        <4> QED
          BY <4>1, <4>2, <4>3, <1>0 DEF TypeOK, NetTypeOK
      <3> QED
        BY <3>1, <1>0, NoSessionKept
    <2>3. CASE Dial(t)
      <3>1. /\ UNCHANGED sess
            /\ \A f \in Fds : conn'[f] = conn[f] \/ conn[f] = "fresh"
        BY <2>3, <1>0 DEF Dial, StartConnect, TypeOK, NetTypeOK
      <3> QED
        BY <3>1, <1>0, NoSessionKept
    <2>4. CASE DialDone(t) \/ HandlerClose(t)
      <3>1. \/ UNCHANGED <<conn, sess>>
            \/ \E f \in Fds : conn' = [conn EXCEPT ![f] = "open"] /\ UNCHANGED sess
            \/ \E f \in Fds : /\ conn' = [conn EXCEPT ![f] = "free"]
                              /\ sess' = [sess EXCEPT ![f] = "none"]
        BY <2>4, <1>0 DEF DialDone, ConnectSucceeds, ConnectFails, HandlerClose, CloseSocket,
                          TypeOK, NetTypeOK
      <3>2. CASE \E f \in Fds : conn' = [conn EXCEPT ![f] = "open"] /\ UNCHANGED sess
        BY <3>2, <1>0, NoSessionKept DEF TypeOK, NetTypeOK
      <3>3. CASE \E f \in Fds : /\ conn' = [conn EXCEPT ![f] = "free"]
                                /\ sess' = [sess EXCEPT ![f] = "none"]
        BY <3>3, <1>0, NoSessionKept DEF TypeOK, NetTypeOK
      <3> QED
        BY <3>1, <3>2, <3>3, <1>a
    <2>5. CASE ConnectSend(t)
      <3>1. CASE SendOk
        <4>1. /\ my_socket \in Fds /\ conn[my_socket] \in {"open", "mute"}
              /\ UNCHANGED conn
          BY <2>5, <3>1 DEF ConnectSend, SendOk, Writable
        <4>2. \/ UNCHANGED sess
              \/ \E s \in {"up", "bad"} : sess' = [sess EXCEPT ![my_socket] = s]
          BY <2>5, <3>1 DEF ConnectSend, Reaches, BrokerTakesConnect, Breach
        <4> QED
          BY <4>1, <4>2, <1>0, NoSessionKept DEF TypeOK, NetTypeOK
      <3>2. CASE ~SendOk
        BY <2>5, <3>2, <1>a DEF ConnectSend, netVars
      <3> QED
        BY <3>1, <3>2
    <2>6. CASE AnswerPacket(t) \/ Keepalive(t) \/ DisconnectSend(t)
      <3>1. (\E type : Send(type)) \/ UNCHANGED <<conn, sess>>
        BY <2>6 DEF AnswerPacket, Keepalive, KeepaliveIdle, KeepalivePing,
                    KeepaliveFails, DisconnectSend, netVars
      <3> QED
        BY <3>1, <1>0, <1>a, SendNoSession
    <2> QED
      BY <1>1, <2>1, <2>2, <2>3, <2>4, <2>5, <2>6 DEF TaskStep
  <1>2. CASE OnlyMain
    <2>1. (\E type : Send(type)) \/ UNCHANGED <<conn, sess>>
      BY <1>2 DEF OnlyMain, CommandLock, CommandSend, Dequeue, netVars
    <2> QED
      BY <2>1, <1>0, <1>a, SendNoSession
  <1>3. CASE OnlyRun \/ ConnectTimerExpires \/ PingTimerExpires \/ KeyMessage
             \/ UNCHANGED vars
    BY <1>3, <1>a
    DEF OnlyRun, RunLock, RunUnlock, ConnectTimerExpires, PingTimerExpires, KeyMessage,
        vars, netVars
  <1>4. CASE Environment
    <2>1. /\ UNCHANGED sess
          /\ \A f \in Fds : conn'[f] = conn[f] \/ conn'[f] \in {"mute", "dead"}
      BY <1>4, <1>0
      DEF Environment, BrokerDrops, LinkFails, TcpGivesUp, BrokerPushes, TypeOK, NetTypeOK
    <2> QED
      BY <2>1, <1>0, NoSessionKept
  <1> QED
    BY <1>1, <1>2, <1>3, <1>4 DEF Next

\* CONNECT is sent with the flag down: its owner tested it, and only an owner raises it.
LEMMA AsksStep ==
    SessionInv /\ MutualExclusion' /\ [Next]_vars => AsksWhenDown'
  <1> SUFFICES ASSUME SessionInv, MutualExclusion', [Next]_vars PROVE AsksWhenDown'
    OBVIOUS
  <1>0. TaskTypeOK /\ AsksWhenDown
    BY DEF SessionInv, LinkInv, IInv, TypeOK
  <1>a. ASSUME isconnected' => isconnected,
               \A u \in Tasks : pc'[u] = "mc_send" => pc[u] = "mc_send" \/ ~isconnected'
        PROVE  AsksWhenDown'
    BY <1>0, <1>a DEF AsksWhenDown
  <1> USE DEF Goto
  <1>1. ASSUME NEW t \in Tasks, TaskStep(t) PROVE AsksWhenDown'
    <2>1. CASE Resolve(t) \/ AllocSocket(t) \/ Dial(t) \/ DialDone(t) \/ HandlerClose(t)
               \/ Deliver(t)
      <3>1. /\ UNCHANGED isconnected
            /\ \E l \in Labels \ {"mc_send"} : pc' = [pc EXCEPT ![t] = l]
        BY <2>1 DEF Resolve, AllocSocket, Dial, DialDone, HandlerClose, Deliver, NetFailed,
                    clientVars, Labels, Guarded, Cycle, Waiting, Dialling
      <3> QED
        BY <3>1, <1>0, <1>a DEF TaskTypeOK
    <2>2. CASE ConnectLock(t)
      <3>1. UNCHANGED isconnected /\ (pc'[t] = "mc_send" => ~isconnected)
        BY <2>2, <1>0 DEF ConnectLock, TaskTypeOK
      <3>2. \A u \in Tasks : u # t => pc'[u] = pc[u]
        BY <2>2, <1>0 DEF ConnectLock, TaskTypeOK
      <3> QED
        BY <3>1, <3>2, <1>a
    <2>3. CASE ConnectSend(t) \/ WaitforDone(t) \/ ReadNothing(t) \/ AnswerPacket(t)
               \/ DisconnectLock(t)
      <3>1. /\ UNCHANGED isconnected
            /\ \E l \in {"read", "mc_exit", "keepalive", "deliver", "cycled", "disc_send"} :
                   pc' = [pc EXCEPT ![t] = l]
        BY <2>3 DEF ConnectSend, WaitforDone, ReadNothing, AnswerPacket, DisconnectLock
      <3> QED
        BY <3>1, <1>0, <1>a DEF TaskTypeOK
    <2>4. CASE ConnectExit(t) \/ DisconnectSend(t)
      <3>1. mutex' = NoTask
        BY <2>4 DEF ConnectExit, DisconnectSend, MutexUnlock
      <3> QED
        BY <3>1, TasksAssumption DEF AsksWhenDown, MutualExclusion, Guarded
    <2>5. CASE ReadPacket(t)
      <3>1. pc'[t] \in {"answer", "keepalive"}
        BY <2>5, <1>0 DEF ReadPacket, AfterRead, TaskTypeOK
      <3>2. \A u \in Tasks : pc'[u] \in Guarded => u = t
        BY <3>1 DEF MutualExclusion, Guarded, Cycle
      <3> QED
        BY <3>1, <3>2 DEF AsksWhenDown, Guarded
    <2>6. CASE Keepalive(t)
      <3>1. /\ UNCHANGED isconnected
            /\ \A u \in Tasks : pc'[u] \in {pc[u], "cycled", "disc_lock"}
        BY <2>6, <1>0
        DEF Keepalive, KeepaliveIdle, KeepalivePing, KeepaliveFails, SpawnHandler,
            TaskTypeOK, Handlers
      <3> QED
        BY <3>1, <1>a
    <2> QED
      BY <1>1, <2>1, <2>2, <2>3, <2>4, <2>5, <2>6 DEF TaskStep
  <1>2. CASE OnlyMain \/ OnlyRun
    <2>1. UNCHANGED isconnected
      BY <1>2 DEF OnlyMain, CommandLock, CommandSend, Dequeue, OnlyRun, RunLock,
                  RunUnlock, clientVars
    <2>2. \E u \in Tasks, l \in {"cmd_lock", "cmd_send", "serve", "read", "run_lock"} :
             pc' = [pc EXCEPT ![u] = l]
      BY <1>2, TasksAssumption
      DEF OnlyMain, CommandLock, CommandSend, Dequeue, OnlyRun, RunLock, RunUnlock
    <2> QED
      BY <2>1, <2>2, <1>0, <1>a DEF TaskTypeOK
  <1>3. CASE ConnectTimerExpires \/ PingTimerExpires \/ KeyMessage \/ Environment
             \/ UNCHANGED vars
    <2>1. UNCHANGED <<pc, isconnected>>
      BY <1>3 DEF ConnectTimerExpires, PingTimerExpires, KeyMessage, Environment,
                  vars, clientVars
    <2> QED
      BY <2>1, <1>a
  <1> QED
    BY <1>1, <1>2, <1>3 DEF Next

\* Main starts up and connects, or serves: what it does in TaskStep is start-up, and
\* what others do does not touch its part.
LEMMA TaskStages ==
    ASSUME TypeOK, StartsOnce, NEW t \in Tasks, TaskStep(t)
    PROVE  \/ /\ pc'[Main] = pc[Main] /\ UNCHANGED MQTT_State
           \/ /\ MQTT_State # "ST_RUNNING" /\ MQTT_State' # "ST_RUNNING"
              /\ pc'[Main] # "serve"
  <1>0. TaskTypeOK /\ pc[Main] \in Labels
    BY TasksAssumption DEF TypeOK, TaskTypeOK
  <1> USE DEF Goto
  <1>1. /\ pc[t] \notin {"cmd_lock", "cmd_send", "serve"}
        /\ \A u \in Tasks : pc'[u] # pc[u] => pc'[u] # "serve"
    <2>1. CASE Resolve(t) \/ AllocSocket(t) \/ Dial(t) \/ DialDone(t) \/ HandlerClose(t)
               \/ ConnectLock(t) \/ ConnectSend(t) \/ WaitforDone(t)
      <3>1. /\ pc[t] \notin {"cmd_lock", "cmd_send", "serve"}
            /\ \E l \in Labels \ {"serve"} : pc' = [pc EXCEPT ![t] = l]
        BY <2>1 DEF Resolve, AllocSocket, Dial, DialDone, HandlerClose, ConnectLock,
                    ConnectSend, WaitforDone, NetFailed, Labels, Guarded, Cycle, Waiting,
                    Dialling
      <3> QED
        BY <3>1, <1>0 DEF TaskTypeOK
    <2>2. CASE ConnectExit(t)
      BY <2>2, <1>0, TasksAssumption DEF ConnectExit, TaskTypeOK
    <2>3. CASE ReadNothing(t) \/ ReadPacket(t) \/ AnswerPacket(t) \/ Deliver(t)
      <3>1. /\ pc[t] \in Cycle
            /\ \E l \in Cycle : pc' = [pc EXCEPT ![t] = l]
        BY <2>3 DEF ReadNothing, ReadPacket, AfterRead, AnswerPacket, Deliver, Cycle
      <3> QED
        BY <3>1, <1>0 DEF TaskTypeOK, Cycle
    <2>4. CASE Keepalive(t)
      BY <2>4, <1>0
      DEF Keepalive, KeepaliveIdle, KeepalivePing, KeepaliveFails, SpawnHandler,
          TaskTypeOK, Handlers
    <2>5. CASE DisconnectLock(t) \/ DisconnectSend(t)
      BY <2>5, <1>0 DEF DisconnectLock, DisconnectSend, TaskTypeOK
    <2> QED
      BY <2>1, <2>2, <2>3, <2>4, <2>5 DEF TaskStep
  <1>2. CASE t = Main
    <2>1. MQTT_State # "ST_RUNNING"
      BY <1>1, <1>2 DEF StartsOnce
    <2>2. MQTT_State' # "ST_RUNNING"
      BY <2>1
      DEF TaskStep, Resolve, AllocSocket, Dial, DialDone, NetReturned, ConnectLock,
          ConnectSend, WaitforDone, ConnectExit, ReadNothing, ReadPacket, AnswerPacket,
          Deliver, Keepalive, DisconnectLock, DisconnectSend, HandlerClose
    <2>3. pc'[Main] # "serve"
      BY <2>1, <1>1, TasksAssumption DEF StartsOnce
    <2> QED
      BY <2>1, <2>2, <2>3
  <1>3. CASE t # Main
    <2>1. UNCHANGED MQTT_State
      BY <1>3
      DEF TaskStep, Resolve, AllocSocket, Dial, DialDone, NetReturned, ConnectLock,
          ConnectSend, WaitforDone, ConnectExit, ReadNothing, ReadPacket, AnswerPacket,
          Deliver, Keepalive, DisconnectLock, DisconnectSend, HandlerClose
    <2>2. CASE ~Keepalive(t)
      <3>1. \E l : pc' = [pc EXCEPT ![t] = l]
        BY <1>3, <2>2
        DEF TaskStep, Resolve, AllocSocket, Dial, DialDone, NetFailed, ConnectLock,
            ConnectSend, WaitforDone, ConnectExit, ReadNothing, ReadPacket, AnswerPacket,
            Deliver, DisconnectLock, DisconnectSend, HandlerClose
      <3> QED
        BY <3>1, <2>1, <1>3, <1>0, TasksAssumption DEF TaskTypeOK
    <2>3. CASE Keepalive(t)
      BY <2>1, <2>3, <1>3, <1>0, TasksAssumption
      DEF Keepalive, KeepaliveIdle, KeepalivePing, KeepaliveFails, SpawnHandler,
          TaskTypeOK, Handlers
    <2> QED
      BY <2>2, <2>3
  <1> QED
    BY <1>2, <1>3

\* What a step outside TaskStep does to Main's part.
LEMMA OtherStages ==
    ASSUME TypeOK, [Next]_vars, ~OnlyMain, \A t \in Tasks : ~TaskStep(t)
    PROVE  pc'[Main] = pc[Main] /\ UNCHANGED MQTT_State
  <1>1. CASE OnlyRun
    BY <1>1, TasksAssumption DEF OnlyRun, RunLock, RunUnlock, Goto, TypeOK, TaskTypeOK
  <1>2. CASE ConnectTimerExpires \/ PingTimerExpires \/ KeyMessage \/ Environment
             \/ UNCHANGED vars
    BY <1>2 DEF ConnectTimerExpires, PingTimerExpires, KeyMessage, Environment, vars
  <1> QED
    BY <1>1, <1>2 DEF Next

LEMMA StartsStep == SessionInv /\ [Next]_vars => StartsOnce'
  <1> SUFFICES ASSUME SessionInv, [Next]_vars PROVE StartsOnce'
    OBVIOUS
  <1>0. TypeOK /\ StartsOnce
    BY DEF SessionInv, LinkInv, IInv
  <1>1. CASE \E t \in Tasks : TaskStep(t)
    BY <1>1, <1>0, TaskStages DEF StartsOnce
  <1>2. CASE OnlyMain
    BY <1>2, <1>0, TasksAssumption
    DEF OnlyMain, CommandLock, CommandSend, Dequeue, Goto, StartsOnce, TypeOK, TaskTypeOK
  <1>3. CASE ~OnlyMain /\ \A t \in Tasks : ~TaskStep(t)
    BY <1>3, <1>0, OtherStages DEF StartsOnce
  <1> QED
    BY <1>1, <1>2, <1>3

\* The invariant of the simulation.
LEMMA SessionInvHolds == Watched => []SessionInv
  <1>1. Init /\ LinkInv => SessionInv
    BY TasksAssumption
    DEF Init, NetInit, SessionInv, NoSessionYet, AsksWhenDown, StartsOnce
  <1>2. SessionInv /\ LinkInv' /\ [Next /\ Watch]_<<vars, races>> => SessionInv'
    <2> SUFFICES ASSUME SessionInv, LinkInv', Step PROVE SessionInv'
      BY DEF Step
    <2>1. MutualExclusion' /\ [Next]_vars
      BY StepIsNext DEF LinkInv, IInv
    <2> QED
      BY <2>1, NoSessionStep, AsksStep, StartsStep DEF SessionInv
  <1> QED
    BY <1>1, <1>2, LinkInvHolds, PTL DEF Watched

----------------------------------------------------------------------------
(* What a handler may end.                                                 *)

\* The connection my_socket names has a session.
Working == /\ my_socket \in Fds
           /\ conn[my_socket] = "open" /\ sess[my_socket] \in {"up", "sub"}

\* While a handler waits to disconnect, and is not overtaken, no connection works.
LossInv == \A h \in Handlers : pc[h] \in Ending /\ h \notin overtaken => ~Working

\* Only CONNECT makes a connection work.
LEMMA WorkingStep ==
    ASSUME SessionInv, [Next]_vars, ~Working, Working'
    PROVE  \E t \in Tasks : ConnectSend(t) /\ pc[t] = "mc_send" /\ pc'[t] = "read"
  <1>0. /\ TypeOK /\ NoSessionYet /\ DialInv /\ TaskTypeOK
        /\ conn \in [Fds -> ConnStates] /\ sess \in [Fds -> SessStates]
        /\ dial \in [Tasks -> Fds \cup {NoFd}]
    BY DEF SessionInv, LinkInv, IInv, TypeOK, NetTypeOK
  <1>a. ASSUME UNCHANGED <<my_socket, conn>>, sess' = sess \/ sess'[my_socket] \notin {"up", "sub"}
        PROVE  FALSE
    BY <1>a DEF Working
  <1>b. ASSUME NEW type, Send(type) PROVE FALSE
    <2>1. /\ my_socket \in Fds
          /\ UNCHANGED <<my_socket, conn>>
          /\ \/ UNCHANGED sess
             \/ sess' = [sess EXCEPT ![my_socket] = "bad"]
             \/ conn[my_socket] = "open" /\ sess[my_socket] = "up"
      BY <1>0, <1>b, SendSession
    <2>2. ~(conn[my_socket] = "open" /\ sess[my_socket] = "up")
      BY <2>1 DEF Working
    <2> QED
      BY <2>1, <2>2, <1>0, <1>a
  <1>1. ASSUME NEW t \in Tasks, AllocSocket(t) PROVE FALSE
    BY <1>0, <1>1, AllocFree DEF Working
  <1>2. ASSUME NEW t \in Tasks, Dial(t) PROVE FALSE
    BY <1>0, <1>2 DEF Dial, StartConnect, Working
  <1>3. ASSUME NEW t \in Tasks, DialDone(t) PROVE FALSE
    <2>1. CASE ConnectSucceeds(t)
      <3>1. /\ conn[dial[t]] = "syn" /\ dial[t] \in Fds
            /\ UNCHANGED <<my_socket, sess>>
            /\ conn' = [conn EXCEPT ![dial[t]] = "open"]
        BY <1>0, <2>1 DEF ConnectSucceeds, DialInv
      <3>2. sess[dial[t]] = "none"
        BY <1>0, <3>1 DEF NoSessionYet
      <3> QED
        BY <1>0, <3>1, <3>2 DEF Working
    <2>2. CASE ConnectFails(t)
      BY <1>0, <2>2 DEF ConnectFails, Working
    <2> QED
      BY <1>3, <2>1, <2>2 DEF DialDone
  <1>4. ASSUME NEW t \in Tasks, HandlerClose(t) PROVE FALSE
    BY <1>0, <1>4 DEF HandlerClose, CloseSocket, Working
  <1>5. CASE Environment
    <2>1. /\ UNCHANGED <<my_socket, sess>>
          /\ \A f \in Fds : conn'[f] = "open" => conn[f] = "open"
      BY <1>0, <1>5, EnvironmentBreaks
    <2> QED
      BY <2>1 DEF Working
  <1>6. CASE ~Environment /\ \A t \in Tasks : ~Connects(t)
    <2>1. UNCHANGED <<my_socket, conn>>
      BY <1>6, OthersKeep
    <2>2. ASSUME NEW t \in Tasks, TaskStep(t), ~ConnectSend(t) PROVE FALSE
      <3>1. CASE Resolve(t) \/ ConnectLock(t) \/ WaitforDone(t) \/ ConnectExit(t)
                 \/ ReadNothing(t) \/ ReadPacket(t) \/ Deliver(t) \/ DisconnectLock(t)
        BY <2>1, <3>1, <1>a
        DEF Resolve, ResolveFails, ConnectLock, WaitforDone, ConnectExit, ReadNothing,
            ReadPacket, Deliver, DisconnectLock, netVars
      <3>2. CASE AnswerPacket(t) \/ Keepalive(t) \/ DisconnectSend(t)
        <4>1. (\E type : Send(type)) \/ UNCHANGED sess
          BY <3>2 DEF AnswerPacket, Keepalive, KeepaliveIdle, KeepalivePing,
                      KeepaliveFails, DisconnectSend, netVars
        <4> QED
          BY <4>1, <2>1, <1>a, <1>b
      <3> QED
        BY <2>2, <3>1, <3>2, <1>6 DEF TaskStep, Connects
    <2>3. CASE OnlyMain \/ OnlyRun
      <3>1. (\E type : Send(type)) \/ UNCHANGED sess
        BY <2>3 DEF OnlyMain, CommandLock, CommandSend, Dequeue, OnlyRun, RunLock,
                    RunUnlock, netVars
      <3> QED
        BY <3>1, <2>1, <1>a, <1>b
    <2>4. CASE ConnectTimerExpires \/ PingTimerExpires \/ KeyMessage \/ UNCHANGED vars
      BY <2>1, <2>4, <1>a
      DEF ConnectTimerExpires, PingTimerExpires, KeyMessage, vars, netVars
    <2>5. PICK t \in Tasks : ConnectSend(t)
      BY <1>6, <2>2, <2>3, <2>4 DEF Next
    <2>6. pc'[t] = "read"
      <3>1. CASE SendOk
        BY <1>0, <2>5, <3>1 DEF ConnectSend, Goto, TaskTypeOK
      <3>2. CASE ~SendOk
        BY <2>1, <2>5, <3>2, <1>a DEF ConnectSend, netVars
      <3> QED
        BY <3>1, <3>2
    <2> QED
      BY <2>5, <2>6 DEF ConnectSend
  <1> QED
    BY <1>1, <1>2, <1>3, <1>4, <1>5, <1>6 DEF Connects

LEMMA LossStep == SessionInv /\ LossInv /\ Step => LossInv'
  <1> SUFFICES ASSUME SessionInv, LossInv, Step,
                      NEW h \in Handlers, pc'[h] \in Ending, h \notin overtaken', Working'
               PROVE  FALSE
    BY DEF LossInv
  <1>0. [Next]_vars /\ TaskTypeOK /\ MutualExclusion /\ h \in Tasks
    BY StepIsNext DEF SessionInv, LinkInv, IInv, TypeOK, Handlers
  <1>1. h \notin overtaken /\ ~Overtakes(h)
    BY NotOvertaken DEF StillToEnd, Ending
  <1>2. CASE pc[h] \in Ending
    <2>1. ~Working
      BY <1>1, <1>2 DEF LossInv
    <2>2. PICK t \in Tasks : ConnectSend(t) /\ pc[t] = "mc_send" /\ pc'[t] = "read"
      BY <1>0, <2>1, WorkingStep
    <2>3. pc[h] # "disc_lock"
      BY <1>1, <2>2 DEF Overtakes
    <2>4. mutex = h /\ mutex = t
      BY <1>0, <1>2, <2>2, <2>3 DEF MutualExclusion, Guarded, Ending
    <2> QED
      BY <1>2, <2>2, <2>4 DEF Ending
  <1>3. CASE pc[h] \notin Ending
    <2>1. ~SendOk /\ UNCHANGED netVars
      BY <1>0, <1>3, Entered
    <2> QED
      BY <2>1 DEF Working, SendOk, Writable, netVars
  <1> QED
    BY <1>2, <1>3

\* However handlers overlap, mqttConnectLost never ends a session that works, but for
\* one that somebody else asked for while the handler waited for the mutex.
THEOREM NoSelfInflictedLossHolds == Watched => NoSelfInflictedLoss
  <1>1. Init => LossInv
    BY TasksAssumption DEF Init, LossInv, Ending, Handlers
  <1>2. SessionInv /\ LossInv /\ [Next /\ Watch]_<<vars, races>> => LossInv'
    BY LossStep DEF Step
  <1>3. LossInv => [\A h \in Handlers : DisconnectSend(h) /\ Linked => h \in overtaken]_vars
    BY DEF LossInv, DisconnectSend, Goto, Linked, Working, Ending
  <1> QED
    BY <1>1, <1>2, <1>3, SessionInvHolds, PTL DEF Watched, NoSelfInflictedLoss

----------------------------------------------------------------------------
(* The simulation: first what a step does to each half of ClientSession.   *)

\* The half about reports is left alone,
ReportsSame ==
    /\ (MQTT_State = "ST_RUNNING")' = (MQTT_State = "ST_RUNNING")
    /\ ReportInHand' = ReportInHand

\* and so is the half about the connection.
ConnectionSame ==
    /\ LinkOf(my_socket)' = LinkOf(my_socket)
    /\ SessionOf(my_socket)' = SessionOf(my_socket)
    /\ isconnected' = isconnected

\* What is left alone by a step that does not touch the descriptor in use.
LEMMA SameSocket ==
    ASSUME UNCHANGED my_socket, my_socket \in Fds => conn'[my_socket] = conn[my_socket]
    PROVE  LinkOf(my_socket)' = LinkOf(my_socket)
  BY DEF LinkOf

LEMMA SameSession ==
    ASSUME UNCHANGED my_socket, my_socket \in Fds => sess'[my_socket] = sess[my_socket]
    PROVE  SessionOf(my_socket)' = SessionOf(my_socket)
  BY DEF SessionOf

\* A step that changes neither is a stutter of ClientSession; one that changes one
\* half is a step of that half.
LEMMA TaskReports ==
    ASSUME TypeOK, StartsOnce, NEW t \in Tasks, TaskStep(t)
    PROVE  ReportsSame
  <1>1. CASE pc'[Main] = pc[Main] /\ UNCHANGED MQTT_State
    BY <1>1 DEF ReportsSame, ReportInHand
  <1>2. CASE MQTT_State # "ST_RUNNING" /\ MQTT_State' # "ST_RUNNING"
    BY <1>2 DEF ReportsSame, ReportInHand
  <1> QED
    BY <1>1, <1>2, TaskStages

LEMMA Stutter ==
    ASSUME ConnectionSame, ReportsSame, UNCHANGED queue
    PROVE  UNCHANGED Session!vars
  BY DEF ConnectionSame, ReportsSame, Session!vars, Session!connection, Session!reports

\* A report that is put in the queue.
LEMMA AcceptStep ==
    ASSUME TypeOK, ConnectionSame, ReportsSame, queue < QueueLen, queue' = queue + 1
    PROVE  Session!Accept
  BY DEF ConnectionSame, ReportsSame, Session!Accept, Session!connection

\* A packet that spoils the session.
LEMMA SpoilStep ==
    ASSUME TypeOK, ReportsSame, UNCHANGED <<queue, isconnected, my_socket, conn>>,
           my_socket \in Fds, conn[my_socket] = "open",
           sess' = [sess EXCEPT ![my_socket] = "bad"]
    PROVE  Session!SpoilSession
  <1>1. sess'[my_socket] = "bad"
    BY DEF TypeOK, NetTypeOK
  <1> QED
    BY <1>1 DEF ReportsSame, Session!SpoilSession, Session!reports, LinkOf, SessionOf

\* The descriptor in use is closed while the flag is down: a connection is given up,
\* or there was none.
LEMMA GiveUpStep ==
    ASSUME TypeOK, NoSessionYet, ReportsSame, UNCHANGED <<queue, isconnected, my_socket>>,
           my_socket \in Fds, ~isconnected,
           conn' = [conn EXCEPT ![my_socket] = "free"],
           sess' = [sess EXCEPT ![my_socket] = "none"]
    PROVE  Session!Next \/ UNCHANGED Session!vars
  <1>1. conn'[my_socket] = "free" /\ sess'[my_socket] = "none"
    BY DEF TypeOK, NetTypeOK
  <1>2. LinkOf(my_socket)' = "none" /\ SessionOf(my_socket)' = "none"
    BY <1>1 DEF LinkOf, SessionOf
  <1>3. CASE conn[my_socket] # "free"
    <2>1. LinkOf(my_socket) # "none"
      BY <1>3 DEF LinkOf, TypeOK, NetTypeOK, ConnStates
    <2>2. Session!GiveUpLink
      BY <1>2, <2>1 DEF ReportsSame, Session!GiveUpLink, Session!reports
    <2> QED
      BY <2>2 DEF Session!Next
  <1>4. CASE conn[my_socket] = "free"
    <2>1. LinkOf(my_socket) = "none" /\ SessionOf(my_socket) = "none"
      BY <1>4 DEF LinkOf, SessionOf, NoSessionYet
    <2> QED
      BY <1>2, <2>1, Stutter DEF ConnectionSame
  <1> QED
    BY <1>3, <1>4

\* NetworkConnect opens a connection, establishes it, or gives it up.
LEMMA ConnectSimulated ==
    ASSUME SessionInv, ~raced, ~crossed, NEW t \in Tasks,
           Resolve(t) \/ AllocSocket(t) \/ Dial(t) \/ DialDone(t) \/ HandlerClose(t)
    PROVE  Session!Next \/ UNCHANGED Session!vars
  <1>0. /\ TypeOK /\ SocketInv /\ DialInv /\ DownWhileReplacing /\ NoSessionYet /\ StartsOnce
        /\ conn \in [Fds -> ConnStates] /\ dial \in [Tasks -> Fds \cup {NoFd}]
        /\ NoFd \notin Fds
    BY NumSocketsAssumption
    DEF SessionInv, LinkInv, IInv, FlagInv, Fds, NoFd, TypeOK, NetTypeOK
  <1>1. ReportsSame
    BY <1>0, TaskReports DEF TaskStep
  <1>2. UNCHANGED <<queue, isconnected>>
    BY DEF Resolve, AllocSocket, Dial, DialDone, HandlerClose, clientVars
  <1>3. ~isconnected
    BY <1>0 DEF Resolve, AllocSocket, Dial, DialDone, HandlerClose, Goto,
                DownWhileReplacing, Replacing, Dialling
  <1>4. CASE Resolve(t)
    BY <1>1, <1>2, <1>4, SameSocket, SameSession, Stutter
    DEF Resolve, ResolveFails, netVars, ConnectionSame
  <1>5. CASE AllocSocket(t)
    <2>1. pc[t] = "socket" /\ UNCHANGED sess
      BY <1>5 DEF AllocSocket, OpenSocket
    <2>2. \A f \in Fds : conn[f] = "free" /\ sess[f] = "none"
      BY <2>1, <1>0 DEF SocketInv, Closed, NoSessionYet
    <2>3. LinkOf(my_socket) = "none" /\ SessionOf(my_socket) = "none"
      BY <2>2 DEF LinkOf, SessionOf
    <2>4. SessionOf(my_socket)' = "none"
      BY <2>1, <2>2 DEF SessionOf
    <2>5. CASE my_socket' \in Fds
      <3>1. conn'[my_socket'] = "fresh"
        BY <1>5, <1>0, <2>5, AllocFree
      <3>2. LinkOf(my_socket)' = "dialling"
        BY <3>1, <2>5 DEF LinkOf
      <3>3. Session!OpenLink
        BY <3>2, <2>3, <2>4, <1>1, <1>2 DEF ReportsSame, Session!OpenLink, Session!reports
      <3> QED
        BY <3>3 DEF Session!Next
    <2>6. CASE my_socket' \notin Fds
      <3>1. LinkOf(my_socket)' = "none"
        BY <2>6 DEF LinkOf
      <3> QED
        BY <3>1, <2>3, <2>4, <1>1, <1>2, Stutter DEF ConnectionSame
    <2> QED
      BY <2>5, <2>6
  <1>6. CASE Dial(t)
    <2>1. UNCHANGED <<my_socket, sess>>
      BY <1>6 DEF Dial, StartConnect
    <2>2. LinkOf(my_socket)' = LinkOf(my_socket)
      <3>1. CASE my_socket \in Fds /\ conn[my_socket] = "fresh"
        <4>1. conn'[my_socket] = "syn"
          BY <1>0, <1>6, <3>1 DEF Dial, StartConnect
        <4> QED
          BY <2>1, <3>1, <4>1 DEF LinkOf
      <3>2. CASE ~(my_socket \in Fds /\ conn[my_socket] = "fresh")
        BY <1>6, <2>1, <3>2, SameSocket DEF Dial, StartConnect
      <3> QED
        BY <3>1, <3>2
    <2> QED
      BY <2>1, <2>2, <1>1, <1>2, SameSession, Stutter DEF ConnectionSame
  <1>7. CASE DialDone(t)
    <2>0. UNCHANGED my_socket
      BY <1>7 DEF DialDone, ConnectSucceeds, ConnectFails
    <2>1. CASE ConnectSucceeds(t)
      <3>1. /\ dial[t] \in Fds /\ conn[dial[t]] = "syn"
            /\ conn' = [conn EXCEPT ![dial[t]] = "open"]
            /\ UNCHANGED sess
        BY <2>1, <1>0 DEF ConnectSucceeds, DialInv
      <3>2. SessionOf(my_socket)' = SessionOf(my_socket)
        BY <2>0, <3>1, SameSession
      <3>3. CASE dial[t] = my_socket
        <4>1. LinkOf(my_socket) = "dialling" /\ LinkOf(my_socket)' = "up"
          BY <1>0, <2>0, <3>1, <3>3 DEF LinkOf
        <4>2. Session!Established
          BY <3>2, <4>1, <1>1, <1>2 DEF ReportsSame, Session!Established, Session!reports
        <4> QED
          BY <4>2 DEF Session!Next
      <3>4. CASE dial[t] # my_socket
        <4>1. my_socket \in Fds => conn'[my_socket] = conn[my_socket]
          BY <1>0, <3>1, <3>4
        <4> QED
          BY <2>0, <3>2, <4>1, <1>1, <1>2, SameSocket, Stutter DEF ConnectionSame
      <3> QED
        BY <3>3, <3>4
    <2>2. CASE ConnectFails(t) /\ my_socket \in Fds
      BY <2>0, <2>2, <1>0, <1>1, <1>2, <1>3, GiveUpStep DEF ConnectFails
    <2>3. CASE ConnectFails(t) /\ my_socket \notin Fds
      BY <2>0, <2>3, <1>1, <1>2, SameSocket, SameSession, Stutter DEF ConnectionSame
    <2> QED
      BY <1>7, <2>1, <2>2, <2>3 DEF DialDone
  <1>8. CASE HandlerClose(t)
    <2>0. UNCHANGED my_socket /\ CloseSocket(my_socket)
      BY <1>8 DEF HandlerClose
    <2>1. CASE my_socket \notin Fds
      BY <2>0, <2>1, <1>1, <1>2, SameSocket, SameSession, Stutter DEF ConnectionSame
    <2>2. CASE my_socket \in Fds
      BY <2>0, <2>2, <1>0, <1>1, <1>2, <1>3, GiveUpStep DEF CloseSocket
    <2> QED
      BY <2>1, <2>2
  <1> QED
    BY <1>4, <1>5, <1>6, <1>7, <1>8

\* MQTTConnect asks for a session, on a connection that has none or spoils the one
\* it has; MQTTDisconnect forgets it.
LEMMA ConnectSendSimulated ==
    ASSUME SessionInv, NEW t \in Tasks, ConnectSend(t)
    PROVE  Session!Next \/ UNCHANGED Session!vars
  <1>0. TypeOK /\ AsksWhenDown /\ StartsOnce
    BY DEF SessionInv, LinkInv, IInv
  <1>1. ReportsSame
    BY <1>0, TaskReports DEF TaskStep
  <1>2. UNCHANGED <<queue, isconnected, my_socket, conn>> /\ ~isconnected
    BY <1>0 DEF ConnectSend, netVars, AsksWhenDown
  <1>3. CASE UNCHANGED sess
    BY <1>1, <1>2, <1>3, SameSocket, SameSession, Stutter DEF ConnectionSame
  <1>4. CASE SendOk /\ conn[my_socket] = "open" /\ BrokerTakesConnect(my_socket, Refusals)
    <2>1. my_socket \in Fds
      BY <1>4 DEF SendOk, Writable
    <2>2. CASE sess' = [sess EXCEPT ![my_socket] = "bad"]
      <3>1. Session!SpoilSession
        BY <1>0, <1>1, <1>2, <1>4, <2>1, <2>2, SpoilStep
      <3> QED
        BY <3>1 DEF Session!Next
    <2>3. CASE sess[my_socket] = "none" /\ sess' = [sess EXCEPT ![my_socket] = "up"]
      <3>1. sess'[my_socket] = "up"
        BY <1>0, <2>1, <2>3 DEF TypeOK, NetTypeOK
      <3>2. Session!AskSession
        BY <1>1, <1>2, <1>4, <2>1, <2>3, <3>1
        DEF ReportsSame, Session!AskSession, Session!reports, LinkOf, SessionOf
      <3> QED
        BY <3>2 DEF Session!Next
    <2> QED
      BY <1>4, <2>2, <2>3 DEF BrokerTakesConnect, Breach
  <1> QED
    BY <1>3, <1>4 DEF ConnectSend, Reaches, netVars

LEMMA DisconnectSendSimulated ==
    ASSUME SessionInv, NEW t \in Tasks, DisconnectSend(t)
    PROVE  Session!Next \/ UNCHANGED Session!vars
  <1>0. TypeOK /\ StartsOnce
    BY DEF SessionInv, LinkInv, IInv
  <1>1. ReportsSame
    BY <1>0, TaskReports DEF TaskStep
  <1>2. UNCHANGED <<queue, my_socket, conn>> /\ isconnected' = FALSE
    BY DEF DisconnectSend, Send, netVars
  <1>3. LinkOf(my_socket)' = LinkOf(my_socket)
    BY <1>2, SameSocket
  <1>4. \/ UNCHANGED sess
        \/ /\ my_socket \in Fds /\ conn[my_socket] = "open"
           /\ sess' = [sess EXCEPT ![my_socket] = "bad"]
    BY <1>0, SendSession DEF DisconnectSend, netVars, DISCONNECT, SUBSCRIBE
  <1>5. \/ SessionOf(my_socket)' = SessionOf(my_socket)
        \/ LinkOf(my_socket) = "up" /\ SessionOf(my_socket)' = "bad"
    BY <1>0, <1>2, <1>4, SameSession DEF LinkOf, SessionOf, TypeOK, NetTypeOK
  <1>6. Session!ForgetSession
    BY <1>1, <1>2, <1>3, <1>5 DEF ReportsSame, Session!ForgetSession, Session!reports
  <1> QED
    BY <1>6 DEF Session!Next

\* cycle() learns of the session from the CONNACK; its answers and pings can only
\* spoil one that was not asked for yet.
LEMMA CycleSimulated ==
    ASSUME SessionInv, NEW t \in Tasks,
           ReadPacket(t) \/ AnswerPacket(t) \/ Deliver(t) \/ Keepalive(t)
    PROVE  Session!Next \/ UNCHANGED Session!vars
  <1>0. TypeOK /\ StartsOnce /\ InboxHasSession
    BY DEF SessionInv, LinkInv, IInv, FlagInv
  <1>1. ReportsSame
    BY <1>0, TaskReports DEF TaskStep
  <1>2. CASE ReadPacket(t)
    <2>1. /\ UNCHANGED <<my_socket, conn, sess, queue>>
          /\ isconnected' = isconnected \/ isconnected' = TRUE
          /\ my_socket \in Fds /\ conn[my_socket] \in {"open", "mute"}
          /\ inbox[my_socket] # <<>>
      BY <1>2, <1>0 DEF ReadPacket, HasPacket, Writable, TypeOK, FlagsTypeOK
    <2>2. /\ LinkOf(my_socket)' = LinkOf(my_socket)
          /\ SessionOf(my_socket)' = SessionOf(my_socket)
      BY <2>1, SameSocket, SameSession
    <2>3. CASE isconnected' = isconnected
      BY <1>1, <2>1, <2>2, <2>3, Stutter DEF ConnectionSame
    <2>4. CASE isconnected' = TRUE
      <3>1. LinkOf(my_socket) \in {"up", "silent"} /\ SessionOf(my_socket) # "none"
        BY <2>1, <1>0 DEF InboxHasSession, LinkOf, SessionOf
      <3>2. Session!LearnSession
        BY <1>1, <2>1, <2>2, <2>4, <3>1
        DEF ReportsSame, Session!LearnSession, Session!reports
      <3> QED
        BY <3>2 DEF Session!Next
    <2> QED
      BY <2>1, <2>3, <2>4
  <1>3. CASE Deliver(t)
    <2>1. ConnectionSame
      BY <1>3, SameSocket, SameSession DEF Deliver, netVars, clientVars, ConnectionSame
    <2>2. queue' = queue \/ (queue < QueueLen /\ queue' = queue + 1)
      BY <1>3 DEF Deliver
    <2>3. CASE queue' = queue
      BY <1>1, <2>1, <2>3, Stutter
    <2>4. CASE queue < QueueLen /\ queue' = queue + 1
      BY <1>0, <1>1, <2>1, <2>4, AcceptStep DEF Session!Next
    <2> QED
      BY <2>2, <2>3, <2>4
  <1>4. CASE AnswerPacket(t) \/ Keepalive(t)
    <2>1. UNCHANGED <<isconnected, queue>>
      BY <1>4 DEF AnswerPacket, Keepalive
    <2>2. CASE UNCHANGED netVars
      BY <1>1, <2>1, <2>2, SameSocket, SameSession, Stutter DEF netVars, ConnectionSame
    <2>3. CASE \E type \in {PUBACK, PINGREQ} : Send(type)
      <3>1. /\ my_socket \in Fds
            /\ UNCHANGED <<my_socket, conn>>
            /\ \/ UNCHANGED sess
               \/ /\ conn[my_socket] = "open"
                  /\ sess' = [sess EXCEPT ![my_socket] = "bad"]
        BY <2>3, <1>0, SendSession DEF PUBACK, PINGREQ, SUBSCRIBE
      <3>2. CASE UNCHANGED sess
        BY <1>1, <2>1, <3>1, <3>2, SameSocket, SameSession, Stutter DEF ConnectionSame
      <3>3. CASE conn[my_socket] = "open" /\ sess' = [sess EXCEPT ![my_socket] = "bad"]
        BY <1>0, <1>1, <2>1, <3>1, <3>3, SpoilStep DEF Session!Next
      <3> QED
        BY <3>1, <3>2, <3>3
    <2> QED
      BY <1>4, <2>2, <2>3
      DEF AnswerPacket, Keepalive, KeepaliveIdle, KeepalivePing, KeepaliveFails
  <1> QED
    BY <1>2, <1>3, <1>4

\* Main's commands: the subscription, the end of start-up, and one report at a time,
\* which spoils no session because the flag was up.
LEMMA MainSimulated ==
    ASSUME SessionInv, ~crossed, OnlyMain
    PROVE  Session!Next \/ UNCHANGED Session!vars
  <1>0. TypeOK /\ TaskTypeOK /\ StartsOnce /\ ConnectedHasSession
    BY DEF SessionInv, LinkInv, IInv, FlagInv, FlagNotStale, TypeOK
  <1>1. CASE CommandLock
    <2>1. pc[Main] = "cmd_lock" /\ pc'[Main] = "cmd_send" /\ UNCHANGED <<MQTT_State, queue>>
      BY <1>0, <1>1, TasksAssumption DEF CommandLock, Goto, TaskTypeOK
    <2>2. ReportsSame
      BY <2>1 DEF ReportsSame, ReportInHand
    <2>3. ConnectionSame
      BY <1>1, SameSocket, SameSession DEF CommandLock, netVars, ConnectionSame
    <2> QED
      BY <2>1, <2>2, <2>3, Stutter
  <1>2. CASE Dequeue
    <2>1. /\ pc[Main] = "serve" /\ pc'[Main] = "cmd_lock"
          /\ UNCHANGED MQTT_State /\ MQTT_State = "ST_RUNNING"
          /\ queue > 0 /\ queue' = queue - 1
      BY <1>0, <1>2, TasksAssumption DEF Dequeue, Goto, TaskTypeOK, StartsOnce
    <2>2. ~ReportInHand /\ ReportInHand'
      BY <2>1 DEF ReportInHand
    <2>3. ConnectionSame
      BY <1>2, SameSocket, SameSession DEF Dequeue, netVars, clientVars, ConnectionSame
    <2>4. Session!Take
      BY <2>1, <2>2, <2>3 DEF ConnectionSame, Session!Take, Session!connection
    <2> QED
      BY <2>4 DEF Session!Next
  <1>3. CASE CommandSend
    <2>0. /\ pc[Main] = "cmd_send"
          /\ pc'[Main] = IF MQTT_State = "ST_REG" THEN "cmd_lock" ELSE "serve"
          /\ MQTT_State' = IF MQTT_State = "ST_REG" THEN "ST_SUB" ELSE "ST_RUNNING"
          /\ UNCHANGED <<isconnected, queue>>
      BY <1>0, <1>3, TasksAssumption DEF CommandSend, Goto, TaskTypeOK
    <2>1. /\ UNCHANGED <<my_socket, conn>>
          /\ \/ UNCHANGED sess
             \/ /\ isconnected /\ MQTT_State = "ST_REG"
                /\ my_socket \in Fds /\ conn[my_socket] = "open"
                /\ sess[my_socket] = "up"
                /\ sess' = [sess EXCEPT ![my_socket] = "sub"]
      <3>1. CASE UNCHANGED netVars
        BY <3>1 DEF netVars
      <3>2. CASE isconnected /\ Send(CommandType)
        <4>1. /\ my_socket \in Fds
              /\ CommandType # DISCONNECT
              /\ CommandType = SUBSCRIBE => MQTT_State = "ST_REG"
          BY <3>2 DEF Send, SendOk, Writable, CommandType, DISCONNECT, SUBSCRIBE, PUBLISH,
                      EXTCMD
        <4>2. conn[my_socket] = "open" => sess[my_socket] # "none"
          BY <1>0, <3>2, <4>1 DEF ConnectedHasSession
        <4> QED
          BY <1>0, <3>2, <4>1, <4>2, SendSession
      <3> QED
        BY <1>3, <3>1, <3>2 DEF CommandSend
    <2>2. CASE UNCHANGED sess
      <3>1. ConnectionSame
        BY <2>0, <2>1, <2>2, SameSocket, SameSession DEF ConnectionSame
      <3>2. CASE MQTT_State = "ST_REG"
        <4>1. ReportsSame
          BY <2>0, <3>2 DEF ReportsSame, ReportInHand
        <4> QED
          BY <3>1, <4>1, <2>0, Stutter
      <3>3. CASE MQTT_State = "ST_RUNNING"
        <4>1. Session!Settle
          BY <2>0, <3>1, <3>3
          DEF ConnectionSame, Session!Settle, Session!connection, ReportInHand
        <4> QED
          BY <4>1 DEF Session!Next
      <3>4. CASE MQTT_State \notin {"ST_REG", "ST_RUNNING"}
        <4>1. Session!Start
          BY <2>0, <3>1, <3>4
          DEF ConnectionSame, Session!Start, Session!connection, ReportInHand
        <4> QED
          BY <4>1 DEF Session!Next
      <3> QED
        BY <3>2, <3>3, <3>4
    <2>3. CASE /\ isconnected /\ MQTT_State = "ST_REG"
               /\ my_socket \in Fds /\ conn[my_socket] = "open"
               /\ sess[my_socket] = "up"
               /\ sess' = [sess EXCEPT ![my_socket] = "sub"]
      <3>1. ReportsSame
        BY <2>0, <2>3 DEF ReportsSame, ReportInHand
      <3>2. sess'[my_socket] = "sub"
        BY <1>0, <2>3 DEF TypeOK, NetTypeOK
      <3>3. Session!Subscribe
        BY <2>0, <2>1, <2>3, <3>1, <3>2
        DEF ReportsSame, Session!Subscribe, Session!reports, LinkOf, SessionOf
      <3> QED
        BY <3>3 DEF Session!Next
    <2> QED
      BY <2>1, <2>2, <2>3
  <1> QED
    BY <1>1, <1>2, <1>3 DEF OnlyMain

\* The environment breaks the one connection there is.
LEMMA EnvironmentSimulated ==
    ASSUME SessionInv, Environment
    PROVE  Session!Next \/ UNCHANGED Session!vars
  <1>0. TypeOK
    BY DEF SessionInv, LinkInv, IInv
  <1>1. /\ UNCHANGED <<my_socket, sess, isconnected, queue, pc, MQTT_State>>
        /\ ReportsSame
    BY DEF Environment, BrokerDrops, LinkFails, TcpGivesUp, BrokerPushes, clientVars,
           ReportsSame, ReportInHand
  <1>2. SessionOf(my_socket)' = SessionOf(my_socket)
    BY <1>1, SameSession
  <1>3. my_socket \in Fds =>
           \/ conn'[my_socket] = conn[my_socket]
           \/ conn[my_socket] = "open" /\ conn'[my_socket] \in {"mute", "dead"}
           \/ conn[my_socket] = "mute" /\ conn'[my_socket] = "dead"
    BY <1>0 DEF Environment, BrokerDrops, LinkFails, TcpGivesUp, BrokerPushes,
                TypeOK, NetTypeOK
  <1>4. CASE my_socket \in Fds => conn'[my_socket] = conn[my_socket]
    BY <1>1, <1>2, <1>4, SameSocket, Stutter DEF ConnectionSame
  <1>5. CASE /\ my_socket \in Fds
             /\ \/ conn[my_socket] = "open" /\ conn'[my_socket] \in {"mute", "dead"}
                \/ conn[my_socket] = "mute" /\ conn'[my_socket] = "dead"
    <2>1. \/ LinkOf(my_socket) = "up" /\ LinkOf(my_socket)' \in {"silent", "broken"}
          \/ LinkOf(my_socket) = "silent" /\ LinkOf(my_socket)' = "broken"
      BY <1>1, <1>5 DEF LinkOf
    <2>2. Session!LinkFails
      BY <1>1, <1>2, <2>1 DEF ReportsSame, Session!LinkFails, Session!reports
    <2> QED
      BY <2>2 DEF Session!Next
  <1> QED
    BY <1>3, <1>4, <1>5

\* Every step is a step of ClientSession or a stutter.
LEMMA StepSimulated ==
    SessionInv /\ [Next]_vars
        => [~raced /\ ~crossed => Session!Next]_(Session!vars)
  <1> SUFFICES ASSUME SessionInv, [Next]_vars, ~raced, ~crossed
               PROVE  Session!Next \/ UNCHANGED Session!vars
    OBVIOUS
  <1>0. TypeOK /\ TaskTypeOK /\ StartsOnce /\ AcceptedIsRaised
    BY DEF SessionInv, LinkInv, IInv, FlagInv, TypeOK
  <1>1. ASSUME NEW t \in Tasks, TaskStep(t)
        PROVE  Session!Next \/ UNCHANGED Session!vars
    <2>1. CASE Resolve(t) \/ AllocSocket(t) \/ Dial(t) \/ DialDone(t) \/ HandlerClose(t)
      BY <2>1, ConnectSimulated
    <2>2. CASE ConnectSend(t) \/ DisconnectSend(t)
      BY <2>2, ConnectSendSimulated, DisconnectSendSimulated
    <2>3. CASE ReadPacket(t) \/ AnswerPacket(t) \/ Deliver(t) \/ Keepalive(t)
      BY <2>3, CycleSimulated
    <2>4. CASE ConnectLock(t) \/ WaitforDone(t) \/ ConnectExit(t) \/ ReadNothing(t)
               \/ DisconnectLock(t)
      <3>1. UNCHANGED <<my_socket, conn, sess, queue>>
        BY <2>4 DEF ConnectLock, WaitforDone, ConnectExit, ReadNothing, DisconnectLock,
                    netVars
      <3>2. isconnected' = isconnected
        BY <2>4, <1>0 DEF ConnectLock, WaitforDone, ConnectExit, ReadNothing,
                          DisconnectLock, AcceptedIsRaised, TypeOK, FlagsTypeOK
      <3>3. ReportsSame
        BY <1>0, <1>1, TaskReports
      <3> QED
        BY <3>1, <3>2, <3>3, SameSocket, SameSession, Stutter DEF ConnectionSame
    <2> QED
      BY <1>1, <2>1, <2>2, <2>3, <2>4 DEF TaskStep
  <1>2. CASE OnlyMain
    BY <1>2, MainSimulated
  <1>3. CASE Environment
    BY <1>3, EnvironmentSimulated
  <1>4. CASE KeyMessage
    <2>1. ConnectionSame /\ ReportsSame
      BY <1>4, SameSocket, SameSession
      DEF KeyMessage, netVars, clientVars, ConnectionSame, ReportsSame, ReportInHand
    <2> QED
      BY <1>0, <1>4, <2>1, AcceptStep DEF KeyMessage, Session!Next
  <1>5. CASE OnlyRun \/ ConnectTimerExpires \/ PingTimerExpires \/ UNCHANGED vars
    <2>1. UNCHANGED <<my_socket, conn, sess, isconnected, queue, MQTT_State>>
      BY <1>5 DEF OnlyRun, RunLock, RunUnlock, ConnectTimerExpires, PingTimerExpires,
                  vars, netVars, clientVars
    <2>2. pc'[Main] = pc[Main]
      BY <1>5, <1>0, TasksAssumption
      DEF OnlyRun, RunLock, RunUnlock, ConnectTimerExpires, PingTimerExpires, vars, Goto,
          TaskTypeOK
    <2>3. ConnectionSame /\ ReportsSame
      BY <2>1, <2>2, SameSocket, SameSession DEF ConnectionSame, ReportsSame, ReportInHand
    <2> QED
      BY <2>1, <2>3, Stutter
  <1> QED
    BY <1>1, <1>2, <1>3, <1>4, <1>5 DEF Next

\* Until one of the two races has happened the client keeps what ClientSession
\* promises, for any number of handlers, descriptors, messages and failures: one
\* connection at a time, given up only when it is no longer believed in, and reports
\* that are taken one by one and spoil nothing.
THEOREM ImplementsSessionHolds == Watched => ImplementsSession
  <1>1. Init => Session!Init
    BY DEF Init, NetInit, Session!Init, LinkOf, SessionOf, ReportInHand
  <1>2. SessionInv /\ [Next /\ Watch]_<<vars, races>>
            => [~raced /\ ~crossed => Session!Next]_(Session!vars)
    BY StepSimulated, StepIsNext DEF Step
  <1> QED
    BY <1>1, <1>2, SessionInvHolds, PTL DEF Watched, ImplementsSession
=============================================================================
