----------------------------- MODULE MqttClient -----------------------------
(***************************************************************************)
(* The yunba MQTT client as it runs on the device: user/mqtt_client.c on   *)
(* top of mqtt/MQTTClient.c and mqtt/MQTTFreeRTOS.c.  Three kinds of task  *)
(* share one MQTTClient and one Network:                                   *)
(*                                                                         *)
(*   Main      yunba_mqtt_client_task: connects, subscribes, sets the      *)
(*             alias, then publishes what arrives in QueueMQTTClient;      *)
(*   Run       MQTTRun: reads packets, keeps the connection alive;         *)
(*   Handlers  mqtt_lost_call: reconnect once and delete themselves.  A    *)
(*             slot is room in the heap for one such task: without a free  *)
(*             slot xTaskCreate fails, and nobody looks at its result.     *)
(*                                                                         *)
(* MQTTClient.mutex guards the client's state.  my_socket it does not      *)
(* guard: a handler closes and reopens the connection without it.          *)
(***************************************************************************)
EXTENDS Network

CONSTANTS
    Main, Run, NoTask,
    CountMod,     \* fail_conn_count counts modulo this (an uint8: 256)
    QueueLen,     \* length of QueueMQTTClient
    Refusals,     \* return codes of a refusing CONNACK
    Grants,       \* answers to SUBSCRIBE: a QoS, or 128 for a refusal
    Pushes        \* packets the broker sends unasked

ASSUME TasksAssumption ==
    Main \in Tasks /\ Run \in Tasks /\ Main # Run /\ NoTask \notin Tasks
ASSUME CountModAssumption == CountMod \in Nat /\ CountMod > 3
ASSUME QueueLenAssumption == QueueLen \in Nat \ {0}
ASSUME CodesAssumption ==
    Refusals \subseteq 1 .. 5 /\ Grants \subseteq {0, 1, 2, 128} /\ Pushes \subseteq Packet

VARIABLES
    pc,               \* where each task is
    mutex,            \* MQTTClient.mutex: its owner or NoTask
    MQTT_State,       \* the state of Main's start-up
    isconnected,      \* MQTTClient.isconnected
    ping_outstanding, \* MQTTClient.ping_outstanding
    fail_conn_count,  \* MQTTClient.fail_conn_count
    pingDue,          \* MQTTClient.ping_timer has expired
    readbuf,          \* the packet last read into MQTTClient.readbuf
    rc,               \* the result of the cycle under way
    waitOver,         \* connect_timer of the MQTTConnect under way has expired
    queue             \* number of messages in QueueMQTTClient

clientVars == <<mutex, isconnected, ping_outstanding, fail_conn_count, pingDue,
                readbuf, rc, waitOver>>
vars == <<netVars, clientVars, pc, MQTT_State, queue>>

Handlers == Tasks \ {Main, Run}
SUCCESS == 0
FAILURE == -1
NoPacket == [type |-> 65535, code |-> 0]    \* readPacket failed: (unsigned short) -1
Results == Codes \cup {FAILURE, 65535}

(***************************************************************************)
(* The labels.  A task at a label of Guarded is between MutexLock and      *)
(* MutexUnlock, one at a label of Waiting is about to take the mutex.      *)
(***************************************************************************)
Cycle    == {"read", "answer", "deliver", "keepalive", "cycled"}
Guarded  == Cycle \cup {"mc_send", "mc_exit", "cmd_send", "disc_send"}
Waiting  == {"run_lock", "mc_lock", "cmd_lock", "disc_lock"}
Dialling == {"dns", "socket", "connect", "dialling"}
Labels   == Guarded \cup Waiting \cup Dialling \cup {"none", "serve", "close"}

States == {"ST_INIT", "ST_CONNECT", "ST_REG", "ST_SUB", "ST_RUNNING"}

FlagsTypeOK ==
    /\ isconnected \in BOOLEAN
    /\ ping_outstanding \in BOOLEAN
    /\ pingDue \in BOOLEAN
    /\ waitOver \in BOOLEAN

ClientTypeOK ==
    /\ mutex \in Tasks \cup {NoTask}
    /\ fail_conn_count \in 0 .. CountMod - 1
    /\ readbuf \in Packet \cup {NoPacket}
    /\ rc \in Results
    /\ queue \in 0 .. QueueLen

TaskTypeOK ==
    /\ pc \in [Tasks -> Labels]
    /\ MQTT_State \in States

\* Every variable has its type, fail_conn_count that of a byte (CountMod).
TypeOK == NetTypeOK /\ FlagsTypeOK /\ ClientTypeOK /\ TaskTypeOK

\* After MQTTClientInit; the queue exists, the broker's address is known.
Init ==
    /\ NetInit
    /\ pc = [t \in Tasks |-> IF t = Main THEN "dns" ELSE "none"]
    /\ mutex = NoTask
    /\ MQTT_State = "ST_INIT"
    /\ isconnected = FALSE
    /\ ping_outstanding = FALSE
    /\ fail_conn_count = 0
    /\ pingDue = FALSE
    /\ readbuf = NoPacket
    /\ rc = SUCCESS
    /\ waitOver = FALSE
    /\ queue = 0

Goto(t, from, to) == pc[t] = from /\ pc' = [pc EXCEPT ![t] = to]

MutexLock(t) == mutex = NoTask /\ mutex' = t
MutexUnlock  == mutex' = NoTask

----------------------------------------------------------------------------
(* sendPacket: one write on whatever my_socket is now.  A packet that goes *)
(* out restarts ping_timer; a silent link swallows it.                     *)

SendOk == Writable(my_socket)

\* The peer's side of a write: takes is what the broker does with the packet.
Reaches(takes) == IF conn[my_socket] = "open" THEN takes
                  ELSE UNCHANGED <<sess, inbox, faults>>

Send(type) ==
    /\ SendOk
    /\ Reaches(BrokerTakes(my_socket, type, Grants))
    /\ pingDue' = FALSE
    /\ UNCHANGED <<my_socket, conn, dial>>

----------------------------------------------------------------------------
(* NetworkConnect(&network, addr, port), called by Main in ST_INIT and by  *)
(* a handler.  Main goes on to ST_CONNECT whatever the result; a handler   *)
(* gives up when it fails.                                                 *)

NetFailed(t) ==
    pc' = [pc EXCEPT ![t] = IF t = Main THEN "mc_lock" ELSE "none"]

NetReturned(t) == MQTT_State' = IF t = Main THEN "ST_CONNECT" ELSE MQTT_State

Resolve(t) ==
    /\ pc[t] = "dns"
    /\ \/ /\ Goto(t, "dns", "socket")
          /\ UNCHANGED <<netVars, MQTT_State>>
       \/ ResolveFails /\ NetFailed(t) /\ NetReturned(t)
    /\ UNCHANGED <<clientVars, queue>>

AllocSocket(t) ==
    /\ pc[t] = "socket"
    /\ OpenSocket
    /\ IF my_socket' # NoFd
       THEN Goto(t, "socket", "connect") /\ UNCHANGED MQTT_State
       ELSE NetFailed(t) /\ NetReturned(t)
    /\ UNCHANGED <<clientVars, queue>>

Dial(t) ==
    /\ Goto(t, "connect", "dialling")
    /\ StartConnect(t)
    /\ UNCHANGED <<clientVars, MQTT_State, queue>>

DialDone(t) ==
    /\ pc[t] = "dialling"
    /\ \/ ConnectSucceeds(t) /\ Goto(t, "dialling", "mc_lock")
       \/ ConnectFails(t) /\ NetFailed(t)
    /\ NetReturned(t)
    /\ UNCHANGED <<clientVars, queue>>

----------------------------------------------------------------------------
(* MQTTConnect(&client, &connectData, true)                                *)

\* MutexLock, and the test of isconnected: a connected client returns FAILURE.
ConnectLock(t) ==
    /\ pc[t] = "mc_lock"
    /\ MutexLock(t)
    /\ IF isconnected
       THEN Goto(t, "mc_lock", "mc_exit") /\ rc' = FAILURE
       ELSE Goto(t, "mc_lock", "mc_send") /\ UNCHANGED rc
    /\ UNCHANGED <<netVars, isconnected, ping_outstanding, fail_conn_count,
                   pingDue, readbuf, waitOver, MQTT_State, queue>>

\* Both timers start, CONNECT is sent, and waitfor(CONNACK) begins.
ConnectSend(t) ==
    /\ pc[t] = "mc_send"
    /\ pingDue' = FALSE
    /\ IF SendOk
       THEN /\ Goto(t, "mc_send", "read")
            /\ Reaches(BrokerTakesConnect(my_socket, Refusals))
            /\ UNCHANGED <<my_socket, conn, dial, rc>>
       ELSE /\ Goto(t, "mc_send", "mc_exit")
            /\ rc' = FAILURE
            /\ UNCHANGED netVars
    /\ waitOver' = FALSE
    /\ UNCHANGED <<mutex, isconnected, ping_outstanding, fail_conn_count, readbuf,
                   MQTT_State, queue>>

\* command_timeout_ms have passed in waitfor.  Keep-alive is as long, so that
\* ping_timer, started a moment later, may expire with connect_timer.  While a
\* CONNACK is under way this counts as a fault: an answer that took too long.
InWaitfor(t) == t # Run /\ pc[t] \in Cycle
ConnackUnderWay ==
    HasPacket(my_socket) /\ \E i \in DOMAIN inbox[my_socket] :
                               inbox[my_socket][i].type = CONNACK

ConnectTimerExpires ==
    /\ \E t \in Tasks : InWaitfor(t)
    /\ ~waitOver
    /\ waitOver' = TRUE
    /\ IF ConnackUnderWay THEN Fault ELSE UNCHANGED faults
    /\ pingDue' \in {pingDue, TRUE}
    /\ UNCHANGED <<my_socket, conn, sess, inbox, dial, pc, mutex, MQTT_State,
                   isconnected, ping_outstanding, fail_conn_count, readbuf, rc, queue>>

\* Slips: the return code is taken for granted; the timer is not looked at.
WaitforDoneTrusting(t) ==
    /\ InWaitfor(t) /\ pc[t] = "cycled"
    /\ IF rc = CONNACK \/ waitOver
       THEN Goto(t, "cycled", "mc_exit") /\ rc' = IF rc = CONNACK THEN SUCCESS ELSE FAILURE
       ELSE Goto(t, "cycled", "read") /\ UNCHANGED rc
    /\ UNCHANGED <<netVars, mutex, isconnected, ping_outstanding, fail_conn_count,
                   pingDue, readbuf, waitOver, MQTT_State, queue>>

WaitforDoneTimeless(t) ==
    /\ InWaitfor(t) /\ pc[t] = "cycled"
    /\ IF rc = CONNACK
       THEN /\ Goto(t, "cycled", "mc_exit")
            /\ rc' = IF readbuf.type = CONNACK THEN readbuf.code ELSE FAILURE
       ELSE Goto(t, "cycled", "read") /\ UNCHANGED rc
    /\ UNCHANGED <<netVars, mutex, isconnected, ping_outstanding, fail_conn_count,
                   pingDue, readbuf, waitOver, MQTT_State, queue>>

\* waitfor: another cycle unless the last one returned CONNACK (2) or the timer
\* has expired.  The return code is then taken from what readbuf holds.
WaitforDone(t) ==
    /\ InWaitfor(t) /\ pc[t] = "cycled"
    /\ IF rc = CONNACK
       THEN /\ Goto(t, "cycled", "mc_exit")
            /\ rc' = IF readbuf.type = CONNACK THEN readbuf.code ELSE FAILURE
       ELSE IF waitOver
       THEN Goto(t, "cycled", "mc_exit") /\ rc' = FAILURE
       ELSE Goto(t, "cycled", "read") /\ UNCHANGED rc
    /\ UNCHANGED <<netVars, mutex, isconnected, ping_outstanding, fail_conn_count,
                   pingDue, readbuf, waitOver, MQTT_State, queue>>

\* The exit of MQTTConnect.  Main then starts MQTTRun and goes on, or tries
\* again; a handler deletes itself.
ConnectExit(t) ==
    /\ pc[t] = "mc_exit"
    /\ MutexUnlock
    /\ isconnected' = (isconnected \/ rc = SUCCESS)
    /\ IF t # Main
       THEN Goto(t, "mc_exit", "none") /\ UNCHANGED MQTT_State
       ELSE IF rc = SUCCESS
       THEN /\ pc' = [pc EXCEPT ![t] = "cmd_lock", ![Run] = "run_lock"]
            /\ MQTT_State' = "ST_REG"
       ELSE Goto(t, "mc_exit", "mc_lock") /\ UNCHANGED MQTT_State
    /\ rc' = SUCCESS /\ waitOver' = FALSE
    /\ UNCHANGED <<netVars, ping_outstanding, fail_conn_count, pingDue, readbuf, queue>>

----------------------------------------------------------------------------
(* MQTTRun and cycle()                                                     *)

RunLock ==
    /\ Goto(Run, "run_lock", "read")
    /\ MutexLock(Run)
    /\ UNCHANGED <<netVars, isconnected, ping_outstanding, fail_conn_count, pingDue,
                   readbuf, rc, waitOver, MQTT_State, queue>>

RunUnlock ==
    /\ Goto(Run, "cycled", "run_lock")
    /\ MutexUnlock
    /\ rc' = SUCCESS
    /\ UNCHANGED <<netVars, isconnected, ping_outstanding, fail_conn_count, pingDue,
                   readbuf, waitOver, MQTT_State, queue>>

\* readPacket gets nothing in time, or the read fails.
ReadNothing(t) ==
    /\ Goto(t, "read", "keepalive")
    /\ readbuf' = NoPacket
    /\ rc' = SUCCESS
    /\ UNCHANGED <<netVars, mutex, isconnected, ping_outstanding, fail_conn_count,
                   pingDue, waitOver, MQTT_State, queue>>

\* Where cycle goes with packet p: some types are answered first.
AfterRead(p) ==
    IF p.type \in {PUBREC, PUBREL} \/ (p.type = PUBLISH /\ p.code # 0)
    THEN "answer" ELSE "keepalive"

\* readPacket and the switch of cycle up to the answer.
ReadPacket(t) ==
    /\ pc[t] = "read"
    /\ HasPacket(my_socket)
    /\ LET p == Head(inbox[my_socket]) IN
         /\ readbuf' = p
         /\ rc' = IF p.type \in {CONNACK, SUBACK} THEN p.code ELSE SUCCESS
         /\ isconnected' = (isconnected \/ (p.type = CONNACK /\ p.code = 0))
         /\ IF p.type = PINGRESP
            THEN ping_outstanding' = FALSE /\ fail_conn_count' = 0
            ELSE UNCHANGED <<ping_outstanding, fail_conn_count>>
         /\ Goto(t, "read", AfterRead(p))
    /\ inbox' = [inbox EXCEPT ![my_socket] = Tail(@)]
    /\ UNCHANGED <<my_socket, conn, sess, dial, faults, mutex, pingDue, waitOver,
                   MQTT_State, queue>>

\* PUBACK or PUBREC for a message, PUBREL for PUBREC, PUBCOMP for PUBREL.  It
\* fails on a broken connection or when the cycle's timer has run out; after a
\* failed PUBREL or PUBCOMP cycle leaves without keepalive.
AnswerPacket(t) ==
    /\ pc[t] = "answer"
    /\ \/ /\ Send(PUBACK)
          /\ rc' = SUCCESS
          /\ Goto(t, "answer", IF readbuf.type = PUBLISH THEN "deliver" ELSE "keepalive")
       \/ /\ rc' = FAILURE
          /\ Goto(t, "answer", IF readbuf.type = PUBLISH THEN "deliver" ELSE "cycled")
          /\ UNCHANGED <<netVars, pingDue>>
    /\ UNCHANGED <<mutex, isconnected, ping_outstanding, fail_conn_count, readbuf,
                   waitOver, MQTT_State, queue>>

\* Slip: xQueueSend without a time limit.
DeliverForever(t) ==
    /\ queue < QueueLen
    /\ Goto(t, "deliver", "keepalive")
    /\ queue' = queue + 1
    /\ UNCHANGED <<netVars, clientVars, MQTT_State>>

\* deliverMessage calls messageArrived with the mutex held.  A plug command
\* queues a status message for Main, waiting up to 100 ms for room.
Deliver(t) ==
    /\ Goto(t, "deliver", "keepalive")
    /\ queue' \in {queue, IF queue < QueueLen THEN queue + 1 ELSE queue}
    /\ UNCHANGED <<netVars, clientVars, MQTT_State>>

\* ThreadStart(&client->thread, &mqtt_lost_call, client), its result ignored.
SpawnHandler(t) ==
    \/ \E h \in Handlers : /\ pc[h] = "none"
                           /\ pc' = [pc EXCEPT ![t] = "cycled", ![h] = "disc_lock"]
    \/ /\ \A h \in Handlers : pc[h] # "none"
       /\ Goto(t, "keepalive", "cycled")

\* Slip: the code is returned, never the type.
CycleResultCode == rc

\* cycle returns the type of the packet when the code is SUCCESS.
CycleResult == IF rc = SUCCESS THEN readbuf.type ELSE rc

\* keepalive(), and the end of cycle.
KeepaliveIdle(t) ==
    /\ ~pingDue
    /\ Goto(t, "keepalive", "cycled")
    /\ UNCHANGED <<netVars, ping_outstanding, fail_conn_count, pingDue>>

KeepalivePing(t) ==
    /\ pingDue
    /\ Send(PINGREQ)
    /\ Goto(t, "keepalive", "cycled")
    /\ ping_outstanding' = TRUE
    /\ fail_conn_count' = 0

\* Slip: an unanswered ping counts like one that could not be sent.
KeepaliveFailsUnanswered(t) ==
    /\ pc[t] = "keepalive"
    /\ pingDue /\ (~SendOk \/ ping_outstanding)
    /\ fail_conn_count' = (fail_conn_count + 1) % CountMod
    /\ IF fail_conn_count > 2
       THEN SpawnHandler(t) /\ UNCHANGED pingDue
       ELSE Goto(t, "keepalive", "cycled") /\ pingDue' = FALSE
    /\ UNCHANGED <<netVars, ping_outstanding>>

\* The ping cannot be sent: try again in 20 s, or start a handler.  In that case
\* ping_timer stays expired.
KeepaliveFails(t) ==
    /\ pc[t] = "keepalive"
    /\ pingDue /\ ~SendOk
    /\ fail_conn_count' = (fail_conn_count + 1) % CountMod
    /\ IF fail_conn_count > 2
       THEN SpawnHandler(t) /\ UNCHANGED pingDue
       ELSE Goto(t, "keepalive", "cycled") /\ pingDue' = FALSE
    /\ UNCHANGED <<netVars, ping_outstanding>>

Keepalive(t) ==
    /\ KeepaliveIdle(t) \/ KeepalivePing(t) \/ KeepaliveFails(t)
    /\ rc' = CycleResult
    /\ UNCHANGED <<mutex, isconnected, readbuf, waitOver, MQTT_State, queue>>

\* ping_timer expires; not within waitfor, which it outlasts.
PingTimerExpires ==
    /\ ~pingDue
    /\ pc[Run] # "none"
    /\ \A t \in Tasks : ~InWaitfor(t)
    /\ pingDue' = TRUE
    /\ UNCHANGED <<netVars, mutex, isconnected, ping_outstanding, fail_conn_count,
                   readbuf, rc, waitOver, pc, MQTT_State, queue>>

----------------------------------------------------------------------------
(* mqttConnectLost, in a task of its own: MQTTDisconnect, then close and   *)
(* NetworkConnect without the mutex, then MQTTConnect.                     *)

\* Slips: MutexLock gives up waiting and nobody looks at its result; the flag
\* is left set; the socket is not closed.
DisconnectLockTimed(t) ==
    /\ Goto(t, "disc_lock", "disc_send")
    /\ mutex' = IF mutex = NoTask THEN t ELSE mutex
    /\ UNCHANGED <<netVars, isconnected, ping_outstanding, fail_conn_count, pingDue,
                   readbuf, rc, waitOver, MQTT_State, queue>>

DisconnectSendStillUp(t) ==
    /\ Goto(t, "disc_send", "close")
    /\ Send(DISCONNECT) \/ (~SendOk /\ UNCHANGED <<netVars, pingDue>>)
    /\ MutexUnlock
    /\ UNCHANGED <<isconnected, ping_outstanding, fail_conn_count, readbuf, rc,
                   waitOver, MQTT_State, queue>>

HandlerCloseNothing(t) ==
    /\ Goto(t, "close", "dns")
    /\ UNCHANGED <<netVars, clientVars, MQTT_State, queue>>

DisconnectLock(t) ==
    /\ Goto(t, "disc_lock", "disc_send")
    /\ MutexLock(t)
    /\ UNCHANGED <<netVars, isconnected, ping_outstanding, fail_conn_count, pingDue,
                   readbuf, rc, waitOver, MQTT_State, queue>>

DisconnectSend(t) ==
    /\ Goto(t, "disc_send", "close")
    /\ Send(DISCONNECT) \/ (~SendOk /\ UNCHANGED <<netVars, pingDue>>)
    /\ isconnected' = FALSE
    /\ MutexUnlock
    /\ UNCHANGED <<ping_outstanding, fail_conn_count, readbuf, rc, waitOver,
                   MQTT_State, queue>>

HandlerClose(t) ==
    /\ Goto(t, "close", "dns")
    /\ CloseSocket(my_socket)
    /\ UNCHANGED <<my_socket, faults, clientVars, MQTT_State, queue>>

----------------------------------------------------------------------------
(* Commands of Main: MQTTSubscribe in ST_REG, MQTTSetAlias in ST_SUB and   *)
(* MQTTPublish2 for a queued message.  Each locks, sends if connected, and *)
(* unlocks; Main goes on whatever the result.                              *)

CommandType == CASE MQTT_State = "ST_REG" -> SUBSCRIBE
                 [] MQTT_State = "ST_SUB" -> PUBLISH
                 [] OTHER -> EXTCMD

CommandLock ==
    /\ Goto(Main, "cmd_lock", "cmd_send")
    /\ MutexLock(Main)
    /\ UNCHANGED <<netVars, isconnected, ping_outstanding, fail_conn_count, pingDue,
                   readbuf, rc, waitOver, MQTT_State, queue>>

\* Slip: the flag is not looked at.
CommandSendUnchecked ==
    /\ Goto(Main, "cmd_send", IF MQTT_State = "ST_REG" THEN "cmd_lock" ELSE "serve")
    /\ IF SendOk THEN Send(CommandType) ELSE UNCHANGED <<netVars, pingDue>>
    /\ MQTT_State' = IF MQTT_State = "ST_REG" THEN "ST_SUB" ELSE "ST_RUNNING"
    /\ MutexUnlock
    /\ UNCHANGED <<isconnected, ping_outstanding, fail_conn_count, readbuf, rc,
                   waitOver, queue>>

CommandSend ==
    /\ Goto(Main, "cmd_send", IF MQTT_State = "ST_REG" THEN "cmd_lock" ELSE "serve")
    /\ IF isconnected /\ SendOk THEN Send(CommandType) ELSE UNCHANGED <<netVars, pingDue>>
    /\ MQTT_State' = IF MQTT_State = "ST_REG" THEN "ST_SUB" ELSE "ST_RUNNING"
    /\ MutexUnlock
    /\ UNCHANGED <<isconnected, ping_outstanding, fail_conn_count, readbuf, rc,
                   waitOver, queue>>

\* xQueueReceive in the main loop.
Dequeue ==
    /\ queue > 0
    /\ Goto(Main, "serve", "cmd_lock")
    /\ queue' = queue - 1
    /\ UNCHANGED <<netVars, clientVars, MQTT_State>>

\* put_message from the key's timer callback; the message is lost when the
\* queue stays full.
KeyMessage ==
    /\ queue < QueueLen
    /\ queue' = queue + 1
    /\ UNCHANGED <<netVars, clientVars, pc, MQTT_State>>

----------------------------------------------------------------------------
TaskStep(t) ==
    \/ Resolve(t) \/ AllocSocket(t) \/ Dial(t) \/ DialDone(t)
    \/ ConnectLock(t) \/ ConnectSend(t) \/ WaitforDone(t) \/ ConnectExit(t)
    \/ ReadNothing(t) \/ ReadPacket(t) \/ AnswerPacket(t) \/ Deliver(t) \/ Keepalive(t)
    \/ DisconnectLock(t) \/ DisconnectSend(t) \/ HandlerClose(t)

OnlyMain == CommandLock \/ CommandSend \/ Dequeue
OnlyRun  == RunLock \/ RunUnlock

Environment ==
    /\ \E f \in Fds : \/ BrokerDrops(f) \/ LinkFails(f) \/ TcpGivesUp(f)
                      \/ \E p \in Pushes : BrokerPushes(f, p)
    /\ UNCHANGED <<clientVars, pc, MQTT_State, queue>>

Next ==
    \/ \E t \in Tasks : TaskStep(t)
    \/ OnlyMain \/ OnlyRun
    \/ ConnectTimerExpires \/ PingTimerExpires \/ KeyMessage
    \/ Environment

Safe == Init /\ [][Next]_vars

(***************************************************************************)
(* Fairness.  Tasks run: FreeRTOS schedules equal priorities round robin   *)
(* and every wait in the code is bounded but MutexLock.  The mutex goes to *)
(* a waiting task when its owner, who then sleeps, gives it back: strong   *)
(* fairness.  Data under way is read in the end; timers expire; TCP does   *)
(* not retransmit for ever; the broker closes connections in breach.       *)
(***************************************************************************)
Fairness ==
    /\ \A t \in Tasks : /\ WF_vars(TaskStep(t))
                        /\ SF_vars(ConnectLock(t) \/ DisconnectLock(t))
                        /\ SF_vars(ReadPacket(t))
    /\ SF_vars(CommandLock) /\ WF_vars(CommandSend) /\ WF_vars(Dequeue)
    /\ SF_vars(RunLock) /\ WF_vars(RunUnlock)
    /\ WF_vars(ConnectTimerExpires) /\ WF_vars(PingTimerExpires)
    /\ \A f \in Fds : WF_vars((BrokerDrops(f) \/ TcpGivesUp(f))
                              /\ UNCHANGED <<clientVars, pc, MQTT_State, queue>>)

Spec == Safe /\ Fairness
----------------------------------------------------------------------------
(* Safety. *)

\* The code between MutexLock and MutexUnlock is run by one task at a time, and
\* that task is the owner of the mutex; a task that waits for the mutex is not.
MutualExclusion == \A t \in Tasks : pc[t] \in Guarded <=> mutex = t

\* "don't send connect packet again if we are already connected": when the flag
\* is set and the connection is open, CONNECT was sent on this connection, not
\* on one it replaced.
ConnectedHasSession ==
    isconnected /\ my_socket \in Fds /\ conn[my_socket] = "open"
        => sess[my_socket] # "none"

\* isconnected is raised only by an accepting CONNACK, although cycle() mixes
\* packet types, return codes and granted QoS in one result, in which 2 is
\* CONNACK, "identifier rejected" and QoS 2.
RefusalNeverConnects ==
    [][~isconnected /\ isconnected' => readbuf' = [type |-> CONNACK, code |-> 0]]_vars

\* The client has a session and knows it.
Linked == /\ isconnected /\ my_socket \in Fds
          /\ conn[my_socket] = "open" /\ sess[my_socket] \in {"up", "sub"}

(* Liveness. *)

\* No task keeps the mutex: not while it waits for room in a queue that is
\* emptied by a task waiting for the mutex, nor while it waits for a CONNACK.
MutexReleased == []<>(mutex = NoTask)

\* A handler deletes itself in the end, whatever became of the connection.
HandlersEnd == \A h \in Handlers : pc[h] = "disc_lock" ~> pc[h] = "none"

\* Start-up completes unless the environment fails.
BootCompletes == MQTT_State = "ST_INIT" ~> (MQTT_State = "ST_RUNNING" \/ faults > 0)

\* MQTTRun pings on a connection a handler has just established, before the
\* handler has sent CONNECT there.
EarlyPing == Keepalive(Run) /\ pingDue /\ SendOk /\ sess[my_socket] = "none"

\* Once started up, a client that loses its connection gets a session again,
\* unless each new connection is spoilt by an early ping.
Recovers == []<><<EarlyPing>>_vars \/ <>[](MQTT_State = "ST_RUNNING" => Linked)
=============================================================================
