-------------------------- MODULE MqttClientSession --------------------------
(***************************************************************************)
(* MqttClient seen as a ClientSession.  The table of descriptors becomes   *)
(* one connection, the one my_socket names; a report is in hand from       *)
(* xQueueReceive to the end of MQTTPublish2.  MqttClientRaces says up to   *)
(* when each step of the client is one of ClientSession.                   *)
(***************************************************************************)
EXTENDS MqttClient

LinkOf(f) ==
    IF f \notin Fds THEN "none"
    ELSE CASE conn[f] = "free"             -> "none"
           [] conn[f] \in {"fresh", "syn"} -> "dialling"
           [] conn[f] = "open"             -> "up"
           [] conn[f] = "mute"             -> "silent"
           [] OTHER                        -> "broken"

SessionOf(f) == IF f \in Fds THEN sess[f] ELSE "none"

ReportInHand == MQTT_State = "ST_RUNNING" /\ pc[Main] \in {"cmd_lock", "cmd_send"}

Session == INSTANCE ClientSession WITH
    Capacity <- QueueLen,
    link     <- LinkOf(my_socket),
    session  <- SessionOf(my_socket),
    known    <- isconnected,
    started  <- MQTT_State = "ST_RUNNING",
    waiting  <- queue,
    inHand   <- ReportInHand

\* Main settles each report it takes and takes the next, although the mutex it
\* needs to publish is also held by callbacks that wait for room in its queue.
ReportsAreSettled == Session!ReportsMove
=============================================================================
