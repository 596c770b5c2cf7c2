--------------------------- MODULE MqttClientRaces ---------------------------
(***************************************************************************)
(* MqttClient with a memory of what handlers did to each other.  Keepalive *)
(* leaves ping_timer expired when it starts a handler, so that the next    *)
(* cycle starts another: handlers do overlap.  They take the mutex for     *)
(* MQTTDisconnect and for MQTTConnect, but close and reopen the connection *)
(* between the two without it.  Three things can go wrong there, each with *)
(* a history variable of its own; as long as it has not happened, the      *)
(* client keeps what depends on it, with any number of handlers about.     *)
(***************************************************************************)
EXTENDS MqttClientSession

VARIABLES
    raced,       \* a socket() came between another task's close() and socket()
    crossed,     \* isconnected was set while a task was replacing the connection
    overtaken    \* handlers that wait to disconnect, and CONNECT was sent meanwhile

races == <<raced, crossed, overtaken>>

\* Labels of a task that has closed the connection and not yet reopened it, and of
\* one that is between MQTTDisconnect and the new connection.
Closed    == {"dns", "socket"}
Replacing == {"close"} \cup Dialling

Leaves(t, label) == pc[t] = label /\ pc'[t] # label

Reopens(t)  == Leaves(t, "socket") /\ \E u \in Tasks \ {t} : pc[u] \in Closed
Raised == ~isconnected /\ isconnected'

StillToEnd(h) == pc'[h] \in {"disc_lock", "disc_send"}
Overtakes(h) ==
    pc[h] = "disc_lock" /\ \E t \in Tasks : pc[t] = "mc_send" /\ pc'[t] = "read"

Watch ==
    /\ raced' = (raced \/ \E t \in Tasks : Reopens(t))
    /\ crossed' = (crossed \/ (Raised /\ \E t \in Tasks : pc[t] \in Replacing))
    /\ overtaken' = {h \in Handlers : StillToEnd(h) /\ (h \in overtaken \/ Overtakes(h))}

Watched ==
    /\ Init /\ raced = FALSE /\ crossed = FALSE /\ overtaken = {}
    /\ [][Next /\ Watch]_<<vars, races>>

----------------------------------------------------------------------------
\* No allocated descriptor is forgotten, however handlers overlap, until one
\* reopens the connection between another's close() and socket().
NoSocketLeak == ~raced => \A f \in Fds : conn[f] # "free" => f = my_socket

\* isconnected stands for a CONNECT sent on the connection at hand, however
\* handlers overlap, until it is raised while one of them replaces the connection.
FlagNotStale == ~crossed => ConnectedHasSession

\* A handler was started because a connection broke.  The only session that works
\* and that it may end is one asked for while it waited for the mutex.
NoSelfInflictedLoss ==
    [][\A h \in Handlers : DisconnectSend(h) /\ Linked => h \in overtaken]_vars

\* Until one of the first two happens every step of the tasks, of lwIP and of the
\* broker is one of ClientSession or changes nothing it speaks of.
ImplementsSession ==
    /\ Session!Init
    /\ [][~raced /\ ~crossed => Session!Next]_(Session!vars)
=============================================================================
