---------------------------- MODULE Provisioning ----------------------------
(***************************************************************************)
(* From power-on to the start of the MQTT client: user_main.c and          *)
(* user_smartconfig.c, then yunba_get_mqtt_broker in mqtt_client.c with    *)
(* the two requests of MQTTClient.c.  The timer task, the SmartConfig      *)
(* library, the Wi-Fi station and the client task take their steps in any  *)
(* order; the router and yunba's servers come and go; power may fail and   *)
(* a long press may erase the configuration at any time.                   *)
(***************************************************************************)
EXTENDS Integers

CONSTANT NumSockets    \* descriptors lwIP has

ASSUME NumSocketsAssumption == NumSockets \in Nat \ {0}

VARIABLES
    config,        \* the station's configuration in flash
    apUp,          \* the router is up
    serversUp,     \* yunba's servers answer
    station,       \* wifi_station_get_connect_status
    client_timer,  \* armed
    smart,         \* SmartConfig: "task" until smartconfig_task runs, ...
    clients,       \* number of client tasks created
    stage,         \* the request it is at, or "mqtt" when it has both answers
    pc,            \* where it is in the request
    my_socket,     \* what the descriptor in n stands for
    fds,           \* descriptors in use
    buf,           \* what buf holds
    learnt,        \* what the request took for its answer
    excused        \* history: since the start, the network known was not to be had

world  == <<apUp, serversUp>>
wifi   == <<config, station, client_timer, smart, clients, excused>>
socket == <<my_socket, fds>>
client == <<stage, pc, socket, buf, learnt>>
vars   == <<world, wifi, client>>

\* Each part keeps its type: a descriptor closed twice is counted free once.
TypeOK ==
    /\ config \in {"none", "good", "bad"}
    /\ apUp \in BOOLEAN /\ serversUp \in BOOLEAN
    /\ station \in {"idle", "connecting", "failed", "got_ip"}
    /\ client_timer \in BOOLEAN /\ excused \in BOOLEAN
    /\ smart \in {"off", "task", "listen", "link"}
    /\ clients \in Nat
    /\ stage \in {"none", "lookup", "register", "mqtt"}
    /\ pc \in {"none", "connect", "write", "read", "close", "wait"}
    /\ my_socket \in {"unset", "open", "closed"}
    /\ fds \in 0 .. NumSockets
    /\ buf \in {"request", "zeros", "stub", "cut", "answer"}
    /\ learnt \in {"nothing", "request", "answer"}

----------------------------------------------------------------------------
(* Starts: user_init and setup_wifi. *)

Boots(cfg) ==
    /\ config' = cfg
    /\ station' = "idle"
    /\ client_timer' = (cfg # "none")
    /\ smart' = IF cfg = "none" THEN "task" ELSE "off"
    /\ clients' = 0
    /\ excused' = (cfg # "good")
    /\ stage' = "none" /\ pc' = "none"
    /\ my_socket' = "unset" /\ fds' = 0
    /\ buf' = "request" /\ learnt' = "nothing"

Init ==
    /\ config \in {"none", "good", "bad"}
    /\ apUp \in BOOLEAN /\ serversUp \in BOOLEAN
    /\ station = "idle"
    /\ client_timer = (config # "none")
    /\ smart = IF config = "none" THEN "task" ELSE "off"
    /\ clients = 0
    /\ excused = (config # "good")
    /\ stage = "none" /\ pc = "none"
    /\ my_socket = "unset" /\ fds = 0
    /\ buf = "request" /\ learnt = "nothing"

PowerFails == Boots(config) /\ UNCHANGED world

\* user_plug_long_press: system_restore, system_restart.
LongPress == Boots("none") /\ UNCHANGED world

Restarts == PowerFails \/ LongPress

----------------------------------------------------------------------------
(* The router, the servers and the station. *)

WorldChanges ==
    /\ \/ apUp' = ~apUp /\ UNCHANGED serversUp
       \/ serversUp' = ~serversUp /\ UNCHANGED apUp
    /\ UNCHANGED <<wifi, client>>

Joins == config = "good" /\ apUp

StationMoves(to) == station' = to /\ UNCHANGED <<world, config, client_timer, smart, clients, client>>

\* By default the station connects after a start and after it failed; not while
\* SmartConfig listens.
StationDials ==
    /\ station \in {"idle", "failed"} /\ config # "none" /\ smart \in {"off", "link"}
    /\ StationMoves("connecting") /\ UNCHANGED excused

StationConnects == station = "connecting" /\ Joins /\ StationMoves("got_ip") /\ UNCHANGED excused

StationFails ==
    /\ station \in {"connecting", "got_ip"} /\ ~Joins
    /\ StationMoves("failed") /\ excused' = TRUE

----------------------------------------------------------------------------
(* user_smartconfig.c *)

\* xTaskCreate(yunba_mqtt_client_task, ...)
StartClient ==
    /\ clients' = clients + 1
    /\ stage' = "lookup" /\ pc' = "connect"
    /\ buf' = "request" /\ learnt' = "nothing"

\* Slip: a station that has not begun to connect is taken for one that failed.
UndecidedConnecting == station = "connecting"

Undecided == station \in {"connecting", "idle"}

\* Slip: the timer repeats by itself.
FindsIPPeriodic ==
    /\ client_timer
    /\ station = "got_ip"
    /\ StartClient
    /\ UNCHANGED <<world, config, station, client_timer, smart, excused, socket>>

\* check_wifi_conn: the client, another 5 s, or SmartConfig.
CheckFindsIP ==
    /\ client_timer /\ client_timer' = FALSE
    /\ station = "got_ip"
    /\ StartClient
    /\ UNCHANGED <<world, config, station, smart, excused, socket>>

\* Slip: the timer is not armed again.
CheckNotAgain ==
    /\ client_timer /\ client_timer' = FALSE
    /\ Undecided
    /\ UNCHANGED <<world, config, station, smart, clients, excused, client>>

CheckAgain ==
    /\ client_timer /\ Undecided
    /\ UNCHANGED vars

CheckGivesUp ==
    /\ client_timer /\ client_timer' = FALSE
    /\ station # "got_ip" /\ ~Undecided
    /\ smart' = "task"
    /\ UNCHANGED <<world, config, station, clients, excused, client>>

\* smartconfig_start listens in place of the station.
SmartconfigTask ==
    /\ smart = "task" /\ smart' = "listen"
    /\ station' = "idle"
    /\ UNCHANGED <<world, config, client_timer, clients, excused, client>>

\* SC_STATUS_LINK: a phone has sent a name and a password.
SmartconfigLink(cfg) ==
    /\ smart = "listen" /\ smart' = "link"
    /\ config' = cfg /\ station' = "connecting"
    /\ UNCHANGED <<world, client_timer, clients, excused, client>>

\* The library starts again when the connection does not come in time.
SmartconfigTimeout ==
    /\ smart = "link" /\ station # "got_ip"
    /\ smart' = "listen" /\ station' = "idle"
    /\ UNCHANGED <<world, config, client_timer, clients, excused, client>>

\* Slip: SmartConfig is not stopped.
LinkOverGoesOn ==
    /\ smart = "link" /\ station = "got_ip"
    /\ StartClient
    /\ UNCHANGED <<world, config, station, client_timer, excused, socket, smart>>

\* SC_STATUS_LINK_OVER: the station has an address.
LinkOver ==
    /\ smart = "link" /\ station = "got_ip"
    /\ smart' = "off"
    /\ StartClient
    /\ UNCHANGED <<world, config, station, client_timer, excused, socket>>

----------------------------------------------------------------------------
(* The client task: MQTTClient_get_host_v2, then setup_with_appkey_v2, each *)
(* again and again until it succeeds.                                      *)

Reachable == station = "got_ip" /\ serversUp

Goto(from, to) == pc = from /\ pc' = to

\* NetworkInit and NetworkConnect; the result is not looked at.
Connects ==
    /\ Goto("connect", "write")
    /\ Reachable /\ fds < NumSockets
    /\ my_socket' = "open" /\ fds' = fds + 1
    /\ UNCHANGED <<world, wifi, stage, buf, learnt>>

ConnectFails ==
    /\ Goto("connect", "write")
    /\ my_socket' \in {"unset", "closed"}
    /\ UNCHANGED <<world, wifi, stage, fds, buf, learnt>>

\* Slip: buf keeps the request.
WritesOver ==
    /\ Goto("write", "read")
    /\ my_socket = "open"
    /\ UNCHANGED <<world, wifi, stage, socket, buf, learnt>>

\* The whole request is written, and buf cleared for the answer.
Writes ==
    /\ Goto("write", "read")
    /\ my_socket = "open"
    /\ buf' = "zeros"
    /\ UNCHANGED <<world, wifi, stage, socket, learnt>>

WriteFails == Goto("write", "close") /\ UNCHANGED <<world, wifi, stage, socket, buf, learnt>>

\* The length agrees, there is JSON, and it has entries.  Of an answer cut within
\* its header there is no JSON; the request would do.
Taken == IF buf' \in {"answer", "request"} THEN buf' ELSE "nothing"

Reads(got) ==
    /\ Goto("read", "close")
    /\ buf' = got
    /\ learnt' = Taken
    /\ UNCHANGED <<world, wifi, stage, socket>>

ReadsAnswer == Reachable /\ Reads("answer")

\* mqttread's result is not looked at: nothing came, or the connection broke.
ReadsLess == \E got \in {buf, "stub", "cut"} : Reads(got)

Freed == IF my_socket = "open" THEN fds - 1 ELSE fds

\* Slip: only an attempt that succeeds is disconnected.
DisconnectsIfDone ==
    /\ pc = "close"
    /\ \/ learnt = "nothing" /\ pc' = "wait" /\ my_socket' = "closed" /\ UNCHANGED <<stage, fds>>
       \/ /\ learnt # "nothing" /\ my_socket' = "closed" /\ fds' = Freed
          /\ stage' = (IF stage = "lookup" THEN "register" ELSE "mqtt")
          /\ pc' = (IF stage = "lookup" THEN "connect" ELSE "none")
    /\ buf' = "request" /\ learnt' = "nothing"
    /\ UNCHANGED <<world, wifi>>

\* n.disconnect; then the next request, or this one again.
Disconnects ==
    /\ pc = "close"
    /\ my_socket' = "closed" /\ fds' = Freed
    /\ \/ learnt = "nothing" /\ pc' = "wait" /\ UNCHANGED stage
       \/ learnt # "nothing" /\ stage = "lookup" /\ stage' = "register" /\ pc' = "connect"
       \/ learnt # "nothing" /\ stage = "register" /\ stage' = "mqtt" /\ pc' = "none"
    /\ buf' = "request" /\ learnt' = "nothing"
    /\ UNCHANGED <<world, wifi>>

\* vTaskDelay
Again == Goto("wait", "connect") /\ UNCHANGED <<world, wifi, stage, socket, buf, learnt>>

ClientStep ==
    \/ Connects \/ ConnectFails \/ Writes \/ WriteFails \/ ReadsAnswer \/ ReadsLess
    \/ Disconnects \/ Again

----------------------------------------------------------------------------
Next ==
    \/ PowerFails \/ LongPress \/ WorldChanges
    \/ StationDials \/ StationConnects \/ StationFails
    \/ CheckFindsIP \/ CheckAgain \/ CheckGivesUp \/ SmartconfigTask \/ LinkOver \/ SmartconfigTimeout
    \/ \E cfg \in {"good", "bad"} : SmartconfigLink(cfg)
    \/ ClientStep

Safe == Init /\ [][Next]_vars

(***************************************************************************)
(* Fairness.  Timers fire, tasks and the library run, the station goes on  *)
(* trying.  An attempt at something possible does not fail every time:     *)
(* strong fairness; nor does the timer always find a station that failed    *)
(* connecting again.  Somebody has a phone that knows the network.         *)
(***************************************************************************)
Fairness ==
    /\ WF_vars(CheckFindsIP) /\ SF_vars(CheckGivesUp)
    /\ WF_vars(SmartconfigTask) /\ WF_vars(LinkOver)
    /\ WF_vars(SmartconfigTimeout) /\ SF_vars(SmartconfigLink("good"))
    /\ WF_vars(StationDials) /\ SF_vars(StationConnects) /\ WF_vars(StationFails)
    /\ WF_vars(ClientStep)
    /\ SF_vars(Connects) /\ SF_vars(Writes) /\ SF_vars(ReadsAnswer)

Spec == Safe /\ Fairness
----------------------------------------------------------------------------
\* Whichever way the network was found, one client task is created: client, network
\* and MQTT_State exist once.
OneClient == clients <= 1

\* "Don't call any other APIs during SmartConfig": while it is on, no timer is about
\* to look at the station and no client uses the network.
SmartConfigAlone == smart # "off" => ~client_timer /\ clients = 0

\* A device that knows its network, and always finds it, does not wait for a phone.
NeedsNoPhone == smart # "off" => excused

\* However its attempts fail, the client takes nothing but an answer for the answer:
\* not its own request, which is in buf before.
OnlyAnswers == learnt # "request"

\* Attempts are repeated without limit, so each gives its descriptor back.
NothingLeaks == fds = IF my_socket = "open" THEN 1 ELSE 0

\* Once router and servers stay up and nobody restarts the device any more, it gets
\* its broker's address and its registration, from whatever state it is in.
ComesOnline ==
    \/ []<>~(apUp /\ serversUp) \/ []<><<Restarts>>_vars
    \/ <>[](stage = "mqtt")

(* The inductive invariants behind OneClient, SmartConfigAlone, OnlyAnswers and     *)
(* NothingLeaks, and behind NeedsNoPhone.                                          *)

\* There is one way to a client at a time.
OneWay ==
    /\ client_timer => smart = "off" /\ clients = 0
    /\ smart # "off" => clients = 0
    /\ clients <= 1

\* Descriptors are in use while an attempt is under way, no more.
SocketInv ==
    /\ fds = IF my_socket = "open" THEN 1 ELSE 0
    /\ pc \in {"none", "connect", "wait"} => my_socket # "open"
    /\ clients = 0 => pc = "none"

\* buf holds the request only where it is not read.
BufferInv ==
    /\ pc = "read" => buf = "zeros"
    /\ learnt # "request"

IInv == TypeOK /\ OneWay /\ SocketInv /\ BufferInv

\* A station that failed had no network to join, and SmartConfig follows a failure.
PhoneInv ==
    /\ station = "failed" => excused
    /\ smart # "off" => excused
=============================================================================
