------------------------- MODULE ProvisioningProofs -------------------------
(***************************************************************************)
(* Proofs about Provisioning for any number of descriptors.                *)
(***************************************************************************)
EXTENDS Provisioning, TLAPS

\* A device starts with one way to a client, and no descriptor in use.
LEMMA ProvisioningInit == Init => IInv
  <1> SUFFICES ASSUME Init PROVE IInv
    OBVIOUS
  <1>1. client_timer \in BOOLEAN /\ excused \in BOOLEAN /\ apUp \in BOOLEAN /\ serversUp \in BOOLEAN
    BY Zenon DEF Init
  <1>2. TypeOK
    BY <1>1, NumSocketsAssumption DEF Init, TypeOK
  <1>3. client_timer => smart = "off"
    BY Zenon DEF Init
  <1> QED
    BY <1>2, <1>3 DEF Init, IInv, OneWay, SocketInv, BufferInv

\* It does after each restart,
LEMMA BootsStep ==
    ASSUME IInv, NEW cfg \in {"none", "good", "bad"}, Boots(cfg), UNCHANGED world
    PROVE  IInv'
  <1>1. client_timer' \in BOOLEAN /\ excused' \in BOOLEAN
    BY Zenon DEF Boots
  <1>2. TypeOK'
    BY <1>1, NumSocketsAssumption DEF Boots, IInv, TypeOK, world
  <1>3. client_timer' => smart' = "off"
    BY Zenon DEF Boots
  <1> QED
    BY <1>2, <1>3 DEF Boots, IInv, OneWay, SocketInv, BufferInv

\* whatever the router, the servers and the station do,
LEMMA WorldStep ==
    ASSUME IInv, WorldChanges \/ StationDials \/ StationConnects \/ StationFails
    PROVE  IInv'
  <1>1. UNCHANGED <<config, client_timer, smart, clients, stage, pc, my_socket, fds, buf, learnt>>
    BY DEF WorldChanges, StationDials, StationConnects, StationFails, StationMoves,
           wifi, client, socket
  <1>2. apUp' \in BOOLEAN /\ serversUp' \in BOOLEAN
    <2>1. apUp \in BOOLEAN /\ serversUp \in BOOLEAN
      BY DEF IInv, TypeOK
    <2>2. CASE WorldChanges
      BY <2>1, <2>2, Zenon DEF WorldChanges
    <2>3. CASE UNCHANGED world
      BY <2>1, <2>3 DEF world
    <2> QED
      BY <2>2, <2>3 DEF StationDials, StationConnects, StationFails, StationMoves, world
  <1>3. station' \in {"idle", "connecting", "failed", "got_ip"} /\ excused' \in BOOLEAN
    BY DEF IInv, TypeOK, WorldChanges, StationDials, StationConnects, StationFails,
           StationMoves, wifi
  <1> QED
    BY <1>1, <1>2, <1>3 DEF IInv, TypeOK, OneWay, SocketInv, BufferInv

\* A client is created only where none was, and where nothing else would create one.
LEMMA StartStep ==
    ASSUME IInv, CheckFindsIP \/ LinkOver
    PROVE  IInv'
  <1>1. /\ StartClient /\ clients = 0 /\ smart' = "off"
        /\ ~client_timer' /\ client_timer' \in BOOLEAN
        /\ UNCHANGED <<apUp, serversUp, config, station, excused, my_socket, fds>>
    <2>1. CASE CheckFindsIP
      BY <2>1 DEF CheckFindsIP, IInv, OneWay, world, socket
    <2>2. CASE LinkOver
      <3>1. UNCHANGED client_timer /\ smart # "off" /\ client_timer \in BOOLEAN
        BY <2>2 DEF LinkOver, IInv, TypeOK
      <3> QED
        BY <2>2, <3>1 DEF LinkOver, IInv, OneWay, world, socket
    <2> QED
      BY <2>1, <2>2
  <1>2. TypeOK'
    BY <1>1 DEF IInv, TypeOK, StartClient
  <1>3. OneWay'
    BY <1>1 DEF OneWay, StartClient
  <1>4. SocketInv'
    BY <1>1 DEF IInv, SocketInv, StartClient
  <1>5. BufferInv'
    BY <1>1 DEF BufferInv, StartClient
  <1> QED
    BY <1>2, <1>3, <1>4, <1>5 DEF IInv

\* The other steps of user_smartconfig.c create none.
LEMMA SmartStep ==
    ASSUME IInv,
           \/ CheckAgain \/ CheckGivesUp \/ SmartconfigTask \/ SmartconfigTimeout
           \/ \E cfg \in {"good", "bad"} : SmartconfigLink(cfg)
    PROVE  IInv'
  <1>1. CASE CheckAgain
    BY <1>1 DEF CheckAgain, vars, world, wifi, client, socket,
                IInv, TypeOK, OneWay, SocketInv, BufferInv
  <1>2. CASE ~CheckAgain
    <2>1. UNCHANGED <<apUp, serversUp, clients, excused, stage, pc, my_socket, fds, buf, learnt>>
      BY <1>2 DEF CheckGivesUp, SmartconfigTask, SmartconfigTimeout, SmartconfigLink,
                  world, client, socket
    <2>2. /\ config' \in {"none", "good", "bad"}
          /\ station' \in {"idle", "connecting", "failed", "got_ip"}
          /\ smart' \in {"task", "listen", "link"}
          /\ client_timer' = FALSE /\ clients = 0
      BY <1>2, Zenon DEF CheckGivesUp, SmartconfigTask, SmartconfigTimeout, SmartconfigLink,
                         IInv, TypeOK, OneWay
    <2>3. TypeOK'
      <3>1. /\ apUp' \in BOOLEAN /\ serversUp' \in BOOLEAN
            /\ client_timer' \in BOOLEAN /\ excused' \in BOOLEAN
        BY <2>1, <2>2, Zenon DEF IInv, TypeOK
      <3>2. /\ clients' \in Nat /\ fds' \in 0 .. NumSockets
            /\ stage' \in {"none", "lookup", "register", "mqtt"}
            /\ pc' \in {"none", "connect", "write", "read", "close", "wait"}
            /\ my_socket' \in {"unset", "open", "closed"}
            /\ buf' \in {"request", "zeros", "stub", "cut", "answer"}
            /\ learnt' \in {"nothing", "request", "answer"}
        BY <2>1, Zenon DEF IInv, TypeOK
      <3>3. smart' \in {"off", "task", "listen", "link"}
        BY <2>2
      <3> QED
        BY <2>2, <3>1, <3>2, <3>3, Zenon DEF TypeOK
    <2>4. OneWay'
      BY <2>1, <2>2 DEF OneWay
    <2>5. SocketInv' /\ BufferInv'
      BY <2>1 DEF IInv, SocketInv, BufferInv
    <2> QED
      BY <2>3, <2>4, <2>5 DEF IInv
  <1> QED
    BY <1>1, <1>2

\* An attempt opens at most one descriptor, gives it back, and judges a buffer that
\* was cleared.
LEMMA RequestStep ==
    ASSUME IInv, ClientStep
    PROVE  IInv'
  <1> USE DEF IInv, TypeOK, OneWay, SocketInv, BufferInv
  <1>0. /\ UNCHANGED <<apUp, serversUp, config, station, client_timer, smart, clients, excused>>
        /\ pc # "none"
    BY DEF ClientStep, Connects, ConnectFails, Writes, WriteFails, ReadsAnswer, ReadsLess, Reads,
           Disconnects, Again, Goto, world, wifi
  <1>1. CASE Connects
    BY <1>0, <1>1, NumSocketsAssumption DEF Connects, Goto
  <1>2. CASE ConnectFails
    BY <1>0, <1>2 DEF ConnectFails, Goto
  <1>3. CASE Writes \/ WriteFails
    BY <1>0, <1>3 DEF Writes, WriteFails, Goto, socket
  <1>4. CASE ReadsAnswer \/ ReadsLess
    <2>1. PICK got \in {"zeros", "stub", "cut", "answer"} : Reads(got)
      BY <1>4 DEF ReadsAnswer, ReadsLess, Reads, Goto
    <2>2. learnt' \in {"nothing", "answer"}
      BY <2>1 DEF Reads, Taken
    <2> QED
      BY <1>0, <2>1, <2>2 DEF Reads, Goto, socket
  <1>5. CASE Disconnects
    BY <1>0, <1>5, NumSocketsAssumption DEF Disconnects, Freed
  <1>6. CASE Again
    BY <1>0, <1>6 DEF Again, Goto, socket
  <1> QED
    BY <1>1, <1>2, <1>3, <1>4, <1>5, <1>6 DEF ClientStep

\* So every step keeps the invariant.
LEMMA ProvisioningStep == IInv /\ [Next]_vars => IInv'
  <1> SUFFICES ASSUME IInv, [Next]_vars PROVE IInv'
    OBVIOUS
  <1>1. CASE PowerFails \/ LongPress
    BY <1>1, BootsStep DEF PowerFails, LongPress, IInv, TypeOK
  <1>2. CASE UNCHANGED vars
    BY <1>2 DEF vars, world, wifi, client, socket, IInv, TypeOK, OneWay, SocketInv, BufferInv
  <1> QED
    BY <1>1, <1>2, WorldStep, StartStep, SmartStep, RequestStep DEF Next

LEMMA ProvisioningInv == Safe => []IInv
  BY ProvisioningInit, ProvisioningStep, PTL DEF Safe

\* Nothing but a station that failed, or a device without a network, brings
\* SmartConfig in; and what excuses it is forgotten only at a restart.
LEMMA PhoneStep == IInv /\ PhoneInv /\ [Next]_vars => PhoneInv'
  <1> SUFFICES ASSUME IInv, PhoneInv, [Next]_vars PROVE PhoneInv'
    OBVIOUS
  <1>0. (station = "failed" => excused) /\ (smart # "off" => excused)
    BY DEF PhoneInv
  <1>1. ASSUME NEW cfg \in {"none", "good", "bad"}, Boots(cfg) PROVE PhoneInv'
    <2>1. station' = "idle"
      BY <1>1 DEF Boots
    <2>2. smart' # "off" => cfg = "none"
      BY <1>1 DEF Boots
    <2>3. cfg # "good" => excused'
      BY <1>1, Zenon DEF Boots
    <2> QED
      BY <2>1, <2>2, <2>3 DEF PhoneInv
  <1>2. CASE PowerFails \/ LongPress
    BY <1>1, <1>2 DEF PowerFails, LongPress, IInv, TypeOK
  <1>3. CASE StationFails
    <2>1. excused'
      BY <1>3, Zenon DEF StationFails
    <2> QED
      BY <2>1 DEF PhoneInv
  <1>4. CASE CheckGivesUp
    <2>1. station = "failed"
      BY <1>4 DEF CheckGivesUp, Undecided, IInv, TypeOK
    <2>2. excused'
      BY <1>0, <1>4, <2>1, Zenon DEF CheckGivesUp
    <2> QED
      BY <2>2 DEF PhoneInv
  <1>5. ASSUME UNCHANGED excused, station' = "failed" => station = "failed",
               smart' # "off" => smart # "off"
        PROVE PhoneInv'
    BY <1>0, <1>5, Zenon DEF PhoneInv
  <1>6. CASE \/ WorldChanges \/ StationDials \/ StationConnects \/ CheckFindsIP \/ CheckAgain
             \/ ClientStep \/ UNCHANGED vars
    BY <1>5, <1>6 DEF WorldChanges, StationDials, StationConnects, StationMoves, CheckFindsIP,
           CheckAgain, ClientStep, Connects, ConnectFails, Writes, WriteFails, ReadsAnswer,
           ReadsLess, Reads, Disconnects, Again, vars, wifi
  <1>7. CASE \/ SmartconfigTask \/ SmartconfigTimeout \/ LinkOver
             \/ \E cfg \in {"good", "bad"} : SmartconfigLink(cfg)
    BY <1>5, <1>7 DEF SmartconfigTask, SmartconfigTimeout, LinkOver, SmartconfigLink
  <1> QED
    BY <1>2, <1>3, <1>4, <1>6, <1>7 DEF Next

\* Whether the timer or SmartConfig finds the network, one client task is created
\* between two restarts.
THEOREM OneClientHolds == Safe => []OneClient
  <1>1. IInv => OneClient
    BY DEF IInv, OneWay, OneClient
  <1> QED
    BY <1>1, ProvisioningInv, PTL

\* While SmartConfig is on, no timer is about to look at the station and no client
\* uses the network.
THEOREM SmartConfigAloneHolds == Safe => []SmartConfigAlone
  <1>1. IInv => SmartConfigAlone
    BY DEF IInv, OneWay, SmartConfigAlone
  <1> QED
    BY <1>1, ProvisioningInv, PTL

\* A device asks for a phone only if, since its start, it knew no network or the one
\* it knew was not to be had.
THEOREM NeedsNoPhoneHolds == Safe => []NeedsNoPhone
  <1>1. Init => PhoneInv
    <2> SUFFICES ASSUME Init PROVE PhoneInv
      OBVIOUS
    <2>1. station = "idle" /\ (smart # "off" => config = "none")
      BY DEF Init
    <2>2. config = "none" => excused
      BY Zenon DEF Init
    <2> QED
      BY <2>1, <2>2 DEF PhoneInv
  <1>2. PhoneInv => NeedsNoPhone
    BY DEF PhoneInv, NeedsNoPhone
  <1> QED
    BY <1>1, <1>2, PhoneStep, ProvisioningInv, PTL DEF Safe

\* However many attempts fail, and wherever, the request in buf is never taken for
\* its answer,
THEOREM OnlyAnswersHolds == Safe => []OnlyAnswers
  <1>1. IInv => OnlyAnswers
    BY DEF IInv, BufferInv, OnlyAnswers
  <1> QED
    BY <1>1, ProvisioningInv, PTL

\* and no descriptor is left behind.
THEOREM AttemptsLeaveNothing == Safe => [](TypeOK /\ NothingLeaks)
  <1>1. IInv => TypeOK /\ NothingLeaks
    BY DEF IInv, SocketInv, NothingLeaks
  <1> QED
    BY <1>1, ProvisioningInv, PTL
=============================================================================
