# The yunba device software in TLA+

The repository is Espressif's RTOS SDK for the ESP8266 with the yunba application in
`src/examples/yunba`: a smart plug (or a light, chosen at build time) that is
switched by its key and by MQTT messages. These modules model the application's own
logic. They are checked with TLC on small instances; what matters most is proved with
TLAPS for every value of the constants.

Paths below are relative to `src/examples/yunba` unless they begin with `src/`.

## 1. The system

### Components

| Component | State | Operations | What makes it correct |
|---|---|---|---|
| **MQTT client** `mqtt/MQTTClient.c`, `user/mqtt_client.c` | `isconnected`, `ping_outstanding`, `fail_conn_count`, `ping_timer`, `readbuf`, `mutex`, `MQTT_State`, `QueueMQTTClient` | the client task (connect, subscribe, set alias, publish what is queued), `MQTTRun` (read, answer, keep alive), `mqtt_lost_call` (reconnect once) | one task at a time in the shared buffers; a session is believed in only if there is one; no descriptor is lost; a lost connection is made good; nobody waits for ever; where overlapping handlers break one of these, it is known how |
| **Socket layer** `mqtt/MQTTFreeRTOS.c` | `my_socket` | `NetworkConnect`, `disconnect`, `FreeRTOS_read`, `FreeRTOS_write` | reads and writes concern the connection they were meant for |
| **lwIP socket table** `src/third_party/lwip/api/sockets.c` (vendored) | the descriptors | `socket`, `connect`, `close` | external: only what the client relies on |
| **Timers** `mqtt/MQTTFreeRTOS.c` over `src/third_party/freertos/tasks.c` | tick counter and wraps, `xTicksToWait`, `xTimeOut` | count down, is expired, time left | expiry on time, wherever the counter wraps and however often the timer is looked at |
| **Packet framing** `mqtt/MQTTClient.c`, `mqtt/MQTTPacket.c` | the bytes read or written so far | `readPacket`, `decodePacket`, `sendPacket` | the packets read are those sent; a packet is written once and whole |
| **Packet codec** `mqtt/MQTTPacket.c`, `MQTT*Client.c`, `MQTTSerialize*.c`, `MQTTDeserialize*.c` | `buf`, `readbuf` | serialise and parse each packet | what is sent is what was asked for, what is read is what was sent; the length computed is the length written, and it fits |
| **Server codec and formatting** | none | not called on the device | - |
| **Broker lookup and registration** `mqtt/MQTTClient.c:691-799`, `user/mqtt_client.c:160-181` | `buf`, the socket of the attempt | ask the ticket and registration servers, again until they answer | nothing but an answer is taken for one; attempts leave no descriptor behind; the client gets there |
| **Provisioning** `user/user_smartconfig.c`, `user/user_main.c` | Wi-Fi status, `client_timer` | wait for an address, or SmartConfig; then create the client task | one client task; SmartConfig runs alone, and only when the network is not to be had |
| **Plug** `user/user_plug.c` | `plug_param.status`, relay, sector in flash | set status, short press, long press, start | relay and status agree; the relay is off after a start unless it was saved as on |
| **Key driver** `driver/key.c` | `key_level`, two timers, interrupt type | interrupt handler, 50 ms and 5 s callbacks | one report per press, the right one; the key never goes dead, also when its callbacks run late |
| **Light** `user/user_light*.c` | ring of targets, current and target duties | set an aim, approach it step by step | the light ends at the target last asked for, without ever moving away from one; nothing behind the ring is read |
| **User parameters** `user/util.c` | four strings | allocate, load | - |
| **Drivers, vendored libraries, the rest** | | registers; FreeRTOS, lwIP, cJSON, spiffs, SSL; headers, tools, other examples | - |

### How they interact

`user_init` starts the plug, whose key enables its interrupt (or the light), then
provisioning: a timer looks at the station 6 s later and every 5 s from then on; when there
is no network to be had, SmartConfig waits for a phone. One of the two creates the client task (*Main*), which looks the broker up, connects, starts
`MQTTRun` (*Run*), subscribes and sets its alias. Run holds the mutex for up to 200 ms
of reading, then sleeps for 200 ms. A PUBLISH calls back `messageArrived` with the
mutex held; a plug command changes the plug and puts a report into `QueueMQTTClient`, one
for the light puts a target into the light's ring, which a timer empties too.
The key's interrupt arms timers; their callbacks, in the timer task, change the same
plug and fill the same queue. Main takes reports from the queue and publishes them,
which needs the mutex. When pings fail, keepalive creates a task that disconnects
(with the mutex), replaces the connection (without), and sends CONNECT (with). It leaves
`ping_timer` expired, so that the next cycle that fails starts another: handlers overlap.

### What is hard

* Main, Run and any number of handlers share one socket variable, which the mutex does
  not protect (`MQTTFreeRTOS.c:140-190`), and one `readbuf`, which it does.
* The light's ring, its index and its counter are changed by two tasks without a lock, in
  loads and stores; the index passes the end of the ring before it is wrapped.
* `cycle` returns packet types, return codes and granted QoS in one integer.
* The connection fails without a trace, with a reset, during lookup, in the middle of
  `connect()`; the broker refuses; the heap has no room for a handler.
* Callbacks that wait for room in a queue while they hold what its reader needs.
* Lengths computed apart from the bytes they stand for; parsers over a buffer that still
  holds the end of longer packets.
* Time limits that pass in the middle of a packet; a tick counter that wraps.
* Plug and key: interrupt, timer task and message task interleave; edges are lost;
  power fails between erase and write; a callback that works keeps the other timers from
  running; the device restarts with its key held.
* Partial writes: `sendPacket` repeats a write with a wrong length, under two time limits.
* Start-up: a timer, the SmartConfig library and the station take their steps in any order,
  and what they start exists once; requests whose errors nobody looks at, repeated for ever.

## 2. Modules

| Module | Models | Used by |
|---|---|---|
| `Network` | socket table, `NetworkConnect` in steps, the broker's end of each connection, the environment's failures | `MqttClient` |
| `MqttClient` | Main, Run and the handlers around one `MQTTClient` | `MqttClientSession` |
| `ClientSession` | abstract: what the client promises, without tasks, descriptors and packets | `MqttClientSession` |
| `MqttClientSession` | the refinement mapping from `MqttClient` to `ClientSession` | `MqttClientRaces`, `MCMqttClient` |
| `MqttClientRaces` | what handlers that overlap do to each other, and what holds until they do | `MCMqttClientRaces`, `MqttClientProofs` |
| `MqttTimer` | a timer and the tick counter | `SendPacket`, `SendPacketProofs` |
| `SendPacket` | `sendPacket` over `FreeRTOS_write`: two loops, two timers | `MCSendPacket`, `SendPacketProofs` |
| `MqttFraming` | `readPacket` and `decodePacket` on a stream of bytes | `MCMqttFraming`, `MqttFramingProofs` |
| `MqttCodec` | the bytes of each packet, written and read | `MCMqttCodec`, `MqttCodecProofs` |
| `KeyDriver` | one key, its interrupt and its timers | `SmartPlug`, `MCKeyDriver`, `KeyDriverProofs` |
| `PlugDevice` | the plug under commands, presses and power failures | `SmartPlug` |
| `SmartPlug` | key and plug together in one timer task | `MCSmartPlug`, `SmartPlugProofs` |
| `LightAdjust` | the light's ring of targets and the approach of its duties | `MCLightAdjust`, `LightAdjustProofs` |
| `Provisioning` | from power-on to the start of the MQTT client | `MCProvisioning`, `ProvisioningProofs` |

`Network` and `MqttClient` are composed by EXTENDS: a client step is a conjunction of
what it does to the client and what it does to the network. `SmartPlug` EXTENDS `PlugDevice`
and INSTANCEs `KeyDriver`, sharing `ShortPress` and the restarts; `SendPacket` EXTENDS
`MqttTimer` for the caller's timer and INSTANCEs it for the one in `FreeRTOS_write`, on one
tick counter. The other modules stand
for parts that `MqttClient` abstracts: there a timer has expired or not (`MqttTimer`
shows that this is what `TimerIsExpired` reports, never early, never late), a packet is
written whole or the write fails (`SendPacket`), it is
read whole (`MqttFraming` says when that is so) and means what was sent (`MqttCodec`), a
key press is a message that appears in the queue (`SmartPlug`). `Provisioning` ends where
`MqttClient` begins: its `stage = "mqtt"` is the `Init` of the other, with one Main
(`OneClient`).

Definitions called *Slip* next to a definition are variants with a plausible mistake.
No specification uses them: each breaks one property, which shows that the property
depends on the code being as it is.

### `Network` and `MqttClient`

`pc[t]` says where each task is; a label stands for the code up to the next point where
another task can make a difference: the mutex, a lwIP call, a read or a write of
`my_socket`. So `NetworkConnect` is four steps (`Resolve`, `AllocSocket`, `Dial`,
`DialDone`), and `cycle` is `ReadPacket`/`ReadNothing`, `AnswerPacket`, `Deliver`,
`Keepalive`. A *handler* is one of the spare members of `Tasks`, a slot of heap: when all
are in use, `xTaskCreate` fails and, as in the code, nobody notices. `waitfor` is the
same `cycle` run by the task in `MQTTConnect`, left when `rc = 2` or when
`connect_timer` has expired. `isconnected`, `ping_outstanding`, `fail_conn_count`, `rc`
and `readbuf` are the code's. The queue is only its length.

A packet is its type and one number (return code, granted QoS, QoS). The broker answers
a packet the moment it is written; that an answer takes time shows in when the client
reads it. A connection is `mute` when its peer is gone but TCP still takes data, `dead`
when every call fails.

### `ClientSession` and `MqttClientSession`

What remains of the client when tasks, descriptors, packets and the mutex are left out: one
connection, the session the broker holds on it, whether the client believes in that session,
and the reports that wait. The promises are in the guards. A connection is given up
(`GiveUpLink`) only when the client does not believe in it; CONNECT is sent (`AskSession`)
once, on a connection that is up; a spoilt session is never mended; a report in hand
is settled without spoiling a session. The mapping follows `my_socket` through the socket
table; a report is in hand from `xQueueReceive` until `MQTTPublish2` returns. It holds until
one of the two races of `MqttClientRaces` happens, with any number of handlers.

### `MqttClientRaces`

`MqttClient` with a memory (`Watched`: `Next` and `Watch`, which only sets history variables).
Handlers overlap whenever a cycle fails again before the first one is done, and between
`MQTTDisconnect` and `MQTTConnect` they hold no mutex. Three things go wrong there, and each
has a variable that says that it has happened:

* `raced`: one task's `socket()` came between another's `close()` and `socket()`
  (`MQTTFreeRTOS.c:175-182`). The second of the two overwrites the descriptor of the first.
* `crossed`: `isconnected` was set, by a CONNACK or by `MQTTConnect`, while a task was replacing
  the connection. On the new one the flag stands for nothing.
* `overtaken`: the handlers that waited in `MQTTDisconnect` for the mutex while somebody else
  sent CONNECT.

The properties say that nothing else goes wrong, with any number of handlers:
`NoSocketLeak` until `raced`, `FlagNotStale` until `crossed`, `ImplementsSession` until either,
and `NoSelfInflictedLoss` for every handler that is not `overtaken`.

### `MqttTimer`

One timer. `age` and `since` are history variables: the true time since it was started
and since its time was recorded. The tick counter starts anywhere and wraps.

### `SendPacket`

`LoopTest`, `ArgumentLeft`, `WriteEnters`, `Sends`, `WriteAgain`: the loop of `sendPacket`
around the loop of `FreeRTOS_write`, with time passing between any two. lwIP takes any part of
what it is given, or fails. `mqttwrite` is always called with the whole length, beginning at
what is left of the packet; if it were called twice, bytes beyond the packet would go out.
`wire` counts what went out. Milliseconds and ticks are converted as in the code, with
integer division.

### `MqttFraming`

`stage` is which of the three reads is under way. Bytes are numbers below `2 * Base`; a
byte of `Base` or more carries the mark "more digits follow". `Base` is 128 in the code
and 2 in the runs, so that short packets need all four digits. The body is kept only in
history, and only until something has gone wrong on the connection. `Weight` is the
multiplier of `decodePacket`, digit by digit.

### `MqttCodec`

Pure functions, with the two buffers around them as state. A serialiser is three
operators, as in the code: the length computed beforehand (`ConnectLength`,
`PublishLength`, ...), what is written (`ConnectBody`, ...), and the comparison with the
buffer (`TooShort`, over `MQTTPacket_len`). `Sends` is any request at any time; the guard
on `isconnected` and the ways a write fails are `MqttClient`'s. `Receives` is a packet that
`readPacket` has read whole: it goes over the front of `readbuf` and leaves the tail, then
`Learns` is what `cycle` passes on and `Answers` what it sends. An 8-byte identifier is
four words, so that TLC's 32-bit integers suffice. The broker's end is external, a second
statement of the formats: those of MQTT 3.1, with the 8-byte identifiers and the extended
commands that the code expects. It reads a packet by position (`BrokerReads` over
`ReadsConnect`, `ReadsPublish`, `ReadsExtended`: a string is at `StringAt`, the next one
begins `After` it) and accepts it only if the last piece ends where the packet does; what it
sends is `FirstByte` and `Rest`, what that is to tell `Means`, and how it is to be answered
`Due`.
`MQTTPublish2` takes any number of options; the model takes at most one. It puts topic,
message and options together in `pub_buf`, 256 bytes which it compares with nothing
(`MQTTClient.c:927-962`), and only then hands them to the serialiser, which does look at its
buffer. That they fit into `pub_buf` is therefore an assumption about the requests,
`Publish2Assumption`, and not something that is shown.

### `KeyDriver`

Time is in ticks of 50 ms. The contact may move several times within a tick (a bounce)
and then rests for at least `Settled` ticks; with `Glitches` it may also end where it
began. The handler runs between any two steps of the callback of `key_50ms`, which reads
the pin in one step and enables the interrupt in the next. The functions called on
short and long presses are left out, so the driver goes on after a long press; in the
plug the system restarts.

### `PlugDevice`

`user_plug_set_status` is four steps (compare, store, output, report), a press adds erase
and write. The two actors are the task in `messageArrived` (the mutex admits one) and
the timer task. They have the same priority and the scheduler is preemptive
(`FreeRTOSConfig.h:80,105`). `Restart` is a power failure or a long press at any time, then
`user_plug_init`.

### `SmartPlug`

In the code the key's callbacks call the plug's functions. Both run in the timer task, so
no callback runs (`TimerTaskFree`) while a press is carried out: a timer that falls due
waits (`Late`), while edges go on to interrupt and commands go on to arrive. `MaxBusy` bounds
how long: 100 ms for room in the queue and the time flash takes. A long press restarts the
device, with the key still held; so does a power failure at any time. `before` remembers
what the relay was when a press began, or why the press does not count: something overlapped
it (`Lost`), or the contact moved between the callback's look at the pin and its enabling of
the interrupt (`Missed`), a window in which the driver takes an up key for down or the
reverse until the next press is over.

### `LightAdjust`

The calling task and the timer task have equal priority and no lock, so a label stands
before each access to what they share: a variable that is read, changed and written is loaded at
one label and stored at the next (`LoadIndex`, `StoreIndex`; `Free`, `Freed`; `Eighth`,
`Move`), and each loop or copy over the channels is a label per channel (`Fill`, `Copy`,
`SetDuty`, `Equals`). `CurEvtIdxToBeUse` is incremented first and wrapped afterwards (`StoreIndex`,
`Wrap`, `Zero`), as in `user_light_adj.c:170-173`: in between it is past the ring, where a target
is whatever lies there (`Behind`). Index and counter are bytes. A comparison of two
duties is one step, and so is `ABS_MINUS`.

`duty_now` are the duties as computed, `pwm_duty` those last set. A target is a duty per channel.
The period and the current limit scale it before it is stored and are left out, with the
setting of the hardware; targets are taken to be duties the PWM accepts, so that
`user_light_get_duty` returns what was set, and the arithmetic (`EighthOf`) is on naturals, for
it needs far less than 32 bits. `user_light_init` sets the first duties directly; the model
begins behind that, and the first target it asks for is an ordinary one.

`clean` says that at most one of the two was ever at work; `clash`, that both were taking a target
(from `Take` to `Zero`) at a time.

### `Provisioning`

Five actors: the timer of `check_wifi_conn`, SmartConfig (its task and the callbacks of its
library), the station, the client task in `yunba_get_mqtt_broker`, and the world (router,
servers, power, a person who presses the key or has a phone). The configuration in flash is
absent, good, or that of a network that is not there. Each request is a few steps, each of
which may fail: `NetworkConnect` (whose result is ignored, so that writing may meet descriptor
0 or a closed one), writing, reading (whose result is ignored, so that `buf` may hold zeros or
part of an answer), the check of what was read, `disconnect`. The station and SmartConfig
libraries are external; `SC_STATUS_LINK_OVER` comes when the station has its address.

## 3. Runs

| Run | Instance | Shows |
|---|---|---|
| `handlers_overlap` | 4 tasks, 2 handler slots | `FlagNotStale`, `NoSocketLeak`, `NoSelfInflictedLoss`, `ImplementsSession`: what the client keeps while handlers overlap, until the race that breaks it; `MutualExclusion`, `RefusalNeverConnects`. All are proved as well |
| `client_live` | 3 tasks | `MutexReleased`, `HandlersEnd`, `BootCompletes`, `ReportsAreSettled` |
| `client_recovers` | 3 tasks, 1 handler slot, failures end | `Recovers`; `ConnectedHasSession`: reconnecting is sound when handlers do not overlap |
| `send` | counter of 31 ticks, 2 wraps, timeouts of 1, 2 and 3 ticks, packets of 2 bytes | expiry exactly on time; the time left is never 0; each packet is written once |
| `framing` | base 2, packets of length 0, 1 and 9, 3 per connection, any number of connections and of reads cut off | packets are intact on a connection without a cut, whatever happened before |
| `codec` | `BufSize` 200, 36 requests, 28 packets from the broker, 2 read | `SentIsAsked`, `LearntIsMeant`, `FitsOrRefused` for every packet type |
| `key_bounces` | 5 s are 20 ticks | one report per press, long exactly when held; the key never goes dead |
| `smart_plug` | 5 s are 4 ticks, queue of 1, callbacks up to 3 ticks late | `TurnsOnce`, `KeyAlive`, `SafeBoot`, `LonePressHeals` from the contact to the relay |
| `light` | ring of 2, bytes modulo 4, two channels, 3 targets, 3 calls | `AimReached`, `ApproachesOnly`, `ChangesEnd` for calls at any moment between two callbacks; `ReadsInRing`, for calls and callbacks that overlap, until they take targets at the same time |
| `provisioning` | 2 descriptors | `OneClient`, `SmartConfigAlone`, `NeedsNoPhone`, `OnlyAnswers`, `NothingLeaks`, `ComesOnline` |

Each of the following refutes what a comment or an assertion in the repository says;
section 5 has the stories.

| Run | Refuted |
|---|---|
| `stale_connected` | `MQTTClient.c:464` CONNECT is skipped only if already connected |
| `held_through_reset` | `key.c:118` a short press is one of less than 5 s |

### Bounds

* *Tasks*: one or two handler slots. With one, a handler runs alone; with two, every way
  in which handlers overlap pairwise occurs, the three races among them. The proofs are for
  any number of slots. `ConnectedHasSession` and the liveness properties are checked with one.
* *NumSockets* (1 or 2): as many as the tasks can hold at a time, and one to leak.
* `handlers_overlap` has one failure, no pushed messages and an inbox of one: each handler can
  be started by the same broken connection, and a larger instance does not end within minutes.
  What these bounds leave out is a matter of the proofs.
* *MaxFaults* (1 or 2): failures of the environment per behaviour: a failure, and another
  one during the reconnection. Consequences of a failure (TCP giving up, the broker
  dropping a client in breach) are not counted.
* *InboxMax* 1: one answer under way. *CountMod* 5 instead of 256: the counter
  passes the threshold of 3 and wraps. *QueueLen* 1 instead of 5: full is reached.
* *TickMod* 31, *OverflowMod* 2: a timeout spans the wrap at every offset, and the count
  of wraps wraps itself. A timer is not left alone for longer than the counter's period
  (497 days); the client looks at its timers many times a second.
* *MaxSent* 3 per connection: a packet before, during and after a cut.
* *BufSize* 200, as in `mqtt_client.c:186-200`: requests and packets are chosen on both sides
  of each threshold (one and two digits, just fits, one too long). *MaxReceived* 2: a packet
  over the end of a longer one.
* *LongTicks* 20, *Settled* 2 (no two presses closer than 100 ms). `KeyNeverDead` is proved
  for a contact that does anything at any time.
* `SmartPlug`: *LongTicks* 4, so that a long press fits in one busy callback; *MaxBusy* 3, more
  than the two ticks in which a press and its bounce can fall due together, 0 in
  `held_through_reset`, which needs no delay. *QueueLen* 1: the first report fills the queue.
* `LightAdjust`: *QNum* 2 instead of 40, *ByteMod* 4 instead of 256 (both limits are reached),
  *MaxAims* 3: one more than the ring holds. The targets are less than a step (21), a few steps
  (24) and many steps (90) from 0. The constraint `Explored` keeps to the states the properties
  speak of (`~clash`), and follows overlaps only with one target (24, which takes two steps and
  so arms the timer): the counter, the index and the flags are what overlaps can spoil.
* *Length* 2: a write can be whole, partial or nothing. The number of bytes is otherwise a
  matter of the proof.
* `Provisioning` needs no bound but *NumSockets* 2: its states are finite.

Deadlock is checked in every run but `light`, where the bound on the calls lets everything
come to rest.

### Fairness

`MqttClient`, `LightAdjust` and `Provisioning` have liveness properties.

*The client.* Weak fairness of a task's steps: FreeRTOS
shares the processor among tasks of equal priority, and every wait in the code has a
limit except that for the mutex. Strong fairness for taking the mutex: its owner sleeps
(`vTaskDelay`) after giving it back, and `xSemaphoreTake` serves those who wait. Strong
fairness of `ReadPacket`: data that is there is read, even if reads time out in between.
Timers expire; TCP gives up; a broker closes a connection in breach of the protocol.
There is no fairness for links failing, for answers being accepting, or for key presses.
`Recovers` has an exception in its formula: after a handler's `NetworkConnect` and before
its CONNECT, Run may ping on the new connection, which the broker takes for a breach. If
that happened for ever the client would never have a session; nothing in the code
excludes it, although the window is short.

*The light.* Both tasks run and an armed timer fires. `ChangesEnd` is about behaviours in
which calls and callbacks never overlap; overlaps can wrap the counter and make the ring's
old targets play again.

*Start-up.* Weak fairness of the timer, the tasks and the library. Strong fairness of what can
fail and is tried again and again (dialling the network, opening a connection, writing a
request, reading an answer): an attempt at something possible does not fail every time. Two
assumptions are about the environment. The timer does not always find a station that failed
connecting again (`SF` of `CheckGivesUp`): were it so, the code would wait for ever. And
somebody has a phone that knows the network (`SF` of `SmartconfigLink("good")`): a device whose
network is gone waits for that, by design. `ComesOnline` then excepts the behaviours where
router or servers go away for ever or the device is restarted for ever.

## 4. Proofs

| Theorem | Module | Property |
|---|---|---|
| `TypeCorrect` | `MqttClientProofs` | `TypeOK` |
| `MutualExclusionHolds` | `MqttClientProofs` | `MutualExclusion` |
| `RefusalNeverConnectsHolds` | `MqttClientProofs` | `RefusalNeverConnects` |
| `NoSocketLeakHolds`, `FlagNotStaleHolds`, `NoSelfInflictedLossHolds` | `MqttClientProofs` | the same names without `Holds`, of `MqttClientRaces`: any number of handlers, until the race each names |
| `ImplementsSessionHolds` | `MqttClientProofs` | `ImplementsSession`, likewise |
| `ExpiresOnTimeHolds`, `LeftNeverZeroHolds` | `SendPacketProofs` | the same names without `Holds`, of `MqttTimer` |
| `SendTypeCorrect`, `WrittenOnceHolds`, `SendKeepsTime` | `SendPacketProofs` | `SendTypeOK`, `WrittenOnce`, `ExpiresOnTime` and `LeftNeverZero` |
| `TypeCorrect`, `PacketsIntactHolds` | `MqttFramingProofs` | `TypeOK`, `PacketsIntact` |
| `FitsOrRefusedHolds` | `MqttCodecProofs` | `FitsOrRefused`, for requests whose parts fit into `pub_buf` |
| `SentIsAskedHolds`, `LearntIsMeantHolds` | `MqttCodecProofs` | the same names without `Holds`, for buffers of less than 64 KB and of no more than a length can say |
| `TypeCorrect`, `KeyNeverDeadHolds`, `PressesReportedHolds` | `KeyDriverProofs` | `TypeOK`, `KeyNeverDead`, `PressesReported` |
| `RealPushHolds`, `LongPressHeldHolds`, `LongPressComesHolds` | `KeyDriverProofs` | the same names without `Holds`, for a clean contact |
| `SafeBootHolds`, `LonePressHealsHolds` | `SmartPlugProofs` | `SafeBoot`, `LonePressHeals` of `PlugDevice` |
| `SmartImplementsPlug`, `SmartPlugKeepsPromises` | `SmartPlugProofs` | `SmartSpec => Spec` of `PlugDevice`, so both hold for the plug with its key |
| `KeyAliveHolds`, `SmartPlugTypeCorrect` | `SmartPlugProofs` | `KeyAlive`, `SmartTypeOK` |
| `TurnsOnceHolds` | `SmartPlugProofs` | `TurnsOnce`, for a clean contact |
| `ReadsInRingHolds`, `AimReachedHolds`, `ApproachesOnlyHolds` | `LightAdjustProofs` | the same names without `Holds`: `ReadsInRing` until two targets are taken at a time, the others without overlaps |
| `OneClientHolds`, `SmartConfigAloneHolds`, `NeedsNoPhoneHolds`, `OnlyAnswersHolds` | `ProvisioningProofs` | the same names without `Holds` |
| `AttemptsLeaveNothing` | `ProvisioningProofs` | `TypeOK` and `NothingLeaks` |

Where a module states fairness, its theorems are about `Safe`, the specification without it.
`Watched` of `MqttClientRaces` is `Safe` with history variables. They assume only the named
assumptions on the constants; none limits the number of handlers. Of the assumptions one is
about the program's callers rather than about sizes: `Publish2Assumption`, that the parts of an
`MQTTPublish2` fit into its 256 bytes, which the code does not look at. Further hypotheses,
each of which the theorem needs:

* *A clean contact* (`Clean`): it rests for two ticks between movements and no glitch ends where
  it began. With glitches, or a contact that rests for one tick only, a report need not answer a
  press, and the 5 s timer of one press can run on into another (section 5).
* *`BufSize \in Word16`* for `SentIsAsked`: the command of `MQTTPublish2` has its length in two
  bytes, beyond which it would be cut off. *`BufSize <= MaxLength`* for `LearntIsMeant`: four
  digits end at 268435455. The buffers of the client are 200 bytes.

The arguments:

* **Client.** `MutualExclusion` is inductive by itself once `TypeOK` is: each step moves
  one task over the border of `Guarded` exactly when it takes or gives the mutex.
  `RefusalNeverConnects` is an action property. `ReadPacket` raises the flag with the
  CONNACK in hand, but `ConnectExit` raises it because of `rc`, which was computed from
  `readbuf` some steps earlier. The invariant needed is `ExitAccepted`: at the exit of
  `MQTTConnect`, `rc = SUCCESS` only with an accepting CONNACK in `readbuf`. It is kept by
  the steps of all other tasks only because none of them can be inside `cycle` at that
  time: mutual exclusion. So `IInv` is `TypeOK /\ MutualExclusion /\ ExitAccepted`.
* **Handlers that overlap.** `my_socket` has no lock. `DialInv` says that each `connect()` under way
  is on a half open descriptor of its own. `SocketInv` is about what is left until `raced`: at
  most the descriptor in `my_socket` is allocated, and none where a task is about to call
  `socket()`; it needs no bound on the tasks, since the one step that would break it sets
  `raced`. `FlagInv` is about `isconnected` until `crossed`: it is down while anybody replaces the
  connection, an inbox is filled only where a CONNECT was sent, and what was accepted has
  raised the flag; that gives `FlagNotStale`. `LinkInv` is all this together. The simulation of
  `ClientSession` needs three facts more (`SessionInv`): a descriptor that is not connected has no
  session, CONNECT is sent with the flag down, and Main takes reports only after start-up.
  Each action then maps to one of `ClientSession` or a stutter. For `NoSelfInflictedLoss`,
  `LossInv`: while a handler waits to disconnect and was not overtaken, no connection has a
  session; only a CONNECT can give one, and its sender holds the mutex the handler waits for.
* **Timers.** `SinceInv` says where the tick counter is, relative to the recorded time:
  `since` ticks on, in the same round or in the next. `LeftInv` says that what is left
  plus what passed before the last record is what was asked for. Unsigned subtraction
  then gives the true time in both rounds, and the test for "wrapped and gone past" is
  true in just one state, a full round later. `LeftInv` also bounds what is left, so that
  a timer never looks like one that waits for ever.
* **Framing.** Of the counts of the reader, whatever happens (`Regular`): what was decoded has no
  more digits than were read, and more of the rest is due than was read. Where no read was
  cut off, `CleanInv`: the stream is what is left of the packets after those received (`Cuts`:
  where each begins, and byte by byte what it is), the first of them lacks as many bytes as
  the reader has `Taken`, and the reader holds what these bytes say (`InPacket`: `rem_len` is the
  length modulo the weight of the next digit). A byte taken shifts all positions by one; a
  digit more is one division more (`OneDigitMore`), and the digit without the mark is the last
  one of the length (`DigitIsByte`). A new connection is an empty stream. `Base` is any number
  above 1.
* **Codec.** For each packet type a lemma says that the length computed is the length of
  what is written (`Len(ConnectBody(p)) = ConnectLength(p)`, ...), for strings and payloads
  of any size; `MQTTPacket_len` is the length with its digits or one more. So whatever is
  accepted fits, for any size of buffer from 10 on (`MQTTSerialize_ack` compares with 4 and
  writes 10), and what is refused would have filled the buffer. For the meaning, `Has` says
  that a piece is at a position: a packet is its pieces one behind the other, and each piece
  is read back from its position. The remaining length is read back digit by digit, in both
  directions. What is behind a packet in `readbuf` is never looked at, since every reader
  stays before the end that the length gives.
* **Sending.** `WrittenOnce` is `CountInv`: while `FreeRTOS_write` runs, nothing was sent before.
  That needs `LimitInv`: the limit handed on is what was left, rounded to ticks and back
  without loss (`TicksOf`), so that when `FreeRTOS_write` returns early its caller's timer
  has expired as well and the outer loop ends. Both timers keep the invariant of `MqttTimer`:
  the caller's because each step is one of `MqttTimer` to it, `FreeRTOS_write`'s by the same
  lemmas about the INSTANCE `Write`.
* **Key.** `KeyNeverDead` is inductive by itself. `Debounced` ties the level the driver believes in
  to the contact: they differ only while an edge is pending or `key_50ms` is about to look, so
  that whatever bounces, a press that lasts is seen and is reported at its release. For a clean
  contact `Timed` adds that the 5 s timer and the history of the contact count the same
  ticks from the same edge.
* **Key and plug.** `KeyAlive` is kept by three kinds of steps: those of the driver, by the
  lemmas of `KeyDriverProofs`; restarts, which enable the interrupt; ticks while the timer task
  is busy, which must not let a due timer lapse. Each step of `SmartPlug` maps to one of
  `PlugDevice` or a stutter, so what is proved of that carries over. `TurnsOnce` needs what
  handler and callback keep of each other when callbacks run late (`DriverInv`), when a key
  that is down may be taken for up (`SeenInv`), and where a press that counts is
  (`CountInv`): on its way to the report with the relay as before, or reported and at one of
  the labels of `user_plug_set_status`.
* **Plug.** `FlashInv`: what is in flash was saved last. `LoneInv` follows an undisturbed
  press through its labels: which of value, status, relay and report agree at each. A
  command that starts meanwhile makes the press not alone, and so keeps the invariant.

* **Light.** `RingInv` is about behaviours whatever overlaps, until both actors take a target at the
  same time: the index is past the ring only while one of them is about to wrap it, and then
  the other is not about to read it, so what was loaded is within the ring. `AimReached`
  and `ApproachesOnly` are about behaviours without overlaps: `CleanInv` says what holds at each
  label of the one actor that is at work: the ring is empty or holds just the target last
  asked for, which channels a loop has passed, and that what is about to be stored lies
  between the duty and the target: an eighth of the way, rounded down, or all of it.
* **Start-up.** `OneWay`: a timer that is armed, SmartConfig, and a client exclude each other.
  `SocketInv`: a descriptor is in use exactly between `NetworkConnect` and `disconnect`.
  `BufferInv`: while an answer is read, `buf` no longer holds the request. `PhoneInv`: the station
  fails, and SmartConfig starts, only where there was no network to join.

Only model-checked: liveness under fairness (`MutexReleased`, `HandlersEnd`, `BootCompletes`,
`ReportsAreSettled`, `Recovers`, `ChangesEnd`, `ComesOnline`), which is out of the prover's
reach, and `ConnectedHasSession` with one handler slot, of which `FlagNotStale` is the statement
for any number. Every other property of the runs is proved. The two refutations of
section 3 are counterexamples, which TLC finds.

## 5. What the refutations show

* `stale_connected`: a failing keepalive starts a handler and leaves `ping_timer` expired
  (`MQTTClient.c:233`), so the next cycle starts another. The second handler's
  `MQTTDisconnect` comes before the first one's CONNACK; it then replaces the socket,
  finds `isconnected` set and sends no CONNECT.
* `held_through_reset`: a long press restarts the device with the key still down. `key_init`
  takes every key for up, so that a bounce at the release is a new press to it, and 50 ms
  later the device reports a short press: the relay turns and the new status is saved,
  right after the restart that was to reset the plug.

Seen while modelling, without a run of their own: a read whose time limit passes within a
packet leaves the client reading headers in the middle of packets (`ReadFails` in
`MqttFraming`; `PacketsIntact` shows that the damage ends with the connection); a timer
that has expired reports the remainder of the check before (`TicksLeft`), so a read begun
on it waits once more, and since the remainder is never 0 the read ends; `MQTTSubscribe`
returns without SUBACK, for which the wait is disabled with `#if 0`; a glitch of the contact is reported as a press;
`deviceid`, by which `put_message` tells that the client runs, is allocated before the
queue is created (`ReportCrashes` in `PlugDevice`); a first `NetworkConnect` that fails is
not repeated, although `MQTTClient.h:162` has the network connected before `MQTTConnect`;
`MQTTPacket_len` is one too many for the remaining lengths 127, 16383, 2097150 and 2097151,
which can refuse a packet that just fits and never accepts one that does not; `MQTTSetAlias` leaves `retained` uninitialised; a
PUBLISH of QoS 0 is not delivered. Further: handlers that overlap can forget a descriptor
once one has reopened what another had closed (`raced`), and can end a session that was asked
for while they waited for the mutex (`overtaken`); after a reconnection nobody subscribes again,
although sessions are clean; `ping_outstanding` is never consulted; a report whose
publish fails is lost; QoS 2 duplicates are delivered again; a status set by a command is
not saved; `user_parm_free` frees what is NULL and keeps what is not.

Of plug and key: status and relay are set in two steps without a lock, in two tasks, so a
press between store and output of a command leaves the relay opposite to the status;
repeating the command changes nothing, since it is compared with the status, but a press
puts it right (`LonePressHeals`). Only the second edge is debounced: after a glitch whose
second edge is missed the 5 s timer runs on, and a later short press that is under way when
it fires counts as a long one, which erases the configuration (`LongPressHeld` excludes
glitches). A release that falls between the callback's look at the pin and its enabling
of the interrupt is not seen until the key moves again.

Of the light: a callback of the timer finds the duties equal to the target and is about to set
`change_finish` (`user_light_adj.c:134-142`). A call of `light_set_aim` comes in between, takes its
target out of the ring, and since `change_finish` is still 0 (line 176), leaves it to the timer.
The callback sets the flag, disarms the timer and finds the ring empty: the light rests at the
old target until it is asked for another. TLC finds this when `clean` is dropped from
`AimReached`. Also, when a call and a callback overlap, the counter
can lose an update: a target may then stay in the ring until the next call, or old ones be
played again. When both take a target at the same time, both can read the index between its
increment and its wrap, and a target is read from behind the ring (`ReadsInRing` says that it
takes no less).

Of start-up: a router that comes back later than 6 s after the device, as after a power cut,
is reported as not found, and the device listens for a phone, not for the router, until it
is restarted (`NeedsNoPhone` says that this happens only to a network that was not to be had); the
result of `xTaskCreate` is not looked at, so a device without room for the client's stack
stays offline.

## 6. Not modelled

* `MQTTUnsubscribe` and `MQTTYield`: no task calls them; `MqttCodec` has the packet of the
  first. `MQTTPublish2`, `MQTTSetAlias` and `MQTTSubscribe` are the commands of Main.
* What messages say, beyond the bytes they are; parsing of JSON.
* An `MQTTPublish2` whose parts exceed its 256 bytes, an alias or a topic that exceeds the 100 of
  `MQTTSetAlias` and its like (`MQTTClient.c:804`, where a comment asks for the size): nothing
  compares them, and what follows is undefined. Requests are taken to fit.
* Packets longer than `readbuf`, which `readPacket` does not look for (`MQTTClient.c:140`): the
  broker's packets are taken to fit.
* Closing a socket while another task is blocked in `recv()` on it: lwIP does not define
  it; a read is one step in `MqttClient`.
* Creation of Run is assumed to succeed; so are allocations at start-up.
* Wear or partial writes of flash: a sector is erased, or holds what was written.
* One key: the plug has one. `os_timer` callbacks run within the tick they are due in.
* Heap: `malloc` and `xTaskCreate` are taken to succeed at start-up.
* Server answers that are JSON but lack an entry the code takes for granted, and ticket
  addresses without the `tcp://` that `get_ip_pair` looks for: the servers are taken to
  be yunba's.
* `user/util.c`: constants copied once. `light_set_aim_*` and `user_light_get_*`: called by
  nothing that runs.
* Drivers, vendored code, server side codec: no logic of the application. FreeRTOS, lwIP
  and the Wi-Fi libraries are modelled as far as the application relies on them and are
  marked external, or, for the lines of `tasks.c` and `sockets.c` that decide something
  (time limits, descriptors), translated. The bulk of the repository's implementation lines
  are the vendor's headers, its libraries and the other vendor examples; the modules cover
  most of the application's own lines that decide anything.

## 7. Plan

Done: `Network`, `MqttClient`, `MqttTimer`, `MqttFraming`, `MqttCodec`, `KeyDriver`,
`PlugDevice`; then `ClientSession` and its refinement, `MqttClientRaces`, `SendPacket`,
`SmartPlug`, `LightAdjust`, `Provisioning`, with the proofs of section 4.

Left:

1. Simulations between the modules of the connection: that a packet which `MqttCodec` sends and
   `MqttFraming` reads is the one step it is in `MqttClient`.
2. The safety half of `Recovers` and `ComesOnline`: from which states the goal can be reached.
3. The vendor's other examples, none of which is part of the yunba application.
