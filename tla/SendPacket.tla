----------------------------- MODULE SendPacket -----------------------------
(***************************************************************************)
(* sendPacket of mqtt/MQTTClient.c over FreeRTOS_write of                  *)
(* mqtt/MQTTFreeRTOS.c: two loops with a time limit each.  The caller's    *)
(* Timer is the timer of MqttTimer; FreeRTOS_write has a limit of its own, *)
(* what TimerLeftMS said when it was called, checked by the same           *)
(* xTaskCheckForTimeOut against the same tick counter.                     *)
(*                                                                         *)
(* After a partial write sendPacket calls mqttwrite for `length' bytes     *)
(* again, beginning at &buf[sent]: sent bytes too many.                    *)
(***************************************************************************)
EXTENDS MqttTimer

CONSTANT Length    \* length of the packet

ASSUME LengthAssumption == Length \in Nat \ {0}

VARIABLES
    wTicksToWait, wTimeOnEntering, wOverflowCount,   \* FreeRTOS_write's limit
    wRunning, wAsked, wAge, wSince,
    pc,         \* where sendPacket is
    ms,         \* the limit handed to mqttwrite
    sent,       \* sendPacket's count
    sentLen,    \* FreeRTOS_write's count
    wire        \* history: bytes of this call that lwIP took

Write == INSTANCE MqttTimer WITH
    xTicksToWait <- wTicksToWait, xTimeOnEntering <- wTimeOnEntering,
    xOverflowCount <- wOverflowCount, running <- wRunning,
    asked <- wAsked, age <- wAge, since <- wSince

limit    == <<wTicksToWait, wTimeOnEntering, wOverflowCount, wRunning, wAsked, wAge, wSince>>
outer    == <<timer, running, asked, age, since>>
counts   == <<ms, sent, sentLen, wire>>
sendVars == <<vars, limit, pc, counts>>

SendTypeOK ==
    /\ TypeOK /\ Write!TypeOK
    /\ pc \in {"idle", "test", "left", "enter", "send", "again", "sent", "failed"}
    /\ ms \in 0 .. TickMod - 1
    /\ sent \in 0 .. 2 * Length
    /\ sentLen \in 0 .. Length
    /\ wire \in 0 .. 2 * Length

SendInit ==
    /\ Init
    /\ wTicksToWait = 0 /\ wTimeOnEntering = 0 /\ wOverflowCount = 0
    /\ wRunning = FALSE
    /\ wAsked = 0 /\ wAge = 0 /\ wSince = 0
    /\ pc = "idle" /\ ms = 0
    /\ sent = 0 /\ sentLen = 0 /\ wire = 0

Goto(from, to) == pc = from /\ pc' = to

\* Time passes for whichever of the two limits is running.
BothTick ==
    /\ Tick
    /\ IF wRunning THEN Write!Tick ELSE UNCHANGED limit
    /\ UNCHANGED <<pc, counts>>

\* Between two calls of sendPacket the timer is put to other uses.
OtherUses ==
    /\ pc \in {"idle", "sent", "failed"}
    /\ (\E w \in Waits : TimerCountdownMS(w)) \/ TimerIsExpired \/ TimerLeftMS
    /\ UNCHANGED <<limit, pc, counts>>

SendPacketStarts ==
    /\ pc \in {"idle", "sent", "failed"} /\ running
    /\ pc' = "test"
    /\ sent' = 0 /\ wire' = 0
    /\ UNCHANGED <<vars, limit, ms, sentLen>>

----------------------------------------------------------------------------
\* while (sent < length && TimerIsExpired(timer) == pdFALSE)
LoopTest ==
    /\ pc = "test"
    /\ IF sent < Length
       THEN /\ TimerIsExpired
            /\ pc' = IF TimedOut THEN "failed" ELSE "left"
       ELSE /\ pc' = IF sent = Length THEN "sent" ELSE "failed"
            /\ UNCHANGED vars
    /\ UNCHANGED <<limit, counts>>

\* TimerLeftMS(timer), the last argument of mqttwrite.
ArgumentLeft ==
    /\ Goto("left", "enter")
    /\ TimerLeftMS
    /\ ms' = LeftMS
    /\ UNCHANGED <<limit, sent, sentLen, wire>>

\* Slip: a tick is taken to last twice as long.
TicksOfHalf(m) == m \div (2 * TickMs)

TicksOf(m) == m \div TickMs

\* FreeRTOS_write: its own limit starts.
WriteEnters ==
    /\ Goto("enter", "send")
    /\ wTicksToWait' = TicksOf(ms)
    /\ wAsked' = TicksOf(ms)
    /\ wAge' = 0
    /\ wRunning' = TRUE
    /\ Write!SetTimeOutState
    /\ ms' = 0
    /\ UNCHANGED <<clock, outer, sent, sentLen, wire>>

\* FreeRTOS_write returns n, and its locals are gone.
Returns(n, to) ==
    /\ pc' = to
    /\ sent' = sent + n
    /\ sentLen' = 0
    /\ wTicksToWait' = 0 /\ wTimeOnEntering' = 0 /\ wOverflowCount' = 0
    /\ wRunning' = FALSE
    /\ wAsked' = 0 /\ wAge' = 0 /\ wSince' = 0
    /\ UNCHANGED <<clock, outer, ms, wire>>

\* FreeRTOS_send(n->my_socket, buffer + sentLen, len - sentLen, 0)
Sends ==
    \/ \E rc \in 0 .. Length - sentLen :
         /\ Goto("send", "again")
         /\ sentLen' = sentLen + rc
         /\ wire' = wire + rc
         /\ UNCHANGED <<vars, limit, ms, sent>>
    \/ pc = "send" /\ Returns(0, "failed")

\* while (sentLen < len && xTaskCheckForTimeOut(...) == pdFALSE); sendPacket adds
\* the result to sent.
WriteAgain ==
    \/ /\ sentLen < Length /\ ~Write!TimedOut
       /\ Goto("again", "send")
       /\ Write!CheckForTimeOut
       /\ UNCHANGED <<outer, counts>>
    \/ /\ sentLen = Length \/ Write!TimedOut
       /\ pc = "again"
       /\ Returns(sentLen, "test")

SendNext ==
    \/ BothTick \/ OtherUses \/ SendPacketStarts
    \/ LoopTest \/ ArgumentLeft \/ WriteEnters \/ Sends \/ WriteAgain

SendSpec == SendInit /\ [][SendNext]_sendVars
----------------------------------------------------------------------------
\* The wrong length is harmless: mqttwrite is called once at most, because it returns
\* with a part of the packet only when its limit has passed, and then the caller's
\* has.  So a packet reported as sent went out once and whole, and what went out of
\* any other is its beginning.
WrittenOnce ==
    /\ wire <= Length
    /\ pc = "sent" => wire = Length

(* The inductive invariant behind it. *)

Busy    == {"test", "left", "enter", "send", "again"}
Writing == {"send", "again"}

CountInv ==
    /\ sent \in 0 .. Length /\ sentLen \in 0 .. Length /\ wire \in 0 .. Length
    /\ pc \in Busy => running
    /\ wRunning <=> pc \in Writing
    /\ pc \in {"left", "enter"} => sent = 0 /\ wire = 0
    /\ IF pc \in Writing THEN sent = 0 /\ wire = sentLen ELSE sentLen = 0
    /\ pc = "test" => wire = sent /\ (sent \in {0, Length} \/ age >= asked)
    /\ pc = "sent" => wire = Length

\* When FreeRTOS_write's limit passes, the caller's has passed.
LimitInv ==
    /\ pc = "enter" => /\ TicksOf(ms) >= 1 /\ TickMs * TicksOf(ms) < TickMod
                       /\ age + TicksOf(ms) >= asked
    /\ pc \in Writing => age + wAsked >= asked + wAge

SendInv == SendTypeOK /\ IInv /\ Write!IInv /\ CountInv /\ LimitInv
=============================================================================
