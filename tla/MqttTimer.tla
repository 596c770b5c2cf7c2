------------------------------ MODULE MqttTimer ------------------------------
(***************************************************************************)
(* The timers of the MQTT client: mqtt/MQTTFreeRTOS.c over the FreeRTOS    *)
(* calls vTaskSetTimeOutState and xTaskCheckForTimeOut.  The tick counter  *)
(* is an unsigned word that wraps; a Timer remembers when it was last      *)
(* looked at and how many ticks were left then.                            *)
(*                                                                         *)
(* asked, age and since are history: what was asked for, and the true      *)
(* number of ticks since the timer was started and since its time was      *)
(* last recorded.                                                          *)
(***************************************************************************)
EXTENDS Integers

CONSTANTS
    TickMod,      \* the tick counter counts modulo this (2^32)
    OverflowMod,  \* and the counter of its wraps modulo this (2^32)
    Waits         \* the timeouts asked for, in ms

TickMs == 10      \* portTICK_RATE_MS

ASSUME TickModAssumption == TickMod \in Nat /\ TickMod > TickMs
ASSUME OverflowModAssumption == OverflowMod \in Nat /\ OverflowMod > 1
ASSUME WaitsAssumption == Waits \subseteq TickMs .. TickMod - 1

VARIABLES
    xTickCount,         \* the tick counter
    xNumOfOverflows,    \* how often it has wrapped
    xTicksToWait,       \* Timer.xTicksToWait
    xTimeOnEntering,    \* Timer.xTimeOut.xTimeOnEntering
    xOverflowCount,     \* Timer.xTimeOut.xOverflowCount
    running,            \* the timer was started
    asked, age, since

clock == <<xTickCount, xNumOfOverflows>>
timer == <<xTicksToWait, xTimeOnEntering, xOverflowCount>>
vars  == <<clock, timer, running, asked, age, since>>

\* The counters stay within their widths, and what is left of a timer is a number of
\* ticks: the unsigned subtractions in xTaskCheckForTimeOut never go below 0.
TypeOK ==
    /\ xTickCount \in 0 .. TickMod - 1
    /\ xNumOfOverflows \in 0 .. OverflowMod - 1
    /\ xTicksToWait \in 0 .. TickMod - 1
    /\ xTimeOnEntering \in 0 .. TickMod - 1
    /\ xOverflowCount \in 0 .. OverflowMod - 1
    /\ running \in BOOLEAN
    /\ asked \in Nat /\ age \in Nat /\ since \in Nat

\* TimerInit, at any time after boot.  A timer is first looked at after it was
\* started, so the ticks until then do not matter.
Init ==
    /\ xTickCount \in 0 .. TickMod - 1
    /\ xNumOfOverflows \in 0 .. OverflowMod - 1
    /\ xTicksToWait = 0 /\ xTimeOnEntering = 0 /\ xOverflowCount = 0
    /\ running = FALSE
    /\ asked = 0 /\ age = 0 /\ since = 0

\* vTaskSetTimeOutState
SetTimeOutState ==
    /\ xTimeOnEntering' = xTickCount
    /\ xOverflowCount' = xNumOfOverflows
    /\ since' = 0

\* TimerCountdownMS: whole ticks only.  A running timer is started afresh.
TimerCountdownMS(ms) ==
    /\ xTicksToWait' = ms \div TickMs
    /\ SetTimeOutState
    /\ running' = TRUE
    /\ asked' = ms \div TickMs
    /\ age' = 0
    /\ UNCHANGED clock

\* Unsigned subtraction of two tick counts.
Elapsed == IF xTickCount >= xTimeOnEntering
           THEN xTickCount - xTimeOnEntering
           ELSE xTickCount - xTimeOnEntering + TickMod

\* The counter has wrapped and has gone past the recorded time again.
WentAround == xNumOfOverflows # xOverflowCount /\ xTickCount >= xTimeOnEntering

Forever == xTicksToWait = TickMod - 1    \* portMAX_DELAY

\* Slip: the last tick has to be over.
TimedOutLate == ~Forever /\ (WentAround \/ Elapsed > xTicksToWait)

\* What xTaskCheckForTimeOut answers.
TimedOut == ~Forever /\ (WentAround \/ Elapsed >= xTicksToWait)

\* What it leaves in xTicksToWait: a timer that has expired is left as it is.
TicksLeft == IF TimedOut \/ Forever THEN xTicksToWait ELSE xTicksToWait - Elapsed

\* Slip: the time is not recorded afresh.
CheckForTimeOutStale ==
    /\ xTicksToWait' = TicksLeft
    /\ UNCHANGED <<clock, xTimeOnEntering, xOverflowCount, running, asked, age, since>>

\* xTaskCheckForTimeOut.
CheckForTimeOut ==
    /\ xTicksToWait' = TicksLeft
    /\ IF TimedOut \/ Forever
       THEN UNCHANGED <<xTimeOnEntering, xOverflowCount, since>>
       ELSE SetTimeOutState
    /\ UNCHANGED <<clock, running, asked, age>>

\* TimerIsExpired returns TimedOut, TimerLeftMS what is left in ms.
TimerIsExpired == running /\ CheckForTimeOut
TimerLeftMS    == running /\ CheckForTimeOut
LeftMS         == (TicksLeft * TickMs) % TickMod

Counted(n) == IF n = OverflowMod - 1 THEN 0 ELSE n + 1

\* The tick interrupt.  Bound: a timer is not left alone for longer than the
\* counter takes to wrap (497 days).
Tick ==
    /\ running /\ since < TickMod
    /\ IF xTickCount = TickMod - 1
       THEN xTickCount' = 0 /\ xNumOfOverflows' = Counted(xNumOfOverflows)
       ELSE xTickCount' = xTickCount + 1 /\ UNCHANGED xNumOfOverflows
    /\ age' = age + 1
    /\ since' = since + 1
    /\ UNCHANGED <<timer, running, asked>>

Next ==
    \/ Tick
    \/ \E ms \in Waits : TimerCountdownMS(ms)
    \/ TimerIsExpired
    \/ TimerLeftMS

Spec == Init /\ [][Next]_vars
----------------------------------------------------------------------------
\* However often a timer is looked at, and wherever the counter wraps, it has
\* expired exactly when the ticks asked for have passed.
ExpiresOnTime == running => (TimedOut <=> age >= asked)

\* TimerLeftMS is handed to lwIP as SO_RCVTIMEO, where 0 means to wait for ever,
\* with the client's mutex held: it is never 0, before or after expiry.
LeftNeverZero == running => LeftMS # 0

(* The inductive invariant behind these. *)

\* since counts the ticks that Elapsed computes, unless the counter went around.
SinceInv ==
    /\ since <= TickMod
    /\ \/ /\ xNumOfOverflows = xOverflowCount
          /\ xTickCount = xTimeOnEntering + since
       \/ /\ xNumOfOverflows = Counted(xOverflowCount)
          /\ xTickCount + TickMod = xTimeOnEntering + since

\* What is left and what has passed before the last record add up.
LeftInv ==
    /\ since <= age
    /\ xTicksToWait + (age - since) = asked
    /\ xTicksToWait >= 1 /\ TickMs * xTicksToWait < TickMod

IInv == TypeOK /\ (running => SinceInv /\ LeftInv)
=============================================================================
