-------------------------- MODULE SendPacketProofs --------------------------
(***************************************************************************)
(* Proofs about MqttTimer, for counters of every width and all timeouts,   *)
(* and about SendPacket, for packets of every length besides.  SendPacket  *)
(* has two timers: the caller's, which is MqttTimer's own, and             *)
(* FreeRTOS_write's.                                                       *)
(***************************************************************************)
EXTENDS SendPacket, TLAPS

\* While the timer runs, Elapsed is the true number of ticks since its time was
\* recorded, but for a counter that went around completely.
LEMMA ElapsedIsSince ==
    ASSUME TypeOK, SinceInv
    PROVE  /\ since < TickMod => Elapsed = since /\ ~WentAround
           /\ since = TickMod => WentAround
  <1>1. CASE /\ xNumOfOverflows = xOverflowCount
             /\ xTickCount = xTimeOnEntering + since
    <2>1. since < TickMod
      BY <1>1, TickModAssumption DEF TypeOK
    <2>2. Elapsed = since /\ ~WentAround
      BY <1>1, TickModAssumption DEF TypeOK, Elapsed, WentAround
    <2> QED
      BY <2>1, <2>2 DEF TypeOK
  <1>2. CASE /\ xNumOfOverflows = Counted(xOverflowCount)
             /\ xTickCount + TickMod = xTimeOnEntering + since
    <2>1. xNumOfOverflows # xOverflowCount
      BY <1>2, OverflowModAssumption DEF TypeOK, Counted
    <2>2. since < TickMod => xTickCount < xTimeOnEntering /\ Elapsed = since
      BY <1>2, TickModAssumption DEF TypeOK, Elapsed
    <2>3. since = TickMod => xTickCount = xTimeOnEntering
      BY <1>2, TickModAssumption DEF TypeOK
    <2> QED
      BY <2>1, <2>2, <2>3 DEF TypeOK, WentAround
  <1> QED
    BY <1>1, <1>2 DEF SinceInv

\* portMAX_DELAY is never what is left: no timer of the client waits for ever.
LEMMA NeverForever ==
    ASSUME TypeOK, LeftInv
    PROVE  ~Forever
  BY TickModAssumption DEF TypeOK, LeftInv, Forever, TickMs

\* The answer of the check, in terms of the ticks since the record.
LEMMA TimedOutSince ==
    ASSUME TypeOK, SinceInv, LeftInv
    PROVE  TimedOut <=> since >= xTicksToWait
  <1>1. xTicksToWait < TickMod
    BY TickModAssumption DEF TypeOK
  <1>2. CASE since < TickMod
    BY <1>2, ElapsedIsSince, NeverForever DEF TimedOut
  <1>3. CASE since = TickMod
    BY <1>1, <1>3, ElapsedIsSince, NeverForever, TickModAssumption DEF TimedOut, TypeOK
  <1> QED
    BY <1>2, <1>3, TickModAssumption DEF SinceInv, TypeOK

\* The invariant holds at the start.
LEMMA TimerInit == Init => IInv
  <1> SUFFICES ASSUME Init PROVE IInv
    OBVIOUS
  <1>1. TypeOK
    <2>1. running \in BOOLEAN
      BY Zenon DEF Init
    <2> QED
      BY <2>1, TickModAssumption, OverflowModAssumption DEF Init, TypeOK
  <1>2. ~running
    BY Zenon DEF Init
  <1> QED
    BY <1>1, <1>2, Zenon DEF IInv

\* A tick, with or without a wrap, keeps the invariant;
LEMMA TickStep == IInv /\ Tick => IInv'
  <1> SUFFICES ASSUME IInv, Tick PROVE IInv'
    OBVIOUS
  <1> USE TickModAssumption, OverflowModAssumption DEF Tick, timer
  <1>0. TypeOK /\ SinceInv /\ LeftInv
    BY DEF IInv
  <1>1. TypeOK'
    BY <1>0 DEF TypeOK, Counted
  <1>2. SinceInv'
    BY <1>0 DEF TypeOK, SinceInv, Counted
  <1>3. LeftInv'
    BY <1>0 DEF TypeOK, LeftInv, TickMs
  <1> QED
    BY <1>1, <1>2, <1>3 DEF IInv

\* so does starting the timer,
LEMMA CountdownStep == \A wait \in Waits : IInv /\ TimerCountdownMS(wait) => IInv'
  <1> SUFFICES ASSUME NEW wait \in Waits, IInv, TimerCountdownMS(wait) PROVE IInv'
    OBVIOUS
  <1> USE DEF TimerCountdownMS, SetTimeOutState, clock
  <1>0. TypeOK
    BY DEF IInv
  <1>1. wait \in Nat /\ wait >= 10 /\ wait < TickMod
    BY WaitsAssumption, TickModAssumption DEF TickMs
  <1>2. wait \div 10 \in Nat /\ wait \div 10 >= 1 /\ 10 * (wait \div 10) <= wait
    BY <1>1
  <1>3. TypeOK'
    BY <1>0, <1>1, <1>2, TickModAssumption DEF TypeOK, TickMs
  <1>4. SinceInv'
    BY <1>0, TickModAssumption DEF TypeOK, SinceInv
  <1>5. LeftInv'
    BY <1>1, <1>2, TickModAssumption DEF LeftInv, TickMs
  <1> QED
    BY <1>3, <1>4, <1>5 DEF IInv

\* and looking at it.
LEMMA CheckStep == IInv /\ running /\ CheckForTimeOut => IInv'
  <1> SUFFICES ASSUME IInv, running, CheckForTimeOut PROVE IInv'
    OBVIOUS
  <1>0. TypeOK /\ SinceInv /\ LeftInv /\ ~Forever
    BY NeverForever DEF IInv
  <1>1. CASE TimedOut
    <2>1. UNCHANGED vars
      BY <1>1 DEF CheckForTimeOut, TicksLeft, vars, timer
    <2> QED
      BY <2>1, <1>0
      DEF IInv, TypeOK, SinceInv, LeftInv, vars, clock, timer, Counted
  <1>2. CASE ~TimedOut
    <2>1. since < xTicksToWait /\ xTicksToWait < TickMod
      BY <1>0, <1>2, TimedOutSince, TickModAssumption DEF TypeOK
    <2>2. Elapsed = since
      BY <1>0, <2>1, ElapsedIsSince, TickModAssumption DEF TypeOK
    <2>3. /\ xTicksToWait' = xTicksToWait - since
          /\ xTimeOnEntering' = xTickCount /\ xOverflowCount' = xNumOfOverflows
          /\ since' = 0
          /\ UNCHANGED <<clock, running, asked, age>>
      BY <1>0, <1>2, <2>2 DEF CheckForTimeOut, TicksLeft, SetTimeOutState
    <2>4. TypeOK'
      BY <1>0, <2>1, <2>3, TickModAssumption DEF TypeOK, clock
    <2>5. SinceInv'
      BY <1>0, <2>3, TickModAssumption DEF TypeOK, SinceInv, clock
    <2>6. LeftInv'
      BY <1>0, <2>1, <2>3, TickModAssumption DEF TypeOK, LeftInv, TickMs
    <2> QED
      BY <2>4, <2>5, <2>6 DEF IInv
  <1> QED
    BY <1>1, <1>2

\* So every step keeps it.
LEMMA IInvStep == IInv /\ [Next]_vars => IInv'
  <1> SUFFICES ASSUME IInv, [Next]_vars PROVE IInv'
    OBVIOUS
  <1>1. CASE UNCHANGED vars
    BY <1>1 DEF IInv, TypeOK, SinceInv, LeftInv, vars, clock, timer, Counted
  <1>2. CASE Next
    BY <1>2, TickStep, CountdownStep, CheckStep DEF Next, TimerIsExpired, TimerLeftMS
  <1> QED
    BY <1>1, <1>2

\* The invariant holds.
LEMMA IInvHolds == Spec => []IInv
  BY TimerInit, IInvStep, PTL DEF Spec

\* A timer has expired exactly when the ticks asked for have passed, for every
\* width of the counters: looking at it in between loses and adds nothing, and a
\* wrap of the counter is not noticed.
THEOREM ExpiresOnTimeHolds == Spec => []ExpiresOnTime
  <1>1. IInv => ExpiresOnTime
    <2> SUFFICES ASSUME IInv, running PROVE TimedOut <=> age >= asked
      BY DEF ExpiresOnTime
    <2>1. TimedOut <=> since >= xTicksToWait
      BY TimedOutSince DEF IInv
    <2>2. since >= xTicksToWait <=> age >= asked
      BY DEF IInv, TypeOK, LeftInv
    <2> QED
      BY <2>1, <2>2
  <1> QED
    BY <1>1, IInvHolds, PTL

\* The time left is never 0, which lwIP would take to mean no time limit.
THEOREM LeftNeverZeroHolds == Spec => []LeftNeverZero
  <1>1. IInv => LeftNeverZero
    <2> SUFFICES ASSUME IInv, running PROVE LeftMS # 0
      BY DEF LeftNeverZero
    <2>1. TypeOK /\ SinceInv /\ LeftInv /\ ~Forever
      BY NeverForever DEF IInv
    <2>2. xTicksToWait \in Nat /\ xTicksToWait >= 1 /\ 10 * xTicksToWait < TickMod
      BY <2>1 DEF TypeOK, LeftInv, TickMs
    <2>3. TicksLeft \in Nat /\ TicksLeft >= 1 /\ TicksLeft <= xTicksToWait
      <3>1. CASE TimedOut
        BY <2>2, <3>1 DEF TicksLeft
      <3>2. CASE ~TimedOut
        <4>1. since < xTicksToWait /\ since \in Nat /\ xTicksToWait < TickMod
          BY <2>1, <3>2, TimedOutSince, TickModAssumption DEF TypeOK
        <4>2. Elapsed = since
          BY <2>1, <4>1, ElapsedIsSince, TickModAssumption DEF TypeOK
        <4> QED
          BY <2>1, <2>2, <3>2, <4>1, <4>2 DEF TicksLeft
      <3> QED
        BY <3>1, <3>2
    <2>4. (TicksLeft * 10) % TickMod = TicksLeft * 10
      BY <2>2, <2>3, TickModAssumption
    <2> QED
      BY <2>3, <2>4 DEF LeftMS, TickMs
  <1> QED
    BY <1>1, IInvHolds, PTL

----------------------------------------------------------------------------
\* The same of FreeRTOS_write's own limit, which is looked at alike: what has elapsed,
LEMMA LimitElapsedIsSince ==
    ASSUME Write!TypeOK, Write!SinceInv
    PROVE  /\ wSince < TickMod => Write!Elapsed = wSince /\ ~Write!WentAround
           /\ wSince = TickMod => Write!WentAround
  <1>1. CASE /\ xNumOfOverflows = wOverflowCount
             /\ xTickCount = wTimeOnEntering + wSince
    <2>1. wSince < TickMod
      BY <1>1, TickModAssumption DEF Write!TypeOK
    <2>2. Write!Elapsed = wSince /\ ~Write!WentAround
      BY <1>1, TickModAssumption DEF Write!TypeOK, Write!Elapsed, Write!WentAround
    <2> QED
      BY <2>1, <2>2 DEF Write!TypeOK
  <1>2. CASE /\ xNumOfOverflows = Write!Counted(wOverflowCount)
             /\ xTickCount + TickMod = wTimeOnEntering + wSince
    <2>1. xNumOfOverflows # wOverflowCount
      BY <1>2, OverflowModAssumption DEF Write!TypeOK, Write!Counted
    <2>2. wSince < TickMod => xTickCount < wTimeOnEntering /\ Write!Elapsed = wSince
      BY <1>2, TickModAssumption DEF Write!TypeOK, Write!Elapsed
    <2>3. wSince = TickMod => xTickCount = wTimeOnEntering
      BY <1>2, TickModAssumption DEF Write!TypeOK
    <2> QED
      BY <2>1, <2>2, <2>3 DEF Write!TypeOK, Write!WentAround
  <1> QED
    BY <1>1, <1>2 DEF Write!SinceInv

\* that it is never portMAX_DELAY,
LEMMA LimitNeverForever ==
    ASSUME Write!TypeOK, Write!LeftInv
    PROVE  ~Write!Forever
  BY TickModAssumption DEF Write!TypeOK, Write!LeftInv, Write!Forever, Write!TickMs

\* what the check answers,
LEMMA LimitTimedOutSince ==
    ASSUME Write!TypeOK, Write!SinceInv, Write!LeftInv
    PROVE  Write!TimedOut <=> wSince >= wTicksToWait
  <1>1. wTicksToWait < TickMod
    BY TickModAssumption DEF Write!TypeOK
  <1>2. CASE wSince < TickMod
    BY <1>2, LimitElapsedIsSince, LimitNeverForever DEF Write!TimedOut
  <1>3. CASE wSince = TickMod
    BY <1>1, <1>3, LimitElapsedIsSince, LimitNeverForever, TickModAssumption DEF Write!TimedOut, Write!TypeOK
  <1> QED
    BY <1>2, <1>3, TickModAssumption DEF Write!SinceInv, Write!TypeOK

\* and that a tick
LEMMA LimitTickStep == Write!IInv /\ Write!Tick => Write!IInv'
  <1> SUFFICES ASSUME Write!IInv, Write!Tick PROVE Write!IInv'
    OBVIOUS
  <1> USE TickModAssumption, OverflowModAssumption DEF Write!Tick, Write!timer
  <1>0. Write!TypeOK /\ Write!SinceInv /\ Write!LeftInv
    BY DEF Write!IInv
  <1>1. Write!TypeOK'
    BY <1>0 DEF Write!TypeOK, Write!Counted
  <1>2. Write!SinceInv'
    BY <1>0 DEF Write!TypeOK, Write!SinceInv, Write!Counted
  <1>3. Write!LeftInv'
    BY <1>0 DEF Write!TypeOK, Write!LeftInv, Write!TickMs
  <1> QED
    BY <1>1, <1>2, <1>3 DEF Write!IInv

\* or a look keeps the invariant.
LEMMA LimitCheckStep == Write!IInv /\ wRunning /\ Write!CheckForTimeOut => Write!IInv'
  <1> SUFFICES ASSUME Write!IInv, wRunning, Write!CheckForTimeOut PROVE Write!IInv'
    OBVIOUS
  <1>0. Write!TypeOK /\ Write!SinceInv /\ Write!LeftInv /\ ~Write!Forever
    BY LimitNeverForever DEF Write!IInv
  <1>1. CASE Write!TimedOut
    <2>1. UNCHANGED Write!vars
      BY <1>1 DEF Write!CheckForTimeOut, Write!TicksLeft, Write!vars, Write!timer
    <2> QED
      BY <2>1, <1>0
      DEF Write!IInv, Write!TypeOK, Write!SinceInv, Write!LeftInv, Write!vars, Write!clock, Write!timer, Write!Counted
  <1>2. CASE ~Write!TimedOut
    <2>1. wSince < wTicksToWait /\ wTicksToWait < TickMod
      BY <1>0, <1>2, LimitTimedOutSince, TickModAssumption DEF Write!TypeOK
    <2>2. Write!Elapsed = wSince
      BY <1>0, <2>1, LimitElapsedIsSince, TickModAssumption DEF Write!TypeOK
    <2>3. /\ wTicksToWait' = wTicksToWait - wSince
          /\ wTimeOnEntering' = xTickCount /\ wOverflowCount' = xNumOfOverflows
          /\ wSince' = 0
          /\ UNCHANGED <<Write!clock, wRunning, wAsked, wAge>>
      BY <1>0, <1>2, <2>2 DEF Write!CheckForTimeOut, Write!TicksLeft, Write!SetTimeOutState
    <2>4. Write!TypeOK'
      BY <1>0, <2>1, <2>3, TickModAssumption DEF Write!TypeOK, Write!clock
    <2>5. Write!SinceInv'
      BY <1>0, <2>3, TickModAssumption DEF Write!TypeOK, Write!SinceInv, Write!clock
    <2>6. Write!LeftInv'
      BY <1>0, <2>1, <2>3, TickModAssumption DEF Write!TypeOK, Write!LeftInv, Write!TickMs
    <2> QED
      BY <2>4, <2>5, <2>6 DEF Write!IInv
  <1> QED
    BY <1>1, <1>2

----------------------------------------------------------------------------
\* To the caller's timer every step is a tick, a look, a new start, or nothing.
LEMMA OuterSteps == [SendNext]_sendVars => [Next]_vars
  <1> USE DEF Next
  <1>1. BothTick \/ OtherUses => Next
    BY DEF BothTick, OtherUses
  <1>2. SendPacketStarts \/ WriteEnters \/ Sends \/ WriteAgain => UNCHANGED vars
    BY DEF SendPacketStarts, WriteEnters, Sends, WriteAgain, Returns, vars, outer, clock, timer,
           Write!CheckForTimeOut, Write!clock
  <1>3. LoopTest \/ ArgumentLeft => [Next]_vars
    BY DEF LoopTest, ArgumentLeft
  <1>4. UNCHANGED sendVars => UNCHANGED vars
    BY DEF sendVars
  <1> QED
    BY <1>1, <1>2, <1>3, <1>4 DEF SendNext

\* The time left is a whole number of ticks, at least one, and covers what remains
\* of the time asked for.
LEMMA LeftCovers ==
    ASSUME IInv, running
    PROVE  /\ TicksOf(LeftMS) = TicksLeft
           /\ TicksLeft \in Nat /\ TicksLeft >= 1 /\ TickMs * TicksLeft < TickMod
           /\ age + TicksLeft >= asked
           /\ LeftMS \in 0 .. TickMod - 1
           /\ TimedOut <=> age >= asked
  <1>1. TypeOK /\ SinceInv /\ LeftInv /\ ~Forever
    BY NeverForever DEF IInv
  <1>2. /\ xTicksToWait \in Nat /\ xTicksToWait >= 1 /\ 10 * xTicksToWait < TickMod
        /\ since \in Nat /\ age \in Nat /\ asked \in Nat /\ since <= age
        /\ xTicksToWait + (age - since) = asked
    BY <1>1 DEF TypeOK, LeftInv, TickMs
  <1>3. TimedOut <=> since >= xTicksToWait
    BY <1>1, TimedOutSince
  <1>4. CASE TimedOut
    <2>1. TicksLeft = xTicksToWait
      BY <1>4 DEF TicksLeft
    <2>2. age >= asked
      BY <1>2, <1>3, <1>4
    <2>3. LeftMS = 10 * xTicksToWait
      BY <1>2, <2>1, TickModAssumption DEF LeftMS, TickMs
    <2> QED
      BY <1>2, <1>4, <2>1, <2>2, <2>3, TickModAssumption DEF TicksOf, TickMs
  <1>5. CASE ~TimedOut
    <2>1. Elapsed = since
      BY <1>1, <1>2, <1>3, <1>5, ElapsedIsSince, TickModAssumption
    <2>2. TicksLeft = xTicksToWait - since /\ TicksLeft \in Nat /\ TicksLeft >= 1
      BY <1>1, <1>2, <1>3, <1>5, <2>1 DEF TicksLeft
    <2>3. 10 * TicksLeft < TickMod
      BY <1>2, <2>2, TickModAssumption
    <2>4. LeftMS = 10 * TicksLeft
      BY <2>2, <2>3, TickModAssumption DEF LeftMS, TickMs
    <2>5. (10 * TicksLeft) \div 10 = TicksLeft
      BY <2>2
    <2> QED
      BY <1>2, <1>3, <1>5, <2>2, <2>3, <2>4, <2>5, TickModAssumption DEF TicksOf, TickMs
  <1> QED
    BY <1>4, <1>5

\* sendPacket has not begun.
LEMMA SendInitInv == SendInit => SendInv
  <1> SUFFICES ASSUME SendInit PROVE SendInv
    OBVIOUS
  <1>1. IInv
    BY TimerInit DEF SendInit
  <1>2. wRunning = FALSE
    BY DEF SendInit
  <1>3. Write!TypeOK
    <2>1. xTickCount \in 0 .. TickMod - 1 /\ xNumOfOverflows \in 0 .. OverflowMod - 1
      BY <1>1 DEF IInv, TypeOK
    <2>2. /\ wTicksToWait = 0 /\ wTimeOnEntering = 0 /\ wOverflowCount = 0
          /\ wAsked = 0 /\ wAge = 0 /\ wSince = 0
      BY DEF SendInit
    <2>3. wRunning \in BOOLEAN
      BY <1>2, Zenon
    <2> QED
      BY <2>1, <2>2, <2>3, TickModAssumption, OverflowModAssumption DEF Write!TypeOK, TickMs
  <1>4. SendTypeOK
    <2>1. pc = "idle" /\ ms = 0 /\ sent = 0 /\ sentLen = 0 /\ wire = 0
      BY DEF SendInit
    <2>2. TypeOK
      BY <1>1 DEF IInv
    <2> QED
      BY <1>3, <2>1, <2>2, LengthAssumption, TickModAssumption DEF SendTypeOK, TickMs
  <1>5. CountInv
    BY <1>2, LengthAssumption DEF SendInit, CountInv, Busy, Writing
  <1>6. LimitInv
    BY DEF SendInit, LimitInv, Writing
  <1> QED
    BY <1>1, <1>2, <1>3, <1>4, <1>5, <1>6 DEF SendInv, Write!IInv

\* FreeRTOS_write's limit does not change while neither clock nor limit does,
LEMMA LimitKept ==
    ASSUME Write!IInv, UNCHANGED <<clock, limit>>
    PROVE  Write!IInv'
  BY DEF clock, limit, Write!IInv, Write!TypeOK, Write!SinceInv, Write!LeftInv, Write!Counted

\* and is as good as unset when the function has returned.
LEMMA LimitGone ==
    ASSUME IInv', wRunning' = FALSE,
           wTicksToWait' = 0 /\ wTimeOnEntering' = 0 /\ wOverflowCount' = 0,
           wAsked' = 0 /\ wAge' = 0 /\ wSince' = 0
    PROVE  Write!IInv'
  <1>1. xTickCount' \in 0 .. TickMod - 1 /\ xNumOfOverflows' \in 0 .. OverflowMod - 1
    BY DEF IInv, TypeOK
  <1>2. wRunning' \in BOOLEAN
    BY Zenon
  <1>3. Write!TypeOK'
    BY <1>1, <1>2, TickModAssumption, OverflowModAssumption DEF Write!TypeOK, TickMs
  <1> QED
    BY <1>3 DEF Write!IInv

\* The parts of the invariant that are not the timers', taken together.
LEMMA SendParts ==
    ASSUME IInv', Write!IInv', CountInv', LimitInv', ms' \in 0 .. TickMod - 1,
           pc' \in {"idle", "test", "left", "enter", "send", "again", "sent", "failed"}
    PROVE  SendInv'
  <1>1. SendTypeOK'
    BY LengthAssumption DEF SendTypeOK, IInv, Write!IInv, CountInv
  <1> QED
    BY <1>1 DEF SendInv

\* Time passes for both alike,
LEMMA BothTickStep == SendInv /\ IInv' /\ BothTick => SendInv'
  <1> SUFFICES ASSUME SendInv, IInv', BothTick PROVE SendInv'
    OBVIOUS
  <1>1. UNCHANGED <<pc, ms, sent, sentLen, wire, running, asked>> /\ age' = age + 1
    BY DEF BothTick, Tick, counts
  <1>2. age \in Nat /\ asked \in Nat /\ wAge \in Nat /\ wAsked \in Nat
    BY DEF SendInv, IInv, TypeOK, Write!IInv, Write!TypeOK
  <1>3. CASE wRunning
    <2>1. Write!Tick
      BY <1>3 DEF BothTick
    <2>2. Write!IInv'
      BY <1>3, <2>1, LimitTickStep DEF SendInv
    <2>3. UNCHANGED <<wRunning, wAsked>> /\ wAge' = wAge + 1
      BY <2>1 DEF Write!Tick
    <2>4. CountInv'
      BY <1>1, <1>2, <2>3 DEF SendInv, CountInv
    <2>5. LimitInv'
      BY <1>1, <1>2, <1>3, <2>3 DEF SendInv, CountInv, LimitInv, TicksOf, Writing
    <2> QED
      BY <1>1, <2>2, <2>4, <2>5, SendParts DEF SendInv, SendTypeOK
  <1>4. CASE ~wRunning
    <2>1. UNCHANGED limit
      BY <1>4 DEF BothTick
    <2>2. Write!IInv'
      <3>1. xTickCount' \in 0 .. TickMod - 1 /\ xNumOfOverflows' \in 0 .. OverflowMod - 1
        BY DEF IInv, TypeOK
      <3> QED
        BY <1>4, <2>1, <3>1 DEF SendInv, limit, Write!IInv, Write!TypeOK
    <2>3. CountInv'
      BY <1>1, <1>2, <2>1 DEF SendInv, CountInv, limit
    <2>4. LimitInv'
      BY <1>1, <1>2, <1>4, <2>1, TickModAssumption
         DEF SendInv, SendTypeOK, CountInv, LimitInv, TicksOf, TickMs, limit
    <2> QED
      BY <1>1, <2>2, <2>3, <2>4, SendParts DEF SendInv, SendTypeOK
  <1> QED
    BY <1>3, <1>4

\* and what the timer is used for between two calls does not matter.
LEMMA OutsideStep == SendInv /\ IInv' /\ (OtherUses \/ SendPacketStarts) => SendInv'
  <1> SUFFICES ASSUME SendInv, IInv', OtherUses \/ SendPacketStarts PROVE SendInv'
    OBVIOUS
  <1>1. UNCHANGED <<clock, limit>>
    BY DEF OtherUses, SendPacketStarts, TimerCountdownMS, TimerIsExpired, TimerLeftMS,
           CheckForTimeOut, vars
  <1>2. Write!IInv'
    BY <1>1, LimitKept DEF SendInv
  <1>3. CASE OtherUses
    <2>1. UNCHANGED <<pc, ms, sent, sentLen, wire, wRunning>> /\ pc \in {"idle", "sent", "failed"}
      BY <1>1, <1>3 DEF OtherUses, counts, limit
    <2>2. CountInv' /\ LimitInv'
      BY <2>1 DEF SendInv, CountInv, LimitInv, Busy, Writing
    <2> QED
      BY <1>2, <2>1, <2>2, SendParts DEF SendInv, SendTypeOK
  <1>4. CASE SendPacketStarts
    <2>1. /\ pc' = "test" /\ sent' = 0 /\ wire' = 0 /\ pc \notin Writing
          /\ running /\ UNCHANGED <<ms, sentLen, running, wRunning>>
      BY <1>4 DEF SendPacketStarts, vars, limit, Writing
    <2>2. CountInv' /\ LimitInv'
      BY <2>1, LengthAssumption DEF SendInv, CountInv, LimitInv, Busy, Writing
    <2> QED
      BY <1>2, <2>1, <2>2, SendParts DEF SendInv, SendTypeOK
  <1> QED
    BY <1>3, <1>4

\* The loop of sendPacket goes round only with nothing sent: with a part sent, the
\* caller's time is over.
LEMMA LoopStep == SendInv /\ IInv' /\ (LoopTest \/ ArgumentLeft) => SendInv'
  <1> SUFFICES ASSUME SendInv, IInv', LoopTest \/ ArgumentLeft PROVE SendInv'
    OBVIOUS
  <1>1. /\ running /\ running' = running /\ age' = age /\ asked' = asked
        /\ UNCHANGED <<clock, limit, sent, sentLen, wire>>
        /\ pc \in {"test", "left"}
    BY DEF SendInv, CountInv, Busy, LoopTest, ArgumentLeft, Goto, TimerIsExpired, TimerLeftMS,
           CheckForTimeOut, vars, counts
  <1>2. /\ sent \in 0 .. Length /\ wire \in 0 .. Length /\ sentLen = 0
        /\ ~wRunning /\ ~wRunning'
    BY <1>1 DEF SendInv, CountInv, Writing, limit
  <1>3. Write!IInv'
    BY <1>1, LimitKept DEF SendInv
  <1>4. TimedOut <=> age >= asked
    BY <1>1, LeftCovers DEF SendInv
  <1>5. CASE LoopTest
    <2>1. /\ pc = "test" /\ ms' = ms
          /\ wire = sent /\ (sent \in {0, Length} \/ age >= asked)
      BY <1>5 DEF LoopTest, counts, SendInv, CountInv
    <2>2. \/ sent < Length /\ TimedOut /\ pc' = "failed"
          \/ sent = 0 /\ pc' = "left"
          \/ sent = Length /\ pc' = "sent"
      BY <1>2, <1>4, <1>5, <2>1, LengthAssumption DEF LoopTest
    <2>3. CountInv' /\ LimitInv'
      BY <1>1, <1>2, <2>1, <2>2, LengthAssumption DEF CountInv, LimitInv, Busy, Writing
    <2> QED
      BY <1>3, <2>1, <2>2, <2>3, SendParts DEF SendInv, SendTypeOK
  <1>6. CASE ArgumentLeft
    <2>1. pc = "left" /\ pc' = "enter" /\ ms' = LeftMS /\ sent = 0 /\ wire = 0
      BY <1>6 DEF ArgumentLeft, Goto, SendInv, CountInv
    <2>2. /\ TicksOf(ms') >= 1 /\ TickMs * TicksOf(ms') < TickMod
          /\ age + TicksOf(ms') >= asked /\ ms' \in 0 .. TickMod - 1
      BY <1>1, <2>1, LeftCovers DEF SendInv
    <2>3. CountInv' /\ LimitInv'
      BY <1>1, <1>2, <2>1, <2>2 DEF CountInv, LimitInv, Busy, Writing, TicksOf
    <2> QED
      BY <1>3, <2>1, <2>2, <2>3, SendParts
  <1> QED
    BY <1>5, <1>6

\* FreeRTOS_write's limit is what the caller's timer had left,
LEMMA EnterStep == SendInv /\ IInv' /\ WriteEnters => SendInv'
  <1> SUFFICES ASSUME SendInv, IInv', WriteEnters PROVE SendInv'
    OBVIOUS
  <1>1. /\ pc = "enter" /\ pc' = "send" /\ ms' = 0 /\ wRunning' = TRUE
        /\ wTicksToWait' = TicksOf(ms) /\ wAsked' = TicksOf(ms) /\ wAge' = 0 /\ wSince' = 0
        /\ wTimeOnEntering' = xTickCount /\ wOverflowCount' = xNumOfOverflows
        /\ UNCHANGED <<xTickCount, xNumOfOverflows, running, age, asked, sent, sentLen, wire>>
    BY DEF WriteEnters, Goto, Write!SetTimeOutState, clock, outer
  <1>2. /\ TicksOf(ms) \in Nat /\ TicksOf(ms) >= 1 /\ 10 * TicksOf(ms) < TickMod
        /\ age + TicksOf(ms) >= asked
    BY <1>1, TickModAssumption DEF SendInv, SendTypeOK, LimitInv, TicksOf, TickMs
  <1>3. xTickCount \in 0 .. TickMod - 1 /\ xNumOfOverflows \in 0 .. OverflowMod - 1
    BY DEF SendInv, IInv, TypeOK
  <1>4. Write!IInv'
    <2>1. wRunning' \in BOOLEAN
      BY <1>1, Zenon
    <2>2. Write!TypeOK'
      BY <1>1, <1>2, <1>3, <2>1, TickModAssumption, OverflowModAssumption
         DEF Write!TypeOK, TickMs
    <2>3. Write!SinceInv' /\ Write!LeftInv'
      BY <1>1, <1>2, <1>3, TickModAssumption
         DEF Write!SinceInv, Write!LeftInv, Write!TickMs, TickMs
    <2> QED
      BY <2>2, <2>3 DEF Write!IInv
  <1>5. CountInv' /\ LimitInv'
    <2>1. /\ sent = 0 /\ wire = 0 /\ running /\ ~wRunning
          /\ sentLen \in 0 .. Length
      BY <1>1 DEF SendInv, CountInv, Busy, Writing
    <2>2. sentLen = 0
      BY <1>1 DEF SendInv, CountInv
    <2>3. wRunning' /\ running'
      BY <1>1, <2>1, Zenon
    <2>4. CountInv'
      BY <1>1, <2>1, <2>2, <2>3, LengthAssumption DEF CountInv, Busy, Writing
    <2>5. age \in Nat /\ asked \in Nat
      BY DEF SendInv, IInv, TypeOK
    <2>6. LimitInv'
      BY <1>1, <1>2, <2>5 DEF LimitInv, Writing
    <2> QED
      BY <2>4, <2>6
  <1> QED
    BY <1>1, <1>4, <1>5, SendParts, TickModAssumption DEF TickMs

\* so that it passes no earlier: a part of the packet is all that was written when
\* the caller's time is over as well.
LEMMA WriteStep == SendInv /\ IInv' /\ (Sends \/ WriteAgain) => SendInv'
  <1> SUFFICES ASSUME SendInv, IInv', Sends \/ WriteAgain PROVE SendInv'
    OBVIOUS
  <1>1. /\ pc \in Writing /\ wRunning /\ sent = 0 /\ wire = sentLen /\ sentLen \in 0 .. Length
        /\ age + wAsked >= asked + wAge /\ running
    BY DEF Sends, WriteAgain, Goto, Writing, Busy, SendInv, CountInv, LimitInv
  <1>2. /\ age \in Nat /\ asked \in Nat /\ wAge \in Nat /\ wAsked \in Nat
        /\ ms \in 0 .. TickMod - 1
    BY DEF SendInv, SendTypeOK, IInv, TypeOK, Write!IInv, Write!TypeOK
  <1>3. /\ UNCHANGED <<running, age, asked, ms, xTickCount, xNumOfOverflows>>
    BY DEF Sends, WriteAgain, Returns, vars, outer, clock, counts,
           Write!CheckForTimeOut, Write!clock
  <1>4. Write!TimedOut => wAge >= wAsked
    <2>1. Write!TypeOK /\ Write!SinceInv /\ Write!LeftInv
      BY <1>1 DEF SendInv, Write!IInv
    <2>2. Write!TimedOut <=> wSince >= wTicksToWait
      BY <2>1, LimitTimedOutSince
    <2> QED
      BY <1>2, <2>1, <2>2 DEF Write!TypeOK, Write!LeftInv
  <1>5. CASE \E rc \in 0 .. Length - sentLen :
               /\ pc' = "again" /\ sentLen' = sentLen + rc /\ wire' = wire + rc
               /\ UNCHANGED <<clock, limit, sent>>
    <2>1. /\ sentLen' \in 0 .. Length /\ wire' = sentLen' /\ sent' = 0
          /\ wRunning' = wRunning /\ wAge' = wAge /\ wAsked' = wAsked
      BY <1>1, <1>5, LengthAssumption DEF limit
    <2>2. Write!IInv'
      BY <1>5, LimitKept DEF SendInv
    <2>3. CountInv'
      BY <1>1, <1>3, <1>5, <2>1, LengthAssumption DEF CountInv, Busy, Writing
    <2>4. LimitInv'
      BY <1>1, <1>3, <1>5, <2>1 DEF LimitInv
    <2> QED
      BY <1>2, <1>3, <1>5, <2>2, <2>3, <2>4, SendParts
  <1>6. CASE /\ Write!CheckForTimeOut /\ pc' = "send"
             /\ UNCHANGED counts
    <2>1. Write!IInv'
      BY <1>1, <1>6, LimitCheckStep DEF SendInv
    <2>2. /\ wRunning' = wRunning /\ wAge' = wAge /\ wAsked' = wAsked
          /\ sent' = sent /\ sentLen' = sentLen /\ wire' = wire
      BY <1>6 DEF Write!CheckForTimeOut, counts
    <2>3. CountInv'
      BY <1>1, <1>3, <1>6, <2>2, LengthAssumption DEF CountInv, Busy, Writing
    <2>4. LimitInv'
      BY <1>1, <1>3, <1>6, <2>2 DEF LimitInv
    <2> QED
      BY <1>2, <1>3, <1>6, <2>1, <2>3, <2>4, SendParts
  <1>7. CASE \/ Returns(0, "failed")
             \/ Returns(sentLen, "test") /\ (sentLen = Length \/ Write!TimedOut)
    <2>1. /\ sentLen' = 0 /\ wRunning' = FALSE /\ wire' = wire
          /\ wTicksToWait' = 0 /\ wTimeOnEntering' = 0 /\ wOverflowCount' = 0
          /\ wAsked' = 0 /\ wAge' = 0 /\ wSince' = 0
      BY <1>7 DEF Returns
    <2>2. Write!IInv'
      BY <2>1, LimitGone
    <2>3. \/ pc' = "failed" /\ sent' = 0
          \/ pc' = "test" /\ sent' = wire /\ (sent' = Length \/ age >= asked)
      BY <1>1, <1>2, <1>4, <1>7 DEF Returns
    <2>4. ~wRunning'
      BY <2>1, Zenon
    <2>5. CountInv'
      BY <1>1, <1>3, <2>1, <2>3, <2>4, LengthAssumption DEF CountInv, Busy, Writing
    <2>6. LimitInv'
      BY <2>3 DEF LimitInv, Writing
    <2> QED
      BY <1>2, <1>3, <2>2, <2>3, <2>5, <2>6, SendParts
  <1>8. CASE Sends
    BY <1>5, <1>7, <1>8 DEF Sends, Goto, vars
  <1>9. CASE WriteAgain
    BY <1>6, <1>7, <1>9 DEF WriteAgain, Goto
  <1> QED
    BY <1>8, <1>9

\* So every step keeps the invariant.
LEMMA SendStep == SendInv /\ [SendNext]_sendVars => SendInv'
  <1> SUFFICES ASSUME SendInv, [SendNext]_sendVars PROVE SendInv'
    OBVIOUS
  <1>1. IInv'
    BY OuterSteps, IInvStep DEF SendInv
  <1>2. CASE UNCHANGED sendVars
    <2>1. UNCHANGED <<clock, limit, pc, ms, sent, sentLen, wire, running, asked, age>>
      BY <1>2 DEF sendVars, vars, counts
    <2>2. Write!IInv'
      BY <2>1, LimitKept DEF SendInv
    <2>3. CountInv' /\ LimitInv'
      BY <2>1 DEF SendInv, CountInv, LimitInv, limit
    <2> QED
      BY <1>1, <2>1, <2>2, <2>3, SendParts DEF SendInv, SendTypeOK
  <1> QED
    BY <1>1, <1>2, BothTickStep, OutsideStep, LoopStep, EnterStep, WriteStep DEF SendNext

\* The invariant holds.
LEMMA SendInvHolds == SendSpec => []SendInv
  BY SendInitInv, SendStep, PTL DEF SendSpec

\* Whatever part of a packet each call takes, and however long, the packet goes out
\* once, and whole if it is reported as sent: the bytes asked for again after a
\* partial write are never written.
THEOREM WrittenOnceHolds == SendSpec => []WrittenOnce
  <1>1. SendInv => WrittenOnce
    BY LengthAssumption DEF SendInv, CountInv, WrittenOnce
  <1> QED
    BY <1>1, SendInvHolds, PTL

\* The counts and both timers keep their types.
THEOREM SendTypeCorrect == SendSpec => []SendTypeOK
  <1>1. SendInv => SendTypeOK
    BY DEF SendInv
  <1> QED
    BY <1>1, SendInvHolds, PTL

\* The timer of sendPacket's caller expires on time, and its limit is never 0, as
\* sendPacket uses it.
THEOREM SendKeepsTime == SendSpec => [](ExpiresOnTime /\ LeftNeverZero)
  <1>1. SendInit => Init
    BY DEF SendInit
  <1> QED
    BY <1>1, OuterSteps, ExpiresOnTimeHolds, LeftNeverZeroHolds, PTL DEF SendSpec, Spec
=============================================================================
