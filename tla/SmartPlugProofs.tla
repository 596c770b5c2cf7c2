--------------------------- MODULE SmartPlugProofs ---------------------------
(***************************************************************************)
(* Proofs about PlugDevice, for queues of every length, and about          *)
(* SmartPlug: what is shown here of the plug, and in KeyDriverProofs of    *)
(* the key, each by itself, carries over to the two together, for long     *)
(* presses of every length and presses that take any time to carry out;    *)
(* and that a press which counts turns the relay once.                     *)
(***************************************************************************)
EXTENDS SmartPlug, TLAPS

KeyAlone == INSTANCE KeyDriverProofs

(* The plug by itself. *)

\* The invariant holds at the start,
LEMMA PlugInit == Init => IInv
  <1> SUFFICES ASSUME Init PROVE IInv
    OBVIOUS
  <1>1. flash \in Bit \cup {Erased} /\ (flash \in Bit => saved = flash) /\ saved \in Bit
    BY DEF Init, Bit, Erased
  <1>2. Restored \in Bit
    BY <1>1 DEF Restored, Bit
  <1>3. alone \in [Actors -> BOOLEAN] /\ pc \in [Actors -> Labels]
        /\ value \in [Actors -> Bit] /\ \A a \in Actors : pc[a] = "idle"
    BY DEF Init, Labels, Bit
  <1>4. QueueMQTTClient \in Seq(Bit) /\ Len(QueueMQTTClient) <= QueueLen
    BY QueueLenAssumption DEF Init
  <1>5. TypeOK
    BY <1>1, <1>2, <1>3, <1>4 DEF Init, TypeOK
  <1> QED
    BY <1>1, <1>3, <1>5 DEF IInv, FlashInv, LoneInv, Actors

\* after a restart at any point,
LEMMA RestartStep == IInv /\ Restart => IInv'
  <1> SUFFICES ASSUME IInv, Restart PROVE IInv'
    OBVIOUS
  <1>1. Restored \in Bit
    BY DEF IInv, TypeOK, Restored, Bit, Erased
  <1>2. /\ alone' \in [Actors -> BOOLEAN] /\ pc' \in [Actors -> Labels]
        /\ value' \in [Actors -> Bit] /\ \A a \in Actors : pc'[a] = "idle"
    BY DEF Restart, Labels, Bit
  <1>3. QueueMQTTClient' \in Seq(Bit) /\ Len(QueueMQTTClient') <= QueueLen
    BY QueueLenAssumption DEF Restart
  <1>4. TypeOK'
    BY <1>1, <1>2, <1>3 DEF IInv, Restart, TypeOK
  <1>5. FlashInv'
    BY DEF IInv, FlashInv, Restart
  <1> QED
    BY <1>2, <1>4, <1>5 DEF IInv, LoneInv, Actors

\* when the client starts or takes a report,
LEMMA ClientStep == IInv /\ (ClientStarts \/ Dequeue) => IInv'
  <1> SUFFICES ASSUME IInv, ClientStarts \/ Dequeue PROVE IInv'
    OBVIOUS
  <1>1. UNCHANGED <<status, relay, flash, pc, value, alone, saved, reported>>
    BY DEF ClientStarts, Dequeue, device
  <1>2. client' \in {"none", "named", "ready"}
    BY DEF IInv, TypeOK, ClientStarts, Dequeue
  <1>3. QueueMQTTClient' \in Seq(Bit) /\ Len(QueueMQTTClient') <= QueueLen
    <2>1. CASE ClientStarts
      BY <2>1 DEF ClientStarts, IInv, TypeOK
    <2>2. CASE Dequeue
      BY <2>2, QueueLenAssumption DEF Dequeue, IInv, TypeOK
    <2> QED
      BY <2>1, <2>2
  <1> QED
    BY <1>1, <1>2, <1>3 DEF IInv, TypeOK, FlashInv, LoneInv

\* when a command or a press begins,
LEMMA BeginStep ==
    ASSUME IInv, NEW a \in Actors, NEW to \in Labels, NEW v \in Bit, Begin(a, to, v),
           a = Key => to = "compare" /\ v # status
    PROVE  IInv'
  <1>0. TypeOK /\ FlashInv
    BY DEF IInv
  <1>1. /\ UNCHANGED <<status, relay, flash, QueueMQTTClient, client, saved, reported>>
        /\ pc' = [pc EXCEPT ![a] = to] /\ value' = [value EXCEPT ![a] = v]
    BY DEF Begin, Goto, device
  <1>2. alone' = [b \in Actors |-> IF b = a THEN \A c \in Actors \ {a} : pc[c] = "idle"
                                   ELSE FALSE]
    BY DEF Begin
  <1>3. alone' \in [Actors -> BOOLEAN]
    BY <1>2, Zenon
  <1>4. TypeOK'
    BY <1>0, <1>1, <1>3 DEF TypeOK
  <1>5. FlashInv'
    BY <1>0, <1>1 DEF FlashInv
  <1>6. LoneInv'
    <2>1. CASE a = Remote
      BY <1>2, <2>1 DEF LoneInv, Actors, Remote, Key
    <2>2. CASE a = Key
      <3>1. alone'[Key] => pc[Remote] = "idle"
        BY <1>2, <2>2 DEF Actors, Remote, Key
      <3>2. /\ pc'[Key] = "compare" /\ value'[Key] = v /\ pc'[Remote] = pc[Remote]
        BY <1>0, <1>1, <2>2 DEF TypeOK, Actors, Remote, Key
      <3> QED
        BY <1>1, <2>2, <3>1, <3>2 DEF LoneInv
    <2> QED
      BY <2>1, <2>2 DEF Actors
  <1> QED
    BY <1>4, <1>5, <1>6 DEF IInv

\* A step of Remote within an operation leaves the invariant of Key alone: Key
\* is then not alone.
LEMMA ActorStep ==
    ASSUME IInv, NEW a \in Actors,
           Compare(a) \/ Store(a) \/ Output(a) \/ Report(a)
    PROVE  IInv'
  <1>0. TypeOK /\ FlashInv /\ LoneInv
    BY DEF IInv
  <1>1. UNCHANGED <<flash, client, value, alone, saved>> /\ pc[a] # "idle"
    BY DEF Compare, Store, Output, Report, Goto, device
  <1>2. /\ pc' = [pc EXCEPT ![a] = pc'[a]] /\ pc'[a] \in Labels
    BY <1>0 DEF Compare, Store, Output, Report, Goto, Saves, TypeOK, Labels
  <1>3. status' \in Bit /\ relay' \in Bit /\ reported' \in Bit \cup {None}
    BY <1>0 DEF Compare, Store, Output, Report, device, TypeOK
  <1>4. QueueMQTTClient' \in Seq(Bit) /\ Len(QueueMQTTClient') <= QueueLen
    <2>1. CASE UNCHANGED QueueMQTTClient
      BY <1>0, <2>1 DEF TypeOK
    <2>2. CASE Room /\ QueueMQTTClient' = Append(QueueMQTTClient, value[a])
      BY <1>0, <2>2, QueueLenAssumption DEF Room, TypeOK
    <2> QED
      BY <2>1, <2>2 DEF Compare, Store, Output, Report
  <1>5. TypeOK'
    BY <1>0, <1>1, <1>2, <1>3, <1>4 DEF TypeOK
  <1>6. FlashInv'
    BY <1>0, <1>1 DEF FlashInv
  <1>7. LoneInv'
    <2> SUFFICES ASSUME alone[Key], pc'[Key] # "idle" PROVE LoneInv'
      BY <1>1 DEF LoneInv
    <2>1. CASE a = Remote
      <3>1. pc'[Key] = pc[Key]
        BY <1>0, <1>2, <2>1 DEF TypeOK, Actors, Remote, Key
      <3> QED
        BY <1>0, <1>1, <2>1, <3>1 DEF LoneInv
    <2>2. CASE a = Key
      <3>1. pc'[Remote] = pc[Remote]
        BY <1>0, <1>2, <2>2 DEF TypeOK, Actors, Remote, Key
      <3>2. pc[Remote] = "idle"
        BY <1>0, <1>1, <2>2 DEF LoneInv
      <3>3. value[Key] \in Bit /\ status \in Bit
        BY <1>0 DEF TypeOK, Actors
      <3>4. CASE Compare(a)
        <4>1. pc[Key] = "compare" /\ value[Key] # status
          BY <1>0, <1>1, <2>2, <3>4 DEF LoneInv, Compare, Goto
        <4>2. pc'[Key] = "store" /\ UNCHANGED status
          BY <1>0, <2>2, <3>4, <4>1 DEF Compare, Goto, TypeOK, device
        <4> QED
          BY <1>1, <3>1, <3>2, <4>1, <4>2 DEF LoneInv
      <3>5. CASE Store(a)
        <4>1. pc'[Key] = "output" /\ status' = value[Key]
          BY <1>0, <2>2, <3>5 DEF Store, Goto, TypeOK
        <4> QED
          BY <1>1, <3>1, <3>2, <4>1 DEF LoneInv
      <3>6. CASE Output(a)
        <4>1. pc[Key] = "output" /\ pc'[Key] = "report" /\ UNCHANGED status
              /\ relay' = value[Key]
          BY <1>0, <2>2, <3>6 DEF Output, Goto, TypeOK
        <4>2. value[Key] = status
          BY <1>0, <1>1, <2>2, <4>1 DEF LoneInv
        <4> QED
          BY <1>1, <3>1, <3>2, <4>1, <4>2 DEF LoneInv
      <3>7. CASE Report(a)
        <4>1. pc[Key] = "report" /\ pc'[Key] = "erase" /\ UNCHANGED <<status, relay>>
              /\ reported' \in {value[Key], None}
          BY <1>0, <2>2, <3>7 DEF Report, Goto, Saves, TypeOK, device
        <4>2. value[Key] = status /\ relay = status
          BY <1>0, <1>1, <2>2, <4>1 DEF LoneInv
        <4> QED
          BY <1>1, <3>1, <3>2, <4>1, <4>2 DEF LoneInv
      <3> QED
        BY <3>4, <3>5, <3>6, <3>7
    <2> QED
      BY <2>1, <2>2 DEF Actors
  <1> QED
    BY <1>5, <1>6, <1>7 DEF IInv

\* and while a press saves the status.
LEMMA SaveStep == IInv /\ (EraseSector \/ WriteSector) => IInv'
  <1> SUFFICES ASSUME IInv, EraseSector \/ WriteSector PROVE IInv'
    OBVIOUS
  <1>0. TypeOK /\ FlashInv /\ LoneInv
    BY DEF IInv
  <1>1. UNCHANGED <<status, relay, QueueMQTTClient, client, value, alone, reported>>
    BY DEF EraseSector, WriteSector
  <1>2. \/ /\ pc[Key] = "erase" /\ pc' = [pc EXCEPT ![Key] = "write"]
           /\ flash' = Erased /\ saved' = saved
        \/ /\ pc[Key] = "write" /\ pc' = [pc EXCEPT ![Key] = "idle"]
           /\ flash' = status /\ saved' = status
    BY DEF EraseSector, WriteSector, Goto
  <1>3. TypeOK'
    BY <1>0, <1>1, <1>2 DEF TypeOK, Labels
  <1>4. FlashInv'
    BY <1>2 DEF FlashInv, Bit, Erased
  <1>5. LoneInv'
    <2>1. pc'[Remote] = pc[Remote]
      BY <1>0, <1>2 DEF TypeOK, Actors, Remote, Key
    <2>2. pc'[Key] = "idle" \/ (pc[Key] = "erase" /\ pc'[Key] = "write")
      BY <1>0, <1>2 DEF TypeOK, Actors
    <2> QED
      BY <1>0, <1>1, <2>1, <2>2 DEF LoneInv
  <1> QED
    BY <1>3, <1>4, <1>5 DEF IInv

\* So every step keeps the invariant.
LEMMA IInvStep == IInv /\ [Next]_vars => IInv'
  <1> SUFFICES ASSUME IInv, [Next]_vars PROVE IInv'
    OBVIOUS
  <1>0. status \in Bit
    BY DEF IInv, TypeOK
  <1>1. CASE UNCHANGED vars
    BY <1>1 DEF IInv, TypeOK, FlashInv, LoneInv, vars, device
  <1>2. CASE Restart \/ \E a \in Actors : ReportCrashes(a)
    BY <1>2, RestartStep DEF ReportCrashes
  <1>3. CASE ClientStarts \/ Dequeue
    BY <1>3, ClientStep
  <1>4. CASE PlugGet
    BY <1>0, <1>4, BeginStep DEF PlugGet, Actors, Labels, Remote, Key
  <1>5. CASE ShortPress
    <2>1. 1 - status \in Bit /\ 1 - status # status
      BY <1>0 DEF Bit
    <2> QED
      BY <1>5, <2>1, BeginStep DEF ShortPress, Actors, Labels
  <1>6. CASE \E n \in 0 .. 2 : PlugSet(n)
    <2>1. PICK n \in 0 .. 2 : PlugSet(n)
      BY <1>6
    <2>2. (IF n = 0 THEN 0 ELSE 1) \in Bit
      BY DEF Bit
    <2> QED
      BY <2>1, <2>2, BeginStep DEF PlugSet, Actors, Labels, Remote, Key
  <1>7. CASE \E a \in Actors : Compare(a) \/ Store(a) \/ Output(a) \/ Report(a)
    BY <1>7, ActorStep
  <1>8. CASE EraseSector \/ WriteSector
    BY <1>8, SaveStep
  <1> QED
    BY <1>1, <1>2, <1>3, <1>4, <1>5, <1>6, <1>7, <1>8 DEF Next

\* The invariant holds.
LEMMA IInvHolds == Spec => []IInv
  BY PlugInit, IInvStep, PTL DEF Spec

\* The plug never starts with the relay on unless it was saved as on, wherever
\* power fails.
THEOREM SafeBootHolds == Spec => SafeBoot
  <1>1. IInv /\ [Next]_vars => [Restart /\ relay' = 1 => saved = 1]_vars
    BY DEF IInv, FlashInv, Restart, Restored, Bit
  <1> QED
    BY <1>1, IInvHolds, PTL DEF Spec, SafeBoot

\* A key press that nothing overlaps repairs whatever overlapping operations left.
THEOREM LonePressHealsHolds == Spec => LonePressHeals
  <1>1. ASSUME IInv, WriteSector, alone[Key]
        PROVE  relay' = status' /\ flash' = status' /\ reported' \in {status', None}
    <2>1. pc[Key] = "write" /\ flash' = status /\ UNCHANGED <<status, relay, reported>>
      BY <1>1 DEF WriteSector, Goto
    <2> QED
      BY <1>1, <2>1 DEF IInv, LoneInv
  <1>2. IInv => [WriteSector /\ alone[Key]
                 => relay' = status' /\ flash' = status' /\ reported' \in {status', None}]_vars
    BY <1>1
  <1> QED
    BY <1>2, IInvHolds, PTL DEF LonePressHeals
----------------------------------------------------------------------------
(* The key and the plug together. *)

\* The two instances of the driver have the same steps,
LEMMA SameSteps == Driver!Next \/ UNCHANGED keyVars => [KeyAlone!Next]_(KeyAlone!vars)
  <1>1. Driver!PinMoves => KeyAlone!PinMoves
    BY DEF Driver!PinMoves, KeyAlone!PinMoves
  <1>2. Driver!KeyIntrHandler => KeyAlone!KeyIntrHandler
    BY DEF Driver!KeyIntrHandler, KeyAlone!KeyIntrHandler, Driver!history, KeyAlone!history
  <1>3. Driver!Key5sCb => KeyAlone!Key5sCb
    BY DEF Driver!Key5sCb, KeyAlone!Key5sCb, Driver!Off, KeyAlone!Off,
           Driver!LongPress, KeyAlone!LongPress
  <1>4. Driver!Key50msCb => KeyAlone!Key50msCb
    BY DEF Driver!Key50msCb, KeyAlone!Key50msCb, Driver!Off, KeyAlone!Off,
           Driver!history, KeyAlone!history,
           Driver!Reads, KeyAlone!Reads, Driver!KeyIsUp, KeyAlone!KeyIsUp
  <1>5. Driver!Key50msCbEnds => KeyAlone!Key50msCbEnds
    BY DEF Driver!Key50msCbEnds, KeyAlone!Key50msCbEnds, Driver!Enable, KeyAlone!Enable,
           Driver!ShortPress, KeyAlone!ShortPress
  <1>6. Driver!Tick => KeyAlone!Tick
    BY DEF Driver!Tick, KeyAlone!Tick, Driver!Later, KeyAlone!Later, Driver!Off, KeyAlone!Off,
           Driver!Capped, KeyAlone!Capped, Driver!LowMax, KeyAlone!LowMax
  <1>7. UNCHANGED keyVars => UNCHANGED KeyAlone!vars
    BY DEF keyVars, KeyAlone!vars, KeyAlone!driver, KeyAlone!history
  <1> QED
    BY <1>1, <1>2, <1>3, <1>4, <1>5, <1>6, <1>7 DEF Driver!Next, KeyAlone!Next

\* so a step of the driver, as it was proved, keeps its types and its interrupt alive,
LEMMA DriverStep ==
    ASSUME Driver!TypeOK, KeyAlive, Driver!Next \/ UNCHANGED keyVars
    PROVE  Driver!TypeOK' /\ KeyAlive'
  <1>1. [KeyAlone!Next]_(KeyAlone!vars)
    BY SameSteps
  <1>2. Driver!TypeOK => KeyAlone!TypeOK
    BY DEF Driver!TypeOK, KeyAlone!TypeOK, Driver!Off, KeyAlone!Off, Driver!LowMax, KeyAlone!LowMax
  <1>3. KeyAlone!TypeOK' => Driver!TypeOK'
    BY DEF Driver!TypeOK, KeyAlone!TypeOK, Driver!Off, KeyAlone!Off, Driver!LowMax, KeyAlone!LowMax
  <1>4. KeyAlive => KeyAlone!KeyNeverDead
    BY DEF KeyAlive, Driver!KeyNeverDead, KeyAlone!KeyNeverDead, Driver!Off, KeyAlone!Off
  <1>5. KeyAlone!KeyNeverDead' => KeyAlive'
    BY DEF KeyAlive, Driver!KeyNeverDead, KeyAlone!KeyNeverDead, Driver!Off, KeyAlone!Off
  <1>6. KeyAlone!TypeOK'
    BY <1>1, <1>2, KeyAlone!TypeStep, LongTicksAssumption, SettledAssumption, GlitchesAssumption
  <1>7. KeyAlone!KeyNeverDead'
    BY <1>1, <1>4, KeyAlone!DisableStep, LongTicksAssumption, SettledAssumption,
       GlitchesAssumption
  <1> QED
    BY <1>3, <1>5, <1>6, <1>7

\* a restart does, with the key held or not,
LEMMA RebootedStep ==
    ASSUME Driver!TypeOK, KeyInit
    PROVE  Driver!TypeOK' /\ KeyAlive'
  <1>1. pending' \in BOOLEAN /\ longDone' \in BOOLEAN
    BY Zenon DEF KeyInit
  <1>2. low' \in 0 .. Driver!LowMax
    BY LongTicksAssumption DEF KeyInit, Driver!TypeOK, Driver!LowMax
  <1>3. Driver!TypeOK'
    BY <1>1, <1>2, LongTicksAssumption
       DEF KeyInit, Driver!TypeOK, Driver!LowMax, Off, Driver!Off
  <1>4. KeyAlive'
    BY DEF KeyInit, KeyAlive, Driver!KeyNeverDead
  <1> QED
    BY <1>3, <1>4

\* and so does time that passes while a press is carried out.
LEMMA BusyStep ==
    ASSUME Driver!TypeOK, KeyAlive, BusyTick
    PROVE  Driver!TypeOK' /\ KeyAlive'
  <1> USE DEF Driver!Off, Driver!LowMax
  <1>1. UNCHANGED <<pin, intr, pending, key_level, callback>>
    BY DEF BusyTick
  <1>2. longDone' \in BOOLEAN
    BY Zenon DEF BusyTick
  <1>3. key_5s' \in -1 .. LongTicks /\ key_50ms' \in -1 .. 1
    BY LongTicksAssumption DEF BusyTick, Driver!TypeOK, Late, Driver!Later
  <1>4. /\ still' \in 0 .. Settled /\ level' \in {0, 1}
        /\ low' \in 0 .. LongTicks + 3 /\ owed' \in 0 .. LongTicks + 3
    BY LongTicksAssumption, SettledAssumption DEF BusyTick, Driver!TypeOK, Driver!Capped
  <1>5. Driver!TypeOK'
    BY <1>1, <1>2, <1>3, <1>4 DEF Driver!TypeOK
  <1>6. ASSUME key_50ms # -1 PROVE key_50ms' # -1
    BY <1>6, LongTicksAssumption DEF BusyTick, Driver!TypeOK, Late, Driver!Later
  <1>7. KeyAlive'
    BY <1>1, <1>6 DEF KeyAlive, Driver!KeyNeverDead
  <1> QED
    BY <1>5, <1>7

\* Every step of the two is one of these for the key,
LEMMA KeySteps ==
    [SmartNext]_smartVars => Driver!Next \/ UNCHANGED keyVars \/ KeyInit \/ BusyTick
  <1> USE DEF Driver!Next
  <1>1. PowerFails \/ CrashOnReport \/ LongPressRestarts => KeyInit
    BY DEF PowerFails, CrashOnReport, LongPressRestarts, Rebooted
  <1>2. Contact \/ Interrupt \/ Callback \/ ShortPressReported \/ PromptTick => Driver!Next
    BY DEF Contact, Interrupt, Callback, ShortPressReported, PromptTick
  <1>3. ClientWorks \/ Command \/ Operates => UNCHANGED keyVars
    BY DEF ClientWorks, Command, Operates, KeyUnchanged
  <1>4. UNCHANGED smartVars => UNCHANGED keyVars
    BY DEF smartVars
  <1> QED
    BY <1>1, <1>2, <1>3, <1>4 DEF SmartNext

\* and one of PlugDevice, or none, for the plug.
LEMMA PlugSteps == [SmartNext]_smartVars => [Next]_vars
  <1> USE DEF Next
  <1>1. PowerFails \/ CrashOnReport \/ LongPressRestarts => Next
    BY DEF PowerFails, CrashOnReport, LongPressRestarts
  <1>2. Contact \/ Interrupt \/ Callback \/ PromptTick \/ BusyTick => UNCHANGED vars
    BY DEF Contact, Interrupt, Callback, PromptTick, BusyTick
  <1>3. ShortPressReported \/ ClientWorks \/ Command \/ Operates => Next
    BY DEF ShortPressReported, ClientWorks, Command, Operates
  <1>4. UNCHANGED smartVars => UNCHANGED vars
    BY DEF smartVars
  <1> QED
    BY <1>1, <1>2, <1>3, <1>4 DEF SmartNext

\* The plug's steps are those of PlugDevice, whatever the key does.
THEOREM SmartImplementsPlug == SmartSpec => Spec
  <1>1. SmartInit => Init
    BY DEF SmartInit
  <1> QED
    BY <1>1, PlugSteps, PTL DEF SmartSpec, Spec

\* The key does not go dead however late its timers run and however the device is
\* restarted while it is held.
THEOREM KeyAliveHolds == SmartSpec => [](KeyTypeOK /\ KeyAlive)
  <1>1. SmartInit => KeyTypeOK /\ KeyAlive
    <2> SUFFICES ASSUME SmartInit PROVE KeyTypeOK /\ KeyAlive
      OBVIOUS
    <2>1. Driver!TypeOK
      <3>1. pending \in BOOLEAN /\ longDone \in BOOLEAN
        BY Zenon DEF SmartInit, Driver!Init
      <3> QED
        BY <3>1, LongTicksAssumption, SettledAssumption
           DEF SmartInit, Driver!Init, Driver!TypeOK, Driver!Off, Driver!LowMax
    <2> QED
      BY <2>1, MaxBusyAssumption
         DEF SmartInit, Driver!Init, KeyTypeOK, KeyAlive, Driver!KeyNeverDead
  <1>2. KeyTypeOK /\ KeyAlive /\ IInv /\ [SmartNext]_smartVars => (KeyTypeOK /\ KeyAlive)'
    <2> SUFFICES ASSUME KeyTypeOK, KeyAlive, IInv, [SmartNext]_smartVars
                 PROVE  KeyTypeOK' /\ KeyAlive'
      OBVIOUS
    <2>1. Driver!TypeOK' /\ KeyAlive'
      <3>1. Driver!TypeOK
        BY DEF KeyTypeOK
      <3> QED
        BY <3>1, KeySteps, DriverStep, RebootedStep, BusyStep
    <2>2. busy' \in 0 .. MaxBusy
      BY MaxBusyAssumption
         DEF KeyTypeOK, SmartNext, smartVars, PowerFails, CrashOnReport, LongPressRestarts,
             Rebooted, Contact, Interrupt, Callback, ShortPressReported, PromptTick, BusyTick,
             ClientWorks, Command, Operates
    <2>3. before' \in Bit \cup {Lost, Missed}
      <3>1. before \in Bit \cup {Lost, Missed} /\ relay \in Bit
        BY DEF KeyTypeOK, IInv, TypeOK
      <3>2. Begun \in Bit \cup {Lost, Missed}
        BY <3>1 DEF Begun
      <3> QED
        BY <3>1, <3>2 DEF SmartNext, smartVars, PowerFails, CrashOnReport,
               LongPressRestarts, Rebooted, Contact, Interrupt, Callback, ShortPressReported,
               PromptTick, BusyTick, ClientWorks, Command, Operates, KeyUnchanged
    <2> QED
      BY <2>1, <2>2, <2>3 DEF KeyTypeOK
  <1> QED
    BY <1>1, <1>2, SmartImplementsPlug, IInvHolds, PTL DEF SmartSpec

\* So the relay follows what was saved, and a press that nothing overlaps heals the
\* plug, when it is the driver that reports the presses.
THEOREM SmartPlugKeepsPromises == SmartSpec => SafeBoot /\ LonePressHeals
  BY SmartImplementsPlug, SafeBootHolds, LonePressHealsHolds, PTL

\* Relay, status, queue, flash, key and timers keep their types when the two work
\* together.
THEOREM SmartPlugTypeCorrect == SmartSpec => []SmartTypeOK
  <1>1. IInv /\ KeyTypeOK /\ KeyAlive => SmartTypeOK
    BY DEF IInv, SmartTypeOK
  <1> QED
    BY <1>1, SmartImplementsPlug, IInvHolds, KeyAliveHolds, PTL
----------------------------------------------------------------------------
(* From the contact to the relay. *)

\* After a restart no press counts, and a key that is down is known to be.
LEMMA PressRestart == KeyTypeOK /\ Rebooted => PressInv'
  <1> SUFFICES ASSUME KeyTypeOK, Rebooted PROVE PressInv'
    OBVIOUS
  <1>1. /\ intr' = "NEGEDGE" /\ ~pending' /\ key_level' = 1 /\ key_50ms' = Off
        /\ callback' = "idle" /\ before' = Lost
    BY Zenon DEF Rebooted, KeyInit
  <1>2. pin' = 0 => low' # 0
    BY DEF Rebooted, KeyInit
  <1> QED
    BY <1>1, <1>2 DEF PressInv, DriverInv, SeenInv, CountInv, Off, Driver!Off, Bit, Lost

\* A movement is noticed by a driver that waits for it; one that is not waiting is
\* about to run its callback, or has missed it.
LEMMA PressContact ==
    ASSUME Driver!Clean, KeyTypeOK, PressInv, Contact
    PROVE  PressInv'
  <1> USE SettledAssumption DEF KeyTypeOK, Driver!TypeOK, Driver!Clean, Off, Driver!Off, Bit,
          Lost, Missed
  <1>0. DriverInv /\ SeenInv /\ CountInv
    BY DEF PressInv
  <1>1. /\ still \in {0, Settled} /\ still' = 0 /\ pin' = 1 - pin
        /\ UNCHANGED <<intr, key_level, key_50ms, callback, level, low>>
        /\ UNCHANGED <<status, relay, pc, value>>
        /\ before' = IF callback = "idle" THEN before ELSE Missed
    BY DEF Contact, Driver!PinMoves, vars, device
  <1>2. pending => pending'
    BY Zenon DEF Contact, Driver!PinMoves
  <1>3. (intr = IF pin = 1 THEN "NEGEDGE" ELSE "POSEDGE") => pending'
    BY Zenon DEF Contact, Driver!PinMoves
  <1>4. ~pending /\ intr = "DISABLE" => ~pending'
    <2>1. (IF pin = 1 THEN "NEGEDGE" ELSE "POSEDGE") # "DISABLE"
      OBVIOUS
    <2> QED
      BY <2>1, Zenon DEF Contact, Driver!PinMoves
  <1>5. DriverInv'
    BY <1>0, <1>1, <1>4 DEF DriverInv, TimerTaskFree
  <1>6. SeenInv'
    BY <1>0, <1>1, <1>2, <1>3 DEF DriverInv, SeenInv
  <1>7. CountInv'
    <2> SUFFICES ASSUME before' \in Bit PROVE CountInv'
      BY DEF CountInv
    <2>1. callback = "idle" /\ before' = before
      BY <1>1
    <2>2. /\ pc[Remote] \in {"idle", "report"} /\ (low > 0 <=> level = 0)
          /\ (still # 0 => pin = level) /\ (ToReport \/ Reported)
      BY <1>0, <2>1 DEF CountInv
    <2>3. CASE ToReport
      <3>1. key_level = 0 /\ key_50ms # 0 /\ level = 0
        BY <1>1, <2>1, <2>3 DEF ToReport
      <3>2. pending' \/ key_50ms = 1
        BY <1>0, <1>1, <1>2, <1>3, <2>1, <2>2, <2>3, <3>1 DEF ToReport, DriverInv
      <3> QED
        BY <1>1, <2>1, <2>2, <2>3, <3>1, <3>2 DEF CountInv, ToReport, TimerTaskFree
    <2>4. CASE Reported
      BY <1>1, <2>1, <2>2, <2>4 DEF CountInv, Reported
    <2> QED
      BY <2>2, <2>3, <2>4
  <1> QED
    BY <1>5, <1>6, <1>7 DEF PressInv

\* The interrupt handler sees to it that the callback follows the release.
LEMMA PressInterrupt ==
    ASSUME KeyTypeOK, PressInv, Interrupt
    PROVE  PressInv'
  <1> USE DEF KeyTypeOK, Driver!TypeOK, Off, Driver!Off
  <1>0. DriverInv /\ SeenInv /\ CountInv
    BY DEF PressInv
  <1>1. /\ pending /\ ~pending'
        /\ UNCHANGED <<pin, callback, level, still, low, before, status, relay, pc, value>>
    BY Zenon DEF Interrupt, Driver!KeyIntrHandler, Driver!history, vars, device
  <1>2. still = 0 /\ key_50ms = Off /\ callback = "idle"
    BY <1>0, <1>1 DEF DriverInv
  <1>3. \/ key_level = 1 /\ intr' = "POSEDGE" /\ UNCHANGED key_50ms
        \/ key_level = 0 /\ intr' = "DISABLE" /\ key_50ms' = 1
    BY DEF Interrupt, Driver!KeyIntrHandler
  <1>4. key_level' = 0
    BY DEF Interrupt, Driver!KeyIntrHandler
  <1>5. DriverInv' /\ SeenInv'
    BY <1>1, <1>2, <1>3, <1>4 DEF DriverInv, SeenInv
  <1>6. CountInv'
    <2> SUFFICES ASSUME before \in Bit PROVE CountInv'
      BY <1>1 DEF CountInv
    <2>2. /\ pc[Remote] \in {"idle", "report"} /\ (low > 0 <=> level = 0)
          /\ (still # 0 => pin = level) /\ (ToReport \/ Reported)
      BY <1>0 DEF CountInv
    <2>3. CASE ToReport
      BY <1>1, <1>2, <1>3, <1>4, <2>2, <2>3 DEF CountInv, ToReport, TimerTaskFree
    <2>4. CASE Reported
      BY <1>1, <1>2, <1>3, <2>2, <2>4 DEF CountInv, Reported
    <2> QED
      BY <2>2, <2>3, <2>4
  <1> QED
    BY <1>5, <1>6 DEF PressInv

\* The callback of a press that counts finds the key at rest, and after the release
\* finds it up.
LEMMA PressCallback ==
    ASSUME KeyTypeOK, PressInv, Callback
    PROVE  PressInv'
  <1> USE DEF KeyTypeOK, Driver!TypeOK, Off, Driver!Off
  <1>0. DriverInv /\ SeenInv /\ CountInv
    BY DEF PressInv
  <1>1. TimerTaskFree /\ UNCHANGED <<before, status, relay, pc, value>>
    BY DEF Callback, vars, device
  <1>2. before \in Bit => /\ pc[Remote] \in {"idle", "report"} /\ (low > 0 <=> level = 0)
                          /\ (still # 0 => pin = level) /\ (ToReport \/ Reported)
    BY <1>0 DEF CountInv
  <1>3. CASE Driver!Key5sCb
    BY <1>0, <1>1, <1>3 DEF Driver!Key5sCb, PressInv, DriverInv, SeenInv, CountInv, ToReport,
           Reported, TimerTaskFree
  <1>4. CASE Driver!Key50msCb
    <2>1. /\ key_50ms = 0 /\ callback = "idle" /\ key_50ms' = Off
          /\ UNCHANGED <<pin, intr, pending, level, still, low>>
      BY <1>4 DEF Driver!Key50msCb, Driver!history
    <2>2. key_level = 0 /\ intr = "DISABLE" /\ ~pending
      BY <1>0, <2>1 DEF DriverInv
    <2>3. before \in Bit => ToReport /\ still = 1 /\ pin = level
      BY <1>2, <2>1 DEF ToReport, Reported
    <2>4. CASE pin = 1
      <3>1. callback' = "up" /\ key_level' = 1
        BY <1>4, <2>4 DEF Driver!Key50msCb, Driver!Reads, Driver!KeyIsUp
      <3>2. DriverInv' /\ SeenInv'
        BY <1>1, <2>1, <2>2, <2>4, <3>1 DEF DriverInv, SeenInv, TimerTaskFree
      <3>3. CountInv'
        BY <1>1, <1>2, <2>1, <2>3, <2>4, <3>1 DEF CountInv, ToReport, TimerTaskFree
      <3> QED
        BY <3>2, <3>3 DEF PressInv
    <2>5. CASE pin = 0
      <3>1. callback' = "down" /\ key_level' = 0
        BY <1>4, <2>2, <2>5 DEF Driver!Key50msCb, Driver!Reads
      <3>2. DriverInv' /\ SeenInv'
        BY <1>1, <2>1, <2>2, <2>5, <3>1 DEF DriverInv, SeenInv, TimerTaskFree
      <3>3. CountInv'
        BY <1>1, <1>2, <2>1, <2>3, <2>5, <3>1 DEF CountInv, ToReport, TimerTaskFree
      <3> QED
        BY <3>2, <3>3 DEF PressInv
    <2> QED
      BY <2>4, <2>5
  <1>5. CASE Driver!Key50msCbEnds /\ callback = "down"
    <2>1. /\ callback' = "idle" /\ intr' = "POSEDGE"
          /\ UNCHANGED <<pin, pending, key_level, key_50ms, level, still, low>>
      BY <1>5 DEF Driver!Key50msCbEnds, Driver!Enable
    <2>2. key_level = 0 /\ key_50ms = Off /\ ~pending
      BY <1>0, <1>5 DEF DriverInv
    <2>3. DriverInv' /\ SeenInv'
      BY <2>1, <2>2 DEF DriverInv, SeenInv
    <2>4. before \in Bit => ToReport /\ level = 0 /\ still = 1
      BY <1>2, <1>5, <2>2 DEF ToReport, Reported
    <2>5. CountInv'
      BY <1>1, <1>2, <2>1, <2>2, <2>4 DEF CountInv, ToReport, TimerTaskFree
    <2> QED
      BY <2>3, <2>5 DEF PressInv
  <1> QED
    BY <1>3, <1>4, <1>5 DEF Callback

\* The press is reported: the plug is to be what it was not, and the driver waits for
\* the next.
LEMMA PressIsReported ==
    ASSUME TypeOK, KeyTypeOK, PressInv, ShortPressReported
    PROVE  PressInv'
  <1> USE DEF KeyTypeOK, Driver!TypeOK, Off, Driver!Off
  <1>0. DriverInv /\ SeenInv /\ CountInv
    BY DEF PressInv
  <1>1. /\ callback = "up" /\ callback' = "idle" /\ intr' = "NEGEDGE"
        /\ UNCHANGED <<pin, pending, key_level, key_50ms, level, still, low, before>>
    BY DEF ShortPressReported, Driver!Key50msCbEnds, Driver!Enable
  <1>2. /\ UNCHANGED <<status, relay>>
        /\ pc' = [pc EXCEPT ![Key] = "compare"] /\ value' = [value EXCEPT ![Key] = 1 - status]
    BY DEF ShortPressReported, ShortPress, Begin, Goto, device
  <1>3. pc'[Key] = "compare" /\ pc'[Remote] = pc[Remote] /\ value'[Key] = 1 - status
    BY <1>2 DEF TypeOK, Actors, Remote, Key
  <1>4. key_level = 1 /\ key_50ms = Off /\ ~pending
    BY <1>0, <1>1 DEF DriverInv
  <1>5. DriverInv' /\ SeenInv'
    BY <1>0, <1>1, <1>4 DEF DriverInv, SeenInv
  <1>6. CountInv'
    <2> SUFFICES ASSUME before \in Bit PROVE CountInv'
      BY <1>1 DEF CountInv
    <2>1. /\ pc[Remote] \in {"idle", "report"} /\ (low > 0 <=> level = 0)
          /\ (still # 0 => pin = level) /\ ToReport
      BY <1>0, <1>1 DEF CountInv, Reported
    <2>2. pin = 1 /\ still = 1 /\ level = 1
      BY <1>0, <1>1, <2>1 DEF SeenInv, ToReport, Bit, Missed
    <2>3. Reported'
      BY <1>1, <1>2, <1>3, <1>4, <2>1, <2>2 DEF Reported, ToReport
    <2> QED
      BY <1>1, <1>3, <2>1, <2>2, <2>3 DEF CountInv
  <1> QED
    BY <1>5, <1>6 DEF PressInv

\* Time passes with the timer task free: a press begins, goes on, or ends with its
\* callback due.
LEMMA PressTick ==
    ASSUME Driver!Clean, TypeOK, KeyTypeOK, PressInv, PromptTick
    PROVE  PressInv'
  <1> USE LongTicksAssumption, SettledAssumption
      DEF KeyTypeOK, Driver!TypeOK, Driver!Clean, Off, Driver!Off, Driver!LowMax
  <1>0. DriverInv /\ SeenInv /\ CountInv
    BY DEF PressInv
  <1>1. /\ ~pending /\ callback = "idle" /\ key_50ms # 0
        /\ still # 0 \/ pin # level
        /\ level' = pin
        /\ UNCHANGED <<pin, intr, pending, key_level, callback>>
    BY DEF PromptTick, Driver!Tick
  <1>2. key_50ms' = (IF key_50ms = 1 THEN 0 ELSE Off)
    BY <1>1 DEF PromptTick, Driver!Tick, Driver!Later
  <1>3. still' # 0 /\ (still = 0 => still' = 1)
    BY DEF PromptTick, Driver!Tick, Driver!Capped
  <1>4. low' > 0 <=> pin = 0
    BY DEF PromptTick, Driver!Tick, Driver!Capped
  <1>5. TimerTaskFree /\ before' = Begun /\ UNCHANGED <<status, relay, pc, value>>
    BY DEF PromptTick, vars, device
  <1>6. key_50ms = 1 => still = 0 /\ key_level = 0
    BY <1>0 DEF DriverInv
  <1>7. DriverInv' /\ SeenInv'
    BY <1>0, <1>1, <1>2, <1>4 DEF DriverInv, SeenInv
  <1>8. CASE pin = 0 /\ low = 0
    <2> SUFFICES ASSUME before' \in Bit PROVE CountInv'
      BY <1>7 DEF CountInv, PressInv
    <2>1. Idle /\ relay = status /\ before # Missed /\ before' = relay
      BY <1>5, <1>8 DEF Begun, Bit, Lost
    <2>2. key_level = 0
      BY <1>0, <1>1, <1>8, <2>1 DEF SeenInv
    <2>3. pc[Remote] = "idle"
      BY <2>1 DEF Idle, Actors
    <2>4. ToReport'
      BY <1>1, <1>2, <1>3, <1>5, <1>6, <1>8, <2>1, <2>2 DEF ToReport, TimerTaskFree
    <2> QED
      BY <1>1, <1>4, <1>5, <2>3, <2>4 DEF CountInv
  <1>9. CASE ~(pin = 0 /\ low = 0)
    <2> SUFFICES ASSUME before' \in Bit PROVE CountInv'
      BY <1>7 DEF CountInv, PressInv
    <2>1. before' = before
      BY <1>5, <1>9 DEF Begun
    <2>2. /\ pc[Remote] \in {"idle", "report"} /\ (low > 0 <=> level = 0)
          /\ (still # 0 => pin = level) /\ (ToReport \/ Reported)
      BY <1>0, <2>1 DEF CountInv
    <2>3. CASE ToReport
      <3>1. level = 0 /\ key_level = 0
        BY <1>1, <2>3 DEF ToReport
      <3>2. pin = 1 => key_50ms = 1
        BY <1>1, <2>2, <2>3, <3>1 DEF ToReport
      <3>3. ToReport'
        BY <1>1, <1>2, <1>3, <1>5, <1>6, <2>1, <2>3, <3>1, <3>2 DEF ToReport, TimerTaskFree
      <3> QED
        BY <1>1, <1>4, <1>5, <2>1, <2>2, <3>3 DEF CountInv
    <2>4. CASE Reported
      <3>1. level = 1 /\ pin = 1 /\ still # 0
        BY <1>1, <1>9, <2>2, <2>4 DEF Reported
      <3>2. Reported'
        BY <1>1, <1>2, <1>3, <1>5, <2>1, <2>4, <3>1 DEF Reported
      <3> QED
        BY <1>1, <1>4, <1>5, <2>1, <2>2, <3>2 DEF CountInv
    <2> QED
      BY <2>2, <2>3, <2>4
  <1> QED
    BY <1>7, <1>8, <1>9 DEF PressInv

\* Time passes while a press is carried out: another that begins does not count.
LEMMA PressBusyTick ==
    ASSUME Driver!Clean, KeyTypeOK, PressInv, BusyTick
    PROVE  PressInv'
  <1> USE LongTicksAssumption, SettledAssumption
      DEF KeyTypeOK, Driver!TypeOK, Driver!Clean, Off, Driver!Off, Driver!LowMax
  <1>0. DriverInv /\ SeenInv /\ CountInv
    BY DEF PressInv
  <1>1. /\ ~pending /\ ~TimerTaskFree
        /\ still # 0 \/ pin # level
        /\ level' = pin /\ before' = Begun
        /\ UNCHANGED <<pin, intr, pending, key_level, callback, status, relay, pc, value>>
    BY DEF BusyTick, vars, device
  <1>2. callback = "idle"
    BY <1>0, <1>1 DEF DriverInv
  <1>3. key_50ms' = (IF key_50ms = Off THEN Off ELSE 0)
    BY DEF BusyTick, Late, Driver!Later
  <1>4. still' # 0
    BY DEF BusyTick, Driver!Capped
  <1>5. low' > 0 <=> pin = 0
    BY DEF BusyTick, Driver!Capped
  <1>6. DriverInv' /\ SeenInv'
    BY <1>0, <1>1, <1>2, <1>3, <1>5 DEF DriverInv, SeenInv
  <1>7. CountInv'
    <2> SUFFICES ASSUME before' \in Bit PROVE CountInv'
      BY DEF CountInv
    <2>1. ~Idle
      BY <1>1 DEF Idle, TimerTaskFree, Actors
    <2>2. ~(pin = 0 /\ low = 0) /\ before' = before
      BY <1>1, <2>1 DEF Begun, Bit, Lost
    <2>3. /\ pc[Remote] \in {"idle", "report"} /\ (low > 0 <=> level = 0)
          /\ (still # 0 => pin = level) /\ Reported
      BY <1>0, <1>1, <2>2 DEF CountInv, ToReport
    <2>4. level = 1 /\ pin = 1 /\ still # 0
      BY <1>1, <2>2, <2>3 DEF Reported
    <2>5. Reported'
      BY <1>1, <1>2, <1>3, <1>4, <2>2, <2>3, <2>4 DEF Reported
    <2> QED
      BY <1>1, <1>5, <2>2, <2>3, <2>5 DEF CountInv
  <1> QED
    BY <1>6, <1>7 DEF PressInv

\* A step of the plug's in which the timer task stays where it is, and the relay as it
\* is, leaves the press as it is.
LEMMA PressApart ==
    ASSUME PressInv, UNCHANGED <<keyVars, status, relay>>,
           pc'[Key] = pc[Key], value'[Key] = value[Key],
           \/ UNCHANGED before /\ pc'[Remote] \in {pc[Remote], "idle", "report"}
           \/ before' = IF before = Missed THEN Missed ELSE Lost
    PROVE  PressInv'
  <1>0. DriverInv /\ SeenInv /\ CountInv
    BY DEF PressInv
  <1>1. UNCHANGED <<pin, intr, pending, key_level, key_50ms, callback, level, still, low>>
    BY DEF keyVars
  <1>2. TimerTaskFree' = TimerTaskFree
    BY DEF TimerTaskFree
  <1>3. DriverInv' /\ SeenInv'
    BY <1>0, <1>1, <1>2 DEF DriverInv, SeenInv
  <1>4. CASE UNCHANGED before /\ pc'[Remote] \in {pc[Remote], "idle", "report"}
    <2>1. ToReport => ToReport'
      BY <1>1, <1>2, <1>4 DEF ToReport
    <2>2. Reported => Reported'
      BY <1>1, <1>4 DEF Reported
    <2> QED
      BY <1>0, <1>1, <1>3, <1>4, <2>1, <2>2 DEF CountInv, PressInv
  <1>5. CASE before' = IF before = Missed THEN Missed ELSE Lost
    BY <1>3, <1>5 DEF CountInv, PressInv, Bit, Lost, Missed
  <1> QED
    BY <1>4, <1>5

\* The press is carried out: nothing but its own steps, and a report, come between.
LEMMA PressOperates ==
    ASSUME TypeOK, PressInv, Operates
    PROVE  PressInv'
  <1>0. DriverInv /\ SeenInv /\ CountInv /\ UNCHANGED <<keyVars, before>>
    BY DEF PressInv, Operates, KeyUnchanged
  <1>1. ASSUME NEW a \in Actors, Compare(a) \/ Store(a) \/ Output(a) \/ Report(a)
        PROVE  /\ pc[a] # "idle" /\ UNCHANGED value
               /\ \A b \in Actors \ {a} : pc'[b] = pc[b]
    BY <1>1 DEF Compare, Store, Output, Report, Goto, TypeOK
  <1>2. ASSUME pc[Key] # "idle", UNCHANGED value, pc'[Remote] = pc[Remote],
               before \in Bit /\ Reported => Reported'
        PROVE  PressInv'
    <2>1. UNCHANGED <<pin, intr, pending, key_level, key_50ms, callback, level, still, low>>
      BY <1>0 DEF keyVars
    <2>2. callback = "idle" /\ ~TimerTaskFree
      BY <1>0, <1>2 DEF DriverInv, TimerTaskFree
    <2>3. DriverInv' /\ SeenInv'
      BY <1>0, <2>1, <2>2 DEF DriverInv, SeenInv
    <2>4. ~ToReport
      BY <2>2 DEF ToReport
    <2> QED
      BY <1>0, <1>2, <2>1, <2>3, <2>4 DEF CountInv, PressInv
  <1>3. ASSUME Compare(Remote) \/ Store(Remote) \/ Output(Remote) \/ Report(Remote)
        PROVE  PressInv'
    <2>1. pc'[Key] = pc[Key] /\ UNCHANGED value /\ pc[Remote] # "idle"
      BY <1>1, <1>3 DEF Actors, Remote, Key
    <2>2. CASE Report(Remote)
      <3>1. UNCHANGED <<status, relay>> /\ pc'[Remote] = "idle"
        BY <2>2 DEF Report, Goto, Saves, TypeOK, Actors, Remote, Key, device
      <3> QED
        BY <1>0, <2>1, <3>1, PressApart
    <2>3. CASE ~Report(Remote)
      <3>1. pc[Remote] \notin {"idle", "report"}
        BY <1>3, <2>3 DEF Compare, Store, Output, Goto
      <3>2. before \notin Bit
        BY <1>0, <3>1 DEF CountInv
      <3>3. UNCHANGED <<pin, intr, pending, key_level, key_50ms, callback, level, still, low>>
        BY <1>0 DEF keyVars
      <3>4. DriverInv' /\ SeenInv'
        BY <1>0, <2>1, <3>3 DEF DriverInv, SeenInv, TimerTaskFree
      <3> QED
        BY <1>0, <3>2, <3>4 DEF CountInv, PressInv
    <2> QED
      BY <2>2, <2>3
  <1>4. ASSUME Compare(Key) \/ Store(Key) \/ Output(Key) \/ Report(Key)
        PROVE  PressInv'
    <2>1. pc'[Remote] = pc[Remote] /\ UNCHANGED value /\ pc[Key] # "idle"
      BY <1>1, <1>4 DEF Actors, Remote, Key
    <2>2. UNCHANGED <<level, callback, still, key_50ms, key_level, before>>
      BY <1>0 DEF keyVars
    <2>3. ASSUME before \in Bit, Reported PROVE Reported'
      <3>0. pc \in [Actors -> Labels] /\ Key \in Actors /\ before # 1 - before
        BY <2>3 DEF TypeOK, Actors, Bit
      <3>1. CASE Compare(Key)
        <4>1. pc[Key] = "compare" /\ UNCHANGED <<status, relay>>
          BY <3>1 DEF Compare, Goto, device
        <4>2. value[Key] = 1 - before /\ status = before /\ relay = before
          BY <2>3, <4>1 DEF Reported
        <4>3. pc'[Key] = "store"
          BY <3>0, <3>1, <4>2 DEF Compare, Goto
        <4> QED
          BY <2>1, <2>2, <2>3, <4>1, <4>2, <4>3 DEF Reported
      <3>2. CASE Store(Key)
        <4>1. /\ pc[Key] = "store" /\ pc'[Key] = "output"
              /\ status' = value[Key] /\ UNCHANGED relay
          BY <3>0, <3>2 DEF Store, Goto
        <4> QED
          BY <2>1, <2>2, <2>3, <4>1 DEF Reported
      <3>3. CASE Output(Key)
        <4>1. /\ pc[Key] = "output" /\ pc'[Key] = "report"
              /\ relay' = value[Key] /\ UNCHANGED status
          BY <3>0, <3>3 DEF Output, Goto
        <4> QED
          BY <2>1, <2>2, <2>3, <4>1 DEF Reported
      <3>4. CASE Report(Key)
        <4>1. /\ pc[Key] = "report" /\ pc'[Key] = "erase" /\ UNCHANGED <<status, relay>>
          BY <3>0, <3>4 DEF Report, Goto, Saves, device
        <4> QED
          BY <2>1, <2>2, <2>3, <4>1 DEF Reported
      <3> QED
        BY <1>4, <3>1, <3>2, <3>3, <3>4
    <2> QED
      BY <1>2, <2>1, <2>3
  <1>5. CASE EraseSector \/ WriteSector
    <2>1. /\ pc[Key] \in {"erase", "write"} /\ UNCHANGED <<status, relay, value>>
          /\ pc'[Key] \in {"write", "idle"} /\ pc'[Remote] = pc[Remote]
      BY <1>5 DEF EraseSector, WriteSector, Goto, TypeOK, Actors, Remote, Key
    <2>2. UNCHANGED <<level, callback, still, key_50ms, key_level, before>>
      BY <1>0 DEF keyVars
    <2>3. Reported => Reported'
      BY <2>1, <2>2 DEF Reported
    <2> QED
      BY <1>2, <2>1, <2>3
  <1> QED
    BY <1>3, <1>4, <1>5 DEF Operates, Actors

\* So every step keeps the invariant.
LEMMA PressStep ==
    ASSUME Driver!Clean, TypeOK, KeyTypeOK, PressInv, [SmartNext]_smartVars
    PROVE  PressInv'
  <1>1. CASE PowerFails \/ CrashOnReport \/ LongPressRestarts
    BY <1>1, PressRestart DEF PowerFails, CrashOnReport, LongPressRestarts
  <1>2. CASE ClientWorks
    <2>1. CASE ClientStarts \/ Dequeue
      BY <1>2, <2>1, PressApart DEF ClientWorks, ClientStarts, Dequeue, KeyUnchanged, device
    <2>2. CASE PlugGet
      <3>1. /\ UNCHANGED <<status, relay>>
            /\ pc' = [pc EXCEPT ![Remote] = "report"]
            /\ value' = [value EXCEPT ![Remote] = status]
        BY <2>2 DEF PlugGet, Begin, Goto, device
      <3>2. pc'[Key] = pc[Key] /\ value'[Key] = value[Key] /\ pc'[Remote] = "report"
        BY <3>1 DEF TypeOK, Actors, Remote, Key
      <3> QED
        BY <1>2, <3>1, <3>2, PressApart DEF ClientWorks, KeyUnchanged
    <2> QED
      BY <1>2, <2>1, <2>2 DEF ClientWorks
  <1>3. CASE Command
    <2>1. PICK n \in 0 .. 2 : PlugSet(n)
      BY <1>3 DEF Command
    <2>2. /\ UNCHANGED <<status, relay>>
          /\ pc' = [pc EXCEPT ![Remote] = "compare"]
          /\ value' = [value EXCEPT ![Remote] = IF n = 0 THEN 0 ELSE 1]
      BY <2>1 DEF PlugSet, Begin, Goto, device
    <2>3. pc'[Key] = pc[Key] /\ value'[Key] = value[Key]
      BY <2>2 DEF TypeOK, Actors, Remote, Key
    <2> QED
      BY <1>3, <2>2, <2>3, PressApart DEF Command
  <1>4. CASE UNCHANGED smartVars
    BY <1>4, PressApart DEF smartVars, vars, device
  <1> QED
    BY <1>1, <1>2, <1>3, <1>4, PressContact, PressInterrupt, PressCallback, PressIsReported,
       PressTick, PressBusyTick, PressOperates DEF SmartNext

LEMMA PressInit == SmartInit => PressInv
  <1> SUFFICES ASSUME SmartInit PROVE PressInv
    OBVIOUS
  <1>1. ~pending
    BY Zenon DEF SmartInit, Driver!Init
  <1> QED
    BY <1>1, SettledAssumption DEF SmartInit, Driver!Init, PressInv, DriverInv, SeenInv, CountInv,
       Driver!Off, Off, Bit, Lost

\* From the contact to the relay, for long presses of every length, queues of every
\* length and presses that take any time to carry out: a press that nothing overlaps
\* turns the relay, and turns it once.
THEOREM TurnsOnceHolds == ASSUME Driver!Clean PROVE SmartSpec => []TurnsOnce
  <1>1. TypeOK /\ KeyTypeOK /\ PressInv /\ [SmartNext]_smartVars => PressInv'
    BY PressStep
  <1>2. KeyTypeOK /\ PressInv => TurnsOnce
    <2> SUFFICES ASSUME KeyTypeOK, PressInv, Quiet, before \in Bit, low = 0 PROVE relay = 1 - before
      BY DEF TurnsOnce
    <2>1. level = 1 /\ (ToReport \/ Reported)
      BY DEF PressInv, CountInv, KeyTypeOK, Driver!TypeOK
    <2>2. ~ToReport
      BY <2>1 DEF ToReport, Quiet, Off, Driver!Off
    <2>3. pc[Key] = "idle"
      BY DEF Quiet, Idle, Actors
    <2> QED
      BY <2>1, <2>2, <2>3 DEF Reported
  <1>3. IInv /\ KeyTypeOK /\ KeyAlive => TypeOK /\ KeyTypeOK
    BY DEF IInv
  <1> QED
    BY <1>1, <1>2, <1>3, PressInit, SmartImplementsPlug, IInvHolds, KeyAliveHolds, PTL
       DEF SmartSpec
=============================================================================
