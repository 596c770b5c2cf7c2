--------------------------- MODULE KeyDriverProofs ---------------------------
(***************************************************************************)
(* Proofs about KeyDriver for every length of a long press and every       *)
(* behaviour of the contact.                                               *)
(***************************************************************************)
EXTENDS KeyDriver, TLAPS

\* The driver starts with everything in its type.
LEMMA TypeInit == Init => TypeOK
  <1> SUFFICES ASSUME Init PROVE TypeOK
    OBVIOUS
  <1>1. pending \in BOOLEAN /\ longDone \in BOOLEAN
    BY Zenon DEF Init
  <1> QED
    BY <1>1, LongTicksAssumption, SettledAssumption DEF Init, TypeOK, Off, LowMax

\* Each step of the key, its timers and its interrupt keeps the types.
LEMMA TypeStep == TypeOK /\ [Next]_vars => TypeOK'
  <1> SUFFICES ASSUME TypeOK, [Next]_vars PROVE TypeOK'
    OBVIOUS
  <1> USE LongTicksAssumption, SettledAssumption DEF TypeOK, Off, LowMax
  <1>1. CASE PinMoves
    <2>1. pending' \in BOOLEAN
      BY <1>1, Zenon DEF PinMoves
    <2> QED
      BY <1>1, <2>1 DEF PinMoves
  <1>2. CASE KeyIntrHandler
    <2>1. pending' \in BOOLEAN
      BY <1>2, Zenon DEF KeyIntrHandler
    <2>2. UNCHANGED <<pin, callback, level, still, low, owed, longDone>>
      BY <1>2 DEF KeyIntrHandler, history
    <2>3. /\ key_level' \in {0, 1}
          /\ key_5s' \in Off .. LongTicks /\ key_50ms' \in Off .. 1
          /\ intr' \in {"NEGEDGE", "POSEDGE", "DISABLE"}
      BY <1>2 DEF KeyIntrHandler
    <2> QED
      BY <2>1, <2>2, <2>3
  <1>3. CASE Key5sCb
    <2>1. longDone' \in BOOLEAN
      BY <1>3, Zenon DEF Key5sCb, LongPress
    <2> QED
      BY <1>3, <2>1 DEF Key5sCb
  <1>4. CASE Key50msCb
    <2>1. UNCHANGED <<pin, intr, pending, level, still, low, owed, longDone>>
      BY <1>4 DEF Key50msCb, history
    <2>2. key_50ms' = Off /\ callback' \in {"idle", "up", "down"}
      BY <1>4 DEF Key50msCb, Reads
    <2>3. key_5s' \in Off .. LongTicks /\ key_level' \in {0, 1}
      BY <1>4 DEF Key50msCb, KeyIsUp
    <2> QED
      BY <2>1, <2>2, <2>3
  <1>5. CASE Key50msCbEnds
    BY <1>5 DEF Key50msCbEnds, ShortPress, Enable
  <1>6. CASE Tick
    <2>1. longDone' \in BOOLEAN
      BY <1>6, Zenon DEF Tick
    <2>2. key_5s' \in Off .. LongTicks /\ key_50ms' \in Off .. 1
      BY <1>6 DEF Tick, Later
    <2>3. /\ still' \in 0 .. Settled
          /\ low' \in 0 .. LowMax /\ owed' \in 0 .. LowMax
      BY <1>6 DEF Tick, Capped
    <2> QED
      BY <1>6, <2>1, <2>2, <2>3 DEF Tick
  <1>7. CASE UNCHANGED vars
    BY <1>7 DEF vars, driver, history
  <1> QED
    BY <1>1, <1>2, <1>3, <1>4, <1>5, <1>6, <1>7 DEF Next

\* No timer of the key counts below "off" and no history variable leaves its range.
THEOREM TypeCorrect == Spec => []TypeOK
  BY TypeInit, TypeStep, PTL DEF Spec

\* No step leaves the interrupt disabled without a callback to come.
LEMMA DisableStep == KeyNeverDead /\ [Next]_vars => KeyNeverDead'
  <1> SUFFICES ASSUME KeyNeverDead, [Next]_vars
               PROVE  intr' = "DISABLE" => key_50ms' # Off \/ callback' # "idle"
    BY DEF KeyNeverDead
  <1>0. intr = "DISABLE" => key_50ms # Off \/ callback # "idle"
    BY DEF KeyNeverDead
  <1>1. CASE PinMoves
    BY <1>0, <1>1 DEF PinMoves
  <1>2. CASE KeyIntrHandler
    <2>1. CASE key_level = 1 /\ intr' = "POSEDGE"
      BY <2>1
    <2>2. CASE key_50ms' = 1
      BY <2>2 DEF Off
    <2> QED
      BY <1>2, <2>1, <2>2 DEF KeyIntrHandler
  <1>3. CASE Key5sCb
    BY <1>0, <1>3 DEF Key5sCb
  <1>4. CASE Key50msCb
    <2>1. callback' = Reads
      BY <1>4 DEF Key50msCb
    <2>2. Reads # "idle"
      BY DEF Reads
    <2> QED
      BY <2>1, <2>2
  <1>5. CASE Key50msCbEnds
    <2>1. intr' = Enable
      BY <1>5 DEF Key50msCbEnds
    <2>2. Enable # "DISABLE"
      BY DEF Enable
    <2> QED
      BY <2>1, <2>2
  <1>6. CASE Tick
    <2>1. UNCHANGED <<intr, callback>> /\ key_50ms' = Later(key_50ms) /\ key_50ms # 0
      BY <1>6 DEF Tick
    <2>2. ASSUME key_50ms # Off PROVE Later(key_50ms) # Off
      BY <2>1, <2>2 DEF Later, Off
    <2> QED
      BY <1>0, <2>1, <2>2
  <1>7. CASE UNCHANGED vars
    BY <1>0, <1>7 DEF vars, driver
  <1> QED
    BY <1>1, <1>2, <1>3, <1>4, <1>5, <1>6, <1>7 DEF Next

\* The key never goes dead: when the interrupt is disabled, the callback that
\* enables it again is due or running, whatever the contact does.
THEOREM KeyNeverDeadHolds == Spec => []KeyNeverDead
  <1>1. Init => KeyNeverDead
    BY DEF Init, KeyNeverDead
  <1> QED
    BY <1>1, DisableStep, PTL DEF Spec

----------------------------------------------------------------------------
\* With a contact that rests for 100 ms, the callback that follows a movement runs
\* while the contact rests: each action keeps Debounced.
LEMMA DebouncedStep ==
    ASSUME Settled >= 2, TypeOK, Debounced, [Next]_vars
    PROVE  Debounced'
  <1> USE SettledAssumption, LongTicksAssumption DEF TypeOK, Off
  <1>1. CASE PinMoves
    <2>1. callback = "idle" /\ key_50ms # 0 /\ owed = 0
      BY <1>1 DEF PinMoves, Debounced
    <2>2. /\ pin' = 1 - pin /\ still' = 0
          /\ UNCHANGED <<intr, key_level, key_50ms, callback, level, low, owed>>
      BY <1>1 DEF PinMoves
    <2>3. ASSUME intr = IF pin = 1 THEN "NEGEDGE" ELSE "POSEDGE" PROVE pending'
      BY <1>1, <2>3, Zenon DEF PinMoves
    <2>4. ASSUME pending PROVE pending'
      BY <1>1, <2>4, Zenon DEF PinMoves
    <2>5. key_level' = 1 => level' = 1 /\ (pin' = 1 \/ pending')
      BY <2>1, <2>2, <2>3 DEF Debounced
    <2>6. level' = 0 /\ still' = 0 => pending' \/ key_50ms' = 1
      <3>1. SUFFICES ASSUME level = 0, ~pending, key_50ms # 1 PROVE pending'
        BY <2>2, <2>4
      <3>2. key_level = 0 /\ pin = 0 /\ intr = "POSEDGE"
        BY <2>1, <3>1 DEF Debounced
      <3> QED
        BY <2>3, <3>2
    <2> QED
      BY <2>1, <2>2, <2>5, <2>6 DEF Debounced
  <1>2. CASE KeyIntrHandler
    <2>1. /\ pending /\ ~pending'
          /\ UNCHANGED <<pin, callback, level, still, low, owed>>
      BY <1>2, Zenon DEF KeyIntrHandler, history
    <2>2. still = 0 /\ callback = "idle" /\ key_50ms # 0 /\ owed = 0
      BY <2>1 DEF Debounced
    <2>3. CASE key_level = 1
      <3>1. key_level' = 0 /\ intr' = "POSEDGE" /\ UNCHANGED key_50ms /\ level = 1
        BY <1>2, <2>3 DEF KeyIntrHandler, Debounced
      <3> QED
        BY <2>1, <2>2, <3>1 DEF Debounced
    <2>4. CASE key_level = 0
      <3>1. key_level' = 0 /\ key_50ms' = 1
        BY <1>2, <2>4 DEF KeyIntrHandler
      <3> QED
        BY <2>1, <2>2, <3>1 DEF Debounced
    <2> QED
      BY <2>3, <2>4
  <1>3. CASE Key5sCb
    BY <1>3 DEF Key5sCb, Debounced
  <1>4. CASE Key50msCb
    <2>1. /\ key_50ms = 0 /\ key_50ms' = Off
          /\ UNCHANGED <<pin, intr, pending, level, still, low, owed>>
      BY <1>4 DEF Key50msCb, history
    <2>2. still = 1 /\ key_level = 0 /\ pin = level
      BY <2>1 DEF Debounced
    <2>3. CASE pin = 1
      <3>1. callback' = "up" /\ key_level' = 1
        BY <1>4, <2>3 DEF Key50msCb, Reads, KeyIsUp
      <3> QED
        BY <2>1, <2>2, <2>3, <3>1 DEF Debounced
    <2>4. CASE pin = 0
      <3>1. callback' = "down" /\ key_level' = 0
        BY <1>4, <2>2, <2>4 DEF Key50msCb, Reads
      <3>2. owed = 0
        BY <2>4 DEF Debounced
      <3> QED
        BY <2>1, <2>2, <2>4, <3>1, <3>2 DEF Debounced
    <2> QED
      BY <2>3, <2>4
  <1>5. CASE Key50msCbEnds
    <2>1. /\ callback # "idle" /\ callback' = "idle" /\ intr' = Enable
          /\ UNCHANGED <<pin, pending, key_level, key_50ms, level, still, low>>
      BY <1>5 DEF Key50msCbEnds
    <2>2. owed' = 0
      BY <1>5 DEF Key50msCbEnds, ShortPress, Debounced
    <2> QED
      BY <2>1, <2>2 DEF Debounced, Enable
  <1>6. CASE Tick
    <2>1. /\ ~pending /\ callback = "idle" /\ key_50ms # 0
          /\ key_50ms' = Later(key_50ms) /\ still' = Capped(still, Settled)
          /\ level' = pin /\ low' = IF pin = 0 THEN Capped(low, LowMax) ELSE 0
          /\ owed' = IF pin = 1 /\ low > 0 THEN low ELSE owed
          /\ UNCHANGED <<pin, intr, pending, key_level, callback>>
      BY <1>6 DEF Tick
    <2>2. still' # 0 /\ (still = 0 => still' = 1)
      BY <2>1 DEF Capped
    <2>3. low' > 0 <=> level' = 0
      BY <2>1 DEF Capped, LowMax
    <2>4. owed = 0
      BY <2>1 DEF Debounced
    <2>5. key_level = 1 => pin = 1
      BY <2>1 DEF Debounced
    <2>6. key_50ms' = (IF key_50ms = 1 THEN 0 ELSE Off)
      BY <2>1 DEF Later
    <2>7. owed' # 0 => pin = 1 /\ still' = 1 /\ key_50ms' = 0
      <3>1. SUFFICES ASSUME owed' # 0 PROVE pin = 1 /\ still = 0 /\ key_50ms = 1
        BY <2>2, <2>6
      <3>2. pin = 1 /\ level = 0
        BY <2>1, <2>4, <3>1 DEF Debounced
      <3> QED
        BY <2>1, <3>2 DEF Debounced
    <2> QED
      BY <2>1, <2>2, <2>3, <2>5, <2>6, <2>7 DEF Debounced
  <1>7. CASE UNCHANGED vars
    BY <1>7 DEF vars, driver, history, Debounced
  <1> QED
    BY <1>1, <1>2, <1>3, <1>4, <1>5, <1>6, <1>7 DEF Next

LEMMA DebouncedInit == Init => Debounced
  BY SettledAssumption DEF Init, Debounced, Off

\* If besides each movement is a press or a release, the 5 s timer runs exactly as
\* long as the key is down: each action keeps Timed.
LEMMA TimedStep ==
    ASSUME Clean, TypeOK, Debounced, Timed, [Next]_vars
    PROVE  Timed'
  <1> USE SettledAssumption, LongTicksAssumption DEF TypeOK, Off, Clean
  <1>1. CASE PinMoves
    <2>1. /\ still' = 0
          /\ UNCHANGED <<key_level, key_5s, key_50ms, callback, level, low, owed, longDone>>
      BY <1>1 DEF PinMoves
    <2>2. callback = "idle" /\ key_50ms # 0
      BY <1>1 DEF PinMoves, Debounced
    <2>3. key_level = 0 /\ level = 1 => still = 0
      BY <2>2 DEF Timed
    <2> QED
      BY <2>1, <2>2, <2>3 DEF Timed
  <1>2. CASE KeyIntrHandler
    <2>1. /\ pending
          /\ UNCHANGED <<pin, callback, level, still, low, owed, longDone>>
      BY <1>2 DEF KeyIntrHandler, history
    <2>2. still = 0 /\ callback = "idle"
      BY <2>1 DEF Debounced
    <2>3. CASE key_level = 1
      <3>1. key_level' = 0 /\ key_5s' = LongTicks /\ level = 1
        BY <1>2, <2>3 DEF KeyIntrHandler, Debounced
      <3> QED
        BY <2>1, <2>2, <3>1 DEF Timed
    <2>4. CASE key_level = 0
      <3>1. UNCHANGED <<key_level, key_5s>>
        BY <1>2, <2>4 DEF KeyIntrHandler
      <3> QED
        BY <2>1, <2>2, <2>4, <3>1 DEF Timed
    <2> QED
      BY <2>3, <2>4
  <1>3. CASE Key5sCb
    <2>1. /\ key_5s = 0 /\ callback = "idle" /\ key_5s' = Off
          /\ UNCHANGED <<pin, key_level, key_50ms, callback, level, still, low, owed>>
      BY <1>3 DEF Key5sCb
    <2>2. level = 0 => low = LongTicks
      BY <2>1 DEF Timed
    <2>3. pin = 0 => longDone'
      <3>1. pin = 0 => pin # 1
        OBVIOUS
      <3> QED
        BY <1>3, <3>1, Zenon DEF Key5sCb, LongPress
    <2>4. level = 0 /\ pin = 1 => still = 0
      BY DEF Debounced
    <2> QED
      BY <2>1, <2>2, <2>3, <2>4 DEF Timed
  <1>4. CASE Key50msCb
    <2>1. /\ key_50ms = 0 /\ key_50ms' = Off
          /\ UNCHANGED <<pin, level, still, low, owed, longDone>>
      BY <1>4 DEF Key50msCb, history
    <2>2. still = 1 /\ key_level = 0 /\ pin = level
      BY <2>1 DEF Debounced
    <2>3. CASE pin = 1
      <3>1. callback' = "up" /\ key_level' = 1 /\ key_5s' = Off
        BY <1>4, <2>3 DEF Key50msCb, Reads, KeyIsUp
      <3>2. owed # 0
        BY <2>2, <2>3 DEF Timed
      <3> QED
        BY <2>1, <2>2, <2>3, <3>1, <3>2 DEF Timed
    <2>4. CASE pin = 0
      <3>1. callback' = "down" /\ UNCHANGED <<key_level, key_5s>>
        BY <1>4, <2>4 DEF Key50msCb, Reads
      <3> QED
        BY <2>1, <2>2, <2>4, <3>1 DEF Timed
    <2> QED
      BY <2>3, <2>4
  <1>5. CASE Key50msCbEnds
    <2>1. /\ callback # "idle" /\ callback' = "idle"
          /\ UNCHANGED <<key_level, key_5s, key_50ms, level, still, low, longDone>>
      BY <1>5 DEF Key50msCbEnds
    <2>2. ~(key_level = 0 /\ level = 1)
      BY <2>1 DEF Debounced
    <2> QED
      BY <2>1, <2>2 DEF Timed
  <1>6. CASE Tick
    <2>1. /\ ~pending /\ callback = "idle" /\ key_5s # 0 /\ key_50ms # 0
          /\ still # 0 \/ pin # level
          /\ key_5s' = Later(key_5s) /\ key_50ms' = Later(key_50ms)
          /\ level' = pin /\ low' = IF pin = 0 THEN Capped(low, LowMax) ELSE 0
          /\ still' = Capped(still, Settled)
          /\ owed' = IF pin = 1 /\ low > 0 THEN low ELSE owed
          /\ UNCHANGED <<key_level, callback>>
      BY <1>6 DEF Tick
    <2>2. pin = 0 => longDone' = longDone
      BY <1>6, Zenon DEF Tick
    <2>3. still' # 0
      BY <2>1 DEF Capped
    <2>4. CASE key_level = 1
      <3>1. key_5s = Off /\ pin = 1
        BY <2>1, <2>4 DEF Debounced, Timed
      <3> QED
        BY <2>1, <2>4, <3>1 DEF Timed, Later
    <2>5. CASE key_level = 0 /\ pin = 1
      <3>1. level = 0
        BY <2>1, <2>5 DEF Timed
      <3>2. low > 0 /\ key_50ms = 1
        BY <2>1, <2>5, <3>1 DEF Debounced
      <3> QED
        BY <2>1, <2>3, <2>5, <3>2 DEF Timed, Later
    <2>6. CASE key_level = 0 /\ pin = 0
      <3>1. ASSUME level = 1 PROVE key_5s' = LongTicks - 1 /\ low' = 1
        <4>1. still = 0 /\ low = 0
          BY <2>6, <3>1 DEF Debounced
        <4>2. key_5s = LongTicks
          BY <2>6, <3>1, <4>1 DEF Timed
        <4> QED
          BY <2>1, <2>6, <4>1, <4>2 DEF Later, Capped, LowMax
      <3>2. ASSUME level = 0, key_5s # Off
            PROVE  key_5s' # Off /\ key_5s' + low' = LongTicks
        <4>1. key_5s + low = LongTicks /\ key_5s > 0
          BY <2>1, <3>2 DEF Timed
        <4> QED
          BY <2>1, <2>6, <3>2, <4>1 DEF Later, Capped, LowMax
      <3>3. ASSUME level = 0, key_5s = Off
            PROVE  key_5s' = Off /\ longDone'
        <4>1. longDone
          BY <2>1, <2>6, <3>3 DEF Timed
        <4> QED
          BY <2>1, <2>2, <2>6, <3>3, <4>1 DEF Later
      <3> QED
        BY <2>1, <2>6, <3>1, <3>2, <3>3 DEF Timed
    <2> QED
      BY <2>4, <2>5, <2>6
  <1>7. CASE UNCHANGED vars
    BY <1>7 DEF vars, driver, history, Timed
  <1> QED
    BY <1>1, <1>2, <1>3, <1>4, <1>5, <1>6, <1>7 DEF Next

LEMMA TimedInit == Init => Timed
  BY DEF Init, Timed, Off

\* Every press that lasts is reported within 100 ms of the release: after a release
\* the contact rests, the callback that finds the key up runs, and it reports.  This
\* needs nothing of the contact: one that never rests has no such release.
THEOREM PressesReportedHolds == Spec => []PressesReported
  <1>1. CASE Settled >= 2
    <2>1. Debounced => PressesReported
      BY DEF Debounced, PressesReported
    <2>2. TypeOK /\ Debounced /\ [Next]_vars => Debounced'
      BY <1>1, DebouncedStep
    <2> QED
      BY <2>1, <2>2, DebouncedInit, TypeCorrect, PTL DEF Spec
  <1>2. CASE ~(Settled >= 2)
    <2>1. TypeOK => PressesReported
      BY <1>2, SettledAssumption DEF TypeOK, PressesReported
    <2> QED
      BY <2>1, TypeCorrect, PTL
  <1> QED
    BY <1>1, <1>2

\* The invariant of a contact whose movements are presses and releases.
LEMMA CleanInv == ASSUME Clean PROVE Spec => [](TypeOK /\ Debounced /\ Timed)
  <1>1. TypeOK /\ Debounced /\ Timed /\ [Next]_vars => (Debounced /\ Timed)'
    BY DebouncedStep, TimedStep DEF Clean
  <1> QED
    BY <1>1, TypeCorrect, DebouncedInit, TimedInit, PTL DEF Spec

\* Then a report answers a press that lasted, and no press is reported twice: when
\* the callback finds the key up a press has ended, and the report settles it.
THEOREM RealPushHolds == ASSUME Clean PROVE Spec => RealPush
  <1>1. TypeOK /\ Debounced /\ Timed /\ [Next]_vars => [ShortPress => owed # 0]_vars
    BY DEF Timed, ShortPress
  <1> QED
    BY <1>1, CleanInv, PTL DEF Spec, RealPush

\* A key reported as held was down for the 5 s, from the tick after the press on.
THEOREM LongPressHeldHolds == ASSUME Clean PROVE Spec => LongPressHeld
  <1>1. TypeOK /\ Debounced /\ Timed /\ [Next]_vars
            => [Key5sCb /\ LongPress => low >= LongTicks - 1]_vars
    <2> SUFFICES ASSUME TypeOK, Debounced, Timed, Key5sCb, LongPress
                 PROVE  low >= LongTicks - 1
      OBVIOUS
    <2>1. key_5s = 0 /\ callback = "idle" /\ pin = 0
      BY DEF Key5sCb, LongPress
    <2>2. level = 0
      <3>1. SUFFICES ASSUME level # 0 PROVE FALSE
        OBVIOUS
      <3>2. key_level = 0 /\ level = 1 /\ still = 0
        BY <2>1, <3>1 DEF TypeOK, Debounced, Timed, Off
      <3> QED
        BY <2>1, <3>2, LongTicksAssumption DEF Timed
    <2> QED
      BY <2>1, <2>2, LongTicksAssumption DEF TypeOK, Timed, Off
  <1> QED
    BY <1>1, CleanInv, PTL DEF Spec, LongPressHeld

\* And a key held for more than 5 s is reported as held.
THEOREM LongPressComesHolds == ASSUME Clean PROVE Spec => []LongPressComes
  <1>1. TypeOK /\ Debounced /\ Timed => LongPressComes
    BY LongTicksAssumption DEF TypeOK, Debounced, Timed, LongPressComes, Off
  <1> QED
    BY <1>1, CleanInv, PTL
=============================================================================
