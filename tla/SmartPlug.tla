------------------------------ MODULE SmartPlug ------------------------------
(***************************************************************************)
(* The key and the plug together: key.c calls user_plug_short_press and    *)
(* user_plug_long_press in the timer task.  While one of them works, up to *)
(* 100 ms for room in the queue and the time flash takes, no timer runs:   *)
(* a timer that falls due waits, edges go on to interrupt.  A long press   *)
(* restarts the device, with the key still held.                           *)
(***************************************************************************)
EXTENDS PlugDevice

CONSTANTS
    LongTicks, Settled, Glitches,    \* as in KeyDriver
    MaxBusy      \* bound: ticks of 50 ms that pass while a press is carried out

ASSUME LongTicksAssumption == LongTicks \in Nat /\ LongTicks > 2
ASSUME SettledAssumption == Settled \in Nat \ {0}
ASSUME GlitchesAssumption == Glitches \in BOOLEAN
ASSUME MaxBusyAssumption == MaxBusy \in Nat

VARIABLES
    pin, intr, pending, key_level, key_5s, key_50ms, callback,    \* as in KeyDriver
    level, still, low, owed, longDone,
    busy,        \* ticks since the short press under way was reported
    before       \* history: the relay when the last press began, if it counts

Driver == INSTANCE KeyDriver

keyVars   == <<pin, intr, pending, key_level, key_5s, key_50ms, callback,
               level, still, low, owed, longDone>>
smartVars == <<vars, keyVars, busy, before>>

Off    == Driver!Off
Lost   == 2    \* a command, a restart or an unfinished press comes in between
Missed == 3    \* the key moved unseen

\* The variables of plug and key keep their types although callbacks run late, and a
\* restart finds the key held.
KeyTypeOK ==
    /\ Driver!TypeOK
    /\ busy \in 0 .. MaxBusy
    /\ before \in Bit \cup {Lost, Missed}

SmartTypeOK == TypeOK /\ KeyTypeOK

SmartInit == Init /\ Driver!Init /\ busy = 0 /\ before = Lost

TimerTaskFree == pc[Key] = "idle"

\* What is unchanged by a step of the other part.
KeyUnchanged == UNCHANGED <<keyVars, before>>

----------------------------------------------------------------------------
(* Restarts. *)

\* key_init, whatever the level of the pin; a key that is down has been pressed.
KeyInit ==
    /\ intr' = "NEGEDGE" /\ pending' = FALSE
    /\ key_level' = 1
    /\ key_5s' = Off /\ key_50ms' = Off
    /\ callback' = "idle"
    /\ owed' = 0 /\ longDone' = FALSE
    /\ low' = IF pin = 0 /\ low = 0 THEN 1 ELSE low
    /\ UNCHANGED <<pin, level, still>>

Rebooted == KeyInit /\ busy' = 0 /\ before' = Lost

PowerFails == Restart /\ Rebooted

CrashOnReport == (\E a \in Actors : ReportCrashes(a)) /\ Rebooted

\* key_5s_cb: user_plug_long_press does not return.
LongPressRestarts ==
    /\ TimerTaskFree
    /\ key_5s = 0 /\ callback = "idle" /\ pin = 0
    /\ Restart /\ Rebooted

----------------------------------------------------------------------------
(* The key. *)

\* A movement that falls between the callback's look at the pin and its enabling of
\* the interrupt is missed: the driver then takes a key for down that is up, or for
\* up that is down.
Contact ==
    /\ Driver!PinMoves
    /\ before' = IF callback = "idle" THEN before ELSE Missed
    /\ UNCHANGED <<vars, busy>>

Interrupt == Driver!KeyIntrHandler /\ UNCHANGED <<vars, busy, before>>

\* key_5s_cb of a key that is up, key_50ms_cb, and its end when the key is down.
Callback ==
    /\ TimerTaskFree
    /\ \/ Driver!Key5sCb /\ pin = 1
       \/ Driver!Key50msCb
       \/ Driver!Key50msCbEnds /\ callback = "down"
    /\ UNCHANGED <<vars, busy, before>>

\* key_50ms_cb of a key that is up ends in user_plug_short_press.
ShortPressReported ==
    /\ TimerTaskFree
    /\ Driver!Key50msCbEnds /\ callback = "up"
    /\ ShortPress
    /\ busy' = 0
    /\ UNCHANGED before

\* A press begins: what it finds, if nothing else is under way and overlapping
\* operations have not left the status and the relay different.
Begun == IF pin = 0 /\ low = 0
         THEN IF Idle /\ owed = 0 /\ relay = status /\ before # Missed
              THEN relay ELSE Lost
         ELSE before

PromptTick ==
    /\ TimerTaskFree
    /\ Driver!Tick
    /\ before' = Begun
    /\ UNCHANGED <<vars, busy>>

\* Slips: a timer that falls due meanwhile is forgotten; one that is off counts on.
LateForgotten(n) == IF n = 0 THEN Off ELSE Driver!Later(n)
LateAlways(n) == n - 1

Late(n) == IF n = 0 THEN 0 ELSE Driver!Later(n)

BusyTick ==
    /\ ~TimerTaskFree /\ busy < MaxBusy
    /\ ~pending
    /\ Glitches \/ still # 0 \/ pin # level
    /\ key_5s' = Late(key_5s) /\ key_50ms' = Late(key_50ms)
    /\ still' = Driver!Capped(still, Settled)
    /\ level' = pin
    /\ low' = IF pin = 0 THEN Driver!Capped(low, Driver!LowMax) ELSE 0
    /\ owed' = IF pin = 1 /\ low > 0 THEN low ELSE owed
    /\ longDone' = (longDone /\ pin = 0)
    /\ busy' = busy + 1
    /\ before' = Begun
    /\ UNCHANGED <<vars, pin, intr, pending, key_level, callback>>

----------------------------------------------------------------------------
(* The plug. *)

ClientWorks == (ClientStarts \/ Dequeue \/ PlugGet) /\ KeyUnchanged /\ UNCHANGED busy

Command ==
    /\ \E n \in 0 .. 2 : PlugSet(n)
    /\ before' = IF before = Missed THEN Missed ELSE Lost
    /\ UNCHANGED <<keyVars, busy>>

Operates ==
    /\ \/ \E a \in Actors : Compare(a) \/ Store(a) \/ Output(a) \/ Report(a)
       \/ EraseSector \/ WriteSector
    /\ KeyUnchanged /\ UNCHANGED busy

SmartNext ==
    \/ PowerFails \/ CrashOnReport \/ LongPressRestarts
    \/ Contact \/ Interrupt \/ Callback \/ ShortPressReported
    \/ PromptTick \/ BusyTick
    \/ ClientWorks \/ Command \/ Operates

SmartSpec == SmartInit /\ [][SmartNext]_smartVars
----------------------------------------------------------------------------
\* Nothing of a press is still to come.
Quiet == /\ Idle /\ pin = 1 /\ still >= 2
         /\ ~pending /\ key_50ms = Off /\ callback = "idle"

\* From the contact to the relay: a press that no command, restart or press before it
\* overlaps turns the relay, and turns it once, however the contact bounces and
\* whatever the presses before it left the driver in; unless a movement was missed.
TurnsOnce == Quiet /\ before \in Bit /\ low = 0 => relay = 1 - before

\* A timer that falls due while a press is carried out still runs: the interrupt is
\* not left disabled.
KeyAlive == Driver!KeyNeverDead

\* "this gpio has been in low state no more than 5s, then call short_press", up to
\* two ticks.
ShortPressWasShort == [][ShortPressReported => owed <= LongTicks + 2]_smartVars

(* The inductive invariant behind TurnsOnce, for a contact whose movements are     *)
(* presses and releases (Driver!Clean).                                            *)

\* What the handler and the callback keep of each other, however late the callback.
DriverInv ==
    /\ key_level = 1 /\ callback = "idle" => intr = "NEGEDGE"
    /\ key_level = 0 => intr = "POSEDGE" \/ key_50ms # Off \/ callback # "idle"
    /\ key_50ms # Off \/ callback # "idle" => intr = "DISABLE" /\ ~pending
    /\ key_50ms # Off \/ callback = "down" => key_level = 0
    /\ callback = "up" => key_level = 1
    /\ callback # "idle" => key_50ms = Off /\ TimerTaskFree
    /\ pending \/ key_50ms = 1 => still = 0

\* A key that is down and taken for up has interrupted, was down at the last start,
\* or was missed.
SeenInv ==
    /\ callback = "up" /\ pin = 0 => before = Missed
    /\ key_level = 1 /\ callback = "idle" /\ pin = 0 /\ low = 0 => pending \/ before = Missed

\* A press that counts is not reported yet, and will be: ...
ToReport ==
    /\ TimerTaskFree /\ status = before /\ relay = before
    /\ key_level = 0 \/ callback = "up"
    /\ key_50ms = 0 \/ callback # "idle" => still = 1
    /\ level = 0 /\ still = 0 => pending \/ key_50ms = 1
    /\ level = 1 => still = 1 /\ (key_50ms = 0 \/ callback = "up")

\* ... or it is, and until the key moves the driver waits for the next one.
Reported ==
    /\ level = 1 /\ callback = "idle"
    /\ IF still = 0 THEN key_50ms # 0 ELSE key_level = 1 /\ key_50ms = Off
    /\ pc[Key] \in {"compare", "store", "output"} => value[Key] = 1 - before
    /\ status = IF pc[Key] \in {"compare", "store"} THEN before ELSE 1 - before
    /\ relay = IF pc[Key] \in {"compare", "store", "output"} THEN before ELSE 1 - before

CountInv ==
    before \in Bit =>
        /\ pc[Remote] \in {"idle", "report"}
        /\ low > 0 <=> level = 0
        /\ still # 0 => pin = level
        /\ ToReport \/ Reported

PressInv == DriverInv /\ SeenInv /\ CountInv
=============================================================================
