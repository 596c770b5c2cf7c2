------------------------------ MODULE KeyDriver ------------------------------
(***************************************************************************)
(* The key of the plug: driver/key.c.  The interrupt handler runs between  *)
(* any two steps of the timer task; the timer task runs the callbacks of   *)
(* key_5s and key_50ms, one at a time.  The pin is 0 while the key is      *)
(* down.  An edge is noticed only if the interrupt is set to its kind when *)
(* it comes: edges that come while the interrupt is disabled, or set to    *)
(* the other kind, are lost.                                               *)
(*                                                                         *)
(* Time is counted in ticks of 50 ms.  A callback that is due runs, and a  *)
(* pending interrupt is served, before the next tick.                      *)
(***************************************************************************)
EXTENDS Integers

CONSTANTS
    LongTicks,    \* LONG_PRESS_TIME in ticks (100)
    Settled,      \* bound: ticks the contact rests between two movements
    Glitches      \* a movement may end at the level where it began

ASSUME LongTicksAssumption == LongTicks \in Nat /\ LongTicks > 2
ASSUME SettledAssumption == Settled \in Nat \ {0}
ASSUME GlitchesAssumption == Glitches \in BOOLEAN

VARIABLES
    pin,          \* GPIO_INPUT_GET
    intr,         \* the edge the pin's interrupt waits for
    pending,      \* the pin's bit in GPIO_STATUS
    key_level,
    key_5s,       \* ticks to go, or Off
    key_50ms,
    callback,     \* where key_50ms_cb is: the level it has read
    level,        \* history: the pin at the last tick
    still,        \* history: ticks since the pin last moved
    low,          \* history: ticks at which the pin was low, without a break
    owed,         \* history: length of the press not reported yet, 0 if none
    longDone      \* history: long_press was called for this press

driver  == <<intr, pending, key_level, key_5s, key_50ms, callback>>
history == <<level, still, low, owed, longDone>>
vars    == <<pin, driver, history>>

Off    == -1
LowMax == LongTicks + 3     \* bound of low: longer makes no difference

\* The timers run or are off, and every variable has its type.
TypeOK ==
    /\ pin \in {0, 1} /\ key_level \in {0, 1} /\ level \in {0, 1}
    /\ intr \in {"NEGEDGE", "POSEDGE", "DISABLE"}
    /\ pending \in BOOLEAN /\ longDone \in BOOLEAN
    /\ key_5s \in Off .. LongTicks
    /\ key_50ms \in Off .. 1
    /\ callback \in {"idle", "up", "down"}
    /\ still \in 0 .. Settled
    /\ low \in 0 .. LowMax /\ owed \in 0 .. LowMax

\* key_init, with the key up
Init ==
    /\ pin = 1 /\ level = 1
    /\ intr = "NEGEDGE" /\ pending = FALSE
    /\ key_level = 1
    /\ key_5s = Off /\ key_50ms = Off
    /\ callback = "idle"
    /\ still = Settled
    /\ low = 0 /\ owed = 0 /\ longDone = FALSE

(* The contact bounces within a tick; then it rests. *)
PinMoves ==
    /\ still \in {0, Settled}
    /\ pin' = 1 - pin
    /\ still' = 0
    /\ pending' = (pending \/ intr = IF pin = 1 THEN "NEGEDGE" ELSE "POSEDGE")
    /\ UNCHANGED <<intr, key_level, key_5s, key_50ms, callback, level, low, owed, longDone>>

----------------------------------------------------------------------------
\* key_intr_handler.  The first edge starts the 5 s timer; every other edge
\* leaves the interrupt disabled until the 50 ms are over.
KeyIntrHandler ==
    /\ pending /\ pending' = FALSE
    /\ \/ /\ key_level = 1
          /\ key_level' = 0
          /\ key_5s' = LongTicks
          /\ intr' = "POSEDGE"
          /\ UNCHANGED key_50ms
       \/ /\ key_level = 0
          /\ key_50ms' = 1
          /\ intr' = "DISABLE"
          /\ UNCHANGED <<key_level, key_5s>>
    /\ UNCHANGED <<pin, callback, history>>

\* key_5s_cb
LongPress ==
    /\ pin = 0
    /\ longDone' = TRUE

Key5sCb ==
    /\ key_5s = 0 /\ callback = "idle"
    /\ key_5s' = Off
    /\ LongPress \/ (pin = 1 /\ UNCHANGED longDone)
    /\ UNCHANGED <<pin, intr, pending, key_level, key_50ms, callback, level, still, low, owed>>

\* Slips: the 5 s timer goes on; the level stays.
KeyIsUpTimerOn == key_level' = 1 /\ UNCHANGED key_5s
KeyIsUpLevelKept == key_5s' = Off /\ UNCHANGED key_level

KeyIsUp == key_5s' = Off /\ key_level' = 1

\* Slip: the pin is not looked at.
ReadsUnchecked == "up"

Reads == IF pin = 1 THEN "up" ELSE "down"

\* key_50ms_cb reads the pin ...
Key50msCb ==
    /\ key_50ms = 0 /\ callback = "idle"
    /\ key_50ms' = Off
    /\ callback' = Reads
    /\ IF Reads = "up" THEN KeyIsUp ELSE UNCHANGED <<key_5s, key_level>>
    /\ UNCHANGED <<pin, intr, pending, history>>

\* Slips: the interrupt stays disabled after a bounce; it waits for the wrong edge.
EnableAfterUp == IF callback = "up" THEN "NEGEDGE" ELSE intr
EnableNegedge == "NEGEDGE"

Enable == IF callback = "up" THEN "NEGEDGE" ELSE "POSEDGE"

\* ... and then enables the interrupt and reports.
ShortPress == callback = "up" /\ owed' = 0

Key50msCbEnds ==
    /\ callback # "idle" /\ callback' = "idle"
    /\ intr' = Enable
    /\ ShortPress \/ (callback = "down" /\ UNCHANGED owed)
    /\ UNCHANGED <<pin, pending, key_level, key_5s, key_50ms, level, still, low, longDone>>

----------------------------------------------------------------------------
Later(n) == IF n = Off THEN Off ELSE n - 1
Capped(n, max) == IF n < max THEN n + 1 ELSE max

Tick ==
    /\ ~pending /\ callback = "idle" /\ key_5s # 0 /\ key_50ms # 0
    /\ Glitches \/ still # 0 \/ pin # level
    /\ key_5s' = Later(key_5s)
    /\ key_50ms' = Later(key_50ms)
    /\ still' = Capped(still, Settled)
    /\ level' = pin
    /\ low' = IF pin = 0 THEN Capped(low, LowMax) ELSE 0
    /\ owed' = IF pin = 1 /\ low > 0 THEN low ELSE owed
    /\ longDone' = (longDone /\ pin = 0)
    /\ UNCHANGED <<pin, intr, pending, key_level, callback>>

Next == PinMoves \/ KeyIntrHandler \/ Key5sCb \/ Key50msCb \/ Key50msCbEnds \/ Tick

Spec == Init /\ [][Next]_vars
----------------------------------------------------------------------------
\* Whatever edges come and are lost, a disabled interrupt is about to be enabled
\* again: the key never goes dead.
KeyNeverDead == intr = "DISABLE" => key_50ms # Off \/ callback # "idle"

\* Every press that lasts is reported within 100 ms of the release, bounces or
\* not.
PressesReported == pin = 1 /\ still >= 2 => owed = 0

\* "check it's a real key push": a report answers a press that lasted, and no
\* press is reported twice.
RealPush == [][ShortPress => owed # 0]_vars

\* "this gpio has been in low state for 5s, then call long_press", up to one tick.
LongPressHeld == [][Key5sCb /\ LongPress => low >= LongTicks - 1]_vars

\* A key held for more than 5 s is reported as held, once the tick is over.
LongPressComes == low > LongTicks + 1 => longDone

(* The inductive invariants behind them, for a contact that rests for 100 ms at    *)
(* least: what the last tick and the movements since have left.                    *)

\* After a tick with a movement the callback runs before the contact moves again; a
\* key that is up waits for the edge down, a key that is down for the edge up.
Debounced ==
    /\ pending => still = 0
    /\ key_50ms = 1 => still = 0 /\ key_level = 0
    /\ key_50ms = 0 => still = 1 /\ key_level = 0
    /\ callback # "idle" => still = 1 /\ key_50ms = Off
    /\ callback = "up" => pin = 1 /\ key_level = 1
    /\ callback = "down" => pin = 0 /\ key_level = 0
    /\ still # 0 => pin = level
    /\ low > 0 <=> level = 0
    /\ key_level = 1 => intr = "NEGEDGE" \/ callback = "up"
    /\ key_level = 0 => intr = "POSEDGE" \/ key_50ms # Off \/ callback = "down"
    /\ key_level = 1 => level = 1 /\ (pin = 1 \/ pending)
    /\ level = 0 /\ still = 0 => pending \/ key_50ms = 1
    /\ owed # 0 => pin = 1 /\ still = 1 /\ (key_50ms = 0 \/ callback = "up")

\* A movement is a press or a release.
Clean == Settled >= 2 /\ ~Glitches

\* The 5 s timer and low count the same press; what ends is owed a report.
Timed ==
    /\ key_level = 1 => key_5s = Off
    /\ key_level = 0 /\ level = 1 /\ still = 0 => key_5s = LongTicks
    /\ key_level = 0 /\ level = 1 /\ still # 0 => key_50ms = 0 /\ owed # 0
    /\ callback = "up" => owed # 0
    /\ level = 0 /\ key_5s # Off => key_5s + low = LongTicks
    /\ level = 0 /\ key_5s = Off => longDone \/ (low = LongTicks /\ still = 0)
=============================================================================
