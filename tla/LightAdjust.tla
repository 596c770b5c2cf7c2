---------------------------- MODULE LightAdjust ----------------------------
(***************************************************************************)
(* The light: user/user_light_adj.c over user/user_light.c.  light_set_aim *)
(* puts a target into a ring and calls light_pwm_smooth_adj_proc, which    *)
(* takes the next target from the ring and, when no change is under way,   *)
(* begins one: light_pwm_dh_adj_proc moves each channel an eighth of the   *)
(* way and arms a timer that calls it again, until the duties are there;   *)
(* then it looks for another target.                                       *)
(*                                                                         *)
(* Two tasks of equal priority run this code without a lock: the caller of *)
(* light_set_aim (the task that delivers a message, which holds the        *)
(* client's mutex; before there is a client, the task of smartconfig), and *)
(* the timer task.  A label stands before the next access to what they     *)
(* share, in the order of the source: a variable that is read, changed and *)
(* written is loaded at one label and stored at the next, and a loop over  *)
(* the channels is a label per channel.  The calls nest only at the end of *)
(* a function, so that a program counter is enough.  The period of a       *)
(* target is left out.                                                     *)
(***************************************************************************)
EXTENDS Integers

CONSTANTS
    NumChannels,  \* PWM_CHANNEL (3)
    QNum,         \* LIGHT_EVT_QNUM (40)
    ByteMod,      \* the index and the counter of the ring count modulo this (u8: 256)
    AppMaxPwm,    \* APP_MAX_PWM (22222), which light_param holds before the first change
    Behind,       \* the words that lie behind the ring in memory
    Aims,         \* the targets asked for
    MaxAims       \* bound: calls of light_set_aim in one behaviour

Channels == 0 .. NumChannels - 1
Duties   == [Channels -> Nat]
Near     == 20     \* duties less than this apart are made equal
AllOff   == [c \in Channels |-> 0]
FullOn   == [c \in Channels |-> AppMaxPwm]

ASSUME ChannelsAssumption == NumChannels \in Nat \ {0}
ASSUME QNumAssumption == QNum \in Nat \ {0}
ASSUME ByteModAssumption == ByteMod \in Nat /\ ByteMod > QNum + 1
ASSUME DutiesAssumption == Aims \subseteq Duties /\ Behind \subseteq Nat /\ AppMaxPwm \in Nat
ASSUME MaxAimsAssumption == MaxAims \in Nat

Caller == "caller"
Timer  == "timer"
Actors == {Caller, Timer}

VARIABLES
    LightEvtArr,            \* the ring of targets
    CurFreeLightEvtIdx,     \* its next free slot
    CurEvtIdxToBeUse,       \* its next slot to be taken
    TotalUsedLightEvtNum,   \* how many are used
    current_duty,           \* the target of the change under way
    duty_now,               \* the duties as they are computed
    pwm_duty,               \* light_param.pwm_duty: the duties as they were set
    change_finish,          \* no change is under way
    armed,                  \* timer_pwm_adj is armed
    pc,                     \* where each actor is
    loaded,                 \* the index or the counter as an actor last loaded it
    held,                   \* the duty an actor is about to store
    ch,                     \* the channel each actor's loop is at
    slot,                   \* the slot the caller fills
    aim,                    \* history: the target last asked for
    calls,                  \* history: number of calls
    clean,                  \* history: the actors have never overlapped
    clash                   \* history: both were taking a target at a time

ring == <<LightEvtArr, CurFreeLightEvtIdx, CurEvtIdxToBeUse, TotalUsedLightEvtNum>>
pwm  == <<current_duty, duty_now, pwm_duty, change_finish, armed>>
own  == <<loaded, held, ch, slot>>
asks == <<aim, calls>>
vars == <<ring, pwm, pc, own, asks, clean, clash>>

Taking    == {"take", "copy", "load", "store", "wrap", "zero"}
Adjusting == {"eighth", "move", "near", "snap", "show", "set"}
Labels == {"idle", "count", "check", "uncount", "alloc", "fill", "look", "free", "freed",
           "begin", "test", "again", "arm", "done", "disarm"} \cup Taking \cup Adjusting

\* The index to be used has no bound but its type: it passes the end of the ring before
\* it is wrapped, and further when both actors increment it.
TypeOK ==
    /\ LightEvtArr \in [0 .. QNum - 1 -> Duties]
    /\ CurFreeLightEvtIdx \in 0 .. QNum - 1
    /\ CurEvtIdxToBeUse \in 0 .. ByteMod - 1
    /\ TotalUsedLightEvtNum \in 0 .. ByteMod - 1
    /\ current_duty \in Duties /\ duty_now \in Duties /\ pwm_duty \in Duties /\ aim \in Duties
    /\ change_finish \in BOOLEAN /\ armed \in BOOLEAN
    /\ clean \in BOOLEAN /\ clash \in BOOLEAN
    /\ pc \in [Actors -> Labels]
    /\ loaded \in [Actors -> 0 .. ByteMod - 1]
    /\ held \in [Actors -> Nat]
    /\ ch \in [Actors -> Channels]
    /\ slot \in 0 .. QNum - 1
    /\ calls \in 0 .. MaxAims

\* Before the first call, which user_light_init makes.
Init ==
    /\ LightEvtArr = [i \in 0 .. QNum - 1 |-> AllOff]
    /\ CurFreeLightEvtIdx = 0 /\ CurEvtIdxToBeUse = 0
    /\ TotalUsedLightEvtNum = 0
    /\ current_duty = AllOff /\ duty_now = AllOff
    /\ pwm_duty = FullOn /\ aim = FullOn
    /\ change_finish = TRUE /\ armed = FALSE
    /\ pc = [a \in Actors |-> "idle"]
    /\ loaded = [a \in Actors |-> 0] /\ held = [a \in Actors |-> 0]
    /\ ch = [a \in Actors |-> 0]
    /\ slot = 0
    /\ calls = 0 /\ clean = TRUE /\ clash = FALSE

Goto(a, from, to) == pc[a] = from /\ pc' = [pc EXCEPT ![a] = to]

\* The next channel, or the end of the loop.
Loop(a, from, again, done) ==
    /\ Goto(a, from, IF ch[a] + 1 < NumChannels THEN again ELSE done)
    /\ ch' = [ch EXCEPT ![a] = IF @ + 1 < NumChannels THEN @ + 1 ELSE 0]

Load(a, n) == loaded' = [loaded EXCEPT ![a] = n]
Hold(a, d) == held' = [held EXCEPT ![a] = d]

\* A byte counts up and down.
Plus(n)  == IF n = ByteMod - 1 THEN 0 ELSE n + 1
Minus(n) == IF n = 0 THEN ByteMod - 1 ELSE n - 1
Next1(i) == IF i + 1 > QNum - 1 THEN 0 ELSE i + 1

----------------------------------------------------------------------------
(* light_set_aim: LightEvtMalloc counts, compares and takes a slot, which  *)
(* only the caller does; then the slot is filled.                          *)

LightSetAim(d) ==
    /\ calls < MaxAims /\ calls' = calls + 1
    /\ Goto(Caller, "idle", "count")
    /\ Load(Caller, TotalUsedLightEvtNum)
    /\ aim' = d
    /\ UNCHANGED <<ring, pwm, held, ch, slot>>

Count ==
    /\ Goto(Caller, "count", "check")
    /\ TotalUsedLightEvtNum' = Plus(loaded[Caller])
    /\ UNCHANGED <<LightEvtArr, CurFreeLightEvtIdx, CurEvtIdxToBeUse, pwm, own, asks>>

Full == TotalUsedLightEvtNum > QNum

Check ==
    /\ Goto(Caller, "check", IF Full THEN "uncount" ELSE "alloc")
    /\ Load(Caller, TotalUsedLightEvtNum)
    /\ UNCHANGED <<ring, pwm, held, ch, slot, asks>>

\* "light para full": the target is dropped.
Uncount ==
    /\ Goto(Caller, "uncount", "idle")
    /\ TotalUsedLightEvtNum' = Minus(loaded[Caller])
    /\ UNCHANGED <<LightEvtArr, CurFreeLightEvtIdx, CurEvtIdxToBeUse, pwm, own, asks>>

Alloc ==
    /\ Goto(Caller, "alloc", "fill")
    /\ slot' = CurFreeLightEvtIdx
    /\ CurFreeLightEvtIdx' = Next1(CurFreeLightEvtIdx)
    /\ UNCHANGED <<LightEvtArr, CurEvtIdxToBeUse, TotalUsedLightEvtNum, pwm, loaded, held,
                   ch, asks>>

Fill ==
    /\ Loop(Caller, "fill", "fill", "look")
    /\ LightEvtArr' = [LightEvtArr EXCEPT ![slot][ch[Caller]] = aim[ch[Caller]]]
    /\ UNCHANGED <<CurFreeLightEvtIdx, CurEvtIdxToBeUse, TotalUsedLightEvtNum, pwm,
                   loaded, held, slot, asks>>

----------------------------------------------------------------------------
(* light_pwm_smooth_adj_proc.  With nothing in the ring it changes nothing *)
(* (saving is compiled out), and so does what follows a change it began.   *)

Look(a) ==
    /\ Goto(a, "look", IF TotalUsedLightEvtNum > 0 THEN "take" ELSE "idle")
    /\ UNCHANGED <<ring, pwm, own, asks>>

Take(a) ==
    /\ Goto(a, "take", "copy")
    /\ Load(a, CurEvtIdxToBeUse)
    /\ UNCHANGED <<ring, pwm, held, ch, slot, asks>>

\* What is read for a channel of the target at index i.
Word(i, c) == IF i < QNum THEN {LightEvtArr[i][c]} ELSE Behind

\* memcpy: the target replaces that of a change under way.
Copy(a) ==
    /\ Loop(a, "copy", "copy", "load")
    /\ \E d \in Word(loaded[a], ch[a]) : current_duty' = [current_duty EXCEPT ![ch[a]] = d]
    /\ UNCHANGED <<ring, duty_now, pwm_duty, change_finish, armed, loaded, held, slot, asks>>

\* CurEvtIdxToBeUse++, and only then is it wrapped.
LoadIndex(a) ==
    /\ Goto(a, "load", "store")
    /\ Load(a, CurEvtIdxToBeUse)
    /\ UNCHANGED <<ring, pwm, held, ch, slot, asks>>

StoreIndex(a) ==
    /\ Goto(a, "store", "wrap")
    /\ CurEvtIdxToBeUse' = Plus(loaded[a])
    /\ UNCHANGED <<LightEvtArr, CurFreeLightEvtIdx, TotalUsedLightEvtNum, pwm, own, asks>>

\* Slip: the index is wrapped one slot late.
WrapLate(a) ==
    /\ Goto(a, "wrap", IF CurEvtIdxToBeUse > QNum THEN "zero" ELSE "free")
    /\ UNCHANGED <<ring, pwm, own, asks>>

Wrap(a) ==
    /\ Goto(a, "wrap", IF CurEvtIdxToBeUse > QNum - 1 THEN "zero" ELSE "free")
    /\ UNCHANGED <<ring, pwm, own, asks>>

Zero(a) ==
    /\ Goto(a, "zero", "free")
    /\ CurEvtIdxToBeUse' = 0
    /\ UNCHANGED <<LightEvtArr, CurFreeLightEvtIdx, TotalUsedLightEvtNum, pwm, own, asks>>

\* LightEvtFree
Free(a) ==
    /\ Goto(a, "free", "freed")
    /\ Load(a, TotalUsedLightEvtNum)
    /\ UNCHANGED <<ring, pwm, held, ch, slot, asks>>

Freed(a) ==
    /\ Goto(a, "freed", "begin")
    /\ TotalUsedLightEvtNum' = Minus(loaded[a])
    /\ UNCHANGED <<LightEvtArr, CurFreeLightEvtIdx, CurEvtIdxToBeUse, pwm, own, asks>>

\* Slip: only the timer goes on with a target that was taken.
BeginNever(a) ==
    /\ Goto(a, "begin", IF a = Timer THEN "eighth" ELSE "idle")
    /\ UNCHANGED <<ring, pwm, own, asks>>

Begin(a) ==
    /\ Goto(a, "begin", IF change_finish THEN "eighth" ELSE "idle")
    /\ UNCHANGED <<ring, pwm, own, asks>>

----------------------------------------------------------------------------
(* light_pwm_dh_adj_proc *)

Distance(d, t) == IF d < t THEN t - d ELSE d - t

\* Slip: the eighth of a difference that is taken as unsigned.
EighthUnsigned(d, t) == d + ((t - d) % 65536) \div 8

\* An eighth of the way, rounded down (>> 3).
EighthOf(d, t) == (d * 7 + t) \div 8

\* Slip: the distance within which a duty snaps is smaller than what the rounding leaves.
IsNearTight(d, t) == Distance(d, t) < 7

IsNear(d, t) == Distance(d, t) < Near

Eighth(a) ==
    /\ Goto(a, "eighth", "move")
    /\ Hold(a, EighthOf(duty_now[ch[a]], current_duty[ch[a]]))
    /\ UNCHANGED <<ring, pwm, loaded, ch, slot, asks>>

Move(a) ==
    /\ Goto(a, "move", "near")
    /\ duty_now' = [duty_now EXCEPT ![ch[a]] = held[a]]
    /\ UNCHANGED <<ring, current_duty, pwm_duty, change_finish, armed, own, asks>>

Compare(a) ==
    /\ Goto(a, "near", IF IsNear(duty_now[ch[a]], current_duty[ch[a]]) THEN "snap" ELSE "show")
    /\ UNCHANGED <<ring, pwm, own, asks>>

Snap(a) ==
    /\ Goto(a, "snap", "show")
    /\ duty_now' = [duty_now EXCEPT ![ch[a]] = current_duty[ch[a]]]
    /\ UNCHANGED <<ring, current_duty, pwm_duty, change_finish, armed, own, asks>>

\* user_light_set_duty
Show(a) ==
    /\ Goto(a, "show", "set")
    /\ Hold(a, duty_now[ch[a]])
    /\ UNCHANGED <<ring, pwm, loaded, ch, slot, asks>>

SetDuty(a) ==
    /\ Loop(a, "set", "eighth", "test")
    /\ pwm_duty' = [pwm_duty EXCEPT ![ch[a]] = held[a]]
    /\ UNCHANGED <<ring, current_duty, duty_now, change_finish, armed, loaded, held, slot, asks>>

\* check_pwm_current_duty_diff: the first channel that differs ends it.
Differs(a) ==
    /\ pwm_duty[ch[a]] # current_duty[ch[a]]
    /\ Goto(a, "test", "again")
    /\ ch' = [ch EXCEPT ![a] = 0]
    /\ UNCHANGED <<ring, pwm, loaded, held, slot, asks>>

Equals(a) ==
    /\ pwm_duty[ch[a]] = current_duty[ch[a]]
    /\ Loop(a, "test", "test", "done")
    /\ UNCHANGED <<ring, pwm, loaded, held, slot, asks>>

Again(a) ==
    /\ Goto(a, "again", "arm")
    /\ change_finish' = FALSE
    /\ UNCHANGED <<ring, current_duty, duty_now, pwm_duty, armed, own, asks>>

Arm(a) ==
    /\ Goto(a, "arm", "idle")
    /\ armed' = TRUE
    /\ UNCHANGED <<ring, current_duty, duty_now, pwm_duty, change_finish, own, asks>>

Done(a) ==
    /\ Goto(a, "done", "disarm")
    /\ change_finish' = TRUE
    /\ UNCHANGED <<ring, current_duty, duty_now, pwm_duty, armed, own, asks>>

Disarm(a) ==
    /\ Goto(a, "disarm", "look")
    /\ armed' = FALSE
    /\ UNCHANGED <<ring, current_duty, duty_now, pwm_duty, change_finish, own, asks>>

\* timer_pwm_adj calls light_pwm_dh_adj_proc in the timer task.
Fires ==
    /\ armed /\ armed' = FALSE
    /\ Goto(Timer, "idle", "eighth")
    /\ UNCHANGED <<ring, current_duty, duty_now, pwm_duty, change_finish, own, asks>>

----------------------------------------------------------------------------
\* What the actors do at the same time, remembered.
Watch ==
    /\ clean' = (clean /\ \E a \in Actors : pc'[a] = "idle")
    /\ clash' = (clash \/ \A a \in Actors : pc'[a] \in Taking)

Asked      == (\E d \in Aims : LightSetAim(d)) /\ Watch
CallerStep == (Count \/ Check \/ Uncount \/ Alloc \/ Fill) /\ Watch
TimerFires == Fires /\ Watch

TakeStep(a) ==
    \/ Look(a) \/ Take(a) \/ Copy(a) \/ LoadIndex(a) \/ StoreIndex(a) \/ Wrap(a)
    \/ Zero(a) \/ Free(a) \/ Freed(a) \/ Begin(a)

AdjustStep(a) ==
    \/ Eighth(a) \/ Move(a) \/ Compare(a) \/ Snap(a) \/ Show(a) \/ SetDuty(a)
    \/ Differs(a) \/ Equals(a) \/ Again(a) \/ Arm(a) \/ Done(a) \/ Disarm(a)

Proc(a) == (TakeStep(a) \/ AdjustStep(a)) /\ Watch

Next == Asked \/ CallerStep \/ TimerFires \/ \E a \in Actors : Proc(a)

Safe == Init /\ [][Next]_vars

(* Fairness: both tasks run, and an armed timer fires. *)
Spec == Safe /\ WF_vars(CallerStep) /\ WF_vars(TimerFires)
             /\ \A a \in Actors : WF_vars(Proc(a))
----------------------------------------------------------------------------
\* No target is read from behind the ring, whatever else calls and callbacks of the
\* timer do to each other, until two of them take a target at the same time.
ReadsInRing == ~clash => \A a \in Actors : pc[a] = "copy" => loaded[a] < QNum

Quiet == ~armed /\ \A a \in Actors : pc[a] = "idle"

\* When nothing is left to do, the light shows the target last asked for, and is
\* ready for another, although a target may come at any moment of a change: unless
\* a call and a callback of the timer ever overlapped.  If they do, a target can be
\* lost: taken between the test and change_finish, it is left to a timer that rests.
AimReached == clean /\ Quiet => pwm_duty = aim /\ change_finish

\* No channel ever moves away from the target last asked for or past it, through load
\* and store, rounding and snap, and when the target changes on the way.
Between(x, y, z) == (x <= y /\ y <= z) \/ (z <= y /\ y <= x)

ApproachesOnly ==
    [][clean' => \A c \in Channels : Between(duty_now[c], duty_now'[c], aim[c])]_vars

\* Every change ends, although each step is rounded down: targets asked for no
\* more, the timer rests.  Overlaps can spoil this too, since two decrements of the
\* counter at a time wrap it, and the ring's old targets are played again.
ChangesEnd == []clean => <>[]Quiet
=============================================================================
