------------------------- MODULE LightAdjustProofs -------------------------
(***************************************************************************)
(* Proofs about LightAdjust for any number of channels, targets, length of *)
(* the ring and width of its counters, and whatever lies behind the ring.  *)
(***************************************************************************)
EXTENDS LightAdjust, TLAPS

----------------------------------------------------------------------------
(* What holds at each label while the actors have not overlapped: the      *)
(* inductive invariant behind AimReached and ApproachesOnly.               *)

\* Two duties agree on the channels that a loop has passed.
Upto(n, d, e) == \A c \in Channels : c < n => d[c] = e[c]

\* The ring is empty, or holds the target last asked for.
InRing == CurEvtIdxToBeUse < QNum
Empty == InRing /\ TotalUsedLightEvtNum = 0 /\ CurFreeLightEvtIdx = CurEvtIdxToBeUse
Holds1 == InRing /\ TotalUsedLightEvtNum = 1 /\ CurFreeLightEvtIdx = Next1(CurEvtIdxToBeUse)
Holds == Holds1 /\ LightEvtArr[CurEvtIdxToBeUse] = aim
Taken == InRing /\ TotalUsedLightEvtNum = 1 /\ CurFreeLightEvtIdx = CurEvtIdxToBeUse

\* A timer is armed as long as a change is under way.
Moving == armed <=> ~change_finish

Rest == Empty /\ Moving /\ (armed => current_duty = aim) /\ (change_finish => pwm_duty = aim)

AtCaller(a) ==
    /\ pc[a] = "count" => Empty /\ Moving /\ loaded[a] = 0
    /\ pc[a] \in {"check", "alloc"} => Taken /\ Moving
    /\ pc[a] # "uncount"
    /\ pc[a] = "fill" => /\ Holds1 /\ Moving /\ slot = CurEvtIdxToBeUse
                         /\ Upto(ch[a], LightEvtArr[slot], aim)

AtTaking(a) ==
    /\ pc[a] = "look" => \/ Holds /\ Moving
                         \/ Empty /\ pwm_duty = aim /\ change_finish /\ ~armed
    /\ pc[a] \in {"take", "copy"} => Holds /\ Moving
    /\ pc[a] = "copy" => loaded[a] = CurEvtIdxToBeUse /\ Upto(ch[a], current_duty, aim)
    /\ pc[a] \in {"load", "store"} => Holds1
    /\ pc[a] = "store" => loaded[a] = CurEvtIdxToBeUse
    /\ pc[a] \in {"wrap", "zero"} => TotalUsedLightEvtNum = 1
    /\ pc[a] = "wrap" => CurFreeLightEvtIdx = IF InRing THEN CurEvtIdxToBeUse ELSE 0
    /\ pc[a] = "zero" => CurFreeLightEvtIdx = 0
    /\ pc[a] \in {"free", "freed"} => Taken
    /\ pc[a] = "freed" => loaded[a] = 1
    /\ pc[a] = "begin" => Empty
    /\ pc[a] \in {"load", "store", "wrap", "zero", "free", "freed", "begin"} =>
          Moving /\ current_duty = aim

AtAdjusting(a) ==
    /\ pc[a] \in Adjusting \cup {"test", "again", "arm", "done", "disarm"} =>
          Empty /\ current_duty = aim /\ ~armed
    /\ pc[a] = "move" => held[a] = EighthOf(duty_now[ch[a]], aim[ch[a]])
    /\ pc[a] = "test" => Upto(ch[a], pwm_duty, aim)
    /\ pc[a] = "arm" => ~change_finish
    /\ pc[a] = "disarm" => change_finish
    /\ pc[a] \in {"done", "disarm"} => pwm_duty = aim

Looping == {"fill", "copy", "test"} \cup Adjusting

At(a) ==
    /\ AtCaller(a) /\ AtTaking(a) /\ AtAdjusting(a)
    /\ pc[a] \notin Looping => ch[a] = 0

CleanInv ==
    clean => /\ \E a \in Actors : pc[a] = "idle"
             /\ (\A a \in Actors : pc[a] = "idle") => Rest
             /\ \A a \in Actors : At(a)

(* While they have not taken a target at the same time, whatever else they *)
(* did: the inductive invariant behind ReadsInRing.                        *)
RingInv ==
    ~clash =>
        /\ \E a \in Actors : pc[a] \notin Taking
        /\ \A a \in Actors : pc[a] \in {"copy", "store"} => loaded[a] < QNum
        /\ CurEvtIdxToBeUse <= QNum
        /\ InRing \/ \E a \in Actors : pc[a] \in {"wrap", "zero"}

IInv == TypeOK /\ CleanInv /\ RingInv

----------------------------------------------------------------------------
\* One step towards a target stays between where the duty was and the target.
LEMMA EighthBetween ==
    ASSUME NEW d \in Nat, NEW t \in Nat
    PROVE  EighthOf(d, t) \in Nat /\ Between(d, EighthOf(d, t), t)
  <1> DEFINE e == (d * 7 + t) \div 8
  <1>1. e \in Nat /\ 8 * e <= d * 7 + t /\ d * 7 + t < 8 * e + 8
    OBVIOUS
  <1>2. Between(d, e, t)
    BY <1>1 DEF Between
  <1> QED
    BY <1>1, <1>2 DEF EighthOf

\* The counters and indices stay in range, and count as they should from 0 and 1.
LEMMA Counting ==
    /\ \A n \in 0 .. ByteMod - 1 : Plus(n) \in 0 .. ByteMod - 1 /\ Minus(n) \in 0 .. ByteMod - 1
    /\ \A n \in 0 .. QNum : Plus(n) = n + 1
    /\ Minus(1) = 0
    /\ \A i \in 0 .. QNum - 1 : Next1(i) \in 0 .. QNum - 1
    /\ \A i \in 0 .. QNum - 1 : Next1(i) = IF i + 1 < QNum THEN i + 1 ELSE 0
  BY ByteModAssumption, QNumAssumption DEF Plus, Minus, Next1

\* What a step of a loop over the channels does.
LEMMA LoopStep ==
    ASSUME TypeOK, NEW a \in Actors, NEW from, NEW again \in Labels, NEW done \in Labels,
           Loop(a, from, again, done)
    PROVE  /\ pc[a] = from
           /\ pc' \in [Actors -> Labels]
           /\ ch' \in [Actors -> Channels]
           /\ \A b \in Actors \ {a} : pc'[b] = pc[b] /\ ch'[b] = ch[b]
           /\ \/ pc'[a] = again /\ ch'[a] = ch[a] + 1
              \/ pc'[a] = done /\ ch'[a] = 0 /\ \A c \in Channels : c < ch[a] + 1
  <1>1. ch[a] \in 0 .. NumChannels - 1 /\ NumChannels \in Nat \ {0}
    BY ChannelsAssumption DEF TypeOK, Channels
  <1>2. pc \in [Actors -> Labels] /\ ch \in [Actors -> Channels]
    BY DEF TypeOK
  <1>3. CASE ch[a] + 1 < NumChannels
    <2>1. pc' = [pc EXCEPT ![a] = again] /\ ch' = [ch EXCEPT ![a] = ch[a] + 1] /\ pc[a] = from
      BY <1>2, <1>3 DEF Loop, Goto
    <2>2. ch[a] + 1 \in Channels
      BY <1>1, <1>3 DEF Channels
    <2> QED
      BY <1>2, <2>1, <2>2
  <1>4. CASE ~(ch[a] + 1 < NumChannels)
    <2>1. pc' = [pc EXCEPT ![a] = done] /\ ch' = [ch EXCEPT ![a] = 0] /\ pc[a] = from
      BY <1>2, <1>4 DEF Loop, Goto
    <2>2. 0 \in Channels /\ \A c \in Channels : c < ch[a] + 1
      BY <1>1, <1>4 DEF Channels
    <2> QED
      BY <1>2, <2>1, <2>2
  <1> QED
    BY <1>3, <1>4

\* Duties that agree up to a channel and then on it agree one channel further, and at
\* the last channel they are equal.
LEMMA UptoNext ==
    ASSUME NEW d \in Duties, NEW e \in Duties, NEW n \in Channels, Upto(n, d, e)
    PROVE  /\ Upto(n + 1, [d EXCEPT ![n] = e[n]], e)
           /\ d[n] = e[n] => Upto(n + 1, d, e)
           /\ (\A c \in Channels : c < n + 1) => [d EXCEPT ![n] = e[n]] = e
           /\ (\A c \in Channels : c < n + 1) /\ d[n] = e[n] => d = e
  <1> DEFINE f == [d EXCEPT ![n] = e[n]]
  <1>1. n \in Nat /\ Channels \subseteq Nat
    BY DEF Channels
  <1>2. \A c \in Channels : c < n + 1 => c < n \/ c = n
    BY <1>1
  <1>3. f \in Duties /\ \A c \in Channels : f[c] = IF c = n THEN e[n] ELSE d[c]
    BY DEF Duties
  <1>4. \A c \in Channels : c < n => d[c] = e[c]
    BY DEF Upto
  <1>5. \A c \in Channels : c < n + 1 => f[c] = e[c]
    BY <1>2, <1>3, <1>4
  <1>6. d[n] = e[n] => \A c \in Channels : c < n + 1 => d[c] = e[c]
    BY <1>2, <1>4
  <1>7. (\A c \in Channels : f[c] = e[c]) => f = e
    BY <1>3 DEF Duties
  <1>8. (\A c \in Channels : d[c] = e[c]) => d = e
    BY DEF Duties
  <1> QED
    BY <1>5, <1>6, <1>7, <1>8 DEF Upto

\* Nothing is claimed before the first channel.
LEMMA UptoNone == \A d, e : Upto(0, d, e)
  BY DEF Upto, Channels

----------------------------------------------------------------------------
LEMMA LightInit == Init => IInv
  <1> SUFFICES ASSUME Init PROVE IInv
    OBVIOUS
  <1>1. AllOff \in Duties /\ FullOn \in Duties
    BY DutiesAssumption DEF AllOff, FullOn, Duties
  <1>2. LightEvtArr \in [0 .. QNum - 1 -> Duties] /\ 0 \in 0 .. QNum - 1
    BY <1>1, QNumAssumption DEF Init
  <1>3. 0 \in 0 .. ByteMod - 1 /\ 0 \in 0 .. MaxAims /\ 0 \in Channels
    BY ByteModAssumption, QNumAssumption, MaxAimsAssumption, ChannelsAssumption DEF Channels
  <1>4. "idle" \in Labels
    BY DEF Labels
  <1>5. TypeOK
    BY <1>1, <1>2, <1>3, <1>4 DEF Init, TypeOK
  <1>6. \A a \in Actors : pc[a] = "idle" /\ ch[a] = 0
    BY DEF Init
  <1>7. InRing
    BY QNumAssumption DEF Init, InRing
  <1>8. Rest
    BY <1>7 DEF Init, Rest, Empty, Moving
  <1>9. CleanInv
    BY <1>6, <1>8 DEF CleanInv, At, AtCaller, AtTaking, AtAdjusting, Actors, Adjusting
  <1>10. RingInv
    BY <1>6, <1>7, QNumAssumption DEF RingInv, Taking, Actors, Init
  <1> QED
    BY <1>5, <1>9, <1>10 DEF IInv

\* Every step keeps the types.
LEMMA GotoStep ==
    ASSUME TypeOK, NEW a \in Actors, NEW from, NEW to \in Labels, Goto(a, from, to)
    PROVE  /\ pc[a] = from /\ pc'[a] = to
           /\ pc' \in [Actors -> Labels]
           /\ \A b \in Actors \ {a} : pc'[b] = pc[b]
  BY DEF TypeOK, Goto

LEMMA AllLabels ==
    {"idle", "count", "check", "uncount", "alloc", "fill", "look", "free", "freed", "begin",
     "test", "again", "arm", "done", "disarm", "take", "copy", "load", "store", "wrap",
     "zero", "eighth", "move", "near", "snap", "show", "set"} \subseteq Labels
  BY DEF Labels, Taking, Adjusting

LEMMA TypeAsked ==
    ASSUME TypeOK, NEW d \in Aims, LightSetAim(d), Watch
    PROVE  TypeOK'
  <1>1. d \in Duties /\ Caller \in Actors /\ TotalUsedLightEvtNum \in 0 .. ByteMod - 1
    BY DutiesAssumption DEF Actors, TypeOK
  <1>2. calls' \in 0 .. MaxAims
    BY MaxAimsAssumption DEF LightSetAim, TypeOK
  <1>3. pc' \in [Actors -> Labels]
    BY <1>1, AllLabels, GotoStep DEF LightSetAim
  <1>4. loaded' \in [Actors -> 0 .. ByteMod - 1]
    BY <1>1 DEF LightSetAim, Load, TypeOK
  <1>5. clean' \in BOOLEAN /\ clash' \in BOOLEAN
    BY DEF Watch, TypeOK
  <1> QED
    BY <1>1, <1>2, <1>3, <1>4, <1>5 DEF LightSetAim, TypeOK, ring, pwm

LEMMA TypeCaller ==
    ASSUME TypeOK, CallerStep
    PROVE  TypeOK'
  <1>0. Caller \in Actors
    BY DEF Actors
  <1>1. clean' \in BOOLEAN /\ clash' \in BOOLEAN
    BY DEF CallerStep, Watch, TypeOK
  <1>2. CASE Count
    <2>1. pc' \in [Actors -> Labels]
      BY <1>0, <1>2, AllLabels, GotoStep DEF Count
    <2>2. TotalUsedLightEvtNum' \in 0 .. ByteMod - 1
      BY <1>0, <1>2, Counting DEF Count, TypeOK
    <2> QED
      BY <1>1, <1>2, <2>1, <2>2 DEF Count, TypeOK, pwm, own, asks
  <1>3. CASE Check
    <2>1. pc' \in [Actors -> Labels]
      BY <1>0, <1>3, AllLabels, GotoStep DEF Check
    <2>2. loaded' \in [Actors -> 0 .. ByteMod - 1]
      BY <1>3 DEF Check, Load, TypeOK
    <2> QED
      BY <1>1, <1>3, <2>1, <2>2 DEF Check, TypeOK, ring, pwm, asks
  <1>4. CASE Uncount
    <2>1. pc' \in [Actors -> Labels]
      BY <1>0, <1>4, AllLabels, GotoStep DEF Uncount
    <2>2. TotalUsedLightEvtNum' \in 0 .. ByteMod - 1
      BY <1>0, <1>4, Counting DEF Uncount, TypeOK
    <2> QED
      BY <1>1, <1>4, <2>1, <2>2 DEF Uncount, TypeOK, pwm, own, asks
  <1>5. CASE Alloc
    <2>1. pc' \in [Actors -> Labels]
      BY <1>0, <1>5, AllLabels, GotoStep DEF Alloc
    <2>2. CurFreeLightEvtIdx' \in 0 .. QNum - 1 /\ slot' \in 0 .. QNum - 1
      BY <1>5, Counting DEF Alloc, TypeOK
    <2> QED
      BY <1>1, <1>5, <2>1, <2>2 DEF Alloc, TypeOK, pwm, asks
  <1>6. CASE Fill
    <2>1. pc' \in [Actors -> Labels] /\ ch' \in [Actors -> Channels]
      BY <1>0, <1>6, AllLabels, LoopStep DEF Fill
    <2>2. ch[Caller] \in Channels /\ aim[ch[Caller]] \in Nat
      BY <1>0 DEF TypeOK, Duties
    <2>3. [LightEvtArr[slot] EXCEPT ![ch[Caller]] = aim[ch[Caller]]] \in Duties
      BY <2>2 DEF TypeOK, Duties
    <2>4. LightEvtArr' = [LightEvtArr EXCEPT
                            ![slot] = [LightEvtArr[slot] EXCEPT ![ch[Caller]] = aim[ch[Caller]]]]
      BY <1>6 DEF Fill, TypeOK
    <2>5. LightEvtArr' \in [0 .. QNum - 1 -> Duties]
      BY <2>3, <2>4 DEF TypeOK
    <2> QED
      BY <1>1, <1>6, <2>1, <2>5 DEF Fill, TypeOK, pwm, asks
  <1> QED
    BY <1>2, <1>3, <1>4, <1>5, <1>6 DEF CallerStep

LEMMA TypeFires ==
    ASSUME TypeOK, TimerFires
    PROVE  TypeOK'
  <1>1. Timer \in Actors
    BY DEF Actors
  <1>2. pc' \in [Actors -> Labels]
    BY <1>1, AllLabels, GotoStep DEF TimerFires, Fires
  <1>3. clean' \in BOOLEAN /\ clash' \in BOOLEAN
    BY DEF TimerFires, Watch, TypeOK
  <1> QED
    BY <1>2, <1>3 DEF TimerFires, Fires, TypeOK, ring, own, asks

LEMMA TypeTake ==
    ASSUME TypeOK, NEW a \in Actors, TakeStep(a), Watch
    PROVE  TypeOK'
  <1>1. clean' \in BOOLEAN /\ clash' \in BOOLEAN
    BY DEF Watch, TypeOK
  <1>2. UNCHANGED <<LightEvtArr, CurFreeLightEvtIdx, duty_now, pwm_duty, change_finish, armed,
                    held, slot, aim, calls>>
    BY DEF TakeStep, Look, Take, Copy, LoadIndex, StoreIndex, Wrap, Zero, Free, Freed, Begin,
           ring, pwm, own, asks
  <1>3. pc' \in [Actors -> Labels]
    <2>1. CASE Copy(a)
      BY <2>1, AllLabels, LoopStep DEF Copy
    <2>2. CASE ~Copy(a)
      BY <2>2, AllLabels, GotoStep
         DEF TakeStep, Look, Take, LoadIndex, StoreIndex, Wrap, Zero, Free, Freed, Begin
    <2> QED
      BY <2>1, <2>2
  <1>4. ch' \in [Actors -> Channels]
    <2>1. CASE Copy(a)
      BY <2>1, AllLabels, LoopStep DEF Copy
    <2>2. CASE ~Copy(a)
      BY <2>2 DEF TakeStep, Look, Take, LoadIndex, StoreIndex, Wrap, Zero, Free, Freed, Begin,
                  own, TypeOK
    <2> QED
      BY <2>1, <2>2
  <1>5. current_duty' \in Duties
    <2>1. CASE Copy(a)
      <3>1. PICK d \in Word(loaded[a], ch[a]) : current_duty' = [current_duty EXCEPT ![ch[a]] = d]
        BY <2>1 DEF Copy
      <3>2. loaded[a] \in Nat /\ ch[a] \in Channels
        BY ByteModAssumption, QNumAssumption DEF TypeOK
      <3>3. loaded[a] < QNum => LightEvtArr[loaded[a]] \in Duties
        BY <3>2, QNumAssumption DEF TypeOK
      <3>4. d \in Nat
        BY <3>1, <3>2, <3>3, DutiesAssumption DEF Word, Duties
      <3> QED
        BY <3>1, <3>2, <3>4 DEF TypeOK, Duties
    <2>2. CASE ~Copy(a)
      BY <2>2 DEF TakeStep, Look, Take, LoadIndex, StoreIndex, Wrap, Zero, Free, Freed, Begin,
                  pwm, TypeOK
    <2> QED
      BY <2>1, <2>2
  <1>6. loaded' \in [Actors -> 0 .. ByteMod - 1]
    BY DEF TakeStep, Look, Take, Copy, LoadIndex, StoreIndex, Wrap, Zero, Free, Freed, Begin,
           Load, own, TypeOK
  <1>7. TotalUsedLightEvtNum' \in 0 .. ByteMod - 1
    <2>1. loaded[a] \in 0 .. ByteMod - 1
      BY DEF TypeOK
    <2> QED
      BY <2>1, Counting
         DEF TakeStep, Look, Take, Copy, LoadIndex, StoreIndex, Wrap, Zero, Free, Freed, Begin,
             ring, TypeOK
  <1>8. CurEvtIdxToBeUse' \in 0 .. ByteMod - 1
    <2>1. loaded[a] \in 0 .. ByteMod - 1 /\ 0 \in 0 .. ByteMod - 1
      BY ByteModAssumption, QNumAssumption DEF TypeOK
    <2> QED
      BY <2>1, Counting
         DEF TakeStep, Look, Take, Copy, LoadIndex, StoreIndex, Wrap, Zero, Free, Freed, Begin,
             ring, TypeOK
  <1> QED
    BY <1>1, <1>2, <1>3, <1>4, <1>5, <1>6, <1>7, <1>8 DEF TypeOK

LEMMA TypeAdjust ==
    ASSUME TypeOK, NEW a \in Actors, AdjustStep(a), Watch
    PROVE  TypeOK'
  <1> DEFINE n == ch[a]
  <1>0. n \in Channels /\ duty_now[n] \in Nat /\ current_duty[n] \in Nat /\ held[a] \in Nat
        /\ 0 \in Channels
    <2>1. n \in Channels /\ held[a] \in Nat
      BY DEF TypeOK
    <2>2. duty_now[n] \in Nat /\ current_duty[n] \in Nat
      BY <2>1 DEF TypeOK, Duties
    <2>3. 0 \in Channels
      BY ChannelsAssumption DEF Channels
    <2> QED
      BY <2>1, <2>2, <2>3
  <1>1. clean' \in BOOLEAN /\ clash' \in BOOLEAN
    BY DEF Watch, TypeOK
  <1>2. UNCHANGED <<ring, current_duty, loaded, slot, aim, calls>>
    BY DEF AdjustStep, Eighth, Move, Compare, Snap, Show, SetDuty, Differs, Equals, Again, Arm,
           Done, Disarm, pwm, own, asks
  <1>3. pc' \in [Actors -> Labels] /\ ch' \in [Actors -> Channels]
    <2>1. CASE SetDuty(a) \/ Equals(a)
      BY <2>1, AllLabels, LoopStep DEF SetDuty, Equals
    <2>2. CASE Differs(a)
      BY <1>0, <2>2, AllLabels, GotoStep DEF Differs, TypeOK
    <2>3. CASE ~(SetDuty(a) \/ Equals(a) \/ Differs(a))
      <3>1. pc' \in [Actors -> Labels]
        BY <2>3, AllLabels, GotoStep
           DEF AdjustStep, Eighth, Move, Compare, Snap, Show, Again, Arm, Done, Disarm
      <3>2. ch' = ch
        BY <2>3 DEF AdjustStep, Eighth, Move, Compare, Snap, Show, Again, Arm, Done, Disarm, own
      <3> QED
        BY <3>1, <3>2 DEF TypeOK
    <2> QED
      BY <2>1, <2>2, <2>3
  <1>4. held' \in [Actors -> Nat]
    <2>1. EighthOf(duty_now[n], current_duty[n]) \in Nat
      BY <1>0, EighthBetween
    <2> QED
      BY <1>0, <2>1 DEF AdjustStep, Eighth, Move, Compare, Snap, Show, SetDuty, Differs, Equals,
                        Again, Arm, Done, Disarm, Hold, own, TypeOK
  <1>5. duty_now' \in Duties
    <2>1. CASE Move(a) \/ Snap(a)
      BY <1>0, <2>1 DEF Move, Snap, TypeOK, Duties
    <2>2. CASE ~(Move(a) \/ Snap(a))
      <3>1. duty_now' = duty_now
        BY <2>2 DEF AdjustStep, Eighth, Compare, Show, SetDuty, Differs, Equals,
                    Again, Arm, Done, Disarm, pwm
      <3> QED
        BY <3>1 DEF TypeOK
    <2> QED
      BY <2>1, <2>2
  <1>6. pwm_duty' \in Duties
    <2>1. CASE SetDuty(a)
      BY <1>0, <2>1 DEF SetDuty, TypeOK, Duties
    <2>2. CASE ~(SetDuty(a))
      <3>1. pwm_duty' = pwm_duty
        BY <2>2 DEF AdjustStep, Eighth, Move, Compare, Snap, Show, Differs, Equals,
                    Again, Arm, Done, Disarm, pwm
      <3> QED
        BY <3>1 DEF TypeOK
    <2> QED
      BY <2>1, <2>2
  <1>7. change_finish' \in BOOLEAN /\ armed' \in BOOLEAN
    BY DEF AdjustStep, Eighth, Move, Compare, Snap, Show, SetDuty, Differs, Equals,
           Again, Arm, Done, Disarm, pwm, TypeOK
  <1> QED
    BY <1>1, <1>2, <1>3, <1>4, <1>5, <1>6, <1>7 DEF TypeOK, ring

LEMMA TypeStep == TypeOK /\ [Next]_vars => TypeOK'
  <1> SUFFICES ASSUME TypeOK, [Next]_vars PROVE TypeOK'
    OBVIOUS
  <1>1. CASE UNCHANGED vars
    BY <1>1 DEF TypeOK, vars, ring, pwm, own, asks
  <1>2. CASE Asked
    BY <1>2, TypeAsked DEF Asked
  <1>3. ASSUME NEW a \in Actors, Proc(a) PROVE TypeOK'
    BY <1>3, TypeTake, TypeAdjust DEF Proc
  <1> QED
    BY <1>1, <1>2, <1>3, TypeCaller, TypeFires DEF Next

----------------------------------------------------------------------------
\* While they do not take at the same time, the index leaves the ring only between its
\* increment and its wrap, when nobody reads it.
LEMMA RingElse ==
    ASSUME TypeOK, RingInv, TypeOK', ~clash, NEW a \in Actors,
           CurEvtIdxToBeUse' = CurEvtIdxToBeUse,
           pc[a] \notin {"wrap", "zero"}, pc'[a] \notin {"copy", "store"},
           \A b \in Actors \ {a} : pc'[b] = pc[b] /\ loaded'[b] = loaded[b],
           \E b \in Actors : pc'[b] \notin Taking
    PROVE  RingInv'
  <1>1. \A b \in Actors : pc'[b] \in {"copy", "store"} => loaded'[b] < QNum
    BY DEF RingInv
  <1>2. InRing' \/ \E b \in Actors : pc'[b] \in {"wrap", "zero"}
    <2>1. InRing' <=> InRing
      BY DEF InRing
    <2> QED
      BY <2>1 DEF RingInv
  <1> QED
    BY <1>1, <1>2 DEF RingInv

LEMMA RingTake ==
    ASSUME TypeOK, RingInv, TypeOK', ~clash, NEW a \in Actors, TakeStep(a),
           \E b \in Actors : pc'[b] \notin Taking
    PROVE  RingInv'
  <1>1. \A b \in Actors \ {a} : pc'[b] = pc[b] /\ loaded'[b] = loaded[b]
    BY DEF TakeStep, Look, Take, Copy, LoadIndex, StoreIndex, Wrap, Zero, Free, Freed, Begin,
           Goto, Loop, Load, own, TypeOK
  <1>2. ASSUME pc[a] \in Taking PROVE \A b \in Actors \ {a} : pc[b] \notin Taking
    BY <1>2 DEF RingInv, Actors
  <1>3. pc \in [Actors -> Labels] /\ loaded \in [Actors -> 0 .. ByteMod - 1] /\ QNum \in Nat
        /\ CurEvtIdxToBeUse \in Nat
    BY ByteModAssumption, QNumAssumption DEF TypeOK
  <1>4. ASSUME pc[a] \in {"take", "copy", "load", "store"} PROVE InRing
    <2>1. \A b \in Actors : pc[b] \notin {"wrap", "zero"}
      BY <1>2, <1>4 DEF Taking
    <2> QED
      BY <2>1 DEF RingInv
  <1>5. ASSUME pc[a] \in Taking PROVE \A b \in Actors \ {a} : pc'[b] \notin Taking
    BY <1>1, <1>2, <1>5
  <1>6. CASE Look(a) \/ Free(a) \/ Freed(a) \/ Begin(a)
    <2>1. CurEvtIdxToBeUse' = CurEvtIdxToBeUse /\ pc[a] \notin {"wrap", "zero"}
          /\ pc'[a] \notin {"copy", "store"}
      BY <1>3, <1>6 DEF Look, Free, Freed, Begin, Goto, ring
    <2> QED
      BY <1>1, <2>1, RingElse
  <1>7. CASE Take(a)
    <2>1. pc[a] = "take" /\ pc'[a] = "copy" /\ loaded'[a] = CurEvtIdxToBeUse
          /\ CurEvtIdxToBeUse' = CurEvtIdxToBeUse
      BY <1>3, <1>7 DEF Take, Goto, Load, ring
    <2>2. pc[a] \in Taking /\ InRing
      BY <1>4, <2>1 DEF Taking
    <2> QED
      BY <1>1, <1>3, <1>5, <2>1, <2>2 DEF RingInv, InRing, Taking
  <1>8. CASE Copy(a)
    <2>1. pc[a] = "copy" /\ pc'[a] \in {"copy", "load"} /\ loaded'[a] = loaded[a]
          /\ CurEvtIdxToBeUse' = CurEvtIdxToBeUse
      BY <1>3, <1>8 DEF Copy, Loop, Goto, ring
    <2>2. pc[a] \in Taking /\ InRing /\ loaded[a] < QNum
      BY <1>4, <2>1 DEF Taking, RingInv
    <2> QED
      BY <1>1, <1>3, <1>5, <2>1, <2>2 DEF RingInv, InRing, Taking
  <1>9. CASE LoadIndex(a)
    <2>1. pc[a] = "load" /\ pc'[a] = "store" /\ loaded'[a] = CurEvtIdxToBeUse
          /\ CurEvtIdxToBeUse' = CurEvtIdxToBeUse
      BY <1>3, <1>9 DEF LoadIndex, Goto, Load, ring
    <2>2. pc[a] \in Taking /\ InRing
      BY <1>4, <2>1 DEF Taking
    <2> QED
      BY <1>1, <1>3, <1>5, <2>1, <2>2 DEF RingInv, InRing, Taking
  <1>10. CASE StoreIndex(a)
    <2>1. pc[a] = "store" /\ pc'[a] = "wrap" /\ CurEvtIdxToBeUse' = Plus(loaded[a])
      BY <1>3, <1>10 DEF StoreIndex, Goto
    <2>2. pc[a] \in Taking /\ loaded[a] \in 0 .. QNum - 1
      BY <1>3, <2>1 DEF Taking, RingInv
    <2>3. CurEvtIdxToBeUse' <= QNum
      BY <1>3, <2>1, <2>2, Counting
    <2>4. \A b \in Actors : pc'[b] \notin {"copy", "store"}
      BY <1>5, <2>1, <2>2 DEF Taking
    <2> QED
      BY <2>1, <2>3, <2>4 DEF RingInv
  <1>11. CASE Wrap(a)
    <2>1. pc[a] = "wrap" /\ CurEvtIdxToBeUse' = CurEvtIdxToBeUse
          /\ (pc'[a] = "zero" \/ (pc'[a] = "free" /\ ~(CurEvtIdxToBeUse > QNum - 1)))
      BY <1>3, <1>11 DEF Wrap, Goto, ring
    <2>2. pc[a] \in Taking
      BY <2>1 DEF Taking
    <2>3. \A b \in Actors : pc'[b] \notin {"copy", "store"}
      BY <1>5, <2>1, <2>2 DEF Taking
    <2>4. InRing' \/ pc'[a] = "zero"
      BY <1>3, <2>1 DEF InRing
    <2>5. CurEvtIdxToBeUse' <= QNum
      BY <2>1 DEF RingInv
    <2> QED
      BY <2>3, <2>4, <2>5 DEF RingInv
  <1>12. CASE Zero(a)
    <2>1. pc[a] = "zero" /\ pc'[a] = "free" /\ CurEvtIdxToBeUse' = 0
      BY <1>3, <1>12 DEF Zero, Goto
    <2>2. pc[a] \in Taking
      BY <2>1 DEF Taking
    <2>3. \A b \in Actors : pc'[b] \notin {"copy", "store"}
      BY <1>5, <2>1, <2>2 DEF Taking
    <2>4. InRing' /\ CurEvtIdxToBeUse' <= QNum
      BY <2>1, QNumAssumption DEF InRing
    <2> QED
      BY <2>3, <2>4 DEF RingInv
  <1> QED
    BY <1>6, <1>7, <1>8, <1>9, <1>10, <1>11, <1>12 DEF TakeStep

LEMMA RingStep ==
    ASSUME TypeOK, RingInv, [Next]_vars, TypeOK'
    PROVE  RingInv'
  <1> SUFFICES ASSUME ~clash' PROVE RingInv'
    BY DEF RingInv
  <1>0. pc \in [Actors -> Labels] /\ Caller \in Actors /\ Timer \in Actors
    BY DEF TypeOK, Actors
  <1>1. CASE UNCHANGED vars
    BY <1>1 DEF RingInv, InRing, vars, ring, own
  <1>2. ASSUME Watch PROVE ~clash /\ \E b \in Actors : pc'[b] \notin Taking
    BY <1>2 DEF Watch
  <1>3. CASE Asked
    <2>1. CurEvtIdxToBeUse' = CurEvtIdxToBeUse /\ pc[Caller] \notin {"wrap", "zero"}
          /\ pc'[Caller] \notin {"copy", "store"}
          /\ \A b \in Actors \ {Caller} : pc'[b] = pc[b] /\ loaded'[b] = loaded[b]
      BY <1>0, <1>3 DEF Asked, LightSetAim, Goto, Load, ring, TypeOK
    <2> QED
      BY <1>0, <1>2, <1>3, <2>1, RingElse DEF Asked
  <1>4. CASE CallerStep
    <2>1. CurEvtIdxToBeUse' = CurEvtIdxToBeUse /\ pc[Caller] \notin {"wrap", "zero"}
          /\ pc'[Caller] \notin {"copy", "store"}
          /\ \A b \in Actors \ {Caller} : pc'[b] = pc[b] /\ loaded'[b] = loaded[b]
      BY <1>0, <1>4 DEF CallerStep, Count, Check, Uncount, Alloc, Fill, Goto, Loop, Load, ring,
                        own, TypeOK
    <2> QED
      BY <1>0, <1>2, <1>4, <2>1, RingElse DEF CallerStep
  <1>5. CASE TimerFires
    <2>1. CurEvtIdxToBeUse' = CurEvtIdxToBeUse /\ pc[Timer] \notin {"wrap", "zero"}
          /\ pc'[Timer] \notin {"copy", "store"}
          /\ \A b \in Actors \ {Timer} : pc'[b] = pc[b] /\ loaded'[b] = loaded[b]
      BY <1>0, <1>5 DEF TimerFires, Fires, Goto, ring, own
    <2> QED
      BY <1>0, <1>2, <1>5, <2>1, RingElse DEF TimerFires
  <1>6. ASSUME NEW a \in Actors, Proc(a) PROVE RingInv'
    <2>1. ~clash /\ \E b \in Actors : pc'[b] \notin Taking
      BY <1>2, <1>6 DEF Proc
    <2>2. CASE TakeStep(a)
      BY <2>1, <2>2, RingTake
    <2>3. CASE AdjustStep(a)
      <3>1. CurEvtIdxToBeUse' = CurEvtIdxToBeUse /\ pc[a] \notin {"wrap", "zero"}
            /\ pc'[a] \notin {"copy", "store"}
            /\ \A b \in Actors \ {a} : pc'[b] = pc[b] /\ loaded'[b] = loaded[b]
        BY <1>0, <2>3
           DEF AdjustStep, Eighth, Move, Compare, Snap, Show, SetDuty, Differs, Equals, Again,
               Arm, Done, Disarm, Goto, Loop, ring, own
      <3> QED
        BY <2>1, <3>1, RingElse
    <2> QED
      BY <1>6, <2>2, <2>3 DEF Proc
  <1> QED
    BY <1>1, <1>3, <1>4, <1>5, <1>6 DEF Next

----------------------------------------------------------------------------
\* The actor that is at work, and no other, may disturb what holds at its label.
LEMMA OtherIdle ==
    ASSUME CleanInv, clean, NEW a \in Actors, pc[a] # "idle"
    PROVE  (\A b \in Actors \ {a} : pc[b] = "idle" /\ ch[b] = 0) /\ At(a)
  BY DEF CleanInv, Actors, At, Looping, Adjusting

\* From a label that an actor reaches while the other is idle, CleanInv follows.
LEMMA Reached ==
    ASSUME NEW a \in Actors, \A b \in Actors \ {a} : pc'[b] = "idle" /\ ch'[b] = 0,
           pc'[a] = "idle" => Rest' /\ ch'[a] = 0, pc'[a] # "idle" => At(a)'
    PROVE  CleanInv'
  <1>1. \A b \in Actors : pc'[b] = "idle" /\ ch'[b] = 0 => At(b)'
    BY DEF At, AtCaller, AtTaking, AtAdjusting, Adjusting
  <1>2. \E b \in Actors : b # a
    BY DEF Actors, Caller, Timer
  <1>3. \E b \in Actors : pc'[b] = "idle"
    BY <1>2
  <1>4. \A b \in Actors : At(b)'
    BY <1>1
  <1>5. (\A b \in Actors : pc'[b] = "idle") => Rest'
    OBVIOUS
  <1> QED
    BY <1>3, <1>4, <1>5 DEF CleanInv

\* A call begins, or the timer fires.
LEMMA StartStep ==
    ASSUME TypeOK, CleanInv, Asked \/ TimerFires, clean'
    PROVE  CleanInv'
  <1>0. pc \in [Actors -> Labels] /\ ch \in [Actors -> Channels]
        /\ Caller \in Actors /\ Timer \in Actors /\ Caller # Timer
    BY DEF TypeOK, Actors, Caller, Timer
  <1>1. ASSUME NEW d \in Aims, LightSetAim(d), Watch PROVE CleanInv'
    <2>1. pc[Caller] = "idle" /\ pc'[Caller] = "count" /\ pc'[Timer] = pc[Timer] /\ ch' = ch
          /\ loaded'[Caller] = TotalUsedLightEvtNum
      BY <1>0, <1>1 DEF LightSetAim, Goto, Load, TypeOK
    <2>2. clean /\ \A a \in Actors : pc[a] = "idle"
      BY <1>1, <2>1 DEF Watch, Actors
    <2>3. Rest /\ \A a \in Actors : ch[a] = 0
      BY <2>2 DEF CleanInv, At, Looping, Adjusting
    <2>4. Empty' /\ Moving'
      BY <1>1, <2>3 DEF LightSetAim, Rest, Empty, InRing, Moving, ring, pwm
    <2>5. At(Caller)'
      BY <1>0, <2>1, <2>3, <2>4
         DEF At, AtCaller, AtTaking, AtAdjusting, Adjusting, Rest, Empty
    <2> QED
      BY <1>0, <2>1, <2>2, <2>3, <2>5, Reached DEF Actors
  <1>2. ASSUME TimerFires PROVE CleanInv'
    <2>1. pc[Timer] = "idle" /\ pc'[Timer] = "eighth" /\ pc'[Caller] = pc[Caller] /\ ch' = ch
          /\ armed /\ ~armed'
      BY <1>0, <1>2 DEF TimerFires, Fires, Goto, own
    <2>2. clean /\ \A a \in Actors : pc[a] = "idle"
      BY <1>2, <2>1 DEF TimerFires, Watch, Actors
    <2>3. Rest /\ \A a \in Actors : ch[a] = 0
      BY <2>2 DEF CleanInv, At, Looping, Adjusting
    <2>4. Empty' /\ current_duty' = aim'
      BY <1>2, <2>1, <2>3 DEF TimerFires, Fires, Rest, Empty, InRing, ring, asks
    <2>5. At(Timer)'
      BY <2>1, <2>4 DEF At, AtCaller, AtTaking, AtAdjusting, Looping, Adjusting
    <2> QED
      BY <1>0, <2>1, <2>2, <2>3, <2>5, Reached DEF Actors
  <1> QED
    BY <1>1, <1>2 DEF Asked

\* What At says once the label is known.
LEMMA CallerKeeps ==
    ASSUME TypeOK, CleanInv, CallerStep, clean'
    PROVE  CleanInv'
  <1>0. Caller \in Actors /\ pc \in [Actors -> Labels] /\ ch \in [Actors -> Channels]
    BY DEF TypeOK, Actors
  <1>1. clean /\ pc[Caller] # "idle"
    BY DEF CallerStep, Count, Check, Uncount, Alloc, Fill, Goto, Loop, Watch
  <1>2. (\A b \in Actors \ {Caller} : pc[b] = "idle" /\ ch[b] = 0) /\ At(Caller)
    BY <1>0, <1>1, OtherIdle
  <1>3. \A b \in Actors \ {Caller} : pc'[b] = "idle" /\ ch'[b] = 0
    BY <1>0, <1>2 DEF CallerStep, Count, Check, Uncount, Alloc, Fill, Goto, Loop, own
  <1>4. pc'[Caller] # "idle" /\ At(Caller)'
    <2>1. CASE Count
      <3>1. pc[Caller] = "count" /\ pc'[Caller] = "check" /\ ch'[Caller] = ch[Caller]
        BY <1>0, <2>1 DEF Count, Goto, own
      <3>2. Empty /\ Moving /\ loaded[Caller] = 0 /\ ch[Caller] = 0
        BY <1>2, <3>1 DEF At, AtCaller, Looping, Adjusting
      <3>3. TotalUsedLightEvtNum' = 1
        BY <2>1, <3>2, Counting, QNumAssumption DEF Count
      <3>4. Taken' /\ Moving'
        BY <2>1, <3>2, <3>3 DEF Count, Empty, Taken, InRing, Moving, pwm
      <3> QED
        BY <3>1, <3>2, <3>4 DEF At, AtCaller, AtTaking, AtAdjusting, Adjusting
    <2>2. CASE Check
      <3>1. pc[Caller] = "check" /\ ch'[Caller] = ch[Caller]
        BY <2>2 DEF Check, Goto
      <3>2. Taken /\ Moving /\ ch[Caller] = 0
        BY <1>2, <3>1 DEF At, AtCaller, Looping, Adjusting
      <3>3. ~Full
        BY <3>2, QNumAssumption DEF Full, Taken
      <3>4. pc'[Caller] = "alloc"
        BY <1>0, <2>2, <3>3 DEF Check, Goto
      <3>5. Taken' /\ Moving'
        BY <2>2, <3>2 DEF Check, Taken, InRing, Moving, ring, pwm
      <3> QED
        BY <3>1, <3>2, <3>4, <3>5 DEF At, AtCaller, AtTaking, AtAdjusting, Adjusting
    <2>3. CASE Uncount
      BY <1>2, <2>3 DEF Uncount, Goto, At, AtCaller
    <2>4. CASE Alloc
      <3>1. pc[Caller] = "alloc" /\ pc'[Caller] = "fill" /\ ch'[Caller] = ch[Caller]
        BY <1>0, <2>4 DEF Alloc, Goto
      <3>2. Taken /\ Moving /\ ch[Caller] = 0
        BY <1>2, <3>1 DEF At, AtCaller, Looping, Adjusting
      <3>3. Holds1' /\ Moving' /\ slot' = CurEvtIdxToBeUse'
        BY <2>4, <3>2 DEF Alloc, Taken, Holds1, InRing, Next1, Moving, pwm
      <3>4. Upto(ch[Caller], LightEvtArr[slot], aim)'
        BY <3>1, <3>2, UptoNone
      <3> QED
        BY <3>1, <3>3, <3>4 DEF At, AtCaller, AtTaking, AtAdjusting, Looping, Adjusting
    <2>5. CASE Fill
      <3> DEFINE n == ch[Caller]
                 d == LightEvtArr[slot]
      <3>1. /\ pc[Caller] = "fill"
            /\ \/ pc'[Caller] = "fill" /\ ch'[Caller] = n + 1
               \/ pc'[Caller] = "look" /\ ch'[Caller] = 0 /\ \A c \in Channels : c < n + 1
        BY <1>0, <2>5, AllLabels, LoopStep DEF Fill
      <3>2. Holds1 /\ Moving /\ slot = CurEvtIdxToBeUse /\ Upto(n, d, aim)
        BY <1>2, <3>1 DEF At, AtCaller
      <3>3. Holds1' /\ Moving' /\ slot' = CurEvtIdxToBeUse' /\ aim' = aim /\ slot' = slot
            /\ CurEvtIdxToBeUse' = CurEvtIdxToBeUse
        BY <2>5, <3>2 DEF Fill, Holds1, InRing, Next1, Moving, pwm, asks
      <3>4. n \in Channels /\ d \in Duties /\ aim \in Duties
        BY <1>0 DEF TypeOK
      <3>5. LightEvtArr'[slot] = [d EXCEPT ![n] = aim[n]]
        BY <2>5 DEF Fill, TypeOK
      <3>6. Upto(n + 1, LightEvtArr'[slot], aim)
        BY <3>2, <3>4, <3>5, UptoNext
      <3>7. (\A c \in Channels : c < n + 1) => LightEvtArr'[slot] = aim
        <4> HIDE DEF n, d
        <4>1. (\A c \in Channels : c < n + 1) => [d EXCEPT ![n] = aim[n]] = aim
          BY <3>2, <3>4, UptoNext
        <4> QED
          BY <3>5, <4>1
      <3>8. CASE pc'[Caller] = "fill" /\ ch'[Caller] = n + 1
        BY <3>3, <3>6, <3>8 DEF At, AtCaller, AtTaking, AtAdjusting, Looping, Adjusting
      <3>9. CASE pc'[Caller] = "look" /\ ch'[Caller] = 0 /\ \A c \in Channels : c < n + 1
        <4>1. Holds'
          BY <3>2, <3>3, <3>7, <3>9 DEF Holds
        <4> QED
          BY <3>3, <3>9, <4>1 DEF At, AtCaller, AtTaking, AtAdjusting, Adjusting
      <3> QED
        BY <3>1, <3>8, <3>9
    <2> QED
      BY <2>1, <2>2, <2>3, <2>4, <2>5 DEF CallerStep
  <1> QED
    BY <1>0, <1>3, <1>4, Reached

\* A step of light_pwm_smooth_adj_proc, with the other actor idle.
LEMMA TakeKeeps ==
    ASSUME TypeOK, NEW a \in Actors, TakeStep(a), At(a)
    PROVE  (pc'[a] = "idle" => Rest' /\ ch'[a] = 0) /\ (pc'[a] # "idle" => At(a)')
  <1>0. pc \in [Actors -> Labels] /\ ch \in [Actors -> Channels]
        /\ loaded \in [Actors -> 0 .. ByteMod - 1] /\ CurEvtIdxToBeUse \in Nat /\ QNum \in Nat \ {0}
    BY ByteModAssumption, QNumAssumption DEF TypeOK
  <1>1. CASE Look(a)
    <2>1. /\ pc[a] = "look" /\ ch' = ch
          /\ pc'[a] = IF TotalUsedLightEvtNum > 0 THEN "take" ELSE "idle"
          /\ UNCHANGED <<ring, pwm, asks>>
      BY <1>0, <1>1 DEF Look, Goto, own
    <2>2. ch[a] = 0 /\ ((Holds /\ Moving) \/ (Empty /\ pwm_duty = aim /\ change_finish /\ ~armed))
      BY <2>1 DEF At, AtTaking, Looping, Adjusting
    <2>3. CASE Holds /\ Moving
      <3>1. pc'[a] = "take"
        BY <2>1, <2>3 DEF Holds, Holds1
      <3>2. Holds' /\ Moving'
        BY <2>1, <2>3 DEF Holds, Holds1, InRing, Next1, Moving, ring, pwm, asks
      <3> QED
        BY <2>1, <2>2, <3>1, <3>2 DEF At, AtCaller, AtTaking, AtAdjusting, Adjusting
    <2>4. CASE Empty /\ pwm_duty = aim /\ change_finish /\ ~armed
      <3>1. pc'[a] = "idle"
        BY <2>1, <2>4 DEF Empty
      <3>2. Rest'
        BY <2>1, <2>4 DEF Rest, Empty, InRing, Moving, ring, pwm, asks
      <3> QED
        BY <2>1, <2>2, <3>1, <3>2
    <2> QED
      BY <2>2, <2>3, <2>4
  <1>2. CASE Take(a)
    <2>1. pc[a] = "take" /\ pc'[a] = "copy" /\ ch' = ch /\ loaded'[a] = CurEvtIdxToBeUse
          /\ UNCHANGED <<ring, pwm, asks>>
      BY <1>0, <1>2 DEF Take, Goto, Load
    <2>2. Holds /\ Moving /\ ch[a] = 0
      BY <2>1 DEF At, AtTaking, Looping, Adjusting
    <2>3. Holds' /\ Moving' /\ CurEvtIdxToBeUse' = CurEvtIdxToBeUse
      BY <2>1, <2>2 DEF Holds, Holds1, InRing, Next1, Moving, ring, pwm, asks
    <2>4. Upto(ch[a], current_duty, aim)'
      BY <2>1, <2>2, UptoNone
    <2> QED
      BY <2>1, <2>3, <2>4 DEF At, AtCaller, AtTaking, AtAdjusting, Looping, Adjusting
  <1>3. CASE Copy(a)
    <2> DEFINE n == ch[a]
    <2>1. /\ pc[a] = "copy"
          /\ \/ pc'[a] = "copy" /\ ch'[a] = n + 1
             \/ pc'[a] = "load" /\ ch'[a] = 0 /\ \A c \in Channels : c < n + 1
          /\ UNCHANGED <<ring, change_finish, armed, loaded, asks>>
      BY <1>3, AllLabels, LoopStep DEF Copy
    <2>2. Holds /\ Moving /\ loaded[a] = CurEvtIdxToBeUse /\ Upto(n, current_duty, aim)
      BY <2>1 DEF At, AtTaking
    <2>3. n \in Channels /\ current_duty \in Duties /\ aim \in Duties
      BY <1>0 DEF TypeOK
    <2>4. Word(loaded[a], n) = {aim[n]}
      BY <2>2 DEF Word, Holds, Holds1, InRing
    <2>5. current_duty' = [current_duty EXCEPT ![n] = aim[n]]
      BY <1>3, <2>4 DEF Copy
    <2>6. Upto(n + 1, current_duty', aim)
      BY <2>2, <2>3, <2>5, UptoNext
    <2>7. (\A c \in Channels : c < n + 1) => current_duty' = aim
      BY <2>2, <2>3, <2>5, UptoNext
    <2>8. Holds' /\ Holds1' /\ Moving' /\ loaded' = loaded /\ aim' = aim
          /\ CurEvtIdxToBeUse' = CurEvtIdxToBeUse
      BY <2>1, <2>2 DEF Holds, Holds1, InRing, Next1, Moving, ring, asks
    <2>9. CASE pc'[a] = "copy" /\ ch'[a] = n + 1
      BY <2>2, <2>6, <2>8, <2>9 DEF At, AtCaller, AtTaking, AtAdjusting, Looping, Adjusting
    <2>10. CASE pc'[a] = "load" /\ ch'[a] = 0 /\ \A c \in Channels : c < n + 1
      <3>1. current_duty' = aim'
        BY <2>7, <2>8, <2>10
      <3> QED
        BY <2>8, <2>10, <3>1 DEF At, AtCaller, AtTaking, AtAdjusting, Adjusting
    <2> QED
      BY <2>1, <2>9, <2>10
  <1>4. CASE LoadIndex(a)
    <2>1. pc[a] = "load" /\ pc'[a] = "store" /\ ch' = ch /\ loaded'[a] = CurEvtIdxToBeUse
          /\ UNCHANGED <<ring, pwm, asks>>
      BY <1>0, <1>4 DEF LoadIndex, Goto, Load
    <2>2. Holds1 /\ Moving /\ current_duty = aim /\ ch[a] = 0
      BY <2>1 DEF At, AtTaking, Looping, Adjusting
    <2>3. Holds1' /\ Moving' /\ current_duty' = aim' /\ CurEvtIdxToBeUse' = CurEvtIdxToBeUse
      BY <2>1, <2>2 DEF Holds1, InRing, Next1, Moving, ring, pwm, asks
    <2> QED
      BY <2>1, <2>2, <2>3 DEF At, AtCaller, AtTaking, AtAdjusting, Adjusting
  <1>5. CASE StoreIndex(a)
    <2>1. pc[a] = "store" /\ pc'[a] = "wrap" /\ ch' = ch
          /\ CurEvtIdxToBeUse' = Plus(loaded[a])
          /\ UNCHANGED <<CurFreeLightEvtIdx, TotalUsedLightEvtNum, pwm, asks>>
      BY <1>0, <1>5 DEF StoreIndex, Goto, own
    <2>2. Holds1 /\ Moving /\ current_duty = aim /\ loaded[a] = CurEvtIdxToBeUse /\ ch[a] = 0
      BY <2>1 DEF At, AtTaking, Looping, Adjusting
    <2>3. CurEvtIdxToBeUse \in 0 .. QNum - 1
      BY <1>0, <2>2 DEF Holds1, InRing
    <2>4. CurEvtIdxToBeUse' = CurEvtIdxToBeUse + 1
      BY <1>0, <2>1, <2>2, <2>3, Counting
    <2>5. CurFreeLightEvtIdx = IF CurEvtIdxToBeUse + 1 < QNum THEN CurEvtIdxToBeUse + 1 ELSE 0
      BY <2>2, <2>3, Counting DEF Holds1
    <2>6. CurFreeLightEvtIdx' = IF InRing' THEN CurEvtIdxToBeUse' ELSE 0
      BY <2>1, <2>4, <2>5 DEF InRing
    <2>7. TotalUsedLightEvtNum' = 1 /\ Moving' /\ current_duty' = aim'
      BY <2>1, <2>2 DEF Holds1, Moving, pwm, asks
    <2> QED
      BY <2>1, <2>2, <2>6, <2>7 DEF At, AtCaller, AtTaking, AtAdjusting, Adjusting
  <1>6. CASE Wrap(a)
    <2>1. /\ pc[a] = "wrap" /\ ch' = ch /\ UNCHANGED <<ring, pwm, asks>>
          /\ pc'[a] = IF CurEvtIdxToBeUse > QNum - 1 THEN "zero" ELSE "free"
      BY <1>0, <1>6 DEF Wrap, Goto, own
    <2>2. TotalUsedLightEvtNum = 1 /\ Moving /\ current_duty = aim /\ ch[a] = 0
          /\ CurFreeLightEvtIdx = IF InRing THEN CurEvtIdxToBeUse ELSE 0
      BY <2>1 DEF At, AtTaking, Looping, Adjusting
    <2>3. TotalUsedLightEvtNum' = 1 /\ Moving' /\ current_duty' = aim'
      BY <2>1, <2>2 DEF Moving, ring, pwm, asks
    <2>4. CASE InRing
      <3>1. pc'[a] = "free"
        BY <1>0, <2>1, <2>4 DEF InRing
      <3>2. Taken'
        BY <2>1, <2>2, <2>4 DEF Taken, InRing, ring
      <3> QED
        BY <2>1, <2>2, <2>3, <3>1, <3>2 DEF At, AtCaller, AtTaking, AtAdjusting, Adjusting
    <2>5. CASE ~InRing
      <3>1. pc'[a] = "zero"
        BY <1>0, <2>1, <2>5 DEF InRing
      <3>2. CurFreeLightEvtIdx' = 0
        BY <2>1, <2>2, <2>5 DEF ring
      <3> QED
        BY <2>1, <2>2, <2>3, <3>1, <3>2 DEF At, AtCaller, AtTaking, AtAdjusting, Adjusting
    <2> QED
      BY <2>4, <2>5
  <1>7. CASE Zero(a)
    <2>1. pc[a] = "zero" /\ pc'[a] = "free" /\ ch' = ch /\ CurEvtIdxToBeUse' = 0
          /\ UNCHANGED <<CurFreeLightEvtIdx, TotalUsedLightEvtNum, pwm, asks>>
      BY <1>0, <1>7 DEF Zero, Goto, own
    <2>2. TotalUsedLightEvtNum = 1 /\ Moving /\ current_duty = aim /\ ch[a] = 0
          /\ CurFreeLightEvtIdx = 0
      BY <2>1 DEF At, AtTaking, Looping, Adjusting
    <2>3. Taken' /\ Moving' /\ current_duty' = aim'
      BY <1>0, <2>1, <2>2 DEF Taken, InRing, Moving, pwm, asks
    <2> QED
      BY <2>1, <2>2, <2>3 DEF At, AtCaller, AtTaking, AtAdjusting, Adjusting
  <1>8. CASE Free(a)
    <2>1. pc[a] = "free" /\ pc'[a] = "freed" /\ ch' = ch /\ loaded'[a] = TotalUsedLightEvtNum
          /\ UNCHANGED <<ring, pwm, asks>>
      BY <1>0, <1>8 DEF Free, Goto, Load
    <2>2. Taken /\ Moving /\ current_duty = aim /\ ch[a] = 0
      BY <2>1 DEF At, AtTaking, Looping, Adjusting
    <2>3. Taken' /\ Moving' /\ current_duty' = aim' /\ loaded'[a] = 1
      BY <2>1, <2>2 DEF Taken, InRing, Moving, ring, pwm, asks
    <2> QED
      BY <2>1, <2>2, <2>3 DEF At, AtCaller, AtTaking, AtAdjusting, Adjusting
  <1>9. CASE Freed(a)
    <2>1. pc[a] = "freed" /\ pc'[a] = "begin" /\ ch' = ch
          /\ TotalUsedLightEvtNum' = Minus(loaded[a])
          /\ UNCHANGED <<CurFreeLightEvtIdx, CurEvtIdxToBeUse, pwm, asks>>
      BY <1>0, <1>9 DEF Freed, Goto, own
    <2>2. Taken /\ Moving /\ current_duty = aim /\ loaded[a] = 1 /\ ch[a] = 0
      BY <2>1 DEF At, AtTaking, Looping, Adjusting
    <2>3. Empty' /\ Moving' /\ current_duty' = aim'
      BY <2>1, <2>2, Counting DEF Taken, Empty, InRing, Moving, pwm, asks
    <2> QED
      BY <2>1, <2>2, <2>3 DEF At, AtCaller, AtTaking, AtAdjusting, Adjusting
  <1>10. CASE Begin(a)
    <2>1. /\ pc[a] = "begin" /\ ch' = ch /\ UNCHANGED <<ring, pwm, asks>>
          /\ pc'[a] = IF change_finish THEN "eighth" ELSE "idle"
      BY <1>0, <1>10 DEF Begin, Goto, own
    <2>2. Empty /\ Moving /\ current_duty = aim /\ ch[a] = 0
      BY <2>1 DEF At, AtTaking, Looping, Adjusting
    <2>3. Empty' /\ Moving' /\ current_duty' = aim' /\ change_finish' = change_finish
          /\ armed' = armed
      BY <2>1, <2>2 DEF Empty, InRing, Moving, ring, pwm, asks
    <2>4. CASE change_finish
      <3>1. pc'[a] = "eighth" /\ ~armed'
        BY <2>1, <2>2, <2>3, <2>4 DEF Moving
      <3> QED
        BY <2>1, <2>2, <2>3, <3>1 DEF At, AtCaller, AtTaking, AtAdjusting, Looping, Adjusting
    <2>5. CASE ~change_finish
      <3>1. pc'[a] = "idle" /\ Rest'
        BY <2>1, <2>3, <2>5 DEF Rest
      <3> QED
        BY <2>1, <2>2, <3>1
    <2> QED
      BY <2>4, <2>5
  <1> QED
    BY <1>1, <1>2, <1>3, <1>4, <1>5, <1>6, <1>7, <1>8, <1>9, <1>10 DEF TakeStep

\* A step of light_pwm_dh_adj_proc, with the other actor idle.
LEMMA AdjustKeeps ==
    ASSUME TypeOK, NEW a \in Actors, AdjustStep(a), At(a)
    PROVE  (pc'[a] = "idle" => Rest' /\ ch'[a] = 0) /\ (pc'[a] # "idle" => At(a)')
  <1> DEFINE n == ch[a]
  <1>0. pc \in [Actors -> Labels] /\ ch \in [Actors -> Channels] /\ held \in [Actors -> Nat]
        /\ n \in Channels
    BY DEF TypeOK
  <1>1. UNCHANGED <<ring, current_duty, asks>>
    BY DEF AdjustStep, Eighth, Move, Compare, Snap, Show, SetDuty, Differs, Equals, Again, Arm,
           Done, Disarm, pwm
  <1>2. pc[a] \in Adjusting \cup {"test", "again", "arm", "done", "disarm"}
    BY DEF AdjustStep, Eighth, Move, Compare, Snap, Show, SetDuty, Differs, Equals, Again, Arm,
           Done, Disarm, Goto, Loop, Adjusting
  <1>3. Empty /\ current_duty = aim /\ ~armed
    BY <1>2 DEF At, AtAdjusting
  <1>4. Empty' /\ current_duty' = aim' /\ aim' = aim
    BY <1>1, <1>3 DEF Empty, InRing, ring, asks
  <1>5. CASE Eighth(a)
    <2>1. pc'[a] = "move" /\ ~armed' /\ ch' = ch /\ duty_now' = duty_now
          /\ held'[a] = EighthOf(duty_now[n], current_duty[n])
      BY <1>0, <1>3, <1>5 DEF Eighth, Goto, Hold, pwm
    <2>2. held'[a] = EighthOf(duty_now'[ch'[a]], aim'[ch'[a]])
      BY <1>3, <1>4, <2>1
    <2> QED
      BY <1>4, <2>1, <2>2 DEF At, AtCaller, AtTaking, AtAdjusting, Looping, Adjusting
  <1>6. CASE Move(a) \/ Compare(a) \/ Snap(a) \/ Show(a)
    <2>1. pc'[a] \in {"near", "snap", "show", "set"} /\ ~armed'
      BY <1>0, <1>3, <1>6 DEF Move, Compare, Snap, Show, Goto, pwm
    <2> QED
      BY <1>4, <2>1 DEF At, AtCaller, AtTaking, AtAdjusting, Looping, Adjusting
  <1>7. CASE SetDuty(a)
    <2>1. ~armed' /\ \/ pc'[a] = "eighth" /\ ch'[a] = n + 1
                     \/ pc'[a] = "test" /\ ch'[a] = 0
      BY <1>3, <1>7, AllLabels, LoopStep DEF SetDuty
    <2>2. pc'[a] = "test" => Upto(ch[a], pwm_duty, aim)'
      BY <2>1, UptoNone
    <2> QED
      BY <1>4, <2>1, <2>2 DEF At, AtCaller, AtTaking, AtAdjusting, Looping, Adjusting
  <1>8. CASE Differs(a)
    <2>1. pc'[a] = "again" /\ ch'[a] = 0 /\ ~armed'
      BY <1>0, <1>3, <1>8 DEF Differs, Goto, pwm
    <2> QED
      BY <1>4, <2>1 DEF At, AtCaller, AtTaking, AtAdjusting, Adjusting
  <1>9. CASE Equals(a)
    <2>1. /\ pc[a] = "test" /\ ~armed' /\ pwm_duty' = pwm_duty
          /\ \/ pc'[a] = "test" /\ ch'[a] = n + 1
             \/ pc'[a] = "done" /\ ch'[a] = 0 /\ \A c \in Channels : c < n + 1
      BY <1>3, <1>9, AllLabels, LoopStep DEF Equals, pwm
    <2>2. Upto(n, pwm_duty, aim) /\ pwm_duty[n] = aim[n]
      BY <1>3, <1>9, <2>1 DEF At, AtAdjusting, Equals
    <2>3. pwm_duty \in Duties /\ aim \in Duties
      BY DEF TypeOK
    <2>4. Upto(n + 1, pwm_duty, aim)
      BY <1>0, <2>2, <2>3, UptoNext
    <2>5. (\A c \in Channels : c < n + 1) => pwm_duty = aim
      BY <1>0, <2>2, <2>3, UptoNext
    <2>6. CASE pc'[a] = "test" /\ ch'[a] = n + 1
      BY <1>4, <2>1, <2>4, <2>6 DEF At, AtCaller, AtTaking, AtAdjusting, Looping, Adjusting
    <2>7. CASE pc'[a] = "done" /\ ch'[a] = 0 /\ \A c \in Channels : c < n + 1
      <3>1. pwm_duty' = aim'
        BY <1>4, <2>1, <2>5, <2>7
      <3> QED
        BY <1>4, <2>1, <2>7, <3>1 DEF At, AtCaller, AtTaking, AtAdjusting, Adjusting
    <2> QED
      BY <2>1, <2>6, <2>7
  <1>10. CASE Again(a)
    <2>1. pc[a] = "again" /\ pc'[a] = "arm" /\ ch' = ch /\ ~armed' /\ ~change_finish'
      BY <1>0, <1>3, <1>10 DEF Again, Goto, own
    <2>2. ch[a] = 0
      BY <2>1 DEF At, Looping, Adjusting
    <2> QED
      BY <1>4, <2>1, <2>2 DEF At, AtCaller, AtTaking, AtAdjusting, Adjusting
  <1>11. CASE Arm(a)
    <2>1. pc[a] = "arm" /\ pc'[a] = "idle" /\ ch' = ch /\ armed'
          /\ change_finish' = change_finish
      BY <1>0, <1>11 DEF Arm, Goto, own
    <2>2. ch[a] = 0 /\ ~change_finish
      BY <2>1 DEF At, AtAdjusting, Looping, Adjusting
    <2>3. Rest'
      BY <1>4, <2>1, <2>2 DEF Rest, Moving
    <2> QED
      BY <2>1, <2>2, <2>3
  <1>12. CASE Done(a)
    <2>1. pc[a] = "done" /\ pc'[a] = "disarm" /\ ch' = ch /\ ~armed' /\ change_finish'
          /\ pwm_duty' = pwm_duty
      BY <1>0, <1>3, <1>12 DEF Done, Goto, own
    <2>2. ch[a] = 0 /\ pwm_duty = aim
      BY <2>1 DEF At, AtAdjusting, Looping, Adjusting
    <2>3. pwm_duty' = aim'
      BY <1>4, <2>1, <2>2
    <2> QED
      BY <1>4, <2>1, <2>2, <2>3 DEF At, AtCaller, AtTaking, AtAdjusting, Adjusting
  <1>13. CASE Disarm(a)
    <2>1. pc[a] = "disarm" /\ pc'[a] = "look" /\ ch' = ch /\ ~armed'
          /\ change_finish' = change_finish /\ pwm_duty' = pwm_duty
      BY <1>0, <1>3, <1>13 DEF Disarm, Goto, own
    <2>2. ch[a] = 0 /\ change_finish /\ pwm_duty = aim
      BY <2>1 DEF At, AtAdjusting, Looping, Adjusting
    <2>3. pwm_duty' = aim' /\ change_finish'
      BY <1>4, <2>1, <2>2
    <2> QED
      BY <1>4, <2>1, <2>2, <2>3 DEF At, AtCaller, AtTaking, AtAdjusting, Adjusting
  <1> QED
    BY <1>5, <1>6, <1>7, <1>8, <1>9, <1>10, <1>11, <1>12, <1>13 DEF AdjustStep

LEMMA ProcKeeps ==
    ASSUME TypeOK, CleanInv, NEW a \in Actors, Proc(a), clean'
    PROVE  CleanInv'
  <1>1. clean /\ pc[a] # "idle"
    BY DEF Proc, Watch, TakeStep, AdjustStep, Look, Take, Copy, LoadIndex, StoreIndex, Wrap,
           Zero, Free, Freed, Begin, Eighth, Move, Compare, Snap, Show, SetDuty, Differs, Equals,
           Again, Arm, Done, Disarm, Goto, Loop
  <1>2. (\A b \in Actors \ {a} : pc[b] = "idle" /\ ch[b] = 0) /\ At(a)
    BY <1>1, OtherIdle
  <1>3. \A b \in Actors \ {a} : pc'[b] = pc[b] /\ ch'[b] = ch[b]
    <2>1. pc \in [Actors -> Labels] /\ ch \in [Actors -> Channels]
      BY DEF TypeOK
    <2> QED
      BY <2>1 DEF Proc, TakeStep, AdjustStep, Look, Take, Copy, LoadIndex, StoreIndex, Wrap,
           Zero, Free, Freed, Begin, Eighth, Move, Compare, Snap, Show, SetDuty, Differs, Equals,
           Again, Arm, Done, Disarm, Goto, Loop, own
  <1>4. (pc'[a] = "idle" => Rest' /\ ch'[a] = 0) /\ (pc'[a] # "idle" => At(a)')
    BY <1>2, TakeKeeps, AdjustKeeps DEF Proc
  <1> QED
    BY <1>2, <1>3, <1>4, Reached

LEMMA CleanStep ==
    ASSUME TypeOK, CleanInv, [Next]_vars
    PROVE  CleanInv'
  <1> SUFFICES ASSUME clean' PROVE CleanInv'
    BY DEF CleanInv
  <1>1. CASE UNCHANGED vars
    BY <1>1 DEF CleanInv, Rest, At, AtCaller, AtTaking, AtAdjusting, Empty, Holds, Holds1, Taken,
                InRing, Next1, Moving, Upto, vars, ring, pwm, own, asks
  <1> QED
    BY <1>1, StartStep, CallerKeeps, ProcKeeps DEF Next

----------------------------------------------------------------------------
\* The types, what holds at each label while nobody overlaps, and where the index is
\* while nobody takes at the same time, in every state.
THEOREM IInvHolds == Safe => []IInv
  <1>1. IInv /\ [Next]_vars => IInv'
    BY TypeStep, CleanStep, RingStep DEF IInv
  <1> QED
    BY LightInit, <1>1, PTL DEF Safe

\* No target is read from behind the ring as long as two are not taken at a time: not
\* even when calls and callbacks overlap elsewhere, and spoil the counter of the ring.
THEOREM ReadsInRingHolds == Safe => []ReadsInRing
  <1>1. IInv => ReadsInRing
    BY DEF IInv, RingInv, ReadsInRing
  <1> QED
    BY <1>1, IInvHolds, PTL

\* Unless calls and callbacks overlap, the target asked for last is reached.
THEOREM AimReachedHolds == Safe => []AimReached
  <1>1. IInv => AimReached
    BY DEF IInv, CleanInv, AimReached, Quiet, Rest, Moving, TypeOK
  <1> QED
    BY <1>1, IInvHolds, PTL

\* Unless they overlap, no duty leaves the way to the target last asked for.
THEOREM ApproachesOnlyHolds == Safe => ApproachesOnly
  <1> DEFINE Approach == clean' => \A c \in Channels : Between(duty_now[c], duty_now'[c], aim[c])
  <1>1. ASSUME IInv, [Next]_vars PROVE [Approach]_vars
    <2> SUFFICES ASSUME clean', NEW c \in Channels
                 PROVE  Between(duty_now[c], duty_now'[c], aim[c])
      OBVIOUS
    <2>0. TypeOK /\ CleanInv /\ duty_now[c] \in Nat /\ aim[c] \in Nat
      BY <1>1 DEF IInv, TypeOK, Duties
    <2>1. CASE duty_now'[c] = duty_now[c]
      BY <2>0, <2>1 DEF Between
    <2>2. CASE duty_now' # duty_now
      <3>1. PICK a \in Actors : (Move(a) \/ Snap(a)) /\ Watch
        BY <1>1, <2>2
           DEF Next, Asked, LightSetAim, CallerStep, Count, Check, Uncount, Alloc, Fill,
               TimerFires, Fires, Proc, TakeStep, Look, Take, Copy, LoadIndex, StoreIndex, Wrap,
               Zero, Free, Freed, Begin, AdjustStep, Eighth, Compare, Show, SetDuty, Differs,
               Equals, Again, Arm, Done, Disarm, vars, pwm
      <3>2. clean /\ pc[a] \in {"move", "snap"}
        BY <3>1 DEF Watch, Move, Snap, Goto
      <3>3. At(a) /\ current_duty = aim
        BY <2>0, <3>2, OtherIdle DEF At, AtAdjusting, Adjusting
      <3>4. ch[a] \in Channels /\ duty_now \in Duties /\ held[a] \in Nat
        BY <2>0 DEF TypeOK
      <3>5. CASE c # ch[a]
        <4>1. duty_now'[c] = duty_now[c]
          BY <3>1, <3>4, <3>5 DEF Move, Snap, Duties
        <4> QED
          BY <2>1, <4>1
      <3>6. CASE c = ch[a] /\ Move(a)
        <4>1. pc[a] = "move" /\ duty_now'[c] = held[a]
          BY <3>4, <3>6 DEF Move, Goto, Duties
        <4>2. held[a] = EighthOf(duty_now[c], aim[c])
          BY <3>3, <3>6, <4>1 DEF At, AtAdjusting
        <4> QED
          BY <2>0, <4>1, <4>2, EighthBetween
      <3>7. CASE c = ch[a] /\ Snap(a)
        <4>1. duty_now'[c] = aim[c]
          BY <3>3, <3>4, <3>7 DEF Snap, Duties
        <4> QED
          BY <2>0, <4>1 DEF Between
      <3> QED
        BY <3>1, <3>5, <3>6, <3>7
    <2> QED
      BY <2>1, <2>2
  <1> QED
    BY <1>1, IInvHolds, PTL DEF Safe, ApproachesOnly
=============================================================================
