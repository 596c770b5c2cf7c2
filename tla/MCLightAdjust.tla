--------------------------- MODULE MCLightAdjust ---------------------------
(* A small instance of LightAdjust for TLC: two channels.  While the actors *)
(* have not overlapped, every target may follow every other; what they do   *)
(* when they overlap is followed as long as all targets about are One.      *)
EXTENDS LightAdjust

\* Targets many steps (90), a few steps (24), and less than a step (21, 1) from 0.
Off == [c \in Channels |-> 0]
One == [c \in Channels |-> IF c = 0 THEN 24 ELSE 1]
Few == {Off, One, [c \in Channels |-> IF c = 0 THEN 90 ELSE 21]}

Small(d) == d[0] <= One[0]

\* Constraint: the states that the properties speak of, overlaps with near targets only.
Explored ==
    /\ ~clash
    /\ clean \/ /\ aim = One /\ Small(current_duty)
                /\ \A i \in 0 .. QNum - 1 : Small(LightEvtArr[i])
=============================================================================
