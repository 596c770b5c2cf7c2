----------------------------- MODULE PlugDevice -----------------------------
(***************************************************************************)
(* The plug: user/user_plug.c, and the plug commands of messageArrived in  *)
(* user/mqtt_client.c.  plug_param.status, the relay and a copy of the     *)
(* status in flash are changed by two tasks of equal priority, without a   *)
(* lock: the task that delivers a message (one at a time, it holds the     *)
(* client's mutex) and the timer task, which runs user_plug_short_press.   *)
(* They interleave at every step.  Power may fail at any time.             *)
(***************************************************************************)
EXTENDS Integers, Sequences

CONSTANT QueueLen    \* length of QueueMQTTClient

ASSUME QueueLenAssumption == QueueLen \in Nat \ {0}

Remote == "remote"    \* the task in messageArrived
Key    == "key"       \* the timer task
Actors == {Remote, Key}

Erased == 255         \* the byte an erased sector reads as
None   == 256         \* no report

VARIABLES
    status,           \* plug_param.status
    relay,            \* the level of the relay's pin
    flash,            \* plug_param in flash
    QueueMQTTClient,  \* the reports in the queue
    client,           \* how far the client task is: it allocates deviceid first
    pc, value,        \* where each actor is, and the status it sets or reports
    alone,            \* history: the actor's operation was not overlapped so far
    saved,            \* history: the status last written to flash completely
    reported          \* history: the last report, None if it was dropped

device  == <<status, relay, flash>>
vars == <<device, QueueMQTTClient, client, pc, value, alone, saved, reported>>

Bit    == {0, 1}
Labels == {"idle", "compare", "store", "output", "report", "erase", "write"}

\* Status, relay and flash hold a state of the plug, and the queue never more than its
\* length.
TypeOK ==
    /\ status \in Bit /\ relay \in Bit /\ saved \in Bit
    /\ flash \in Bit \cup {Erased}
    /\ QueueMQTTClient \in Seq(Bit) /\ Len(QueueMQTTClient) <= QueueLen
    /\ client \in {"none", "named", "ready"}
    /\ pc \in [Actors -> Labels]
    /\ value \in [Actors -> Bit]
    /\ alone \in [Actors -> BOOLEAN]
    /\ reported \in Bit \cup {None}

\* Slip: no default for a sector that is erased.
RestoredAsRead == IF flash = 0 THEN 0 ELSE 1

\* user_plug_init: "default to be off, for safety".
Restored == IF flash = Erased THEN 0 ELSE flash

Init ==
    /\ \/ flash = Erased /\ saved = 0
       \/ flash \in Bit /\ saved = flash
    /\ status = Restored /\ relay = Restored
    /\ QueueMQTTClient = <<>> /\ client = "none"
    /\ pc = [a \in Actors |-> "idle"]
    /\ value = [a \in Actors |-> 0]
    /\ alone = [a \in Actors |-> TRUE]
    /\ reported = None

\* Power fails, or user_plug_long_press restarts the system.  The history of
\* flash survives as flash does.
Restart ==
    /\ status' = Restored /\ relay' = Restored
    /\ QueueMQTTClient' = <<>> /\ client' = "none"
    /\ pc' = [a \in Actors |-> "idle"]
    /\ value' = [a \in Actors |-> 0]
    /\ alone' = [a \in Actors |-> TRUE]
    /\ reported' = None
    /\ UNCHANGED <<flash, saved>>

\* yunba_mqtt_client_task: init_user_parm, then xQueueCreate.
ClientStarts ==
    /\ \/ client = "none" /\ client' = "named"
       \/ client = "named" /\ client' = "ready"
    /\ UNCHANGED <<device, QueueMQTTClient, pc, value, alone, saved, reported>>

\* Main publishes the first report.
Dequeue ==
    /\ QueueMQTTClient # <<>>
    /\ QueueMQTTClient' = Tail(QueueMQTTClient)
    /\ UNCHANGED <<device, client, pc, value, alone, saved, reported>>

----------------------------------------------------------------------------
Goto(a, from, to) == pc[a] = from /\ pc' = [pc EXCEPT ![a] = to]

\* An operation begins: it is alone while the other actor is idle.
Begin(a, to, v) ==
    /\ Goto(a, "idle", to)
    /\ value' = [value EXCEPT ![a] = v]
    /\ alone' = [b \in Actors |-> IF b = a THEN \A c \in Actors \ {a} : pc[c] = "idle"
                                  ELSE FALSE]
    /\ UNCHANGED <<device, QueueMQTTClient, client, saved, reported>>

\* A plug_set command: any number but 0 is true.
PlugSet(n) == client = "ready" /\ Begin(Remote, "compare", IF n = 0 THEN 0 ELSE 1)

\* A plug_get command.
PlugGet == client = "ready" /\ Begin(Remote, "report", status)

\* user_plug_short_press reads the status it is to invert.
ShortPress == Begin(Key, "compare", 1 - status)

\* user_plug_set_status, in the steps between which the other task runs.
Saves(a) == IF a = Key THEN "erase" ELSE "idle"

\* Slip: compared with the output.
CompareOutput(a) ==
    /\ Goto(a, "compare", IF value[a] = relay THEN Saves(a) ELSE "store")
    /\ UNCHANGED <<device, QueueMQTTClient, client, value, alone, saved, reported>>

Compare(a) ==
    /\ Goto(a, "compare", IF value[a] = status THEN Saves(a) ELSE "store")
    /\ UNCHANGED <<device, QueueMQTTClient, client, value, alone, saved, reported>>

Store(a) ==
    /\ Goto(a, "store", "output")
    /\ status' = value[a]
    /\ UNCHANGED <<relay, flash, QueueMQTTClient, client, value, alone, saved, reported>>

Output(a) ==
    /\ Goto(a, "output", "report")
    /\ relay' = value[a]
    /\ UNCHANGED <<status, flash, QueueMQTTClient, client, value, alone, saved, reported>>

Room == Len(QueueMQTTClient) < QueueLen

\* put_message: nothing to say before deviceid is allocated; the report is lost
\* when the queue stays full for 100 ms.
Report(a) ==
    /\ client # "named"
    /\ Goto(a, "report", Saves(a))
    /\ \/ /\ client = "ready" /\ Room
          /\ QueueMQTTClient' = Append(QueueMQTTClient, value[a])
          /\ reported' = value[a]
       \/ /\ client = "none" \/ ~Room
          /\ reported' = None
          /\ UNCHANGED QueueMQTTClient
    /\ UNCHANGED <<device, client, value, alone, saved>>

\* xQueueSend on the queue that does not exist yet: an exception restarts the
\* system.
ReportCrashes(a) == client = "named" /\ pc[a] = "report" /\ Restart

\* The rest of user_plug_short_press: the sector is erased, then written with
\* the status it has by then.
EraseSector ==
    /\ Goto(Key, "erase", "write")
    /\ flash' = Erased
    /\ UNCHANGED <<status, relay, QueueMQTTClient, client, value, alone, saved, reported>>

WriteSector ==
    /\ Goto(Key, "write", "idle")
    /\ flash' = status /\ saved' = status
    /\ UNCHANGED <<status, relay, QueueMQTTClient, client, value, alone, reported>>

Next ==
    \/ Restart \/ ClientStarts \/ Dequeue
    \/ PlugGet \/ ShortPress \/ \E n \in 0 .. 2 : PlugSet(n)
    \/ \E a \in Actors : Compare(a) \/ Store(a) \/ Output(a) \/ Report(a) \/ ReportCrashes(a)
    \/ EraseSector \/ WriteSector

Spec == Init /\ [][Next]_vars
----------------------------------------------------------------------------
\* The relay is on after a start only if it was on when it was last saved: not
\* when power failed while the sector was erased.
SafeBoot == [][Restart /\ relay' = 1 => saved = 1]_vars

\* A press that no command overlaps leaves relay, status and flash equal and
\* reports no other status, whatever commands and presses did before.
LonePressHeals ==
    [][WriteSector /\ alone[Key]
       => relay' = status' /\ flash' = status' /\ reported' \in {status', None}]_vars

Idle == \A a \in Actors : pc[a] = "idle"

(* The inductive invariant behind these. *)

\* What is in flash was saved last.
FlashInv == flash \in Bit => saved = flash

\* How far an undisturbed press has come.
LoneInv ==
    alone[Key] /\ pc[Key] # "idle" =>
        /\ pc[Remote] = "idle"
        /\ pc[Key] \in {"compare", "store"} => value[Key] # status
        /\ pc[Key] \notin {"compare", "store"} => value[Key] = status
        /\ pc[Key] \in {"report", "erase", "write"} => relay = status
        /\ pc[Key] \in {"erase", "write"} => reported \in {status, None}

IInv == TypeOK /\ FlashInv /\ LoneInv
=============================================================================
