---------------------------- MODULE ClientSession ----------------------------
(***************************************************************************)
(* What the yunba client promises, without its tasks, its descriptors and  *)
(* its packets: there is one connection at a time; the client believes in  *)
(* a session only on the connection on which it asked for one, and gives a *)
(* connection up only when it no longer believes in it; a session that is  *)
(* spoilt is never mended, it takes a new connection; reports are taken    *)
(* one by one, and never reach a broker that was not sent a CONNECT.       *)
(* MqttClientSession shows that MqttClient implements this.                *)
(***************************************************************************)
EXTENDS Naturals

CONSTANT Capacity    \* how many reports may wait

VARIABLES
    link,      \* the connection to the broker
    session,   \* what the broker holds for it
    known,     \* the client believes that it has a session
    started,   \* start-up is over: reports are taken
    waiting,   \* number of reports that wait
    inHand     \* a report was taken and is not settled

connection == <<link, session, known>>
reports    == <<started, waiting, inHand>>
vars       == <<connection, reports>>

\* "silent": takes data that nobody answers; "broken": every call fails.
Links    == {"none", "dialling", "up", "silent", "broken"}
Sessions == {"none", "up", "sub", "bad"}

TypeOK ==
    /\ link \in Links
    /\ session \in Sessions
    /\ known \in BOOLEAN /\ started \in BOOLEAN /\ inHand \in BOOLEAN
    /\ waiting \in 0 .. Capacity

Init ==
    /\ link = "none" /\ session = "none"
    /\ known = FALSE /\ started = FALSE /\ inHand = FALSE
    /\ waiting = 0

----------------------------------------------------------------------------
(* The connection and the session on it. *)

OpenLink ==
    /\ link = "none"
    /\ link' = "dialling"
    /\ UNCHANGED <<session, known, reports>>

Established ==
    /\ link = "dialling"
    /\ link' = "up"
    /\ UNCHANGED <<session, known, reports>>

\* Only a connection the client does not believe in is given up.
GiveUpLink ==
    /\ link # "none" /\ ~known
    /\ link' = "none" /\ session' = "none"
    /\ UNCHANGED <<known, reports>>

LinkFails ==
    /\ \/ link = "up" /\ link' \in {"silent", "broken"}
       \/ link = "silent" /\ link' = "broken"
    /\ UNCHANGED <<session, known, reports>>

\* CONNECT is accepted or refused.
AskSession ==
    /\ link = "up" /\ session = "none" /\ ~known
    /\ session' \in {"up", "bad"}
    /\ UNCHANGED <<link, known, reports>>

\* A packet too many or too early, DISCONNECT, or a second CONNECT.
SpoilSession ==
    /\ link = "up"
    /\ session' = "bad"
    /\ UNCHANGED <<link, known, reports>>

Subscribe ==
    /\ link = "up" /\ session = "up" /\ known
    /\ session' = "sub"
    /\ UNCHANGED <<link, known, reports>>

LearnSession ==
    /\ link \in {"up", "silent"} /\ session # "none"
    /\ known' = TRUE
    /\ UNCHANGED <<link, session, reports>>

ForgetSession ==
    /\ known' = FALSE
    /\ session' = session \/ (link = "up" /\ session' = "bad")
    /\ UNCHANGED <<link, reports>>

----------------------------------------------------------------------------
(* Reports. *)

Start ==
    /\ ~started
    /\ started' = TRUE
    /\ UNCHANGED <<connection, waiting, inHand>>

Accept ==
    /\ waiting < Capacity
    /\ waiting' = waiting + 1
    /\ UNCHANGED <<connection, started, inHand>>

Take ==
    /\ started /\ ~inHand /\ waiting > 0
    /\ waiting' = waiting - 1
    /\ inHand' = TRUE
    /\ UNCHANGED <<connection, started>>

\* Published or dropped.  Either way it spoils no session.
Settle ==
    /\ inHand
    /\ inHand' = FALSE
    /\ UNCHANGED <<connection, started, waiting>>

----------------------------------------------------------------------------
Next ==
    \/ OpenLink \/ Established \/ GiveUpLink \/ LinkFails
    \/ AskSession \/ SpoilSession \/ Subscribe \/ LearnSession \/ ForgetSession
    \/ Start \/ Accept \/ Take \/ Settle

Spec == Init /\ [][Next]_vars

\* A session is believed in only on a connection that was established and on
\* which it was asked for.
KnownWasAsked == known => link \in {"up", "silent", "broken"} /\ session # "none"

\* Reports move: one that was taken is settled, and once start-up is over the
\* next is taken whenever one waits.
ReportsMove ==
    /\ []<>~inHand
    /\ []<>(inHand \/ waiting = 0 \/ ~started)
=============================================================================
