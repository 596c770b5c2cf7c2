---------------------------- MODULE MqttFraming ----------------------------
(***************************************************************************)
(* How the client cuts the bytes of a connection into packets: readPacket  *)
(* and decodePacket of mqtt/MQTTClient.c over FreeRTOS_read.  A packet is  *)
(* a header byte, the remaining length in digits, lowest first and all but *)
(* the last marked, and that many bytes.                                   *)
(*                                                                         *)
(* Each of the three reads has a time limit.  What was read before a limit *)
(* passed is dropped, and the next call of readPacket begins with whatever *)
(* byte comes next.  A limit that passes before the first byte changes     *)
(* nothing.  FreeRTOS_read looks my_socket up for every recv(): when a     *)
(* handler replaces the connection, a read under way goes on with the new  *)
(* one.                                                                    *)
(***************************************************************************)
EXTENDS Integers, Sequences, SequencesExt

CONSTANTS
    Base,              \* a digit of the length counts up to this (128)
    Packets,           \* the packets the broker sends
    MaxSent            \* bound: packets sent on one connection

MAX_NO_OF_REMAINING_LENGTH_BYTES == 4

\* multiplier of decodePacket, digit by digit.
Weight == <<1, Base, Base * Base, Base * Base * Base>>

ASSUME BaseAssumption == Base \in Nat /\ Base > 1
Byte  == 0 .. 2 * Base - 1
Frame == [type : Byte, body : Seq(Byte)]

ASSUME PacketsAssumption ==
    \A p \in Packets : p \in Frame /\ Len(p.body) < Base * Weight[MAX_NO_OF_REMAINING_LENGTH_BYTES]
ASSUME MaxSentAssumption == MaxSent \in Nat

VARIABLES
    stream,        \* bytes sent on the connection and not read yet
    stage,         \* which read of readPacket is under way
    type, rem_len, \* the header byte, and the length decoded so far
    digits,        \* bytes of the length read so far, all of them marked
    got,           \* number of bytes of the rest read so far
    body,          \* history: those bytes, while clean
    sent,          \* history: packets sent on this connection
    received,      \* history: packets readPacket returned from it, while clean
    clean          \* history: no read on this connection was cut off

reader == <<stage, type, rem_len, digits, got>>
vars == <<stream, reader, body, sent, received, clean>>

\* The remaining length in digits.
NumDigits(n) == IF n < Weight[2] THEN 1 ELSE IF n < Weight[3] THEN 2 ELSE IF n < Weight[4] THEN 3 ELSE 4
Digits(n) == [i \in 1 .. NumDigits(n) |->
                ((n \div Weight[i]) % Base) + (IF i < NumDigits(n) THEN Base ELSE 0)]

Bytes(p) == <<p.type>> \o Digits(Len(p.body)) \o p.body

\* No length above four digits, no more bytes read than the length says (decodePacket,
\* readPacket).
TypeOK ==
    /\ stream \in Seq(Byte)
    /\ stage \in {"header", "length", "body"}
    /\ type \in Byte /\ rem_len \in 0 .. Base * Weight[4] - 1 /\ digits \in 0 .. 3
    /\ got \in 0 .. rem_len /\ body \in Seq(Byte)
    /\ clean \in BOOLEAN

Fresh == stage' = "header" /\ type' = 0 /\ rem_len' = 0 /\ digits' = 0 /\ got' = 0 /\ body' = <<>>

Init ==
    /\ stream = <<>> /\ sent = <<>> /\ received = <<>>
    /\ stage = "header" /\ type = 0 /\ rem_len = 0 /\ digits = 0 /\ got = 0 /\ body = <<>>
    /\ clean = TRUE

BrokerSends(p) ==
    /\ Len(sent) < MaxSent
    /\ stream' = stream \o Bytes(p)
    /\ sent' = Append(sent, p)
    /\ UNCHANGED <<reader, body, received, clean>>

----------------------------------------------------------------------------
\* readPacket returns: the packet is complete.
Returns(t, b) ==
    /\ received' = IF clean THEN Append(received, [type |-> t, body |-> b]) ELSE received
    /\ Fresh

\* One byte comes from the connection.
Takes(b) == stream # <<>> /\ b = Head(stream) /\ stream' = Tail(stream)

\* "1. read the header byte"
ReadHeader ==
    /\ stage = "header"
    /\ \E b \in Byte : Takes(b) /\ type' = b
    /\ stage' = "length"
    /\ UNCHANGED <<rem_len, digits, got, body, sent, received, clean>>

\* "3. read the rest of the buffer", with the length decoded.
ReadRest(n) ==
    IF n = 0 THEN Returns(type, <<>>)
    ELSE /\ stage' = "body" /\ rem_len' = n
         /\ UNCHANGED <<type, digits, got, body, received>>

\* Slips: one digit less; no limit.
LastDigitEarly(b) == b < Base \/ digits + 2 = MAX_NO_OF_REMAINING_LENGTH_BYTES
LastDigitOnly(b)  == b < Base

\* decodePacket ends at a digit without the mark, or before a fifth one.
LastDigit(b) == b < Base \/ digits + 1 = MAX_NO_OF_REMAINING_LENGTH_BYTES

\* "2. read the remaining length", byte by byte.
ReadLength ==
    /\ stage = "length"
    /\ \E b \in Byte :
         /\ Takes(b)
         /\ LET n == rem_len + (b % Base) * Weight[digits + 1] IN
              IF LastDigit(b) THEN ReadRest(n)
              ELSE /\ rem_len' = n /\ digits' = digits + 1
                   /\ UNCHANGED <<stage, type, got, body, received>>
    /\ UNCHANGED <<sent, clean>>

ReadBody ==
    /\ stage = "body"
    /\ \E b \in Byte :
         /\ Takes(b)
         /\ IF got + 1 = rem_len THEN Returns(type, Append(body, b))
            ELSE /\ got' = got + 1
                 /\ body' = IF clean THEN Append(body, b) ELSE body
                 /\ UNCHANGED <<stage, type, rem_len, digits, received>>
    /\ UNCHANGED <<sent, clean>>

----------------------------------------------------------------------------
\* A read in the middle of a packet is cut off.  decodePacket then ends with what
\* it has, an error nobody looks at, and the rest is read all the same.
CutOff ==
    \/ stage = "length" /\ ReadRest(rem_len)
    \/ stage = "body" /\ Fresh /\ UNCHANGED received

\* The time limit passes, or recv() fails.
ReadFails ==
    /\ clean' = FALSE
    /\ CutOff
    /\ UNCHANGED <<stream, sent>>

\* A handler replaces the connection.  A read of the rest fails or goes on with
\* the new connection; so does one of the length, where failing is ReadFails.
Reconnects ==
    /\ stream' = <<>> /\ sent' = <<>> /\ received' = <<>>
    /\ \/ stage = "header" /\ clean' = TRUE /\ UNCHANGED <<reader, body>>
       \/ stage = "body" /\ clean' = TRUE /\ Fresh
       \/ stage # "header" /\ clean' = FALSE /\ body' = <<>> /\ UNCHANGED reader

Next ==
    \/ \E p \in Packets : BrokerSends(p)
    \/ ReadHeader \/ ReadLength \/ ReadBody
    \/ ReadFails \/ Reconnects

Spec == Init /\ [][Next]_vars
----------------------------------------------------------------------------
\* On a connection where no read was cut off in the middle of a packet, the
\* packets read are the packets sent, in order and whole; what went wrong on an
\* earlier connection does no harm.
PacketsIntact == clean => IsPrefix(received, sent)

(* What is proved by induction. *)

\* In the middle of the length, what was decoded has no more digits than were read;
\* in the middle of the rest, something is still to come.
ReaderInv ==
    /\ stage = "header" => rem_len = 0 /\ digits = 0
    /\ stage = "length" => rem_len < Weight[digits + 1]
    /\ stage = "body"   => got < rem_len
    /\ stage # "body"   => got = 0 /\ body = <<>>

\* The bytes s are those of the packets ps after the first k: packet i + 1 begins
\* behind position at[i], which is negative when some of its bytes are gone.
Cuts(at, s, ps, k) ==
    /\ at \in [k .. Len(ps) -> Int] /\ at[Len(ps)] = Len(s)
    /\ \A i \in k .. Len(ps) : at[i] <= Len(s)
    /\ \A i \in k .. Len(ps) - 1 :
         /\ at[i + 1] = at[i] + Len(Bytes(ps[i + 1]))
         /\ \A j \in 1 .. Len(Bytes(ps[i + 1])) :
              at[i] + j >= 1 => s[at[i] + j] = Bytes(ps[i + 1])[j]

\* Bytes of the packet that are gone from the stream.
Taken == CASE stage = "header" -> 0
           [] stage = "length" -> 1 + digits
           [] stage = "body"   -> 1 + NumDigits(rem_len) + got

\* The reader is in the packet after those it has returned, as far as it has read.
InPacket(p) ==
    /\ type = p.type
    /\ stage = "length" => digits < NumDigits(Len(p.body)) /\ rem_len = Len(p.body) % Weight[digits + 1]
    /\ stage = "body"   => /\ rem_len = Len(p.body) /\ Len(body) = got
                           /\ \A j \in 1 .. got : body[j] = p.body[j]

CleanInv ==
    /\ Len(received) <= Len(sent)
    /\ \A i \in 1 .. Len(received) : received[i] = sent[i]
    /\ stage # "header" => Len(received) < Len(sent) /\ InPacket(sent[Len(received) + 1])
    /\ \E at : Cuts(at, stream, sent, Len(received)) /\ at[Len(received)] = 0 - Taken

Regular == TypeOK /\ ReaderInv /\ sent \in Seq(Packets) /\ received \in Seq(Frame)

IInv == Regular /\ (clean => CleanInv)
=============================================================================
