----------------------------- MODULE MqttCodec -----------------------------
(***************************************************************************)
(* The bytes of the packets: the serialisers and parsers in mqtt/ as the   *)
(* client calls them, and the answers cycle() gives to what it has read.   *)
(*                                                                         *)
(* A serialiser computes the remaining length first, compares the whole    *)
(* with the buffer, and then writes field by field: two computations that  *)
(* have to agree.  A parser gets the whole of readbuf, whose end still     *)
(* holds longer packets read before, and has to stop at the length that    *)
(* readPacket put back into it.                                            *)
(*                                                                         *)
(* Bytes are numbers, a string or a payload is a sequence of bytes, an     *)
(* option that may be absent a sequence of at most one, and a 64-bit       *)
(* packet identifier is its four words.                                    *)
(***************************************************************************)
EXTENDS Integers, Sequences

CONSTANTS
    BufSize,       \* size of buf and of readbuf
    Requests,      \* the packets the client is asked to send
    Incoming,      \* the packets the broker sends
    MaxReceived    \* bound: packets read

CONNECT     == 1
CONNACK     == 2
PUBLISH     == 3
PUBACK      == 4
PUBREC      == 5
PUBREL      == 6
PUBCOMP     == 7
SUBSCRIBE   == 8
SUBACK      == 9
UNSUBSCRIBE == 10
PINGREQ     == 12
PINGRESP    == 13
DISCONNECT  == 14
EXTCMD      == 15

Acks == {PUBACK, PUBREC, PUBREL, PUBCOMP}

Byte     == {n \in Nat : n < 256}
Word16   == {n \in Nat : n < 65536}
Text     == {s \in Seq(Byte) : Len(s) < 65536}
PacketId == [1 .. 4 -> Word16]
Flag     == 0 .. 1
AtMostOne(S) == {o \in Seq(S) : Len(o) <= 1}

\* The packets of the client's functions; Publish2 goes out as an extended command.
Connects == [type : {CONNECT}, version : {3, 4, 19}, clean : Flag, keepAlive : Word16,
             clientID : Text, username : AtMostOne(Text), password : AtMostOne(Text),
             will : AtMostOne([topic : Text, message : Text, qos : 0 .. 2, retained : Flag])]
Publishes    == [type : {PUBLISH}, qos : {1, 2}, retained : Flag, topic : Text, payload : Text, id : PacketId]
                \union
                [type : {PUBLISH}, qos : {0}, retained : Flag, topic : Text, payload : Text, id : {<<>>}]
Subscribes   == [type : {SUBSCRIBE}, id : PacketId, topic : Text, req : 0 .. 2]
Unsubscribes == [type : {UNSUBSCRIBE}, id : PacketId, topic : Text]
Publish2s    == [type : {EXTCMD}, id : PacketId, topic : Text, payload : Text,
                 opt : AtMostOne([key : 0 .. 7, val : Text])]
Empties      == [type : {PINGREQ, DISCONNECT}]

ASSUME RequestsAssumption ==
    \A p \in Requests : p \in Connects \/ p \in Publishes \/ p \in Subscribes
                       \/ p \in Unsubscribes \/ p \in Publish2s \/ p \in Empties

\* MQTTSerialize_ack compares buflen with 4 and writes ten bytes.
ASSUME BufSizeAssumption == BufSize \in Nat /\ BufSize >= 10
ASSUME MaxReceivedAssumption == MaxReceived \in Nat

VARIABLES
    readbuf,       \* c->readbuf, as far as it was written
    asked,         \* the packet to be sent in the last step: a request, or the answer due
    sent,          \* the bytes handed to sendPacket in the last step
    came,          \* the packet that came in the last step
    learnt,        \* what cycle() made of it
    received       \* number of packets read

vars == <<readbuf, asked, sent, came, learnt, received>>

NoPacket == [type |-> 0]

----------------------------------------------------------------------------
(* MQTTPacket.c *)

Digits(n) == IF n < 128 THEN 1 ELSE IF n < 16384 THEN 2 ELSE IF n < 2097152 THEN 3 ELSE 4
Weight == <<1, 128, 16384, 2097152>>

\* The remaining length, lowest digit first, all but the last marked.
Encode(n) == [i \in 1 .. Digits(n) |->
                ((n \div Weight[i]) % 128) + (IF i < Digits(n) THEN 128 ELSE 0)]

\* Slip: the length takes one byte.
PacketLenOne(n) == n + 2

\* An upper bound: one too many for 127, 16383, 2097150 and 2097151.
MQTTPacket_len(n) ==
    n + 1 + (IF n + 1 < 128 THEN 1 ELSE IF n + 1 < 16384 THEN 2 ELSE IF n + 1 < 2097151 THEN 3 ELSE 4)

\* The length found at position i (counted from 0), and the position after it.
\* readPacket has encoded it, so it ends within four digits.
DecodeBuf(b, i) ==
    LET k == CHOOSE j \in 1 .. 4 : b[i + j] < 128 /\ \A m \in 1 .. j - 1 : b[i + m] >= 128
        d(m) == IF m <= k THEN (b[i + m] % 128) * Weight[m] ELSE 0
    IN  [value |-> d(1) + d(2) + d(3) + d(4), next |-> i + k]

Header(type, dup, qos, retain) == <<16 * type + 8 * dup + 2 * qos + retain>>

\* writeInt: the upper byte is cut off to a char.
WriteInt(n) == <<(n \div 256) % 256, n % 256>>
WriteInt64(id) == WriteInt(id[1]) \o WriteInt(id[2]) \o WriteInt(id[3]) \o WriteInt(id[4])
WriteString(s) == WriteInt(Len(s)) \o s

ReadInt(b, i) == 256 * b[i + 1] + b[i + 2]
ReadInt64(b, i) == [w \in 1 .. 4 |-> ReadInt(b, i + 2 * (w - 1))]

\* readMQTTLenString: a string within the packet, or failure.
HasString(b, i, end) == end - i > 1 /\ i + 2 + ReadInt(b, i) <= end
ReadString(b, i) == SubSeq(b, i + 3, i + 2 + ReadInt(b, i))

----------------------------------------------------------------------------
(* The serialisers: for each packet what follows the remaining length, and  *)
(* the length computed for it beforehand.                                   *)

Option(o) == IF o = <<>> THEN <<>> ELSE WriteString(o[1])
OptionLength(o) == IF o = <<>> THEN 0 ELSE Len(o[1]) + 2
Bit(o) == IF o = <<>> THEN 0 ELSE 1
Will(o) == IF o = <<>> THEN <<>> ELSE WriteString(o[1].topic) \o WriteString(o[1].message)
WillLength(o) == IF o = <<>> THEN 0 ELSE Len(o[1].topic) + 2 + Len(o[1].message) + 2

\* MQTTVersion 4 calls itself MQTT, 3 and yunba's 0x13 MQIsdp.
Protocol(version) ==
    WriteString(IF version = 4 THEN <<77, 81, 84, 84>> ELSE <<77, 81, 73, 115, 100, 112>>) \o <<version>>

ConnectLength(p) ==
    (IF p.version = 4 THEN 10 ELSE 12) + Len(p.clientID) + 2 + WillLength(p.will)
    + OptionLength(p.username) + OptionLength(p.password)

ConnectFlags(p) ==
    2 * p.clean + 4 * Bit(p.will) + 64 * Bit(p.password) + 128 * Bit(p.username)
    + (IF p.will = <<>> THEN 0 ELSE 8 * p.will[1].qos + 32 * p.will[1].retained)

ConnectBody(p) ==
    Protocol(p.version) \o <<ConnectFlags(p)>> \o WriteInt(p.keepAlive) \o WriteString(p.clientID)
    \o Will(p.will) \o Option(p.username) \o Option(p.password)

\* Slip: the two bytes an identifier has in plain MQTT.
PublishLengthTwo(p) == 2 + Len(p.topic) + Len(p.payload) + IF p.qos > 0 THEN 2 ELSE 0

PublishLength(p) == 2 + Len(p.topic) + Len(p.payload) + IF p.qos > 0 THEN 8 ELSE 0
PublishBody(p) ==
    WriteString(p.topic) \o (IF p.qos > 0 THEN WriteInt64(p.id) ELSE <<>>) \o p.payload

\* The client subscribes to one topic at a time.
SubscribeLength(p) == 8 + 2 + Len(p.topic) + 1
SubscribeBody(p)   == WriteInt64(p.id) \o WriteString(p.topic) \o <<p.req>>

UnsubscribeLength(p) == 8 + 2 + Len(p.topic)
UnsubscribeBody(p)   == WriteInt64(p.id) \o WriteString(p.topic)

\* MQTTPublish2: the parts of the message, each with its tag and length, put
\* together in pub_buf before anything is compared with a buffer.
PUBLISH2 == 7
PubBufSize == 256
Tlv(tag, s) == <<tag>> \o WriteString(s)
Publish2(p) == Tlv(1, p.payload) \o Tlv(0, p.topic) \o (IF p.opt = <<>> THEN <<>> ELSE Tlv(p.opt[1].key, p.opt[1].val))

\* MQTTPublish2 does not look whether they fit into pub_buf; what it would do if
\* they did not is undefined, and its callers are taken to see to it.
ASSUME Publish2Assumption ==
    \A p \in Requests : p \in Publish2s => Len(Publish2(p)) <= PubBufSize

\* MQTTExtendedCmd: always QoS 1.
ExtendedLength(p) == 1 + Len(Publish2(p)) + 2 + 8
ExtendedBody(p)   == WriteInt64(p.id) \o <<PUBLISH2>> \o WriteInt(Len(Publish2(p))) \o Publish2(p)

Length(p) == CASE p.type = CONNECT     -> ConnectLength(p)
               [] p.type = PUBLISH     -> PublishLength(p)
               [] p.type = SUBSCRIBE   -> SubscribeLength(p)
               [] p.type = UNSUBSCRIBE -> UnsubscribeLength(p)
               [] p.type = EXTCMD      -> ExtendedLength(p)
               [] p.type \in Acks      -> 8
               [] OTHER                -> 0

Body(p) == CASE p.type = CONNECT     -> ConnectBody(p)
             [] p.type = PUBLISH     -> PublishBody(p)
             [] p.type = SUBSCRIBE   -> SubscribeBody(p)
             [] p.type = UNSUBSCRIBE -> UnsubscribeBody(p)
             [] p.type = EXTCMD      -> ExtendedBody(p)
             [] p.type \in Acks      -> WriteInt64(p.id)
             [] OTHER                -> <<>>

HeaderOf(p) ==
    CASE p.type = PUBLISH -> Header(PUBLISH, 0, p.qos, p.retained)
      [] p.type \in {SUBSCRIBE, UNSUBSCRIBE, EXTCMD, PUBREL} -> Header(p.type, 0, 1, 0)
      [] OTHER -> Header(p.type, 0, 0, 0)

\* MQTTPACKET_BUFFER_TOO_SHORT.  Empty packets and acks compare with 2 and 4.
TooShort(p) == p.type \notin Acks \union {PINGREQ, DISCONNECT} /\ MQTTPacket_len(Length(p)) > BufSize

Serialize(p) == IF TooShort(p) THEN <<>> ELSE HeaderOf(p) \o Encode(Length(p)) \o Body(p)

----------------------------------------------------------------------------
(* The parsers, and what cycle() does with the result. *)

Type(b) == b[1] \div 16
Dup(b)    == (b[1] \div 8) % 2
QoS(b)    == (b[1] \div 2) % 4
Retain(b) == b[1] % 2
Start(b)  == DecodeBuf(b, 1).next
End(b)    == Start(b) + DecodeBuf(b, 1).value

\* Slip: the payload ends with the buffer.
PayloadToEnd(b, i) == SubSeq(b, i + 1, Len(b))

PublishPayload(b, i) == SubSeq(b, i + 1, End(b))

DeserializePublish(b) ==
    LET i == Start(b)
        j == i + 2 + ReadInt(b, i)
        k == IF QoS(b) > 0 THEN j + 8 ELSE j
    IN  IF ~HasString(b, i, End(b)) THEN NoPacket
        ELSE [type |-> PUBLISH, dup |-> Dup(b), qos |-> QoS(b), retained |-> Retain(b),
              topic |-> ReadString(b, i),
              id |-> IF QoS(b) > 0 THEN ReadInt64(b, j) ELSE <<>>,
              payload |-> PublishPayload(b, k)]

AckId(b) == ReadInt64(b, Start(b))

DeserializeExtended(b) ==
    LET i == Start(b) + 8 IN
    [type |-> EXTCMD, cmd |-> b[i + 1], status |-> b[i + 2],
     payload |-> SubSeq(b, i + 5, i + 4 + ReadInt(b, i + 2))]

\* grantedQoS: the only one, since one topic was asked for.
Granted(b) == b[Start(b) + 9]

\* What reaches isconnected, the return code, ping_outstanding or a callback.  A
\* PUBLISH of QoS 0 is not delivered.
Learns(b) ==
    CASE Type(b) = CONNACK  -> [type |-> CONNACK, code |-> b[Start(b) + 2]]
      [] Type(b) = SUBACK   -> [type |-> SUBACK, granted |-> Granted(b)]
      [] Type(b) = PUBLISH  -> IF QoS(b) = 0 THEN NoPacket ELSE DeserializePublish(b)
      [] Type(b) = EXTCMD   -> DeserializeExtended(b)
      [] OTHER              -> [type |-> Type(b)]

Ack(type, id) == [type |-> type, id |-> id]

\* The packet cycle() sends in return.
Answer(b) ==
    CASE Type(b) = PUBLISH /\ QoS(b) = 1 -> Ack(PUBACK, DeserializePublish(b).id)
      [] Type(b) = PUBLISH /\ QoS(b) = 2 -> Ack(PUBREC, DeserializePublish(b).id)
      [] Type(b) = PUBREC -> Ack(PUBREL, AckId(b))
      [] Type(b) = PUBREL -> Ack(PUBCOMP, AckId(b))
      [] OTHER -> NoPacket

Answers(b) == IF Answer(b) = NoPacket THEN <<>> ELSE Serialize(Answer(b))

----------------------------------------------------------------------------
(* The broker's end (external): the packet formats of MQTT 3.1 with the      *)
(* eight-byte identifiers and extended commands of yunba.                   *)

Word(r, i) == r[i + 1] * 256 + r[i + 2]
Words(r, i) == <<Word(r, i), Word(r, i + 2), Word(r, i + 4), Word(r, i + 6)>>
StringAt(r, i) == SubSeq(r, i + 3, i + 2 + Word(r, i))
AsWord(n) == <<(n \div 256) % 256, n % 256>>
AsWords(id) == AsWord(id[1]) \o AsWord(id[2]) \o AsWord(id[3]) \o AsWord(id[4])

\* The position after a string.
After(r, i) == i + 2 + Word(r, i)

\* Name, version and flags, keepalive; then the strings that the flags announce.
ReadsConnect(r) ==
    LET n       == Word(r, 0)
        version == r[n + 3]
        bit(w)  == (r[n + 4] \div w) % 2
        topic   == After(r, n + 6)
        message == After(r, topic)
        user    == IF bit(4) = 0 THEN topic ELSE After(r, message)
        pass    == IF bit(128) = 0 THEN user ELSE After(r, user)
        name    == IF version = 4 THEN <<77, 81, 84, 84>> ELSE <<77, 81, 73, 115, 100, 112>>
    IN  IF StringAt(r, 0) # name THEN NoPacket
        ELSE [type |-> CONNECT, version |-> version, clean |-> bit(2), keepAlive |-> Word(r, n + 4),
              clientID |-> StringAt(r, n + 6),
              will |-> IF bit(4) = 0 THEN <<>>
                       ELSE <<[topic |-> StringAt(r, topic), message |-> StringAt(r, message),
                               qos |-> (r[n + 4] \div 8) % 4, retained |-> bit(32)]>>,
              username |-> IF bit(128) = 0 THEN <<>> ELSE <<StringAt(r, user)>>,
              password |-> IF bit(64) = 0 THEN <<>> ELSE <<StringAt(r, pass)>>]

\* The command, the length of its parts, and the tagged parts: message, topic, option.
ReadsExtended(r) ==
    LET topic  == After(r, 12)
        option == After(r, topic + 1)
    IN  IF r[9] # 7 \/ Word(r, 9) # Len(r) - 11 \/ r[12] # 1 \/ r[topic + 1] # 0 THEN NoPacket
        ELSE [type |-> EXTCMD, id |-> Words(r, 0), payload |-> StringAt(r, 12), topic |-> StringAt(r, topic + 1),
              opt |-> IF option = Len(r) THEN <<>>
                      ELSE <<[key |-> r[option + 1], val |-> StringAt(r, option + 1)]>>]

\* QoS and flag of a PUBLISH are in its first byte.
ReadsPublish(r, qos, retained) ==
    LET body == After(r, 0) + IF qos > 0 THEN 8 ELSE 0 IN
    [type |-> PUBLISH, qos |-> qos, retained |-> retained, topic |-> StringAt(r, 0),
     id |-> IF qos > 0 THEN Words(r, After(r, 0)) ELSE <<>>,
     payload |-> SubSeq(r, body + 1, Len(r))]

\* The rest r of a packet with first byte h, as the broker understands it.
Understands(h, r) ==
    LET type == h \div 16
    IN CASE type = CONNECT     -> ReadsConnect(r)
         [] type = PUBLISH     -> ReadsPublish(r, (h \div 2) % 4, h % 2)
         [] type = SUBSCRIBE   -> [type |-> type, id |-> Words(r, 0), topic |-> StringAt(r, 8),
                                   req |-> r[After(r, 8) + 1]]
         [] type = UNSUBSCRIBE -> [type |-> type, id |-> Words(r, 0), topic |-> StringAt(r, 8)]
         [] type = EXTCMD      -> ReadsExtended(r)
         [] type \in Acks      -> [type |-> type, id |-> Words(r, 0)]
         [] OTHER              -> [type |-> type]

\* A packet is well-formed when it is as long as it says.
BrokerReads(b) ==
    IF End(b) # Len(b) THEN NoPacket ELSE Understands(b[1], SubSeq(b, Start(b) + 1, Len(b)))

FirstByte(q) == 16 * q.type + CASE q.type = PUBLISH -> 8 * q.dup + 2 * q.qos + q.retained
                                [] q.type = PUBREL  -> 2
                                [] OTHER -> 0

DeliveryRest(q) ==
    AsWord(Len(q.topic)) \o q.topic \o (IF q.qos > 0 THEN AsWords(q.id) ELSE <<>>) \o q.payload
ReplyRest(q) == AsWords(q.id) \o <<q.cmd, q.status>> \o AsWord(Len(q.payload)) \o q.payload

Rest(q) ==
    CASE q.type = CONNACK -> <<0, q.code>>
      [] q.type = SUBACK  -> AsWords(q.id) \o <<q.granted>>
      [] q.type = PUBLISH -> DeliveryRest(q)
      [] q.type = EXTCMD  -> ReplyRest(q)
      [] q.type \in Acks  -> AsWords(q.id)
      [] OTHER            -> <<>>

\* What q tells the client, and the answer MQTT asks for.
Means(q) ==
    CASE q.type = CONNACK -> [type |-> CONNACK, code |-> q.code]
      [] q.type = SUBACK  -> [type |-> SUBACK, granted |-> q.granted]
      [] q.type = PUBLISH -> IF q.qos = 0 THEN NoPacket ELSE q
      [] q.type = EXTCMD  -> [type |-> EXTCMD, cmd |-> q.cmd, status |-> q.status, payload |-> q.payload]
      [] OTHER            -> [type |-> q.type]

Due(q) ==
    CASE q.type = PUBLISH /\ q.qos = 1 -> [type |-> PUBACK, id |-> q.id]
      [] q.type = PUBLISH /\ q.qos = 2 -> [type |-> PUBREC, id |-> q.id]
      [] q.type = PUBREC -> [type |-> PUBREL, id |-> q.id]
      [] q.type = PUBREL -> [type |-> PUBCOMP, id |-> q.id]
      [] OTHER -> NoPacket

\* The packets of the broker; those of QoS 0 have no identifier.
Connacks   == [type : {CONNACK}, code : Byte]
Subacks    == [type : {SUBACK}, id : PacketId, granted : Byte]
Deliveries == [type : {PUBLISH}, dup : Flag, qos : {1, 2}, retained : Flag, topic : Text, id : PacketId, payload : Seq(Byte)]
              \union
              [type : {PUBLISH}, dup : Flag, qos : {0}, retained : Flag, topic : Text, id : {<<>>}, payload : Seq(Byte)]
Replies    == [type : {EXTCMD}, id : PacketId, cmd : Byte, status : Byte, payload : Text]
Returns    == [type : Acks, id : PacketId]
Pongs      == [type : {PINGRESP}]

\* readPacket does not compare the length with the size of readbuf: the broker's
\* packets are taken to fit.
ASSUME IncomingAssumption ==
    \A q \in Incoming :
        /\ \/ q \in Connacks \/ q \in Subacks \/ q \in Deliveries
           \/ q \in Replies \/ q \in Returns \/ q \in Pongs
        /\ 1 + Digits(Len(Rest(q))) + Len(Rest(q)) <= BufSize

----------------------------------------------------------------------------
Init ==
    /\ readbuf = <<>> /\ sent = <<>> /\ received = 0
    /\ asked = NoPacket /\ came = NoPacket /\ learnt = NoPacket

\* MQTTConnect, MQTTSubscribe, MQTTPublish, ... as far as the packet is concerned.
Sends(p) ==
    /\ asked' = p
    /\ sent' = Serialize(p)
    /\ came' = NoPacket /\ learnt' = NoPacket
    /\ UNCHANGED <<readbuf, received>>

\* readPacket leaves q in readbuf, over what was there; cycle() parses and answers.
Receives(q) ==
    /\ received < MaxReceived /\ received' = received + 1
    /\ LET bytes == <<FirstByte(q)>> \o Encode(Len(Rest(q))) \o Rest(q) IN
         readbuf' = bytes \o SubSeq(readbuf, Len(bytes) + 1, Len(readbuf))
    /\ came' = q /\ learnt' = Learns(readbuf')
    /\ asked' = Due(q) /\ sent' = Answers(readbuf')

Next == (\E p \in Requests : Sends(p)) \/ (\E q \in Incoming : Receives(q))

Spec == Init /\ [][Next]_vars
----------------------------------------------------------------------------
\* What is sent is the packet asked for, complete and as long as it says: the
\* length functions agree with what the serialisers write, and an answer carries
\* the identifier of the packet it answers, whatever longer packets were in readbuf
\* before (MQTTSerialize_*, the replies in cycle()).
SentIsAsked == sent # <<>> => BrokerReads(sent) = asked

\* What the client makes of a packet is what the broker sent; nothing of an earlier
\* packet gets in (MQTTDeserialize_* over the whole of readbuf).
LearntIsMeant == came # NoPacket => learnt = Means(came)

\* No serialiser writes past buf, and one refuses only a packet that would
\* have filled it (MQTTPacket_len against buflen).  pub_buf is not one of theirs:
\* see Publish2Assumption.
FitsOrRefused ==
    /\ Len(sent) <= BufSize
    /\ asked # NoPacket /\ sent = <<>> =>
         1 + Digits(Len(Body(asked))) + Len(Body(asked)) >= BufSize

\* What is proved by induction.
IInv == readbuf \in Seq(Int) /\ FitsOrRefused
=============================================================================
