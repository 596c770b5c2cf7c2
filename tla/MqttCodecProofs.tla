-------------------------- MODULE MqttCodecProofs --------------------------
(***************************************************************************)
(* That no serialiser writes past the buffer, for packets and buffers of   *)
(* every size: the length functions agree with what is written, and        *)
(* MQTTPacket_len is a bound for the whole.                                *)
(*                                                                         *)
(* And that nothing is lost on the way: a packet is a row of pieces, each  *)
(* piece stands at a known position in the buffer (Has), and what a reader *)
(* finds at that position is the piece that was written.  The remaining    *)
(* length is read back digit by digit, so the end is known as well, and    *)
(* what an earlier packet left behind it is never looked at.               *)
(***************************************************************************)
EXTENDS MqttCodec, SequenceTheorems, TLAPS

\* MQTTPacket_len is never too small, and too large by one at most.
LEMMA PacketLenBound ==
  ASSUME NEW n \in Nat
  PROVE  /\ 1 + Digits(n) + n <= MQTTPacket_len(n)
         /\ MQTTPacket_len(n) <= 2 + Digits(n) + n
  BY DEF MQTTPacket_len, Digits

\* The encoded length has as many bytes as digits.
LEMMA EncodeLength ==
  ASSUME NEW n \in Nat
  PROVE  Encode(n) \in Seq(Int) /\ Len(Encode(n)) = Digits(n)
  <1> DEFINE e(i) == ((n \div Weight[i]) % 128) + (IF i < Digits(n) THEN 128 ELSE 0)
  <1>1. Digits(n) \in 1 .. 4
    BY DEF Digits
  <1>2. ASSUME NEW i \in 1 .. Digits(n) PROVE e(i) \in Int
    <2>1. i \in 1 .. 4
      BY <1>1
    <2>2. Weight[i] \in {1, 128, 16384, 2097152}
      BY <2>1 DEF Weight
    <2>3. n \div Weight[i] \in Int
      BY <2>2
    <2> QED
      BY <1>1, <2>3
  <1>3. Encode(n) = [i \in 1 .. Digits(n) |-> e(i)]
    BY DEF Encode
  <1> HIDE DEF e
  <1>4. Encode(n) \in [1 .. Digits(n) -> Int]
    BY <1>2, <1>3
  <1> QED
    BY <1>1, <1>4

\* writeInt writes two bytes.
LEMMA WriteIntLength ==
  ASSUME NEW n \in Int
  PROVE  WriteInt(n) \in Seq(Int) /\ Len(WriteInt(n)) = 2
  BY DEF WriteInt

\* Pieces put together are as long as the pieces.
LEMMA IntConcat ==
  \A s, t \in Seq(Int) : s \o t \in Seq(Int) /\ Len(s \o t) = Len(s) + Len(t)
  <1> SUFFICES ASSUME NEW s \in Seq(Int), NEW t \in Seq(Int)
               PROVE  s \o t \in Seq(Int) /\ Len(s \o t) = Len(s) + Len(t)
    OBVIOUS
  <1> QED
    BY ConcatProperties

\* Strings are sequences of numbers.
LEMMA StringIsInts ==
  ASSUME NEW s \in Text
  PROVE  s \in Seq(Int) /\ Len(s) \in Nat
  <1>1. s \in Seq(Byte)
    BY DEF Text
  <1>2. Byte \subseteq Int
    BY DEF Byte
  <1> QED
    BY <1>1, <1>2, SeqMonotonic, LenProperties

\* A string takes two bytes more than its length.
LEMMA WriteStringLength ==
  ASSUME NEW s \in Text
  PROVE  WriteString(s) \in Seq(Int) /\ Len(WriteString(s)) = Len(s) + 2
  <1>1. s \in Seq(Int) /\ Len(s) \in Nat
    BY StringIsInts
  <1>2. WriteInt(Len(s)) \in Seq(Int) /\ Len(WriteInt(Len(s))) = 2
    BY <1>1, WriteIntLength
  <1>3. WriteInt(Len(s)) \o s \in Seq(Int) /\ Len(WriteInt(Len(s)) \o s) = 2 + Len(s)
    BY <1>1, <1>2, IntConcat
  <1> QED
    BY <1>1, <1>3 DEF WriteString

\* writeInt64 writes eight bytes.
LEMMA WriteIdLength ==
  ASSUME NEW id \in PacketId
  PROVE  WriteInt64(id) \in Seq(Int) /\ Len(WriteInt64(id)) = 8
  <1>1. id[1] \in Int /\ id[2] \in Int /\ id[3] \in Int /\ id[4] \in Int
    <2>1. \A w \in 1 .. 4 : id[w] \in Int
      BY DEF PacketId, Word16
    <2> QED
      BY <2>1
  <1> DEFINE w1 == WriteInt(id[1])
             w2 == WriteInt(id[2])
             w3 == WriteInt(id[3])
             w4 == WriteInt(id[4])
  <1>2. /\ w1 \in Seq(Int) /\ w2 \in Seq(Int) /\ w3 \in Seq(Int) /\ w4 \in Seq(Int)
        /\ Len(w1) = 2 /\ Len(w2) = 2 /\ Len(w3) = 2 /\ Len(w4) = 2
    BY <1>1, WriteIntLength
  <1>3. WriteInt64(id) = ((w1 \o w2) \o w3) \o w4
    BY DEF WriteInt64
  <1> HIDE DEF w1, w2, w3, w4
  <1>4. w1 \o w2 \in Seq(Int) /\ Len(w1 \o w2) = 4
    <2>1. w1 \o w2 \in Seq(Int) /\ Len(w1 \o w2) = Len(w1) + Len(w2)
      BY <1>2, IntConcat, Zenon
    <2> QED
      BY <1>2, <2>1
  <1>5. (w1 \o w2) \o w3 \in Seq(Int) /\ Len((w1 \o w2) \o w3) = 6
    BY <1>2, <1>4, IntConcat
  <1>6. ((w1 \o w2) \o w3) \o w4 \in Seq(Int) /\ Len(((w1 \o w2) \o w3) \o w4) = 8
    BY <1>2, <1>5, IntConcat
  <1> QED
    BY <1>3, <1>6, Zenon

\* Two bytes, whatever the number was read from; likewise the identifier below.
LEMMA WriteIntTwo ==
  ASSUME NEW n, NEW S, (n \div 256) % 256 \in S, n % 256 \in S
  PROVE  WriteInt(n) \in Seq(S) /\ Len(WriteInt(n)) = 2
  BY DEF WriteInt

\* An identifier of any packet, the broker's too, takes eight bytes.
LEMMA WriteInt64Length ==
  ASSUME NEW id
  PROVE  \E S : WriteInt64(id) \in Seq(S) /\ Len(WriteInt64(id)) = 8
  <1> DEFINE w1 == WriteInt(id[1])
             w2 == WriteInt(id[2])
             w3 == WriteInt(id[3])
             w4 == WriteInt(id[4])
             S  == {(id[w] \div 256) % 256 : w \in 1 .. 4} \union {id[w] % 256 : w \in 1 .. 4}
  <1>1. /\ (id[1] \div 256) % 256 \in S /\ id[1] % 256 \in S /\ (id[2] \div 256) % 256 \in S /\ id[2] % 256 \in S
        /\ (id[3] \div 256) % 256 \in S /\ id[3] % 256 \in S /\ (id[4] \div 256) % 256 \in S /\ id[4] % 256 \in S
    <2>1. 1 \in 1 .. 4 /\ 2 \in 1 .. 4 /\ 3 \in 1 .. 4 /\ 4 \in 1 .. 4
      OBVIOUS
    <2> QED
      BY <2>1, ZenonT(40)
  <1> HIDE DEF S
  <1>2. /\ w1 \in Seq(S) /\ w2 \in Seq(S) /\ w3 \in Seq(S) /\ w4 \in Seq(S)
        /\ Len(w1) = 2 /\ Len(w2) = 2 /\ Len(w3) = 2 /\ Len(w4) = 2
    BY <1>1, WriteIntTwo
  <1>3. WriteInt64(id) = ((w1 \o w2) \o w3) \o w4
    BY DEF WriteInt64
  <1> HIDE DEF w1, w2, w3, w4
  <1>4. w1 \o w2 \in Seq(S) /\ Len(w1 \o w2) = 4
    <2>1. w1 \o w2 \in Seq(S) /\ Len(w1 \o w2) = Len(w1) + Len(w2)
      BY <1>2, ConcatProperties, Zenon
    <2> QED
      BY <1>2, <2>1
  <1>5. (w1 \o w2) \o w3 \in Seq(S) /\ Len((w1 \o w2) \o w3) = 6
    BY <1>2, <1>4, ConcatProperties
  <1>6. ((w1 \o w2) \o w3) \o w4 \in Seq(S) /\ Len(((w1 \o w2) \o w3) \o w4) = 8
    BY <1>2, <1>5, ConcatProperties
  <1> QED
    BY <1>3, <1>6, Zenon

----------------------------------------------------------------------------
(* The length functions. *)

\* Three pieces put together.
LEMMA IntConcat3 ==
  \A s, t, u \in Seq(Int) : /\ s \o t \o u \in Seq(Int)
                            /\ Len(s \o t \o u) = Len(s) + Len(t) + Len(u)
  <1> SUFFICES ASSUME NEW s \in Seq(Int), NEW t \in Seq(Int), NEW u \in Seq(Int)
               PROVE  s \o t \o u \in Seq(Int) /\ Len(s \o t \o u) = Len(s) + Len(t) + Len(u)
    OBVIOUS
  <1>1. s \o t \in Seq(Int) /\ Len(s \o t) = Len(s) + Len(t)
    BY IntConcat, Zenon
  <1>2. (s \o t) \o u \in Seq(Int) /\ Len((s \o t) \o u) = Len(s \o t) + Len(u)
    BY <1>1, IntConcat, Zenon
  <1> QED
    BY <1>1, <1>2, Zenon

\* Nothing has length 0,
LEMMA IntEmpty == <<>> \in Seq(Int) /\ Len(<<>>) = 0 /\ Len(<<>>) \in Nat
  <1>1. <<>> \in Seq(Int) /\ Len(<<>>) = 0
    BY EmptySeq
  <1> QED
    BY <1>1

\* a byte length 1,
LEMMA IntOne == ASSUME NEW n \in Int PROVE <<n>> \in Seq(Int) /\ Len(<<n>>) = 1
  OBVIOUS

\* and every length is a number.
LEMMA IntLen == \A s \in Seq(Int) : Len(s) \in Nat
  BY LenProperties, Zenon

\* An option that is there.
LEMMA OnlyElement ==
  ASSUME NEW S, NEW o \in AtMostOne(S), o # <<>>
  PROVE  o[1] \in S
  <1>1. o \in Seq(S)
    BY DEF AtMostOne
  <1>2. 1 \in 1 .. Len(o)
    BY <1>1, EmptySeq
  <1> QED
    BY <1>1, <1>2, ElementOfSeq

\* User name and password are as long as computed.
LEMMA OptionHasLength ==
  ASSUME NEW o \in AtMostOne(Text)
  PROVE  Option(o) \in Seq(Int) /\ Len(Option(o)) = OptionLength(o)
  <1>1. CASE o = <<>>
    BY <1>1, IntEmpty DEF Option, OptionLength
  <1>2. CASE o # <<>>
    <2>1. o[1] \in Text
      BY <1>2, OnlyElement
    <2> QED
      BY <1>2, <2>1, WriteStringLength DEF Option, OptionLength
  <1> QED
    BY <1>1, <1>2

\* A PUBLISH is as long as computed, whoever writes it.
LEMMA DeliveryHasLength ==
  ASSUME NEW p, p \in Publishes \/ p \in Deliveries
  PROVE  PublishBody(p) \in Seq(Int) /\ Len(PublishBody(p)) = PublishLength(p)
  <1> DEFINE d == p.payload
             n == p.topic
             t == WriteString(n)
             i == IF p.qos > 0 THEN WriteInt64(p.id) ELSE <<>>
  <1>1. n \in Text /\ d \in Seq(Byte) /\ p.qos \in Int /\ (p.qos > 0 => p.id \in PacketId)
    BY DEF Publishes, Deliveries, Text
  <1>2. t \in Seq(Int) /\ Len(t) = Len(n) + 2
    BY <1>1, WriteStringLength
  <1>3. d \in Seq(Int) /\ Len(d) \in Nat /\ Len(n) \in Nat
    <2>1. Byte \subseteq Int
      BY DEF Byte
    <2> QED
      BY <1>1, <2>1, StringIsInts, SeqMonotonic, LenProperties
  <1>4. PublishBody(p) = t \o i \o d
    BY DEF PublishBody
  <1>5. CASE p.qos > 0
    <2>1. i \in Seq(Int) /\ Len(i) = 8
      BY <1>1, <1>5, WriteIdLength
    <2>2. PublishLength(p) = 2 + Len(n) + Len(d) + 8
      BY <1>5, Zenon DEF PublishLength
    <2> HIDE DEF d, n, t, i
    <2>3. t \o i \o d \in Seq(Int) /\ Len(t \o i \o d) = Len(t) + Len(i) + Len(d)
      BY <1>2, <1>3, <2>1, IntConcat3, Zenon
    <2> QED
      BY <1>2, <1>3, <1>4, <2>1, <2>2, <2>3
  <1>6. CASE ~(p.qos > 0)
    <2>1. i \in Seq(Int) /\ Len(i) = 0
      BY <1>6, IntEmpty, Zenon
    <2>2. PublishLength(p) = 2 + Len(n) + Len(d) + 0
      BY <1>6, Zenon DEF PublishLength
    <2> HIDE DEF d, n, t, i
    <2>3. t \o i \o d \in Seq(Int) /\ Len(t \o i \o d) = Len(t) + Len(i) + Len(d)
      BY <1>2, <1>3, <2>1, IntConcat3, Zenon
    <2> QED
      BY <1>2, <1>3, <1>4, <2>1, <2>2, <2>3
  <1> QED
    BY <1>5, <1>6

\* MQTTSerialize_publishLength is the length of what MQTTSerialize_publish writes.
LEMMA PublishHasLength ==
  ASSUME NEW p \in Publishes
  PROVE  PublishBody(p) \in Seq(Int) /\ Len(PublishBody(p)) = PublishLength(p)
  BY DeliveryHasLength, Zenon

\* The same for MQTTSerialize_subscribe,
LEMMA SubscribeHasLength ==
  ASSUME NEW p \in Subscribes
  PROVE  SubscribeBody(p) \in Seq(Int) /\ Len(SubscribeBody(p)) = SubscribeLength(p)
  <1> DEFINE i == WriteInt64(p.id)
             t == WriteString(p.topic)
             q == <<p.req>>
  <1>1. p.id \in PacketId /\ p.topic \in Text /\ p.req \in Int
    BY DEF Subscribes
  <1>2. Len(p.topic) \in Nat
    BY <1>1, StringIsInts
  <1>3. /\ i \in Seq(Int) /\ t \in Seq(Int) /\ q \in Seq(Int)
        /\ Len(i) = 8 /\ Len(t) = Len(p.topic) + 2 /\ Len(q) = 1
    BY <1>1, WriteIdLength, WriteStringLength, IntOne
  <1>4. SubscribeBody(p) = i \o t \o q
    BY DEF SubscribeBody
  <1> HIDE DEF i, t, q
  <1>5. i \o t \o q \in Seq(Int) /\ Len(i \o t \o q) = Len(i) + Len(t) + Len(q)
    BY <1>3, IntConcat3, Zenon
  <1> QED
    BY <1>2, <1>3, <1>4, <1>5 DEF SubscribeLength

\* and for MQTTSerialize_unsubscribe.
LEMMA UnsubscribeHasLength ==
  ASSUME NEW p \in Unsubscribes
  PROVE  UnsubscribeBody(p) \in Seq(Int) /\ Len(UnsubscribeBody(p)) = UnsubscribeLength(p)
  <1> DEFINE i == WriteInt64(p.id)
             t == WriteString(p.topic)
  <1>1. p.id \in PacketId /\ p.topic \in Text
    BY DEF Unsubscribes
  <1>2. Len(p.topic) \in Nat
    BY <1>1, StringIsInts
  <1>3. i \in Seq(Int) /\ t \in Seq(Int) /\ Len(i) = 8 /\ Len(t) = Len(p.topic) + 2
    BY <1>1, WriteIdLength, WriteStringLength
  <1>4. UnsubscribeBody(p) = i \o t
    BY DEF UnsubscribeBody
  <1> HIDE DEF i, t
  <1>5. i \o t \in Seq(Int) /\ Len(i \o t) = Len(i) + Len(t)
    BY <1>3, IntConcat, Zenon
  <1> QED
    BY <1>2, <1>3, <1>4, <1>5 DEF UnsubscribeLength

\* A tagged part is a sequence of numbers.
LEMMA TlvIsInts ==
  ASSUME NEW k \in Int, NEW s \in Text
  PROVE  Tlv(k, s) \in Seq(Int)
  BY WriteStringLength, IntOne, IntConcat, Zenon DEF Tlv

\* The parts that MQTTPublish2 puts together.
LEMMA Publish2IsInts ==
  ASSUME NEW p \in Publish2s
  PROVE  Publish2(p) \in Seq(Int)
  <1> DEFINE o == IF p.opt = <<>> THEN <<>> ELSE Tlv(p.opt[1].key, p.opt[1].val)
  <1>1. p.topic \in Text /\ p.payload \in Text /\ p.opt \in AtMostOne([key : 0 .. 7, val : Text])
    BY DEF Publish2s
  <1>2. p.opt # <<>> => p.opt[1] \in [key : 0 .. 7, val : Text]
    BY <1>1, OnlyElement, Zenon
  <1>3. p.opt # <<>> => p.opt[1].key \in Int /\ p.opt[1].val \in Text
    BY <1>2
  <1>4. o \in Seq(Int)
    BY <1>3, TlvIsInts, IntEmpty, Zenon
  <1>5. Tlv(1, p.payload) \in Seq(Int) /\ Tlv(0, p.topic) \in Seq(Int)
    <2>1. 1 \in Int /\ 0 \in Int
      OBVIOUS
    <2> QED
      BY <1>1, <2>1, TlvIsInts, Zenon
  <1>6. Publish2(p) = Tlv(1, p.payload) \o Tlv(0, p.topic) \o o
    BY DEF Publish2
  <1> HIDE DEF o
  <1> QED
    BY <1>4, <1>5, <1>6, IntConcat3, Zenon

\* MQTTSerialize_extendedcmdLength is the length of what is written.
LEMMA ExtendedHasLength ==
  ASSUME NEW p \in Publish2s
  PROVE  ExtendedBody(p) \in Seq(Int) /\ Len(ExtendedBody(p)) = ExtendedLength(p)
  <1> DEFINE i == WriteInt64(p.id)
             c == <<PUBLISH2>>
             n == WriteInt(Len(Publish2(p)))
  <1>1. p.id \in PacketId
    BY DEF Publish2s
  <1>2. Publish2(p) \in Seq(Int) /\ Len(Publish2(p)) \in Nat
    BY Publish2IsInts, IntLen
  <1>3. /\ i \in Seq(Int) /\ c \in Seq(Int) /\ n \in Seq(Int)
        /\ Len(i) = 8 /\ Len(c) = 1 /\ Len(n) = 2
    BY <1>1, <1>2, WriteIdLength, WriteIntLength, IntOne DEF PUBLISH2
  <1>4. ExtendedBody(p) = (i \o c \o n) \o Publish2(p)
    BY DEF ExtendedBody
  <1> HIDE DEF i, c, n
  <1>5. i \o c \o n \in Seq(Int) /\ Len(i \o c \o n) = Len(i) + Len(c) + Len(n)
    BY <1>3, IntConcat3, Zenon
  <1>6. /\ (i \o c \o n) \o Publish2(p) \in Seq(Int)
        /\ Len((i \o c \o n) \o Publish2(p)) = Len(i \o c \o n) + Len(Publish2(p))
    BY <1>2, <1>5, IntConcat, Zenon
  <1> QED
    BY <1>2, <1>3, <1>4, <1>5, <1>6 DEF ExtendedLength

\* The connect flags are a number.
LEMMA FlagsAreInt ==
  ASSUME NEW p \in Connects
  PROVE  ConnectFlags(p) \in Int
  <1>1. p.clean \in Int /\ p.will \in AtMostOne([topic : Text, message : Text, qos : 0 .. 2, retained : Flag])
    BY DEF Connects, Flag
  <1>2. p.will # <<>> => p.will[1].qos \in Int /\ p.will[1].retained \in Int
    <2>1. p.will # <<>> => p.will[1] \in [topic : Text, message : Text, qos : 0 .. 2, retained : Flag]
      BY <1>1, OnlyElement, Zenon
    <2> QED
      BY <2>1 DEF Flag
  <1>3. \A o : Bit(o) \in Int
    BY DEF Bit
  <1> DEFINE w == IF p.will = <<>> THEN 0 ELSE 8 * p.will[1].qos + 32 * p.will[1].retained
  <1>4. w \in Int
    BY <1>2, SMTT(30)
  <1>5. ConnectFlags(p) = 2 * p.clean + 4 * Bit(p.will) + 64 * Bit(p.password) + 128 * Bit(p.username) + w
    BY DEF ConnectFlags
  <1> HIDE DEF w
  <1> QED
    BY <1>1, <1>3, <1>4, <1>5

\* Protocol name and version take 7 bytes in version 4 and 9 in the others.
LEMMA ProtocolLength ==
  ASSUME NEW v \in Int
  PROVE  Protocol(v) \in Seq(Int) /\ Len(Protocol(v)) = IF v = 4 THEN 7 ELSE 9
  <1> DEFINE mqtt   == <<77, 81, 84, 84>>
             mqisdp == <<77, 81, 73, 115, 100, 112>>
             four   == WriteInt(4)
             six    == WriteInt(6)
             o      == <<v>>
  <1>1. /\ mqtt \in Seq(Int) /\ Len(mqtt) = 4
        /\ mqisdp \in Seq(Int) /\ Len(mqisdp) = 6
    OBVIOUS
  <1>2. four \in Seq(Int) /\ Len(four) = 2 /\ six \in Seq(Int) /\ Len(six) = 2
    BY WriteIntLength
  <1>3. o \in Seq(Int) /\ Len(o) = 1
    BY IntOne
  <1>4. v = 4 => Protocol(v) = four \o mqtt \o o
    BY <1>1 DEF Protocol, WriteString
  <1>5. v # 4 => Protocol(v) = six \o mqisdp \o o
    BY <1>1 DEF Protocol, WriteString
  <1> HIDE DEF mqtt, mqisdp, four, six, o
  <1>6. four \o mqtt \o o \in Seq(Int) /\ Len(four \o mqtt \o o) = Len(four) + Len(mqtt) + Len(o)
    BY <1>1, <1>2, <1>3, IntConcat3, ZenonT(40)
  <1>7. six \o mqisdp \o o \in Seq(Int) /\ Len(six \o mqisdp \o o) = Len(six) + Len(mqisdp) + Len(o)
    BY <1>1, <1>2, <1>3, IntConcat3, ZenonT(40)
  <1>8. Len(four \o mqtt \o o) = 7 /\ Len(six \o mqisdp \o o) = 9
    BY <1>1, <1>2, <1>3, <1>6, <1>7
  <1> QED
    BY <1>4, <1>5, <1>6, <1>7, <1>8, Zenon

\* The will is as long as computed.
LEMMA WillHasLength ==
  ASSUME NEW o \in AtMostOne([topic : Text, message : Text, qos : 0 .. 2, retained : Flag])
  PROVE  Will(o) \in Seq(Int) /\ Len(Will(o)) \in Nat /\ Len(Will(o)) = WillLength(o)
  <1> DEFINE m == o[1].message
             t == o[1].topic
  <1>1. CASE o = <<>>
    <2>1. Will(o) = <<>> /\ WillLength(o) = 0
      BY <1>1, Zenon DEF Will, WillLength
    <2> QED
      BY <2>1, IntEmpty, Zenon
  <1>2. CASE o # <<>>
    <2>1. o[1] \in [topic : Text, message : Text, qos : 0 .. 2, retained : Flag]
      BY <1>2, OnlyElement, Zenon
    <2>2. t \in Text /\ m \in Text
      BY <2>1
    <2>3. /\ Will(o) = WriteString(t) \o WriteString(m)
          /\ WillLength(o) = Len(t) + 2 + Len(m) + 2
      BY <1>2, Zenon DEF Will, WillLength
    <2> HIDE DEF t, m
    <2>4. /\ WriteString(t) \in Seq(Int) /\ Len(WriteString(t)) = Len(t) + 2
          /\ WriteString(m) \in Seq(Int) /\ Len(WriteString(m)) = Len(m) + 2
          /\ Len(t) \in Nat /\ Len(m) \in Nat
      BY <2>2, WriteStringLength, StringIsInts
    <2>5. Will(o) \in Seq(Int) /\ Len(Will(o)) = Len(WriteString(t)) + Len(WriteString(m))
      BY <2>3, <2>4, IntConcat, Zenon
    <2> QED
      BY <2>3, <2>4, <2>5
  <1> QED
    BY <1>1, <1>2, Zenon

\* The length of an option is a number.
LEMMA OptionLengthIsNat ==
  ASSUME NEW o \in AtMostOne(Text)
  PROVE  OptionLength(o) \in Nat
  <1>1. Option(o) \in Seq(Int) /\ Len(Option(o)) = OptionLength(o)
    BY OptionHasLength
  <1> QED
    BY <1>1, IntLen, Zenon

\* Seven parts, three of which may be absent.
LEMMA ConnectHasLength ==
  ASSUME NEW p \in Connects
  PROVE  ConnectBody(p) \in Seq(Int) /\ Len(ConnectBody(p)) = ConnectLength(p)
  <1> DEFINE n == p.clientID
             a == Protocol(p.version)
             f == <<ConnectFlags(p)>>
             k == WriteInt(p.keepAlive)
             c == WriteString(n)
             w == Will(p.will)
             u == Option(p.username)
             s == Option(p.password)
             wl == WillLength(p.will)
             ul == OptionLength(p.username)
             sl == OptionLength(p.password)
  <1>1. /\ p.version \in Int /\ p.keepAlive \in Int /\ n \in Text
        /\ p.username \in AtMostOne(Text) /\ p.password \in AtMostOne(Text)
        /\ p.will \in AtMostOne([topic : Text, message : Text, qos : 0 .. 2, retained : Flag])
    BY DEF Connects, Word16
  <1>2. a \in Seq(Int) /\ Len(a) = IF p.version = 4 THEN 7 ELSE 9
    BY <1>1, ProtocolLength
  <1>3. f \in Seq(Int) /\ Len(f) = 1
    BY FlagsAreInt, IntOne
  <1>4. k \in Seq(Int) /\ Len(k) = 2
    BY <1>1, WriteIntLength
  <1>5. c \in Seq(Int) /\ Len(c) = Len(n) + 2 /\ Len(n) \in Nat
    BY <1>1, WriteStringLength, StringIsInts
  <1>6. w \in Seq(Int) /\ Len(w) \in Nat /\ Len(w) = wl
    BY <1>1, WillHasLength, Zenon
  <1>7. /\ u \in Seq(Int) /\ Len(u) = ul /\ ul \in Nat
        /\ s \in Seq(Int) /\ Len(s) = sl /\ sl \in Nat
    BY <1>1, OptionHasLength, OptionLengthIsNat
  <1>8. ConnectBody(p) = a \o f \o k \o c \o w \o u \o s
    BY DEF ConnectBody
  <1>9. ConnectLength(p) = (IF p.version = 4 THEN 10 ELSE 12) + Len(n) + 2 + wl + ul + sl
    BY DEF ConnectLength
  <1> HIDE DEF n, a, f, k, c, w, u, s, wl, ul, sl
  <1>10. a \o f \o k \in Seq(Int) /\ Len(a \o f \o k) = Len(a) + Len(f) + Len(k)
    BY <1>2, <1>3, <1>4, IntConcat3, Zenon
  <1>11. /\ (a \o f \o k) \o c \o w \in Seq(Int)
         /\ Len((a \o f \o k) \o c \o w) = Len(a \o f \o k) + Len(c) + Len(w)
    BY <1>5, <1>6, <1>10, IntConcat3, Zenon
  <1>12. /\ ((a \o f \o k) \o c \o w) \o u \o s \in Seq(Int)
         /\ Len(((a \o f \o k) \o c \o w) \o u \o s) = Len((a \o f \o k) \o c \o w) + Len(u) + Len(s)
    BY <1>7, <1>11, IntConcat3, Zenon
  <1>13. Len(ConnectBody(p)) = Len(a) + Len(f) + Len(k) + Len(c) + Len(w) + Len(u) + Len(s)
    BY <1>8, <1>10, <1>11, <1>12, Zenon
  <1>14. Len(ConnectBody(p)) = ConnectLength(p)
    <2>1. CASE p.version = 4
      BY <1>2, <1>3, <1>4, <1>5, <1>6, <1>7, <1>9, <1>13, <2>1
    <2>2. CASE p.version # 4
      BY <1>2, <1>3, <1>4, <1>5, <1>6, <1>7, <1>9, <1>13, <2>2
    <2> QED
      BY <2>1, <2>2
  <1> QED
    BY <1>8, <1>12, <1>14, Zenon

----------------------------------------------------------------------------
(* Whole packets. *)

Request(p) == \/ p \in Connects \/ p \in Publishes \/ p \in Subscribes
              \/ p \in Unsubscribes \/ p \in Publish2s \/ p \in Empties

\* What is written for each type of packet.
LEMMA BodyByType ==
  ASSUME NEW p
  PROVE  /\ p.type = CONNECT => Body(p) = ConnectBody(p) /\ Length(p) = ConnectLength(p)
         /\ p.type = PUBLISH => Body(p) = PublishBody(p) /\ Length(p) = PublishLength(p)
         /\ p.type = SUBSCRIBE => Body(p) = SubscribeBody(p) /\ Length(p) = SubscribeLength(p)
         /\ p.type = UNSUBSCRIBE => Body(p) = UnsubscribeBody(p) /\ Length(p) = UnsubscribeLength(p)
         /\ p.type = EXTCMD => Body(p) = ExtendedBody(p) /\ Length(p) = ExtendedLength(p)
         /\ p.type \in Acks => Body(p) = WriteInt64(p.id) /\ Length(p) = 8
         /\ p.type \in {PINGREQ, DISCONNECT} => Body(p) = <<>> /\ Length(p) = 0
  BY DEF Body, Length, Acks, CONNECT, PUBLISH, PUBACK, PUBREC, PUBREL, PUBCOMP,
         SUBSCRIBE, UNSUBSCRIBE, PINGREQ, DISCONNECT, EXTCMD

\* The length computed beforehand is the length of what is written.
LEMMA BodyHasLength ==
  ASSUME NEW p, Request(p)
  PROVE  Body(p) \in Seq(Int) /\ Len(Body(p)) = Length(p)
  <1>1. CASE p \in Connects
    <2>1. p.type = CONNECT
      BY <1>1 DEF Connects
    <2> QED
      BY <1>1, <2>1, BodyByType, ConnectHasLength, Zenon
  <1>2. CASE p \in Publishes
    <2>1. p.type = PUBLISH
      BY <1>2 DEF Publishes
    <2> QED
      BY <1>2, <2>1, BodyByType, PublishHasLength, Zenon
  <1>3. CASE p \in Subscribes
    <2>1. p.type = SUBSCRIBE
      BY <1>3 DEF Subscribes
    <2> QED
      BY <1>3, <2>1, BodyByType, SubscribeHasLength, Zenon
  <1>4. CASE p \in Unsubscribes
    <2>1. p.type = UNSUBSCRIBE
      BY <1>4 DEF Unsubscribes
    <2> QED
      BY <1>4, <2>1, BodyByType, UnsubscribeHasLength, Zenon
  <1>5. CASE p \in Publish2s
    <2>1. p.type = EXTCMD
      BY <1>5 DEF Publish2s
    <2> QED
      BY <1>5, <2>1, BodyByType, ExtendedHasLength, Zenon
  <1>6. CASE p \in Empties
    <2>1. p.type \in {PINGREQ, DISCONNECT}
      BY <1>6 DEF Empties
    <2> QED
      BY <2>1, BodyByType, IntEmpty, Zenon
  <1> QED
    BY <1>1, <1>2, <1>3, <1>4, <1>5, <1>6 DEF Request

\* A header is one byte,
LEMMA OneByte ==
  ASSUME NEW t \in Int, NEW d \in Int, NEW q \in Int, NEW r \in Int
  PROVE  Header(t, d, q, r) \in Seq(Int) /\ Len(Header(t, d, q, r)) = 1
  BY DEF Header

\* whatever the packet.
LEMMA HeaderIsByte ==
  ASSUME NEW p, Request(p)
  PROVE  HeaderOf(p) \in Seq(Int) /\ Len(HeaderOf(p)) = 1
  <1> DEFINE type == p.type
             q    == p.qos
             r    == p.retained
  <1>1. type \in {1, 3, 8, 10, 12, 14, 15}
    BY DEF Request, Connects, Publishes, Subscribes, Unsubscribes, Publish2s, Empties,
           CONNECT, PUBLISH, SUBSCRIBE, UNSUBSCRIBE, EXTCMD, PINGREQ, DISCONNECT
  <1>2. type = 3 => q \in Int /\ r \in Int
    BY DEF Request, Connects, Publishes, Subscribes, Unsubscribes, Publish2s, Empties, Flag,
           CONNECT, PUBLISH, SUBSCRIBE, UNSUBSCRIBE, EXTCMD, PINGREQ, DISCONNECT
  <1>3. \/ type = 3 /\ HeaderOf(p) = Header(3, 0, q, r)
        \/ HeaderOf(p) = Header(type, 0, 1, 0)
        \/ HeaderOf(p) = Header(type, 0, 0, 0)
    <2>1. CASE p.type = PUBLISH
      BY <2>1 DEF HeaderOf, PUBLISH, SUBSCRIBE, UNSUBSCRIBE, EXTCMD, PUBREL
    <2>2. CASE p.type # PUBLISH /\ p.type \in {SUBSCRIBE, UNSUBSCRIBE, EXTCMD, PUBREL}
      BY <2>2 DEF HeaderOf
    <2>3. CASE p.type # PUBLISH /\ p.type \notin {SUBSCRIBE, UNSUBSCRIBE, EXTCMD, PUBREL}
      BY <2>3 DEF HeaderOf
    <2> QED
      BY <2>1, <2>2, <2>3
  <1> HIDE DEF type, q, r
  <1>4. type \in Int
    BY <1>1
  <1>5. /\ Header(type, 0, 1, 0) \in Seq(Int) /\ Len(Header(type, 0, 1, 0)) = 1
        /\ Header(type, 0, 0, 0) \in Seq(Int) /\ Len(Header(type, 0, 0, 0)) = 1
    BY <1>4, OneByte
  <1>6. type = 3 => Header(3, 0, q, r) \in Seq(Int) /\ Len(Header(3, 0, q, r)) = 1
    <2> SUFFICES ASSUME type = 3
                 PROVE  Header(3, 0, q, r) \in Seq(Int) /\ Len(Header(3, 0, q, r)) = 1
      OBVIOUS
    <2>1. q \in Int /\ r \in Int
      BY <1>2
    <2>2. 3 \in Int /\ 0 \in Int
      OBVIOUS
    <2> QED
      BY <2>1, <2>2, OneByte, Zenon
  <1> QED
    BY <1>3, <1>5, <1>6, Zenon

\* A request is serialised within the buffer, or refused when no byte would be left.
LEMMA RequestFits ==
  ASSUME NEW p, Request(p)
  PROVE  /\ Len(Serialize(p)) <= BufSize
         /\ Serialize(p) = <<>> => 1 + Digits(Len(Body(p))) + Len(Body(p)) >= BufSize
  <1> DEFINE h == HeaderOf(p)
             n == Length(p)
             e == Encode(n)
             b == Body(p)
             s == h \o e \o b
  <1>1. b \in Seq(Int) /\ Len(b) = n
    BY BodyHasLength
  <1>2. n \in Nat
    BY <1>1, IntLen, Zenon
  <1>3. h \in Seq(Int) /\ Len(h) = 1
    BY HeaderIsByte
  <1>4. e \in Seq(Int) /\ Len(e) = Digits(n)
    BY <1>2, EncodeLength
  <1>5. Serialize(p) = IF TooShort(p) THEN <<>> ELSE s
    BY DEF Serialize
  <1>6. /\ 1 + Digits(n) + n <= MQTTPacket_len(n)
        /\ MQTTPacket_len(n) <= 2 + Digits(n) + n
    BY <1>2, PacketLenBound
  <1>7. Digits(n) \in Nat /\ MQTTPacket_len(n) \in Int
    BY <1>2 DEF Digits, MQTTPacket_len
  <1>8. TooShort(p) => MQTTPacket_len(n) > BufSize
    BY Zenon DEF TooShort
  <1>9. ~TooShort(p) => MQTTPacket_len(n) <= BufSize
    <2>1. CASE p.type \in {PINGREQ, DISCONNECT}
      <3>1. n = 0
        BY <2>1, BodyByType, Zenon
      <3> QED
        BY <3>1, BufSizeAssumption DEF MQTTPacket_len
    <2>2. CASE p.type \notin {PINGREQ, DISCONNECT}
      <3>1. p.type \notin Acks
        BY <2>2 DEF Request, Connects, Publishes, Subscribes, Unsubscribes, Publish2s, Empties, Acks,
                    CONNECT, PUBLISH, SUBSCRIBE, UNSUBSCRIBE, EXTCMD, PUBACK, PUBREC, PUBREL, PUBCOMP
      <3>2. ~TooShort(p) => ~(MQTTPacket_len(n) > BufSize)
        BY <2>2, <3>1, Zenon DEF TooShort
      <3> QED
        BY <1>7, <3>2, BufSizeAssumption
    <2> QED
      BY <2>1, <2>2
  <1> HIDE DEF h, n, e, b
  <1>10. s \in Seq(Int) /\ Len(s) = Len(h) + Len(e) + Len(b)
    BY <1>1, <1>3, <1>4, IntConcat3, Zenon
  <1>11. Len(s) = 1 + Digits(n) + n
    BY <1>1, <1>2, <1>3, <1>4, <1>7, <1>10
  <1> HIDE DEF s
  <1>12. CASE TooShort(p)
    <2>1. Len(Serialize(p)) = 0
      BY <1>5, <1>12, IntEmpty, Zenon
    <2>2. 1 + Digits(n) + n >= BufSize
      BY <1>2, <1>6, <1>7, <1>8, <1>12, BufSizeAssumption
    <2>3. 1 + Digits(Len(b)) + Len(b) >= BufSize
      BY <1>1, <2>2, Zenon
    <2>4. Len(Serialize(p)) <= BufSize
      BY <2>1, BufSizeAssumption
    <2> QED
      BY <2>3, <2>4 DEF b
  <1>13. CASE ~TooShort(p)
    <2>1. Serialize(p) = s
      BY <1>5, <1>13, Zenon
    <2>2. Len(s) <= BufSize /\ Len(s) # 0
      BY <1>2, <1>6, <1>7, <1>9, <1>11, <1>13, BufSizeAssumption
    <2>3. s # <<>>
      BY <2>2, IntEmpty, Zenon
    <2> QED
      BY <2>1, <2>2, <2>3, Zenon
  <1> QED
    BY <1>12, <1>13

\* An acknowledgement has ten bytes (and is never refused).
LEMMA AckFits ==
  ASSUME NEW t \in {PUBACK, PUBREC, PUBREL, PUBCOMP}, NEW id
  PROVE  Len(Serialize(Ack(t, id))) <= BufSize /\ Serialize(Ack(t, id)) # <<>>
  <1> DEFINE p == Ack(t, id)
             h == HeaderOf(p)
             e == Encode(8)
             b == WriteInt64(id)
  <1>1. p.type = t /\ p.id = id
    BY DEF Ack
  <1>2. p.type \in Acks
    BY <1>1 DEF Acks
  <1>3. Body(p) = b /\ Length(p) = 8
    BY <1>1, <1>2, BodyByType, Zenon
  <1>4. h \in Seq(Int) /\ Len(h) = 1
    <2>1. t \in 4 .. 7
      BY DEF PUBACK, PUBREC, PUBREL, PUBCOMP
    <2>2. p.type # PUBLISH
      BY <1>1, <2>1 DEF PUBLISH
    <2>3. h = Header(t, 0, 1, 0) \/ h = Header(t, 0, 0, 0)
      <3>1. CASE p.type \in {SUBSCRIBE, UNSUBSCRIBE, EXTCMD, PUBREL}
        BY <1>1, <2>2, <3>1 DEF HeaderOf
      <3>2. CASE p.type \notin {SUBSCRIBE, UNSUBSCRIBE, EXTCMD, PUBREL}
        BY <1>1, <2>2, <3>2 DEF HeaderOf
      <3> QED
        BY <3>1, <3>2
    <2>4. /\ Header(t, 0, 1, 0) \in Seq(Int) /\ Len(Header(t, 0, 1, 0)) = 1
          /\ Header(t, 0, 0, 0) \in Seq(Int) /\ Len(Header(t, 0, 0, 0)) = 1
      <3>1. t \in Int
        BY <2>1
      <3> QED
        BY <3>1, OneByte, SMTT(30)
    <2> QED
      BY <2>3, <2>4, Zenon
  <1>5. e \in Seq(Int) /\ Len(e) = 1
    BY EncodeLength DEF Digits
  <1>6. Serialize(p) = h \o e \o b
    BY <1>2, <1>3, Zenon DEF Serialize, TooShort
  <1>7. PICK S : b \in Seq(S) /\ Len(b) = 8
    BY WriteInt64Length, Zenon
  <1> HIDE DEF p, h, e, b
  <1> DEFINE T == Int \union S
  <1>8. Int \subseteq T /\ S \subseteq T
    OBVIOUS
  <1> HIDE DEF T
  <1>9. h \in Seq(T) /\ e \in Seq(T) /\ b \in Seq(T)
    BY <1>4, <1>5, <1>7, <1>8, SeqMonotonic
  <1>10. h \o e \in Seq(T) /\ Len(h \o e) = Len(h) + Len(e)
    BY <1>9, ConcatProperties, Zenon
  <1>11. Len((h \o e) \o b) = Len(h \o e) + Len(b)
    BY <1>9, <1>10, ConcatProperties, Zenon
  <1>12. Len(Serialize(p)) = 10
    BY <1>4, <1>5, <1>6, <1>7, <1>10, <1>11
  <1>13. Len(Serialize(p)) <= BufSize /\ Len(Serialize(p)) # 0
    BY <1>12, BufSizeAssumption
  <1>14. Serialize(p) # <<>>
    BY <1>13, IntEmpty, Zenon
  <1> QED
    BY <1>13, <1>14, Zenon DEF p

----------------------------------------------------------------------------
(* What stands where in a buffer. *)

\* In b, x stands at position o (counted from 0).
Has(b, o, x) == o + Len(x) <= Len(b) /\ \A k \in 1 .. Len(x) : b[o + k] = x[k]

\* What stands in front,
LEMMA HasFront ==
  \A x, y \in Seq(Int) : Has(x \o y, 0, x)
  <1> SUFFICES ASSUME NEW x \in Seq(Int), NEW y \in Seq(Int)
               PROVE  Has(x \o y, 0, x)
    OBVIOUS
  <1>1. Len(x) \in Nat /\ Len(y) \in Nat /\ Len(x \o y) = Len(x) + Len(y)
    BY ConcatProperties, LenProperties
  <1>2. ASSUME NEW k \in 1 .. Len(x) PROVE (x \o y)[0 + k] = x[k]
    BY <1>1, ConcatProperties
  <1> QED
    BY <1>1, <1>2 DEF Has

\* everything,
LEMMA HasAll ==
  \A x \in Seq(Int) : Has(x, 0, x)
  BY LenProperties DEF Has

\* and the parts of what stands somewhere.
LEMMA HasParts ==
  \A b, x, y \in Seq(Int) : \A o \in Nat :
     Has(b, o, x \o y) => Has(b, o, x) /\ Has(b, o + Len(x), y)
  <1> SUFFICES ASSUME NEW b \in Seq(Int), NEW x \in Seq(Int), NEW y \in Seq(Int), NEW o \in Nat,
                      Has(b, o, x \o y)
               PROVE  Has(b, o, x) /\ Has(b, o + Len(x), y)
    OBVIOUS
  <1>1. /\ Len(x) \in Nat /\ Len(y) \in Nat /\ Len(b) \in Nat
        /\ Len(x \o y) = Len(x) + Len(y)
    BY ConcatProperties, LenProperties
  <1>2. o + (Len(x) + Len(y)) <= Len(b)
    BY <1>1 DEF Has
  <1>3. ASSUME NEW k \in 1 .. Len(x) PROVE b[o + k] = x[k]
    <2>1. k \in 1 .. Len(x \o y) /\ (x \o y)[k] = x[k]
      BY <1>1, ConcatProperties
    <2> QED
      BY <2>1 DEF Has
  <1>4. ASSUME NEW k \in 1 .. Len(y) PROVE b[(o + Len(x)) + k] = y[k]
    <2>1. Len(x) + k \in 1 .. Len(x \o y) /\ (x \o y)[Len(x) + k] = y[k]
      BY <1>1, ConcatProperties
    <2>2. b[o + (Len(x) + k)] = y[k]
      BY <2>1 DEF Has
    <2> QED
      BY <1>1, <2>2
  <1>5. o + Len(x) <= Len(b) /\ (o + Len(x)) + Len(y) <= Len(b)
    BY <1>1, <1>2
  <1> QED
    BY <1>3, <1>4, <1>5, Zenon DEF Has

\* It is read as it stands.
LEMMA HasSub ==
  \A b, x \in Seq(Int) : \A o \in Nat : Has(b, o, x) => SubSeq(b, o + 1, o + Len(x)) = x
  <1> SUFFICES ASSUME NEW b \in Seq(Int), NEW x \in Seq(Int), NEW o \in Nat, Has(b, o, x)
               PROVE  SubSeq(b, o + 1, o + Len(x)) = x
    OBVIOUS
  <1> DEFINE s == SubSeq(b, o + 1, o + Len(x))
  <1>1. Len(x) \in Nat /\ Len(b) \in Nat /\ o + Len(x) <= Len(b)
    BY LenProperties DEF Has
  <1>2. s \in Seq(Int) /\ Len(s) = Len(x) /\ \A k \in 1 .. Len(x) : s[k] = b[o + k]
    BY <1>1
  <1>3. \A k \in 1 .. Len(s) : s[k] = x[k]
    BY <1>2 DEF Has
  <1> HIDE DEF s
  <1>4. s = x
    BY <1>2, <1>3, SeqEqual, Zenon
  <1> QED
    BY <1>4 DEF s

\* One byte,
LEMMA HasByte ==
  \A b \in Seq(Int) : \A o, n \in Nat : Has(b, o, <<n>>) => o + 1 <= Len(b) /\ b[o + 1] = n
  <1> SUFFICES ASSUME NEW b \in Seq(Int), NEW o \in Nat, NEW n \in Nat, Has(b, o, <<n>>)
               PROVE  o + 1 <= Len(b) /\ b[o + 1] = n
    OBVIOUS
  <1>1. Len(<<n>>) = 1 /\ <<n>>[1] = n /\ 1 \in 1 .. 1
    OBVIOUS
  <1> QED
    BY <1>1 DEF Has

\* a number of two bytes, read by either side,
LEMMA HasInt ==
  \A b \in Seq(Int) : \A o \in Nat : \A n \in Word16 :
     Has(b, o, WriteInt(n)) => ReadInt(b, o) = n /\ Word(b, o) = n /\ o + 2 <= Len(b)
  <1> SUFFICES ASSUME NEW b \in Seq(Int), NEW o \in Nat, NEW n \in Word16, Has(b, o, WriteInt(n))
               PROVE  ReadInt(b, o) = n /\ Word(b, o) = n /\ o + 2 <= Len(b)
    OBVIOUS
  <1>1. Len(WriteInt(n)) = 2 /\ WriteInt(n)[1] = (n \div 256) % 256 /\ WriteInt(n)[2] = n % 256
    BY DEF WriteInt
  <1>2. o + 2 <= Len(b) /\ b[o + 1] = (n \div 256) % 256 /\ b[o + 2] = n % 256
    BY <1>1 DEF Has
  <1>3. n = 256 * ((n \div 256) % 256) + (n % 256)
    BY DEF Word16
  <1>4. ReadInt(b, o) = n /\ Word(b, o) = n
    <2>1. /\ ReadInt(b, o) = 256 * ((n \div 256) % 256) + (n % 256)
          /\ Word(b, o) = ((n \div 256) % 256) * 256 + (n % 256)
      BY <1>2, ZenonT(40) DEF ReadInt, Word
    <2>2. (n \div 256) % 256 \in Int /\ n % 256 \in Int
      BY DEF Word16
    <2> QED
      BY <1>3, <2>1, <2>2
  <1> QED
    BY <1>2, <1>4

\* an identifier,
LEMMA HasId ==
  \A b \in Seq(Int) : \A o \in Nat : \A id \in PacketId :
     Has(b, o, WriteInt64(id)) => ReadInt64(b, o) = id /\ Words(b, o) = id /\ o + 8 <= Len(b)
  <1> SUFFICES ASSUME NEW b \in Seq(Int), NEW o \in Nat, NEW id \in PacketId, Has(b, o, WriteInt64(id))
               PROVE  ReadInt64(b, o) = id /\ Words(b, o) = id /\ o + 8 <= Len(b)
    OBVIOUS
  <1> DEFINE w1 == WriteInt(id[1])
             w2 == WriteInt(id[2])
             w3 == WriteInt(id[3])
             w4 == WriteInt(id[4])
  <1>0. id[1] \in Word16 /\ id[2] \in Word16 /\ id[3] \in Word16 /\ id[4] \in Word16
    BY DEF PacketId
  <1>1. id[1] \in Int /\ id[2] \in Int /\ id[3] \in Int /\ id[4] \in Int
    BY <1>0 DEF Word16
  <1>2. /\ w1 \in Seq(Int) /\ w2 \in Seq(Int) /\ w3 \in Seq(Int) /\ w4 \in Seq(Int)
        /\ Len(w1) = 2 /\ Len(w2) = 2 /\ Len(w3) = 2 /\ Len(w4) = 2
    BY <1>1, WriteIntLength
  <1>3. WriteInt64(id) = ((w1 \o w2) \o w3) \o w4
    BY DEF WriteInt64
  <1> HIDE DEF w1, w2, w3, w4
  <1>4. /\ w1 \o w2 \in Seq(Int) /\ Len(w1 \o w2) = 4
        /\ (w1 \o w2) \o w3 \in Seq(Int) /\ Len((w1 \o w2) \o w3) = 6
    <2>1. w1 \o w2 \in Seq(Int) /\ Len(w1 \o w2) = Len(w1) + Len(w2)
      BY <1>2, IntConcat, Zenon
    <2>2. (w1 \o w2) \o w3 \in Seq(Int) /\ Len((w1 \o w2) \o w3) = Len(w1 \o w2) + Len(w3)
      BY <1>2, <2>1, IntConcat, Zenon
    <2> QED
      BY <1>2, <2>1, <2>2
  <1>5. Has(b, o, (w1 \o w2) \o w3) /\ Has(b, o + 6, w4)
    <2>1. Has(b, o, (w1 \o w2) \o w3) /\ Has(b, o + Len((w1 \o w2) \o w3), w4)
      BY <1>2, <1>3, <1>4, HasParts, ZenonT(40)
    <2> QED
      BY <1>4, <2>1, Zenon
  <1>6. Has(b, o, w1 \o w2) /\ Has(b, o + 4, w3)
    <2>1. Has(b, o, w1 \o w2) /\ Has(b, o + Len(w1 \o w2), w3)
      BY <1>2, <1>4, <1>5, HasParts, Zenon
    <2> QED
      BY <1>4, <2>1, Zenon
  <1>7. Has(b, o, w1) /\ Has(b, o + 2, w2)
    <2>1. Has(b, o, w1) /\ Has(b, o + Len(w1), w2)
      BY <1>2, <1>6, HasParts, Zenon
    <2> QED
      BY <1>2, <2>1, Zenon
  <1>8. /\ ReadInt(b, o) = id[1] /\ ReadInt(b, o + 2) = id[2]
        /\ ReadInt(b, o + 4) = id[3] /\ ReadInt(b, o + 6) = id[4]
        /\ Word(b, o) = id[1] /\ Word(b, o + 2) = id[2]
        /\ Word(b, o + 4) = id[3] /\ Word(b, o + 6) = id[4]
        /\ (o + 6) + 2 <= Len(b)
    <2>1. o + 2 \in Nat /\ o + 4 \in Nat /\ o + 6 \in Nat
      OBVIOUS
    <2> QED
      BY <1>0, <1>5, <1>6, <1>7, <2>1, HasInt, ZenonT(30) DEF w1, w2, w3, w4
  <1>9. Words(b, o) = id
    <2>1. id \in [1 .. 4 -> Word16]
      BY DEF PacketId
    <2>2. <<id[1], id[2], id[3], id[4]>> = id
      BY <2>1
    <2> QED
      BY <1>8, <2>2, Zenon DEF Words
  <1>10. ReadInt64(b, o) = id
    <2>1. ReadInt64(b, o) = [w \in 1 .. 4 |-> ReadInt(b, o + 2 * (w - 1))]
      BY DEF ReadInt64
    <2>2. ASSUME NEW w \in 1 .. 4 PROVE ReadInt(b, o + 2 * (w - 1)) = id[w]
      <3>1. CASE w = 1
        BY <1>8, <3>1
      <3>2. CASE w = 2
        BY <1>8, <3>2
      <3>3. CASE w = 3
        BY <1>8, <3>3
      <3>4. CASE w = 4
        BY <1>8, <3>4
      <3> QED
        BY <3>1, <3>2, <3>3, <3>4
    <2>3. id = [w \in 1 .. 4 |-> id[w]]
      BY DEF PacketId
    <2> QED
      BY <2>1, <2>2, <2>3
  <1> QED
    BY <1>8, <1>9, <1>10

\* a string, whatever follows it.
LEMMA HasText ==
  \A b \in Seq(Int) : \A o \in Nat : \A s \in Text :
     Has(b, o, WriteString(s)) =>
       /\ ReadInt(b, o) = Len(s) /\ Word(b, o) = Len(s)
       /\ ReadString(b, o) = s /\ StringAt(b, o) = s
       /\ After(b, o) = o + Len(WriteString(s)) /\ After(b, o) \in Nat
       /\ o + 2 + Len(s) <= Len(b)
  <1> SUFFICES ASSUME NEW b \in Seq(Int), NEW o \in Nat, NEW s \in Text, Has(b, o, WriteString(s))
               PROVE  /\ ReadInt(b, o) = Len(s) /\ Word(b, o) = Len(s)
                      /\ ReadString(b, o) = s /\ StringAt(b, o) = s
                      /\ After(b, o) = o + Len(WriteString(s)) /\ After(b, o) \in Nat
                      /\ o + 2 + Len(s) <= Len(b)
    OBVIOUS
  <1>1. s \in Seq(Int) /\ Len(s) \in Nat /\ Len(s) \in Word16 /\ Len(WriteString(s)) = Len(s) + 2
    BY StringIsInts, WriteStringLength DEF Text, Word16
  <1>2. WriteInt(Len(s)) \in Seq(Int) /\ Len(WriteInt(Len(s))) = 2
    BY <1>1, WriteIntLength
  <1>3. Has(b, o, WriteInt(Len(s))) /\ Has(b, o + 2, s)
    <2>1. Has(b, o, WriteInt(Len(s))) /\ Has(b, o + Len(WriteInt(Len(s))), s)
      BY <1>1, <1>2, HasParts, Zenon DEF WriteString
    <2> QED
      BY <1>2, <2>1, Zenon
  <1>4. ReadInt(b, o) = Len(s) /\ Word(b, o) = Len(s)
    BY <1>1, <1>3, HasInt, Zenon
  <1>5. (o + 2) + Len(s) <= Len(b)
    BY <1>3 DEF Has
  <1>6. SubSeq(b, (o + 2) + 1, (o + 2) + Len(s)) = s
    BY <1>1, <1>3, HasSub
  <1>7. (o + 2) + 1 = o + 3
    OBVIOUS
  <1>8. ReadString(b, o) = s /\ StringAt(b, o) = s
    BY <1>4, <1>6, <1>7, Zenon DEF ReadString, StringAt
  <1>9. After(b, o) = o + Len(WriteString(s)) /\ After(b, o) \in Nat
    BY <1>1, <1>4 DEF After
  <1> QED
    BY <1>4, <1>5, <1>8, <1>9

\* Quotient and remainder.
LEMMA Quotient ==
  ASSUME NEW M \in Nat, M > 0, NEW n \in Nat
  PROVE  /\ n = M * (n \div M) + (n % M)
         /\ n \div M \in Nat /\ n % M \in Nat /\ n % M < M
  BY SMT

\* Dividing by 128 again and again.
LEMMA QuotientAgain ==
  ASSUME NEW M \in Nat, M > 0, NEW n \in Nat
  PROVE  n \div (128 * M) = (n \div M) \div 128
  <1> DEFINE a == n \div M
             x == n % M
             c == a \div 128
             y == a % 128
             r == M * y + x
             K == 128 * M
  <1>1. n = M * a + x /\ a \in Nat /\ x \in Nat /\ x < M
    BY Quotient
  <1>2. a = 128 * c + y /\ c \in Nat /\ y \in Nat /\ y <= 127
    <2> HIDE DEF a
    <2> QED
      BY <1>1, SMT
  <1> HIDE DEF a, x, c, y
  <1>3. M * a = K * c + M * y
    BY <1>1, <1>2, SMT
  <1>4. M * y \in Nat /\ M * y <= 127 * M
    BY <1>2, SMT
  <1>5. r \in Nat /\ r < K /\ K \in Nat /\ K > 0
    BY <1>1, <1>2, <1>4, SMT
  <1>6. K * c \in Nat
    BY <1>2, <1>5, SMT
  <1>7. n = K * c + r
    BY <1>1, <1>2, <1>3, <1>4, <1>5, <1>6, SMT
  <1> HIDE DEF r, K
  <1>8. n \div K = c
    BY <1>2, <1>5, <1>7, SMT
  <1> QED
    BY <1>8 DEF K, c, a

\* The largest remaining length that four digits hold.
MaxLength == 268435455

\* The four digits make up the number, and those beyond its length are 0.
LEMMA DigitSum ==
  ASSUME NEW n \in Nat, n <= MaxLength
  PROVE  /\ n = (n % 128) * 1 + ((n \div 128) % 128) * 128 + ((n \div 16384) % 128) * 16384
                + ((n \div 2097152) % 128) * 2097152
         /\ n < 128 => (n \div 128) % 128 = 0
         /\ n < 16384 => (n \div 16384) % 128 = 0
         /\ n < 2097152 => (n \div 2097152) % 128 = 0
  <1> DEFINE w2 == n \div 128
             w3 == n \div 16384
             w4 == n \div 2097152
             r1 == n % 128
             r2 == w2 % 128
             r3 == w3 % 128
             r4 == w4 % 128
  <1>1. n = 128 * w2 + r1 /\ w2 \in Nat /\ r1 \in Nat /\ r1 < 128
    BY Quotient, SMT
  <1>2. w3 = w2 \div 128
    <2>1. n \div (128 * 128) = (n \div 128) \div 128
      BY QuotientAgain, SMT
    <2>2. 128 * 128 = 16384
      BY SMT
    <2> QED
      BY <2>1, <2>2, SMT
  <1>3. w2 = 128 * w3 + r2 /\ w3 \in Nat /\ r2 \in Nat /\ r2 < 128
    <2> HIDE DEF w2, w3
    <2> QED
      BY <1>1, <1>2, Quotient, SMT
  <1>4. w4 = w3 \div 128
    <2>1. n \div (128 * 16384) = (n \div 16384) \div 128
      BY QuotientAgain, SMT
    <2>2. 128 * 16384 = 2097152
      BY SMT
    <2> QED
      BY <2>1, <2>2, SMT
  <1>5. w3 = 128 * w4 + r3 /\ w4 \in Nat /\ r3 \in Nat /\ r3 < 128
    <2> HIDE DEF w3, w4
    <2> QED
      BY <1>3, <1>4, Quotient, SMT
  <1> HIDE DEF w2, w3, w4, r1, r2, r3
  <1>6. w4 < 128
    BY <1>1, <1>3, <1>5, SMT DEF MaxLength
  <1>7. r4 = w4
    BY <1>5, <1>6, SMT
  <1> HIDE DEF r4
  <1>8. n = r1 * 1 + r2 * 128 + r3 * 16384 + r4 * 2097152
    BY <1>1, <1>3, <1>5, <1>7, SMT
  <1>9. /\ n < 128 => r2 = 0
        /\ n < 16384 => r3 = 0
        /\ n < 2097152 => r4 = 0
    BY <1>1, <1>3, <1>5, <1>7, SMT
  <1> QED
    BY <1>8, <1>9, SMT DEF r1, r2, r3, r4, w2, w3, w4
\* The remaining length as it was encoded.
LEMMA HasLength ==
  \A b \in Seq(Int) : \A n \in Nat :
     n <= MaxLength /\ Has(b, 1, Encode(n)) => DecodeBuf(b, 1) = [value |-> n, next |-> 1 + Digits(n)]
  <1> SUFFICES ASSUME NEW b \in Seq(Int), NEW n \in Nat, n <= MaxLength, Has(b, 1, Encode(n))
               PROVE  DecodeBuf(b, 1) = [value |-> n, next |-> 1 + Digits(n)]
    OBVIOUS
  <1> DEFINE w(i) == n \div Weight[i]
             d == Digits(n)
             Stops(j) == b[1 + j] < 128 /\ \A m \in 1 .. j - 1 : b[1 + m] >= 128
             k == CHOOSE j \in 1 .. 4 : Stops(j)
             v(m) == IF m <= k THEN (b[1 + m] % 128) * Weight[m] ELSE 0
  <1>1. n \in Nat /\ d \in 1 .. 4
    BY DEF Digits
  <1>2. Weight[1] = 1 /\ Weight[2] = 128 /\ Weight[3] = 16384 /\ Weight[4] = 2097152
    BY DEF Weight
  <1>3. /\ w(1) = n /\ w(2) = n \div 128 /\ w(3) = n \div 16384 /\ w(4) = n \div 2097152
        /\ w(1) \in Nat /\ w(2) \in Nat /\ w(3) \in Nat /\ w(4) \in Nat
    BY <1>1, <1>2
  <1>4. ASSUME NEW i \in 1 .. 4 PROVE w(i) \in Nat
    BY <1>3
  <1>5. ASSUME NEW i \in 1 .. d
        PROVE  b[1 + i] = (w(i) % 128) + (IF i < d THEN 128 ELSE 0)
    <2>1. Len(Encode(n)) = d
      BY <1>1, EncodeLength
    <2>2. Encode(n)[i] = (w(i) % 128) + (IF i < d THEN 128 ELSE 0)
      BY DEF Encode
    <2> QED
      BY <2>1, <2>2 DEF Has
  <1>6. ASSUME NEW i \in 1 .. d
        PROVE  /\ b[1 + i] \in Int /\ b[1 + i] % 128 = w(i) % 128
               /\ i < d => b[1 + i] >= 128
               /\ i = d => b[1 + i] < 128
    <2> DEFINE c == b[1 + i]
               x == w(i)
    <2>1. x \in Nat
      BY <1>1, <1>4
    <2>2. c = (x % 128) + (IF i < d THEN 128 ELSE 0)
      BY <1>5
    <2> HIDE DEF c, x, d
    <2>3. CASE i < d
      <3>1. c = (x % 128) + 128
        BY <2>2, <2>3
      <3> QED
        BY <1>1, <2>1, <2>3, <3>1 DEF c, x
    <2>4. CASE ~(i < d)
      <3>1. c = (x % 128) + 0
        BY <2>2, <2>4
      <3> QED
        BY <1>1, <2>1, <2>4, <3>1 DEF c, x
    <2> QED
      BY <2>3, <2>4
  <1>7. k = d
    <2> HIDE DEF d, w
    <2>1. b[1 + d] < 128
      BY <1>1, <1>6
    <2>2. ASSUME NEW m \in 1 .. d - 1 PROVE b[1 + m] >= 128
      <3>1. m \in 1 .. d /\ m < d
        BY <1>1
      <3> QED
        BY <1>6, <3>1
    <2>3. Stops(d)
      BY <2>1, <2>2
    <2>4. ASSUME NEW j \in 1 .. 4, Stops(j) PROVE j = d
      <3>1. ~(j < d)
        <4> SUFFICES ASSUME j < d PROVE FALSE
          OBVIOUS
        <4>1. b[1 + j] \in Int /\ b[1 + j] >= 128
          BY <1>1, <1>6
        <4> QED
          BY <2>4, <4>1
      <3>2. ~(d < j)
        <4> SUFFICES ASSUME d < j PROVE FALSE
          OBVIOUS
        <4>1. b[1 + d] \in Int
          BY <1>1, <1>6
        <4>2. d \in 1 .. j - 1
          BY <1>1
        <4>3. b[1 + d] >= 128
          BY <2>4, <4>2
        <4> QED
          BY <2>1, <4>1, <4>3
      <3> QED
        BY <1>1, <3>1, <3>2
    <2> HIDE DEF Stops
    <2> QED
      BY <1>1, <2>3, <2>4
  <1>8. DecodeBuf(b, 1) = [value |-> v(1) + v(2) + v(3) + v(4), next |-> 1 + k]
    BY DEF DecodeBuf
  <1> HIDE DEF k
  <1>9. v(1) + v(2) + v(3) + v(4) = n
    <2>1. ASSUME NEW m \in 1 .. 4
          PROVE  v(m) = IF m <= d THEN (w(m) % 128) * Weight[m] ELSE 0
      <3>1. CASE m <= d
        <4>1. b[1 + m] % 128 = w(m) % 128
          BY <1>1, <1>6, <3>1
        <4> QED
          BY <1>7, <3>1, <4>1
      <3>2. CASE ~(m <= d)
        BY <1>7, <3>2
      <3> QED
        BY <3>1, <3>2
    <2> DEFINE r1 == n % 128
               r2 == (n \div 128) % 128
               r3 == (n \div 16384) % 128
               r4 == (n \div 2097152) % 128
    <2> HIDE DEF v
    <2>2. /\ v(1) = IF 1 <= d THEN r1 * 1 ELSE 0
          /\ v(2) = IF 2 <= d THEN r2 * 128 ELSE 0
          /\ v(3) = IF 3 <= d THEN r3 * 16384 ELSE 0
          /\ v(4) = IF 4 <= d THEN r4 * 2097152 ELSE 0
      <3> HIDE DEF d, r1, r2, r3, r4
      <3>1. w(1) % 128 = r1 /\ w(2) % 128 = r2 /\ w(3) % 128 = r3 /\ w(4) % 128 = r4
        <4>1. w(1) % 128 = n % 128
          <5> HIDE DEF w
          <5> QED
            BY <1>3, SMTT(30)
        <4>2. w(2) % 128 = (n \div 128) % 128
          BY <1>2, SMT
        <4>3. w(3) % 128 = (n \div 16384) % 128
          BY <1>2, SMT
        <4>4. w(4) % 128 = (n \div 2097152) % 128
          BY <1>2, SMT
        <4> QED
          BY <4>1, <4>2, <4>3, <4>4 DEF r1, r2, r3, r4
      <3> QED
        <4> HIDE DEF w
        <4> QED
          BY <1>2, <2>1, <3>1, SMT
    <2>3. /\ n = r1 * 1 + r2 * 128 + r3 * 16384 + r4 * 2097152
          /\ n < 128 => r2 = 0
          /\ n < 16384 => r3 = 0
          /\ n < 2097152 => r4 = 0
      BY DigitSum, SMT
    <2>4. r1 \in Int /\ r2 \in Int /\ r3 \in Int /\ r4 \in Int
      BY SMT
    <2> HIDE DEF r1, r2, r3, r4
    <2>5. /\ d < 2 => r2 = 0
          /\ d < 3 => r3 = 0
          /\ d < 4 => r4 = 0
      BY <2>3, SMT DEF Digits
    <2>6. v(1) = r1 * 1 /\ v(2) = r2 * 128 /\ v(3) = r3 * 16384 /\ v(4) = r4 * 2097152
      <3> HIDE DEF d
      <3> QED
        BY <1>1, <2>2, <2>4, <2>5, SMT
    <2> QED
      BY <2>3, <2>4, <2>6, SMT
  <1> QED
    BY <1>7, <1>8, <1>9, ZenonT(40)

----------------------------------------------------------------------------
(* What the client sends, as the broker reads it. *)

\* The last part of what stands at the start.
LEMMA HasLast ==
  \A b, x, y \in Seq(Int) : Has(b, 0, x \o y) => Has(b, 0, x) /\ Has(b, Len(x), y)
  <1> SUFFICES ASSUME NEW b \in Seq(Int), NEW x \in Seq(Int), NEW y \in Seq(Int), Has(b, 0, x \o y)
               PROVE  Has(b, 0, x) /\ Has(b, Len(x), y)
    OBVIOUS
  <1>1. Has(b, 0, x) /\ Has(b, 0 + Len(x), y)
    <2>1. 0 \in Nat
      OBVIOUS
    <2> QED
      BY <2>1, HasParts, Zenon
  <1>2. 0 + Len(x) = Len(x)
    BY LenProperties
  <1> QED
    BY <1>1, <1>2, Zenon

\* An option that is there is all there is.
LEMMA OnlyOne ==
  ASSUME NEW S, NEW o \in AtMostOne(S), o # <<>>
  PROVE  o = <<o[1]>> /\ o[1] \in S
  <1>1. o \in Seq(S) /\ Len(o) <= 1
    BY DEF AtMostOne
  <1>2. 1 \in 1 .. Len(o) /\ Len(o) \in Nat
    BY <1>1, EmptySeq, LenProperties
  <1>3. o[1] \in S
    BY <1>1, <1>2, ElementOfSeq
  <1>4. Len(o) = 1
    <2>1. Len(o) <= 1 /\ Len(o) >= 1
      BY <1>1, <1>2
    <2>2. Len(o) \in Int
      BY <1>2
    <2> HIDE DEF AtMostOne
    <2> QED
      BY <2>1, <2>2, SMT
  <1> QED
    BY <1>1, <1>3, <1>4

----------------------------------------------------------------------------
(* What the broker understands. *)

\* An acknowledgement.
LEMMA UnderstandsAck ==
  ASSUME NEW id \in PacketId
  PROVE  Words(WriteInt64(id), 0) = id
  <1>1. WriteInt64(id) \in Seq(Int)
    BY WriteIdLength
  <1>2. Has(WriteInt64(id), 0, WriteInt64(id))
    BY <1>1, HasAll
  <1> QED
    BY <1>1, <1>2, HasId

\* SUBSCRIBE,
LEMMA UnderstandsSubscribe ==
  ASSUME NEW p \in Subscribes
  PROVE  LET r == SubscribeBody(p) IN
         [type |-> SUBSCRIBE, id |-> Words(r, 0), topic |-> StringAt(r, 8), req |-> r[After(r, 8) + 1]] = p
  <1> DEFINE i == WriteInt64(p.id)
             t == WriteString(p.topic)
             q == <<p.req>>
             r == SubscribeBody(p)
  <1>1. p.id \in PacketId /\ p.topic \in Text /\ p.req \in Nat
    BY DEF Subscribes
  <1>2. /\ i \in Seq(Int) /\ t \in Seq(Int) /\ q \in Seq(Int)
        /\ Len(i) = 8 /\ Len(t) \in Nat
    BY <1>1, WriteIdLength, WriteStringLength, IntOne, IntLen
  <1>3. r = i \o t \o q /\ r \in Seq(Int) /\ Len(r) = SubscribeLength(p)
    BY SubscribeHasLength DEF SubscribeBody
  <1> HIDE DEF i, t, q, r
  <1>4. i \o t \in Seq(Int) /\ Len(i \o t) = 8 + Len(t)
    <2>1. i \o t \in Seq(Int) /\ Len(i \o t) = Len(i) + Len(t)
      BY <1>2, IntConcat, Zenon
    <2> QED
      BY <1>2, <2>1
  <1>5. Has(r, 0, i \o t) /\ Has(r, 8 + Len(t), q)
    <2>1. Has(r, 0, (i \o t) \o q)
      BY <1>3, HasAll, Zenon
    <2>2. Has(r, 0, i \o t) /\ Has(r, Len(i \o t), q)
      BY <1>2, <1>3, <1>4, <2>1, HasLast, Zenon
    <2> QED
      BY <1>4, <2>2, Zenon
  <1>6. Has(r, 0, i) /\ Has(r, 8, t)
    BY <1>2, <1>3, <1>5, HasLast, Zenon
  <1>7. Words(r, 0) = p.id
    <2>1. 0 \in Nat
      OBVIOUS
    <2> QED
      BY <1>1, <1>3, <1>6, <2>1, HasId, Zenon DEF i
  <1>8. StringAt(r, 8) = p.topic /\ After(r, 8) = 8 + Len(t) /\ After(r, 8) \in Nat
    <2>1. 8 \in Nat
      OBVIOUS
    <2> QED
      BY <1>1, <1>3, <1>6, <2>1, HasText, Zenon DEF t
  <1>9. r[After(r, 8) + 1] = p.req
    <2>1. Has(r, After(r, 8), <<p.req>>)
      BY <1>5, <1>8, Zenon DEF q
    <2> QED
      BY <1>1, <1>3, <1>8, <2>1, HasByte, Zenon
  <1>10. p = [type |-> SUBSCRIBE, id |-> p.id, topic |-> p.topic, req |-> p.req]
    BY DEF Subscribes
  <1> QED
    BY <1>7, <1>8, <1>9, <1>10, Zenon DEF r

\* UNSUBSCRIBE,
LEMMA UnderstandsUnsubscribe ==
  ASSUME NEW p \in Unsubscribes
  PROVE  LET r == UnsubscribeBody(p) IN
         [type |-> UNSUBSCRIBE, id |-> Words(r, 0), topic |-> StringAt(r, 8)] = p
  <1> DEFINE i == WriteInt64(p.id)
             t == WriteString(p.topic)
             r == UnsubscribeBody(p)
  <1>1. p.id \in PacketId /\ p.topic \in Text
    BY DEF Unsubscribes
  <1>2. i \in Seq(Int) /\ t \in Seq(Int) /\ Len(i) = 8
    BY <1>1, WriteIdLength, WriteStringLength
  <1>3. r = i \o t /\ r \in Seq(Int)
    BY UnsubscribeHasLength DEF UnsubscribeBody
  <1> HIDE DEF i, t, r
  <1>4. Has(r, 0, i) /\ Has(r, 8, t)
    BY <1>2, <1>3, HasAll, HasLast, ZenonT(40)
  <1>5. 0 \in Nat /\ 8 \in Nat
    OBVIOUS
  <1>6. Words(r, 0) = p.id
    BY <1>1, <1>3, <1>4, <1>5, HasId, Zenon DEF i
  <1>7. StringAt(r, 8) = p.topic
    BY <1>1, <1>3, <1>4, <1>5, HasText, Zenon DEF t
  <1>8. p = [type |-> UNSUBSCRIBE, id |-> p.id, topic |-> p.topic]
    BY DEF Unsubscribes
  <1> QED
    BY <1>6, <1>7, <1>8, Zenon DEF r

\* PUBLISH, with the QoS of the header,
LEMMA UnderstandsPublish ==
  ASSUME NEW p \in Publishes
  PROVE  ReadsPublish(PublishBody(p), p.qos, p.retained) = p
  <1> DEFINE d == p.payload
             t == WriteString(p.topic)
             i == IF p.qos > 0 THEN WriteInt64(p.id) ELSE <<>>
             r == PublishBody(p)
             n == IF p.qos > 0 THEN 8 ELSE 0
  <1>1. /\ p.topic \in Text /\ d \in Text /\ p.qos \in Int
        /\ p.qos > 0 => p.id \in PacketId
        /\ ~(p.qos > 0) => p.id = <<>>
    BY DEF Publishes
  <1>2. t \in Seq(Int) /\ Len(t) \in Nat /\ d \in Seq(Int) /\ Len(d) \in Nat
    BY <1>1, WriteStringLength, StringIsInts, IntLen
  <1>3. i \in Seq(Int) /\ Len(i) = n
    <2>1. CASE p.qos > 0
      BY <1>1, <2>1, WriteIdLength, Zenon
    <2>2. CASE ~(p.qos > 0)
      <3>1. i = <<>> /\ n = 0
        BY <2>2, Zenon
      <3> QED
        BY <3>1, IntEmpty, Zenon
    <2> QED
      BY <2>1, <2>2
  <1>4. r = t \o i \o d /\ r \in Seq(Int)
    BY PublishHasLength DEF PublishBody
  <1>5. n \in Nat /\ (p.qos > 0 => n = 8)
    OBVIOUS
  <1>6. p = [type |-> PUBLISH, qos |-> p.qos, retained |-> p.retained, topic |-> p.topic,
             id |-> p.id, payload |-> d]
    BY DEF Publishes
  <1> HIDE DEF d, t, i, r, n
  <1>7. t \o i \in Seq(Int) /\ Len(t \o i) = Len(t) + n
    BY <1>2, <1>3, IntConcat, Zenon
  <1>8. Has(r, 0, t \o i) /\ Has(r, Len(t) + n, d) /\ Len(r) = (Len(t) + n) + Len(d)
    <2>1. Has(r, 0, t \o i) /\ Has(r, Len(t) + n, d)
      <3>1. Has(r, 0, (t \o i) \o d)
        BY <1>4, HasAll, Zenon
      <3>2. Has(r, 0, t \o i) /\ Has(r, Len(t \o i), d)
        BY <1>2, <1>4, <1>7, <3>1, HasLast, Zenon
      <3> QED
        BY <1>7, <3>2, Zenon
    <2>2. Len((t \o i) \o d) = Len(t \o i) + Len(d)
      BY <1>2, <1>7, IntConcat, Zenon
    <2> QED
      BY <1>4, <1>7, <2>1, <2>2, Zenon
  <1>9. Has(r, 0, t) /\ Has(r, Len(t), i)
    BY <1>2, <1>3, <1>4, <1>8, HasLast, Zenon
  <1>10. StringAt(r, 0) = p.topic /\ After(r, 0) = Len(t)
    <2>1. 0 \in Nat /\ 0 + Len(t) = Len(t)
      BY <1>2
    <2> QED
      BY <1>1, <1>4, <1>9, <2>1, HasText, Zenon DEF t
  <1>11. (IF p.qos > 0 THEN Words(r, After(r, 0)) ELSE <<>>) = p.id
    <2>1. CASE p.qos > 0
      <3>1. Has(r, Len(t), WriteInt64(p.id))
        BY <1>9, <2>1, Zenon DEF i
      <3>2. Words(r, Len(t)) = p.id
        BY <1>1, <1>2, <1>4, <2>1, <3>1, HasId, Zenon
      <3> QED
        BY <1>10, <2>1, <3>2, Zenon
    <2>2. CASE ~(p.qos > 0)
      BY <1>1, <2>2, Zenon
    <2> QED
      BY <2>1, <2>2
  <1>12. SubSeq(r, (After(r, 0) + n) + 1, Len(r)) = d
    <2>1. Len(t) + n \in Nat
      BY <1>2, <1>5
    <2>2. SubSeq(r, (Len(t) + n) + 1, (Len(t) + n) + Len(d)) = d
      BY <1>2, <1>4, <1>8, <2>1, HasSub, Zenon
    <2> QED
      BY <1>8, <1>10, <2>2, Zenon
  <1> QED
    BY <1>6, <1>10, <1>11, <1>12, Zenon DEF ReadsPublish, r, n, d

\* A tagged part has its tag, then its text.
LEMMA HasTlv ==
  \A b \in Seq(Int) : \A o, k \in Nat : \A s \in Text :
     Has(b, o, Tlv(k, s)) =>
       /\ b[o + 1] = k /\ StringAt(b, o + 1) = s
       /\ After(b, o + 1) = o + Len(Tlv(k, s)) /\ After(b, o + 1) \in Nat
       /\ o + Len(Tlv(k, s)) <= Len(b)
  <1> SUFFICES ASSUME NEW b \in Seq(Int), NEW o \in Nat, NEW k \in Nat, NEW s \in Text, Has(b, o, Tlv(k, s))
               PROVE  /\ b[o + 1] = k /\ StringAt(b, o + 1) = s
                      /\ After(b, o + 1) = o + Len(Tlv(k, s)) /\ After(b, o + 1) \in Nat
                      /\ o + Len(Tlv(k, s)) <= Len(b)
    OBVIOUS
  <1> DEFINE t == WriteString(s)
             g == <<k>>
  <1>1. g \in Seq(Int) /\ Len(g) = 1 /\ t \in Seq(Int) /\ Len(t) \in Nat
    BY WriteStringLength, IntOne, IntLen
  <1>2. Tlv(k, s) = g \o t
    BY DEF Tlv
  <1> HIDE DEF t, g
  <1>3. Len(Tlv(k, s)) = 1 + Len(t)
    <2>1. Len(g \o t) = Len(g) + Len(t)
      BY <1>1, IntConcat, Zenon
    <2> QED
      BY <1>1, <1>2, <2>1
  <1>4. Has(b, o, g) /\ Has(b, o + 1, t)
    BY <1>1, <1>2, HasParts, ZenonT(40)
  <1>5. b[o + 1] = k
    BY <1>4, HasByte, Zenon DEF g
  <1>6. StringAt(b, o + 1) = s /\ After(b, o + 1) = (o + 1) + Len(t) /\ After(b, o + 1) \in Nat
    <2>1. o + 1 \in Nat
      OBVIOUS
    <2> QED
      BY <1>4, <2>1, HasText, Zenon DEF t
  <1>7. o + Len(Tlv(k, s)) <= Len(b)
    BY DEF Has
  <1> QED
    BY <1>1, <1>3, <1>5, <1>6, <1>7

\* and the extended command of MQTTPublish2.
LEMMA UnderstandsExtended ==
  ASSUME NEW p \in Publish2s, ExtendedLength(p) \in Word16
  PROVE  ReadsExtended(ExtendedBody(p)) = p
  <1> DEFINE i == WriteInt64(p.id)
             c == <<PUBLISH2>>
             m == Publish2(p)
             n == WriteInt(Len(m))
             d == Tlv(1, p.payload)
             t == Tlv(0, p.topic)
             o == IF p.opt = <<>> THEN <<>> ELSE Tlv(p.opt[1].key, p.opt[1].val)
             r == ExtendedBody(p)
             Part == [key : 0 .. 7, val : Text]
  <1>1. p.id \in PacketId /\ p.topic \in Text /\ p.payload \in Text /\ p.opt \in AtMostOne(Part)
    BY DEF Publish2s
  <1>2. p.opt # <<>> =>
          /\ p.opt = <<p.opt[1]>> /\ p.opt[1].key \in Nat /\ p.opt[1].val \in Text
          /\ p.opt[1] = [key |-> p.opt[1].key, val |-> p.opt[1].val]
    <2>1. p.opt # <<>> => p.opt = <<p.opt[1]>> /\ p.opt[1] \in Part
      BY <1>1, OnlyOne, Zenon
    <2> QED
      BY <2>1
  <1>3. d \in Seq(Int) /\ t \in Seq(Int) /\ o \in Seq(Int)
    <2>1. p.opt # <<>> => p.opt[1].key \in Int
      BY <1>2
    <2>2. 1 \in Int /\ 0 \in Int
      OBVIOUS
    <2> QED
      BY <1>1, <1>2, <2>1, <2>2, TlvIsInts, IntEmpty, Zenon
  <1>4. m = (d \o t) \o o /\ m \in Seq(Int) /\ Len(m) \in Nat
    BY Publish2IsInts, IntLen DEF Publish2
  <1>5. /\ i \in Seq(Int) /\ c \in Seq(Int) /\ n \in Seq(Int)
        /\ Len(i) = 8 /\ Len(c) = 1 /\ Len(n) = 2
    <2>1. PUBLISH2 \in Int /\ Len(m) \in Int
      BY <1>4 DEF PUBLISH2
    <2> QED
      BY <1>1, <2>1, WriteIdLength, WriteIntLength, IntOne, Zenon
  <1>6. r = ((i \o c) \o n) \o m /\ r \in Seq(Int) /\ Len(r) = 11 + Len(m)
    <2>1. Len(r) = 1 + Len(m) + 2 + 8
      BY ExtendedHasLength, Zenon DEF ExtendedLength
    <2>2. r = ((i \o c) \o n) \o m
      BY Zenon DEF ExtendedBody
    <2>3. r \in Seq(Int)
      BY ExtendedHasLength, Zenon
    <2> HIDE DEF r, i, c, n, m
    <2>4. Len(r) = 11 + Len(m)
      <3>1. Len(m) \in Nat
        BY <1>4
      <3> QED
        BY <2>1, <3>1, SMT
    <2> QED
      BY <2>2, <2>3, <2>4
  <1>e. 1 + Len(m) + 2 + 8 \in Word16
    BY Zenon DEF ExtendedLength
  <1>7. p = [type |-> EXTCMD, id |-> p.id, payload |-> p.payload, topic |-> p.topic, opt |-> p.opt]
    BY DEF Publish2s
  <1>8. c = <<7>>
    BY DEF PUBLISH2
  <1> HIDE DEF i, c, m, n, d, t, o, r
  <1>r. r \in Seq(Int)
    BY <1>6
  <1>t. p.topic \in Text /\ p.payload \in Text
    BY <1>1
  <1>9. /\ i \o c \in Seq(Int) /\ Len(i \o c) = 9
        /\ (i \o c) \o n \in Seq(Int) /\ Len((i \o c) \o n) = 11
    <2>1. i \o c \in Seq(Int) /\ Len(i \o c) = Len(i) + Len(c)
      BY <1>5, IntConcat, Zenon
    <2>2. (i \o c) \o n \in Seq(Int) /\ Len((i \o c) \o n) = Len(i \o c) + Len(n)
      BY <1>5, <2>1, IntConcat, Zenon
    <2> QED
      BY <1>5, <2>1, <2>2
  <1>10. Has(r, 0, (i \o c) \o n) /\ Has(r, 11, m)
    <2>1. Has(r, 0, ((i \o c) \o n) \o m)
      BY <1>6, HasAll, Zenon
    <2>2. Has(r, 0, (i \o c) \o n) /\ Has(r, Len((i \o c) \o n), m)
      BY <1>r, <1>4, <1>9, <2>1, HasLast, Zenon
    <2> QED
      BY <1>9, <2>2, Zenon
  <1>11. Has(r, 0, i \o c) /\ Has(r, 9, n)
    BY <1>5, <1>6, <1>9, <1>10, HasLast, Zenon
  <1>12. Has(r, 0, i) /\ Has(r, 8, c)
    BY <1>5, <1>6, <1>11, HasLast, Zenon
  <1>13. Words(r, 0) = p.id
    <2>1. 0 \in Nat
      OBVIOUS
    <2> QED
      BY <1>1, <1>6, <1>12, <2>1, HasId, Zenon DEF i
  <1>14. r[9] = 7
    <2>1. r[8 + 1] = 7
      <3>1. 8 \in Nat /\ 7 \in Nat
        OBVIOUS
      <3>2. Has(r, 8, <<7>>)
        BY <1>8, <1>12, Zenon
      <3> QED
        BY <1>r, <3>1, <3>2, HasByte, SMT
    <2> QED
      BY <2>1
  <1>b. Len(m) \in Word16
    BY <1>4, <1>e, SMT DEF Word16
  <1>15. Word(r, 9) = Len(m)
    <2>1. 9 \in Nat
      OBVIOUS
    <2> QED
      BY <1>4, <1>r, <1>b, <1>11, <2>1, HasInt, Zenon DEF n
  <1> DEFINE x == 11 + Len(d)
             y == x + Len(t)
  <1>16. /\ Has(r, 11, d) /\ Has(r, x, t) /\ Has(r, y, o)
         /\ x \in Nat /\ y \in Nat /\ Len(r) = y + Len(o) /\ Len(o) \in Nat
    <2>1. d \o t \in Seq(Int) /\ Len(d \o t) = Len(d) + Len(t)
      BY <1>3, IntConcat, Zenon
    <2>2. Len(m) = Len(d \o t) + Len(o)
      BY <1>3, <1>4, <2>1, IntConcat, Zenon
    <2>3. 11 \in Nat /\ Len(d) \in Nat /\ Len(t) \in Nat /\ Len(o) \in Nat
      BY <1>3, IntLen
    <2>4. Has(r, 11, d \o t) /\ Has(r, 11 + Len(d \o t), o)
      BY <1>3, <1>4, <1>6, <1>10, <2>1, <2>3, HasParts, Zenon
    <2>5. Has(r, 11, d) /\ Has(r, x, t)
      BY <1>3, <1>6, <2>3, <2>4, HasParts, Zenon
    <2>6. 11 + Len(d \o t) = y
      BY <2>1, <2>3
    <2>7. Has(r, y, o)
      BY <2>4, <2>6, Zenon
    <2>8. x \in Nat /\ y \in Nat /\ Len(r) = y + Len(o) /\ Len(o) \in Nat
      BY <1>6, <2>1, <2>2, <2>3
    <2> QED
      BY <2>5, <2>7, <2>8
  <1> HIDE DEF x, y
  <1>17. r[12] = 1 /\ StringAt(r, 12) = p.payload /\ After(r, 12) = x
    <2> DEFINE z == 11
    <2>1. z \in Nat /\ 1 \in Nat /\ z + 1 = 12 /\ Has(r, z, Tlv(1, p.payload))
      BY <1>16 DEF d
    <2>2. x = z + Len(Tlv(1, p.payload))
      BY DEF x, d
    <2> HIDE DEF z
    <2>3. r[z + 1] = 1 /\ StringAt(r, z + 1) = p.payload /\ After(r, z + 1) = z + Len(Tlv(1, p.payload))
      BY <1>r, <1>t, <2>1, HasTlv, Zenon
    <2> QED
      BY <2>1, <2>2, <2>3, Zenon
  <1>18. r[x + 1] = 0 /\ StringAt(r, x + 1) = p.topic /\ After(r, x + 1) = y
    <2>1. 0 \in Nat /\ Has(r, x, Tlv(0, p.topic))
      BY <1>16 DEF t
    <2> QED
      BY <1>r, <1>t, <1>16, <2>1, HasTlv, Zenon DEF y, t
  <1>19. (IF y = Len(r) THEN <<>> ELSE <<[key |-> r[y + 1], val |-> StringAt(r, y + 1)]>>) = p.opt
    <2>1. CASE p.opt = <<>>
      <3>1. Len(o) = 0
        BY <2>1, IntEmpty, Zenon DEF o
      <3>2. y = Len(r)
        BY <1>16, <3>1
      <3> QED
        BY <2>1, <3>2, Zenon
    <2>2. CASE p.opt # <<>>
      <3>1. Has(r, y, Tlv(p.opt[1].key, p.opt[1].val))
        BY <1>16, <2>2, Zenon DEF o
      <3>2. /\ r[y + 1] = p.opt[1].key /\ StringAt(r, y + 1) = p.opt[1].val
            /\ After(r, y + 1) = y + Len(Tlv(p.opt[1].key, p.opt[1].val))
        <4> DEFINE k == p.opt[1].key
                   v == p.opt[1].val
        <4>1. k \in Nat /\ v \in Text /\ y \in Nat /\ Has(r, y, Tlv(k, v))
          BY <1>2, <1>16, <2>2, <3>1
        <4> HIDE DEF k, v
        <4>2. r[y + 1] = k /\ StringAt(r, y + 1) = v /\ After(r, y + 1) = y + Len(Tlv(k, v))
          BY <1>r, <4>1, HasTlv, Zenon
        <4> QED
          BY <4>2, Zenon DEF k, v
      <3>3. y # Len(r)
        <4>1. Len(o) # 0
          <5>1. o = <<p.opt[1].key>> \o WriteString(p.opt[1].val)
            BY <2>2, Zenon DEF o, Tlv
          <5>2. <<p.opt[1].key>> \in Seq(Int) /\ Len(<<p.opt[1].key>>) = 1
            BY <1>2, <2>2, IntOne
          <5>3. WriteString(p.opt[1].val) \in Seq(Int) /\ Len(WriteString(p.opt[1].val)) \in Nat
            BY <1>2, <2>2, WriteStringLength, IntLen
          <5>4. Len(o) = Len(<<p.opt[1].key>>) + Len(WriteString(p.opt[1].val))
            BY <5>1, <5>2, <5>3, IntConcat, Zenon
          <5> QED
            BY <5>2, <5>3, <5>4
        <4> QED
          BY <1>16, <4>1
      <3> QED
        BY <1>2, <2>2, <3>2, <3>3, Zenon
    <2> QED
      BY <2>1, <2>2
  <1>20. Word(r, 9) = Len(r) - 11
    BY <1>4, <1>6, <1>15
  <1>21. ReadsExtended(r) =
          [type |-> EXTCMD, id |-> Words(r, 0), payload |-> StringAt(r, 12), topic |-> StringAt(r, x + 1),
           opt |-> IF y = Len(r) THEN <<>> ELSE <<[key |-> r[y + 1], val |-> StringAt(r, y + 1)]>>]
    BY <1>14, <1>17, <1>18, <1>20, Zenon DEF ReadsExtended
  <1> QED
    BY <1>7, <1>13, <1>17, <1>18, <1>19, <1>21, Zenon DEF r

\* Every flag is read back,
LEMMA FlagBits ==
  ASSUME NEW c \in 0 .. 1, NEW w \in 0 .. 1, NEW q \in 0 .. 3, NEW t \in 0 .. 1, NEW s \in 0 .. 1, NEW u \in 0 .. 1,
         NEW f \in Int, f = 2 * c + 4 * w + 8 * q + 32 * t + 64 * s + 128 * u
  PROVE  /\ (f \div 2) % 2 = c /\ (f \div 4) % 2 = w /\ (f \div 8) % 4 = q
         /\ (f \div 32) % 2 = t /\ (f \div 64) % 2 = s /\ (f \div 128) % 2 = u
  BY SMTT(60)

\* whatever is there.
LEMMA FlagsTell ==
  ASSUME NEW p \in Connects
  PROVE  /\ ConnectFlags(p) \in Nat
         /\ (ConnectFlags(p) \div 2) % 2 = p.clean
         /\ (ConnectFlags(p) \div 4) % 2 = Bit(p.will)
         /\ (ConnectFlags(p) \div 64) % 2 = Bit(p.password)
         /\ (ConnectFlags(p) \div 128) % 2 = Bit(p.username)
         /\ p.will # <<>> => /\ (ConnectFlags(p) \div 8) % 4 = p.will[1].qos
                             /\ (ConnectFlags(p) \div 32) % 2 = p.will[1].retained
  <1> DEFINE f == ConnectFlags(p)
             c == p.clean
             w == Bit(p.will)
             s == Bit(p.password)
             u == Bit(p.username)
             q == IF p.will = <<>> THEN 0 ELSE p.will[1].qos
             t == IF p.will = <<>> THEN 0 ELSE p.will[1].retained
             x == IF p.will = <<>> THEN 0 ELSE 8 * p.will[1].qos + 32 * p.will[1].retained
  <1>1. c \in 0 .. 1 /\ p.will \in AtMostOne([topic : Text, message : Text, qos : 0 .. 2, retained : Flag])
    BY DEF Connects, Flag
  <1>2. p.will # <<>> => p.will[1].qos \in 0 .. 2 /\ p.will[1].retained \in 0 .. 1
    <2>1. p.will # <<>> => p.will[1] \in [topic : Text, message : Text, qos : 0 .. 2, retained : Flag]
      BY <1>1, OnlyElement, Zenon
    <2> QED
      BY <2>1 DEF Flag
  <1>3. w \in 0 .. 1 /\ s \in 0 .. 1 /\ u \in 0 .. 1
    BY DEF Bit
  <1>4. q \in 0 .. 3 /\ t \in 0 .. 1 /\ x = 8 * q + 32 * t
    <2>1. CASE p.will = <<>>
      <3>1. q = 0 /\ t = 0 /\ x = 0
        BY <2>1, Zenon
      <3> QED
        BY <3>1, SMT
    <2>2. CASE p.will # <<>>
      <3>1. q = p.will[1].qos /\ t = p.will[1].retained /\ x = 8 * p.will[1].qos + 32 * p.will[1].retained
        BY <2>2, Zenon
      <3> HIDE DEF q, t, x
      <3> QED
        BY <1>2, <2>2, <3>1
    <2> QED
      BY <2>1, <2>2
  <1>5. f = 2 * c + 4 * w + 64 * s + 128 * u + x
    BY DEF ConnectFlags
  <1>6. p.will # <<>> => q = p.will[1].qos /\ t = p.will[1].retained
    BY Zenon
  <1> HIDE DEF f, c, w, s, u, q, t, x
  <1>7. f = 2 * c + 4 * w + 8 * q + 32 * t + 64 * s + 128 * u /\ f \in Nat
    BY <1>1, <1>3, <1>4, <1>5
  <1>8. /\ (f \div 2) % 2 = c /\ (f \div 4) % 2 = w /\ (f \div 8) % 4 = q
        /\ (f \div 32) % 2 = t /\ (f \div 64) % 2 = s /\ (f \div 128) % 2 = u
    BY <1>1, <1>3, <1>4, <1>7, FlagBits, SMTT(30)
  <1> QED
    BY <1>6, <1>7, <1>8, ZenonT(30) DEF f, c, w, s, u

\* An option is read where it stands,
LEMMA HasOption ==
  \A b \in Seq(Int) : \A i \in Nat : \A o \in AtMostOne(Text) :
     Has(b, i, Option(o)) =>
       /\ (IF Bit(o) = 0 THEN <<>> ELSE <<StringAt(b, i)>>) = o
       /\ (IF Bit(o) = 0 THEN i ELSE After(b, i)) = i + Len(Option(o))
  <1> SUFFICES ASSUME NEW b \in Seq(Int), NEW i \in Nat, NEW o \in AtMostOne(Text), Has(b, i, Option(o))
               PROVE  /\ (IF Bit(o) = 0 THEN <<>> ELSE <<StringAt(b, i)>>) = o
                      /\ (IF Bit(o) = 0 THEN i ELSE After(b, i)) = i + Len(Option(o))
    OBVIOUS
  <1>1. CASE o = <<>>
    <2>1. Bit(o) = 0 /\ Len(Option(o)) = 0
      BY <1>1, IntEmpty, Zenon DEF Bit, Option
    <2>2. i = i + Len(Option(o))
      BY <2>1
    <2> QED
      BY <1>1, <2>1, <2>2, Zenon
  <1>2. CASE o # <<>>
    <2>1. o = <<o[1]>> /\ o[1] \in Text
      BY <1>2, OnlyOne, Zenon
    <2>2. Bit(o) = 1 /\ Option(o) = WriteString(o[1])
      BY <1>2, Zenon DEF Bit, Option
    <2>3. StringAt(b, i) = o[1] /\ After(b, i) = i + Len(Option(o))
      BY <2>1, <2>2, HasText, ZenonT(40)
    <2>4. Bit(o) # 0
      BY <2>2
    <2> QED
      BY <2>1, <2>3, <2>4, Zenon
  <1> QED
    BY <1>1, <1>2

\* and so is the will.
LEMMA HasWill ==
  \A b \in Seq(Int) : \A i \in Nat :
    \A o \in AtMostOne([topic : Text, message : Text, qos : 0 .. 2, retained : Flag]) :
     Has(b, i, Will(o)) =>
       /\ o # <<>> => StringAt(b, i) = o[1].topic /\ StringAt(b, After(b, i)) = o[1].message
       /\ (IF Bit(o) = 0 THEN i ELSE After(b, After(b, i))) = i + Len(Will(o))
  <1> DEFINE Wills == [topic : Text, message : Text, qos : 0 .. 2, retained : Flag]
  <1> SUFFICES ASSUME NEW b \in Seq(Int), NEW i \in Nat, NEW o \in AtMostOne(Wills), Has(b, i, Will(o))
               PROVE  /\ o # <<>> => StringAt(b, i) = o[1].topic /\ StringAt(b, After(b, i)) = o[1].message
                      /\ (IF Bit(o) = 0 THEN i ELSE After(b, After(b, i))) = i + Len(Will(o))
    OBVIOUS
  <1>1. CASE o = <<>>
    <2>1. Bit(o) = 0 /\ Len(Will(o)) = 0
      BY <1>1, IntEmpty, Zenon DEF Bit, Will
    <2>2. i = i + Len(Will(o))
      BY <2>1
    <2> QED
      BY <1>1, <2>1, <2>2, Zenon
  <1>2. CASE o # <<>>
    <2> DEFINE t == WriteString(o[1].topic)
               m == WriteString(o[1].message)
    <2>1. o[1].topic \in Text /\ o[1].message \in Text
      <3>1. o[1] \in Wills
        BY <1>2, OnlyOne, Zenon
      <3> QED
        BY <3>1
    <2>2. Bit(o) = 1 /\ Will(o) = t \o m
      BY <1>2, Zenon DEF Bit, Will
    <2>3. t \in Seq(Int) /\ Len(t) \in Nat /\ m \in Seq(Int) /\ Len(m) \in Nat
      BY <2>1, WriteStringLength, IntLen
    <2>4. Len(Will(o)) = Len(t) + Len(m)
      BY <2>2, <2>3, IntConcat, Zenon
    <2>5. Has(b, i, t) /\ Has(b, i + Len(t), m)
      BY <2>2, <2>3, HasParts, ZenonT(40)
    <2>6. StringAt(b, i) = o[1].topic /\ After(b, i) = i + Len(t)
      BY <2>1, <2>5, HasText, Zenon
    <2>7. StringAt(b, i + Len(t)) = o[1].message /\ After(b, i + Len(t)) = (i + Len(t)) + Len(m)
      <3>1. i + Len(t) \in Nat
        BY <2>3
      <3> QED
        BY <2>1, <2>5, <3>1, HasText, Zenon
    <2>8. After(b, After(b, i)) = i + Len(Will(o))
      <3>1. (i + Len(t)) + Len(m) = i + (Len(t) + Len(m))
        BY <2>3
      <3> QED
        BY <2>4, <2>6, <2>7, <3>1, Zenon
    <2>9. Bit(o) # 0
      BY <2>2
    <2> QED
      BY <2>6, <2>7, <2>8, <2>9, Zenon
  <1> QED
    BY <1>1, <1>2

\* CONNECT: protocol, flags, keepalive, then whatever the flags announce.
LEMMA UnderstandsConnect ==
  ASSUME NEW p \in Connects
  PROVE  ReadsConnect(ConnectBody(p)) = p
  <1> DEFINE Wills == [topic : Text, message : Text, qos : 0 .. 2, retained : Flag]
             name == IF p.version = 4 THEN <<77, 81, 84, 84>> ELSE <<77, 81, 73, 115, 100, 112>>
             m == WriteString(name)
             v == <<p.version>>
             f == <<ConnectFlags(p)>>
             k == WriteInt(p.keepAlive)
             c == WriteString(p.clientID)
             w == Will(p.will)
             u == Option(p.username)
             s == Option(p.password)
             r == ConnectBody(p)
             n == Len(name)
  <1>1. /\ p.clientID \in Text /\ p.username \in AtMostOne(Text) /\ p.password \in AtMostOne(Text)
        /\ p.keepAlive \in Word16 /\ p.version \in Nat
    BY DEF Connects
  <1>2. p.will \in AtMostOne(Wills)
    BY DEF Connects
  <1>3. p = [type |-> CONNECT, version |-> p.version, clean |-> p.clean, keepAlive |-> p.keepAlive,
             clientID |-> p.clientID, will |-> p.will, username |-> p.username, password |-> p.password]
    BY DEF Connects
  <1>4. r = (((((((m \o v) \o f) \o k) \o c) \o w) \o u) \o s)
    BY Zenon DEF ConnectBody, Protocol
  <1>5. r \in Seq(Int)
    BY ConnectHasLength, Zenon
  <1>6. name \in Text
    <2>1. <<77, 81, 84, 84>> \in Text
      BY DEF Text, Byte
    <2>2. <<77, 81, 73, 115, 100, 112>> \in Text
      BY DEF Text, Byte
    <2> QED
      BY <2>1, <2>2
  <1>7. ConnectFlags(p) \in Nat
    BY FlagsTell
  <1>8. p.will # <<>> =>
          p.will = <<[topic |-> p.will[1].topic, message |-> p.will[1].message,
                      qos |-> p.will[1].qos, retained |-> p.will[1].retained]>>
    <2> SUFFICES ASSUME p.will # <<>>
                 PROVE  p.will = <<[topic |-> p.will[1].topic, message |-> p.will[1].message,
                                    qos |-> p.will[1].qos, retained |-> p.will[1].retained]>>
      OBVIOUS
    <2>1. p.will = <<p.will[1]>> /\ p.will[1] \in Wills
      BY <1>2, OnlyOne, Zenon
    <2>2. p.will[1] = [topic |-> p.will[1].topic, message |-> p.will[1].message,
                       qos |-> p.will[1].qos, retained |-> p.will[1].retained]
      BY <2>1
    <2> QED
      BY <2>1, <2>2, Zenon
  <1>9. n \in Nat /\ m \in Seq(Int) /\ Len(m) = n + 2
    <2> HIDE DEF name
    <2> QED
      BY <1>6, StringIsInts, WriteStringLength
  <1>10. v \in Seq(Int) /\ Len(v) = 1 /\ f \in Seq(Int) /\ Len(f) = 1
    BY <1>1, <1>7, IntOne
  <1>11. k \in Seq(Int) /\ Len(k) = 2
    BY <1>1, WriteIntLength DEF Word16
  <1>12. c \in Seq(Int) /\ Len(c) \in Nat
    BY <1>1, WriteStringLength, IntLen
  <1>13. w \in Seq(Int) /\ Len(w) \in Nat
    BY <1>2, WillHasLength, Zenon
  <1>14. u \in Seq(Int) /\ Len(u) \in Nat /\ s \in Seq(Int) /\ Len(s) \in Nat
    BY <1>1, OptionHasLength, IntLen, Zenon
  <1> HIDE DEF Wills, name, m, v, f, k, c, w, u, s, r, n
  <1> DEFINE a1 == m \o v
             a2 == a1 \o f
             a3 == a2 \o k
             a4 == a3 \o c
             a5 == a4 \o w
             a6 == a5 \o u
  <1>15. a1 \in Seq(Int) /\ Len(a1) = n + 3
    <2>1. a1 \in Seq(Int) /\ Len(a1) = Len(m) + Len(v)
      BY <1>9, <1>10, IntConcat, Zenon
    <2> QED
      BY <1>9, <1>10, <2>1
  <1> HIDE DEF a1
  <1>16. a2 \in Seq(Int) /\ Len(a2) = n + 4
    <2>1. a2 \in Seq(Int) /\ Len(a2) = Len(a1) + Len(f)
      BY <1>10, <1>15, IntConcat, Zenon
    <2> QED
      BY <1>9, <1>10, <1>15, <2>1
  <1> HIDE DEF a2
  <1>17. a3 \in Seq(Int) /\ Len(a3) = n + 6
    <2>1. a3 \in Seq(Int) /\ Len(a3) = Len(a2) + Len(k)
      BY <1>11, <1>16, IntConcat, Zenon
    <2> QED
      BY <1>9, <1>11, <1>16, <2>1
  <1> HIDE DEF a3
  <1> DEFINE x == (n + 6) + Len(c)
             y == x + Len(w)
             z == y + Len(u)
  <1>18. a4 \in Seq(Int) /\ Len(a4) = x
    BY <1>12, <1>17, IntConcat, Zenon
  <1> HIDE DEF a4
  <1>19. a5 \in Seq(Int) /\ Len(a5) = y
    BY <1>13, <1>18, IntConcat, Zenon
  <1> HIDE DEF a5
  <1>20. a6 \in Seq(Int) /\ Len(a6) = z
    BY <1>14, <1>19, IntConcat, Zenon
  <1>21. r = a6 \o s
    BY <1>4 DEF a1, a2, a3, a4, a5
  <1> HIDE DEF a6
  <1>22. x \in Nat /\ y \in Nat /\ z \in Nat
    BY <1>9, <1>12, <1>13, <1>14
  <1> HIDE DEF x, y, z
  <1>23. Has(r, 0, a6) /\ Has(r, z, s)
    <2>1. Has(r, 0, a6 \o s)
      BY <1>5, <1>21, HasAll, Zenon
    <2> QED
      BY <1>5, <1>14, <1>20, <2>1, HasLast, Zenon
  <1>24. Has(r, 0, a5) /\ Has(r, y, u)
    BY <1>5, <1>14, <1>19, <1>23, HasLast, Zenon DEF a6
  <1>25. Has(r, 0, a4) /\ Has(r, x, w)
    BY <1>5, <1>13, <1>18, <1>24, HasLast, Zenon DEF a5
  <1>26. Has(r, 0, a3) /\ Has(r, n + 6, c)
    BY <1>5, <1>12, <1>17, <1>25, HasLast, Zenon DEF a4
  <1>27. Has(r, 0, a2) /\ Has(r, n + 4, k)
    BY <1>5, <1>11, <1>16, <1>26, HasLast, Zenon DEF a3
  <1>28. Has(r, 0, a1) /\ Has(r, n + 3, f)
    BY <1>5, <1>10, <1>15, <1>27, HasLast, Zenon DEF a2
  <1>29. Has(r, 0, m) /\ Has(r, n + 2, v)
    BY <1>5, <1>9, <1>10, <1>28, HasLast, Zenon DEF a1
  <1>30. Word(r, 0) = n /\ StringAt(r, 0) = name
    <2>1. 0 \in Nat
      OBVIOUS
    <2> QED
      BY <1>5, <1>6, <1>29, <2>1, HasText, Zenon DEF m, n
  <1>31. r[n + 3] = p.version
    <2>1. n + 2 \in Nat /\ (n + 2) + 1 = n + 3
      BY <1>9
    <2>2. Has(r, n + 2, <<p.version>>)
      BY <1>29, Zenon DEF v
    <2>3. r[(n + 2) + 1] = p.version
      BY <1>1, <1>5, <2>1, <2>2, HasByte, Zenon
    <2> QED
      BY <2>1, <2>3, Zenon
  <1>32. r[n + 4] = ConnectFlags(p)
    <2>1. n + 3 \in Nat /\ (n + 3) + 1 = n + 4
      BY <1>9
    <2>2. Has(r, n + 3, <<ConnectFlags(p)>>)
      BY <1>28, Zenon DEF f
    <2>3. r[(n + 3) + 1] = ConnectFlags(p)
      BY <1>5, <1>7, <2>1, <2>2, HasByte, Zenon
    <2> QED
      BY <2>1, <2>3, Zenon
  <1>33. Word(r, n + 4) = p.keepAlive
    <2>1. n + 4 \in Nat
      BY <1>9
    <2> QED
      BY <1>1, <1>5, <1>27, <2>1, HasInt, Zenon DEF k
  <1>34. StringAt(r, n + 6) = p.clientID /\ After(r, n + 6) = x
    <2>1. n + 6 \in Nat
      BY <1>9
    <2> QED
      BY <1>1, <1>5, <1>26, <2>1, HasText, Zenon DEF c, x
  <1>35. /\ p.will # <<>> => StringAt(r, x) = p.will[1].topic /\ StringAt(r, After(r, x)) = p.will[1].message
         /\ (IF Bit(p.will) = 0 THEN x ELSE After(r, After(r, x))) = y
    BY <1>2, <1>5, <1>22, <1>25, HasWill, Zenon DEF Wills, w, y
  <1>36. /\ (IF Bit(p.username) = 0 THEN <<>> ELSE <<StringAt(r, y)>>) = p.username
         /\ (IF Bit(p.username) = 0 THEN y ELSE After(r, y)) = z
    BY <1>1, <1>5, <1>22, <1>24, HasOption, Zenon DEF u, z
  <1>37. (IF Bit(p.password) = 0 THEN <<>> ELSE <<StringAt(r, z)>>) = p.password
    BY <1>1, <1>5, <1>22, <1>23, HasOption, Zenon DEF s
  <1> DEFINE bit(i) == (r[n + 4] \div i) % 2
             q == (r[n + 4] \div 8) % 4
  <1>38. /\ bit(2) = p.clean /\ bit(4) = Bit(p.will) /\ bit(64) = Bit(p.password) /\ bit(128) = Bit(p.username)
         /\ p.will # <<>> => q = p.will[1].qos /\ bit(32) = p.will[1].retained
    BY <1>32, FlagsTell
  <1>39. ReadsConnect(r) =
          LET user == IF bit(4) = 0 THEN x ELSE After(r, After(r, x))
              pass == IF bit(128) = 0 THEN user ELSE After(r, user)
          IN  [type |-> CONNECT, version |-> p.version, clean |-> bit(2), keepAlive |-> Word(r, n + 4),
               clientID |-> StringAt(r, n + 6),
               will |-> IF bit(4) = 0 THEN <<>>
                        ELSE <<[topic |-> StringAt(r, x), message |-> StringAt(r, After(r, x)),
                                qos |-> q, retained |-> bit(32)]>>,
               username |-> IF bit(128) = 0 THEN <<>> ELSE <<StringAt(r, user)>>,
               password |-> IF bit(64) = 0 THEN <<>> ELSE <<StringAt(r, pass)>>]
    BY <1>30, <1>31, <1>34, Zenon DEF ReadsConnect, name
  <1> HIDE DEF bit, q
  <1>40. (IF bit(4) = 0 THEN <<>>
          ELSE <<[topic |-> StringAt(r, x), message |-> StringAt(r, After(r, x)),
                  qos |-> q, retained |-> bit(32)]>>) = p.will
    <2>1. CASE p.will = <<>>
      BY <1>38, <2>1, Zenon DEF Bit
    <2>2. CASE p.will # <<>>
      <3>1. Bit(p.will) # 0
        BY <2>2 DEF Bit
      <3> QED
        BY <1>8, <1>35, <1>38, <2>2, <3>1, Zenon
    <2> QED
      BY <2>1, <2>2
  <1>41. (IF bit(4) = 0 THEN x ELSE After(r, After(r, x))) = y
    BY <1>35, <1>38, Zenon
  <1>42. (IF bit(128) = 0 THEN y ELSE After(r, y)) = z
    BY <1>36, <1>38, Zenon
  <1>43. (IF bit(128) = 0 THEN <<>> ELSE <<StringAt(r, y)>>) = p.username
    BY <1>36, <1>38, Zenon
  <1>44. (IF bit(64) = 0 THEN <<>> ELSE <<StringAt(r, z)>>) = p.password
    BY <1>37, <1>38, Zenon
  <1> QED
    BY <1>3, <1>33, <1>34, <1>38, <1>39, <1>40, <1>41, <1>42, <1>43, <1>44, ZenonT(40) DEF r

\* A packet in a buffer, in front of whatever was there: where it starts and ends.
LEMMA Framed ==
  ASSUME NEW h \in Int, NEW x \in Seq(Int), Len(x) <= MaxLength, NEW old \in Seq(Int)
  PROVE  LET b == (<<h>> \o Encode(Len(x)) \o x) \o old IN
         /\ b \in Seq(Int) /\ b[1] = h
         /\ Start(b) \in Nat /\ End(b) = Start(b) + Len(x)
         /\ Has(b, Start(b), x)
         /\ Len(b) = End(b) + Len(old)
  <1> DEFINE o == <<h>>
             n == Len(x)
             e == Encode(n)
             d == Digits(n)
             f == o \o e
             g == f \o x
             b == g \o old
  <1>1. n \in Nat /\ Len(old) \in Nat
    BY IntLen
  <1>2. d \in Nat
    BY DEF Digits
  <1>3. o \in Seq(Int) /\ Len(o) = 1 /\ o[1] = h
    OBVIOUS
  <1>4. e \in Seq(Int) /\ Len(e) = d
    BY <1>1, EncodeLength
  <1>5. n <= MaxLength
    OBVIOUS
  <1> HIDE DEF o, n, e, d
  <1>6. f \in Seq(Int) /\ Len(f) = 1 + d
    BY <1>3, <1>4, IntConcat, Zenon
  <1>7. g \in Seq(Int) /\ Len(g) = (1 + d) + n
    <2> HIDE DEF f
    <2> QED
      BY <1>6, IntConcat, Zenon DEF n
  <1>8. b \in Seq(Int) /\ Len(b) = ((1 + d) + n) + Len(old)
    <2> HIDE DEF g
    <2> QED
      BY <1>7, IntConcat, Zenon
  <1>9. Has(b, 0, g)
    BY <1>7, HasFront, Zenon
  <1> HIDE DEF b
  <1>10. Has(b, 0, f) /\ Has(b, 1 + d, x)
    BY <1>6, <1>8, <1>9, HasLast, Zenon
  <1>11. Has(b, 0, o) /\ Has(b, 1, e)
    BY <1>3, <1>4, <1>8, <1>10, HasLast, Zenon
  <1>12. b[1] = h
    <2>1. b[0 + 1] = o[1]
      <3>1. 1 \in 1 .. Len(o)
        BY <1>3
      <3> QED
        BY <1>11, <3>1, Zenon DEF Has
    <2> QED
      BY <1>3, <2>1
  <1>13. DecodeBuf(b, 1) = [value |-> n, next |-> 1 + d]
    BY <1>1, <1>5, <1>8, <1>11, HasLength, Zenon DEF d, e
  <1>14. Start(b) = 1 + d /\ End(b) = (1 + d) + n
    <2>1. Start(b) = 1 + d
      BY <1>13 DEF Start
    <2>2. DecodeBuf(b, 1).value = n
      BY <1>13
    <2> QED
      BY <2>1, <2>2, Zenon DEF End
  <1>15. 1 + d \in Nat
    BY <1>2
  <1>16. /\ b \in Seq(Int) /\ b[1] = h
         /\ Start(b) \in Nat /\ End(b) = Start(b) + Len(x)
         /\ Has(b, Start(b), x)
         /\ Len(b) = End(b) + Len(old)
    BY <1>8, <1>10, <1>12, <1>14, <1>15, Zenon DEF n
  <1> QED
    BY <1>16, Zenon DEF b, g, f, o, e, n

\* The broker takes the packet apart.
LEMMA BrokerReadsRest ==
  ASSUME NEW h \in Int, NEW x \in Seq(Int), Len(x) <= MaxLength
  PROVE  BrokerReads(<<h>> \o Encode(Len(x)) \o x) = Understands(h, x)
  <1> DEFINE g == <<h>> \o Encode(Len(x)) \o x
             b == g \o <<>>
  <1>1. <<>> \in Seq(Int) /\ Len(<<>>) = 0
    BY IntEmpty
  <1>2. /\ b \in Seq(Int) /\ b[1] = h
        /\ Start(b) \in Nat /\ End(b) = Start(b) + Len(x)
        /\ Has(b, Start(b), x)
        /\ Len(b) = End(b) + 0
    BY <1>1, Framed, Zenon
  <1>3. g \in Seq(Int)
    <2>1. <<h>> \in Seq(Int) /\ Encode(Len(x)) \in Seq(Int)
      BY EncodeLength, IntLen, IntOne
    <2> QED
      BY <2>1, IntConcat3, Zenon
  <1>4. b = g
    BY <1>3, ConcatEmptySeq
  <1> HIDE DEF g, b
  <1>5. End(b) = Len(b) /\ Len(x) \in Nat
    BY <1>2, IntLen
  <1>6. SubSeq(b, Start(b) + 1, Len(b)) = x
    BY <1>2, <1>5, HasSub, Zenon
  <1> QED
    BY <1>2, <1>4, <1>5, <1>6, Zenon DEF BrokerReads, g

\* What the broker makes of each type of packet.
LEMMA UnderstandsByType ==
  ASSUME NEW h, NEW r
  PROVE  /\ h \div 16 = CONNECT => Understands(h, r) = ReadsConnect(r)
         /\ h \div 16 = PUBLISH => Understands(h, r) = ReadsPublish(r, (h \div 2) % 4, h % 2)
         /\ h \div 16 = SUBSCRIBE => Understands(h, r) =
              [type |-> SUBSCRIBE, id |-> Words(r, 0), topic |-> StringAt(r, 8), req |-> r[After(r, 8) + 1]]
         /\ h \div 16 = UNSUBSCRIBE => Understands(h, r) =
              [type |-> UNSUBSCRIBE, id |-> Words(r, 0), topic |-> StringAt(r, 8)]
         /\ h \div 16 = EXTCMD => Understands(h, r) = ReadsExtended(r)
         /\ h \div 16 \in Acks => Understands(h, r) = [type |-> h \div 16, id |-> Words(r, 0)]
         /\ h \div 16 \in {PINGREQ, DISCONNECT} => Understands(h, r) = [type |-> h \div 16]
  BY DEF Understands, Acks, CONNECT, PUBLISH, PUBACK, PUBREC, PUBREL, PUBCOMP,
         SUBSCRIBE, UNSUBSCRIBE, PINGREQ, DISCONNECT, EXTCMD

\* The first byte of a request.
LEMMA HeaderTells ==
  ASSUME NEW p, Request(p)
  PROVE  \E h \in Int : /\ HeaderOf(p) = <<h>> /\ h \div 16 = p.type
                        /\ p.type = PUBLISH => (h \div 2) % 4 = p.qos /\ h % 2 = p.retained
  <1> DEFINE type == p.type
             q    == p.qos
             r    == p.retained
             h1   == 16 * 3 + 8 * 0 + 2 * q + r
             h2   == 16 * type + 8 * 0 + 2 * 1 + 0
             h3   == 16 * type + 8 * 0 + 2 * 0 + 0
  <1>1. type \in {1, 3, 8, 10, 12, 14, 15}
    BY DEF Request, Connects, Publishes, Subscribes, Unsubscribes, Publish2s, Empties,
           CONNECT, PUBLISH, SUBSCRIBE, UNSUBSCRIBE, EXTCMD, PINGREQ, DISCONNECT
  <1>2. type = 3 => q \in 0 .. 2 /\ r \in 0 .. 1
    BY DEF Request, Connects, Publishes, Subscribes, Unsubscribes, Publish2s, Empties, Flag,
           CONNECT, PUBLISH, SUBSCRIBE, UNSUBSCRIBE, EXTCMD, PINGREQ, DISCONNECT
  <1>3. \/ type = 3 /\ HeaderOf(p) = <<h1>>
        \/ type # 3 /\ HeaderOf(p) = <<h2>>
        \/ type # 3 /\ HeaderOf(p) = <<h3>>
    <2>1. CASE p.type = PUBLISH
      BY <2>1 DEF HeaderOf, Header, PUBLISH, SUBSCRIBE, UNSUBSCRIBE, EXTCMD, PUBREL
    <2>2. CASE p.type # PUBLISH /\ p.type \in {SUBSCRIBE, UNSUBSCRIBE, EXTCMD, PUBREL}
      BY <2>2 DEF HeaderOf, Header, PUBLISH
    <2>3. CASE p.type # PUBLISH /\ p.type \notin {SUBSCRIBE, UNSUBSCRIBE, EXTCMD, PUBREL}
      BY <2>3 DEF HeaderOf, Header, PUBLISH
    <2> QED
      BY <2>1, <2>2, <2>3
  <1>4. CASE type = 3 /\ HeaderOf(p) = <<h1>>
    <2>1. q \in 0 .. 2 /\ r \in 0 .. 1
      BY <1>2, <1>4
    <2> HIDE DEF type, q, r
    <2>2. h1 \in Int /\ h1 \div 16 = 3 /\ (h1 \div 2) % 4 = q /\ h1 % 2 = r
      BY <2>1
    <2> HIDE DEF h1
    <2> QED
      BY <1>4, <2>2, Zenon DEF type, q, r
  <1>5. CASE type # 3 /\ HeaderOf(p) = <<h2>>
    <2> HIDE DEF type
    <2>1. type \in Int
      BY <1>1
    <2>2. h2 \in Int /\ h2 \div 16 = type
      BY <2>1
    <2> HIDE DEF h2
    <2> QED
      BY <1>5, <2>2, Zenon DEF type, PUBLISH
  <1>6. CASE type # 3 /\ HeaderOf(p) = <<h3>>
    <2> HIDE DEF type
    <2>1. type \in Int
      BY <1>1
    <2>2. h3 \in Int /\ h3 \div 16 = type
      BY <2>1
    <2> HIDE DEF h3
    <2> QED
      BY <1>6, <2>2, Zenon DEF type, PUBLISH
  <1> QED
    BY <1>3, <1>4, <1>5, <1>6

\* The broker understands the request that was meant.
LEMMA UnderstandsRequest ==
  ASSUME NEW p, Request(p), Length(p) \in Word16, NEW h \in Int, h \div 16 = p.type,
         p.type = PUBLISH => (h \div 2) % 4 = p.qos /\ h % 2 = p.retained
  PROVE  Understands(h, Body(p)) = p
  <1>1. CASE p \in Connects
    <2>1. p.type = CONNECT
      BY <1>1 DEF Connects
    <2> QED
      BY <1>1, <2>1, BodyByType, UnderstandsByType, UnderstandsConnect, Zenon
  <1>2. CASE p \in Publishes
    <2>1. p.type = PUBLISH
      BY <1>2 DEF Publishes
    <2>2. Body(p) = PublishBody(p)
      BY <2>1, BodyByType, Zenon
    <2>3. Understands(h, PublishBody(p)) = ReadsPublish(PublishBody(p), (h \div 2) % 4, h % 2)
      BY <2>1, UnderstandsByType, Zenon
    <2>4. (h \div 2) % 4 = p.qos /\ h % 2 = p.retained
      BY <2>1
    <2>5. ReadsPublish(PublishBody(p), p.qos, p.retained) = p
      BY <1>2, UnderstandsPublish, Zenon
    <2> QED
      BY <2>2, <2>3, <2>4, <2>5, Zenon
  <1>3. CASE p \in Subscribes
    <2>1. p.type = SUBSCRIBE
      BY <1>3 DEF Subscribes
    <2>2. Body(p) = SubscribeBody(p) /\ h \div 16 = SUBSCRIBE
      BY <2>1, BodyByType, Zenon
    <2> DEFINE r == SubscribeBody(p)
    <2>3. [type |-> SUBSCRIBE, id |-> Words(r, 0), topic |-> StringAt(r, 8), req |-> r[After(r, 8) + 1]] = p
      BY <1>3, UnderstandsSubscribe, Zenon
    <2> HIDE DEF r
    <2>4. Understands(h, r) =
            [type |-> SUBSCRIBE, id |-> Words(r, 0), topic |-> StringAt(r, 8), req |-> r[After(r, 8) + 1]]
      BY <2>2, UnderstandsByType, Zenon
    <2> QED
      BY <2>2, <2>3, <2>4, Zenon DEF r
  <1>4. CASE p \in Unsubscribes
    <2>1. p.type = UNSUBSCRIBE
      BY <1>4 DEF Unsubscribes
    <2>2. Body(p) = UnsubscribeBody(p) /\ h \div 16 = UNSUBSCRIBE
      BY <2>1, BodyByType, Zenon
    <2> QED
      BY <1>4, <2>2, UnderstandsByType, UnderstandsUnsubscribe, ZenonT(40)
  <1>5. CASE p \in Publish2s
    <2>1. p.type = EXTCMD
      BY <1>5 DEF Publish2s
    <2>2. Body(p) = ExtendedBody(p) /\ Length(p) = ExtendedLength(p) /\ h \div 16 = EXTCMD
      BY <2>1, BodyByType, Zenon
    <2> QED
      BY <1>5, <2>2, UnderstandsByType, UnderstandsExtended, Zenon
  <1>6. CASE p \in Empties
    <2>1. p.type \in {PINGREQ, DISCONNECT} /\ p = [type |-> p.type]
      BY <1>6 DEF Empties
    <2>2. Understands(h, Body(p)) = [type |-> h \div 16]
      BY <2>1, UnderstandsByType, Zenon
    <2> QED
      BY <2>1, <2>2, Zenon
  <1> QED
    BY <1>1, <1>2, <1>3, <1>4, <1>5, <1>6 DEF Request

\* So what is sent, if anything, is what was asked for.
LEMMA RequestIsRead ==
  ASSUME BufSize \in Word16, NEW p, Request(p), Serialize(p) # <<>>
  PROVE  BrokerReads(Serialize(p)) = p
  <1>1. PICK h \in Int : /\ HeaderOf(p) = <<h>> /\ h \div 16 = p.type
                         /\ p.type = PUBLISH => (h \div 2) % 4 = p.qos /\ h % 2 = p.retained
    BY HeaderTells
  <1>2. Body(p) \in Seq(Int) /\ Len(Body(p)) = Length(p)
    BY BodyHasLength
  <1>3. Length(p) \in Nat
    BY <1>2, IntLen, Zenon
  <1>4. ~TooShort(p) /\ Serialize(p) = <<h>> \o Encode(Length(p)) \o Body(p)
    BY <1>1, Zenon DEF Serialize
  <1>5. Length(p) \in Word16
    <2>1. CASE p.type \in {PINGREQ, DISCONNECT}
      <3>1. Length(p) = 0
        BY <2>1, BodyByType, Zenon
      <3> QED
        BY <3>1 DEF Word16
    <2>2. CASE p.type \notin {PINGREQ, DISCONNECT}
      <3>1. p.type \notin Acks
        BY DEF Request, Connects, Publishes, Subscribes, Unsubscribes, Publish2s, Empties, Acks,
               CONNECT, PUBLISH, SUBSCRIBE, UNSUBSCRIBE, EXTCMD, PUBACK, PUBREC, PUBREL, PUBCOMP, PINGREQ, DISCONNECT
      <3>2. ~(MQTTPacket_len(Length(p)) > BufSize)
        BY <1>4, <2>2, <3>1, Zenon DEF TooShort
      <3>3. 1 + Digits(Length(p)) + Length(p) <= MQTTPacket_len(Length(p))
        BY <1>3, PacketLenBound
      <3> QED
        BY <1>3, <3>2, <3>3, BufSizeAssumption DEF Word16, MQTTPacket_len, Digits
    <2> QED
      BY <2>1, <2>2
  <1>6. Len(Body(p)) <= MaxLength
    BY <1>2, <1>5 DEF Word16, MaxLength
  <1>7. BrokerReads(<<h>> \o Encode(Len(Body(p))) \o Body(p)) = Understands(h, Body(p))
    BY <1>2, <1>6, BrokerReadsRest, Zenon
  <1>8. Understands(h, Body(p)) = p
    BY <1>1, <1>5, UnderstandsRequest, Zenon
  <1> QED
    BY <1>2, <1>4, <1>7, <1>8, Zenon

\* The same for an acknowledgement.
LEMMA AckIsRead ==
  ASSUME NEW t \in {PUBACK, PUBREC, PUBREL, PUBCOMP}, NEW id \in PacketId
  PROVE  BrokerReads(Serialize(Ack(t, id))) = Ack(t, id)
  <1> DEFINE p == Ack(t, id)
             b == WriteInt64(id)
  <1>1. p.type = t /\ p.id = id /\ p = [type |-> t, id |-> id]
    BY DEF Ack
  <1>2. t \in Acks /\ t \in 4 .. 7
    BY DEF Acks, PUBACK, PUBREC, PUBREL, PUBCOMP
  <1>3. Body(p) = b /\ Length(p) = 8
    BY <1>1, <1>2, BodyByType, Zenon
  <1>4. b \in Seq(Int) /\ Len(b) = 8
    BY WriteIdLength
  <1>5. \E h \in Int : HeaderOf(p) = <<h>> /\ h \div 16 = t
    <2>1. p.type # PUBLISH
      BY <1>1, <1>2 DEF PUBLISH
    <2>2. CASE p.type \in {SUBSCRIBE, UNSUBSCRIBE, EXTCMD, PUBREL}
      <3>1. HeaderOf(p) = <<16 * t + 8 * 0 + 2 * 1 + 0>>
        BY <1>1, <2>1, <2>2 DEF HeaderOf, Header
      <3>2. (16 * t + 8 * 0 + 2 * 1 + 0) \in Int /\ (16 * t + 8 * 0 + 2 * 1 + 0) \div 16 = t
        BY <1>2
      <3> QED
        BY <3>1, <3>2, Zenon
    <2>3. CASE p.type \notin {SUBSCRIBE, UNSUBSCRIBE, EXTCMD, PUBREL}
      <3>1. HeaderOf(p) = <<16 * t + 8 * 0 + 2 * 0 + 0>>
        BY <1>1, <2>1, <2>3 DEF HeaderOf, Header
      <3>2. (16 * t + 8 * 0 + 2 * 0 + 0) \in Int /\ (16 * t + 8 * 0 + 2 * 0 + 0) \div 16 = t
        BY <1>2
      <3> QED
        BY <3>1, <3>2, Zenon
    <2> QED
      BY <2>2, <2>3
  <1>6. PICK h \in Int : HeaderOf(p) = <<h>> /\ h \div 16 = t
    BY <1>5
  <1>7. Serialize(p) = <<h>> \o Encode(Len(b)) \o b
    BY <1>1, <1>2, <1>3, <1>4, <1>6, Zenon DEF Serialize, TooShort
  <1>8. Len(b) <= MaxLength
    BY <1>4 DEF MaxLength
  <1> HIDE DEF p, b
  <1>9. BrokerReads(<<h>> \o Encode(Len(b)) \o b) = Understands(h, b)
    BY <1>4, <1>8, BrokerReadsRest, Zenon
  <1>10. Understands(h, b) = [type |-> t, id |-> Words(b, 0)]
    BY <1>2, <1>6, UnderstandsByType, Zenon
  <1>11. Words(b, 0) = id
    BY UnderstandsAck, Zenon DEF b
  <1> QED
    BY <1>1, <1>7, <1>9, <1>10, <1>11, Zenon DEF p

----------------------------------------------------------------------------
(* What the broker sends, and what the client makes of it. *)

\* What the broker sends.
LEMMA IncomingKinds ==
  ASSUME NEW q \in Incoming
  PROVE  \/ q \in Connacks \/ q \in Subacks \/ q \in Deliveries
         \/ q \in Replies \/ q \in Returns \/ q \in Pongs
  BY IncomingAssumption, Zenon

\* The broker writes numbers and identifiers as the client does,
LEMMA SameWords ==
  /\ \A n : AsWord(n) = WriteInt(n)
  /\ \A id : AsWords(id) = WriteInt64(id)
  BY DEF AsWord, AsWords, WriteInt, WriteInt64

\* and puts together the rest of a packet,
LEMMA RestByType ==
  ASSUME NEW q
  PROVE  /\ q \in Connacks => Rest(q) = <<0, q.code>>
         /\ q \in Subacks => Rest(q) = WriteInt64(q.id) \o <<q.granted>>
         /\ q \in Deliveries => Rest(q) = PublishBody(q)
         /\ q \in Replies =>
              Rest(q) = ((WriteInt64(q.id) \o <<q.cmd, q.status>>) \o WriteInt(Len(q.payload))) \o q.payload
         /\ q \in Returns => Rest(q) = WriteInt64(q.id)
         /\ q \in Pongs => Rest(q) = <<>>
  <1>1. ASSUME q \in Connacks PROVE Rest(q) = <<0, q.code>>
    <2>1. q.type = 2
      BY <1>1 DEF Connacks, CONNACK
    <2> QED
      BY <2>1 DEF Rest, CONNACK, SUBACK, PUBLISH, EXTCMD, Acks, PUBACK, PUBREC, PUBREL, PUBCOMP
  <1>2. ASSUME q \in Subacks PROVE Rest(q) = WriteInt64(q.id) \o <<q.granted>>
    <2>1. q.type = 9
      BY <1>2 DEF Subacks, SUBACK
    <2>2. Rest(q) = AsWords(q.id) \o <<q.granted>>
      BY <2>1 DEF Rest, CONNACK, SUBACK, PUBLISH, EXTCMD, Acks, PUBACK, PUBREC, PUBREL, PUBCOMP
    <2> QED
      BY <2>2, SameWords, Zenon
  <1>3. ASSUME q \in Deliveries PROVE Rest(q) = PublishBody(q)
    <2>1. q.type = 3
      BY <1>3 DEF Deliveries, PUBLISH
    <2>2. Rest(q) = DeliveryRest(q)
      BY <2>1 DEF Rest, CONNACK, SUBACK, PUBLISH, EXTCMD, Acks, PUBACK, PUBREC, PUBREL, PUBCOMP
    <2> QED
      BY <2>2, SameWords, Zenon DEF DeliveryRest, PublishBody, WriteString
  <1>4. ASSUME q \in Replies
        PROVE  Rest(q) = ((WriteInt64(q.id) \o <<q.cmd, q.status>>) \o WriteInt(Len(q.payload))) \o q.payload
    <2>1. q.type = 15
      BY <1>4 DEF Replies, EXTCMD
    <2>2. Rest(q) = ReplyRest(q)
      BY <2>1 DEF Rest, CONNACK, SUBACK, PUBLISH, EXTCMD, Acks, PUBACK, PUBREC, PUBREL, PUBCOMP
    <2> QED
      BY <2>2, SameWords, Zenon DEF ReplyRest
  <1>5. ASSUME q \in Returns PROVE Rest(q) = WriteInt64(q.id)
    <2>1. q.type \in 4 .. 7 /\ q.type \in Acks
      BY <1>5 DEF Returns, Acks, PUBACK, PUBREC, PUBREL, PUBCOMP
    <2>2. Rest(q) = AsWords(q.id)
      BY <2>1 DEF Rest, CONNACK, SUBACK, PUBLISH, EXTCMD, Acks, PUBACK, PUBREC, PUBREL, PUBCOMP
    <2> QED
      BY <2>2, SameWords, Zenon
  <1>6. ASSUME q \in Pongs PROVE Rest(q) = <<>>
    <2>1. q.type = 13
      BY <1>6 DEF Pongs, PINGRESP
    <2>2. q.type \notin Acks
      BY <2>1 DEF Acks, PUBACK, PUBREC, PUBREL, PUBCOMP
    <2> QED
      BY <2>1, <2>2 DEF Rest, CONNACK, SUBACK, PUBLISH, EXTCMD, Acks, PUBACK, PUBREC, PUBREL, PUBCOMP
  <1> QED
    BY <1>1, <1>2, <1>3, <1>4, <1>5, <1>6, Zenon

\* which is a sequence of numbers.
LEMMA RestIsInts ==
  ASSUME NEW q \in Incoming
  PROVE  Rest(q) \in Seq(Int)
  <1>1. CASE q \in Connacks
    <2>1. q.code \in Int
      BY <1>1 DEF Connacks, Byte
    <2>2. <<0, q.code>> \in Seq(Int)
      BY <2>1
    <2> QED
      BY <1>1, <2>2, RestByType, Zenon
  <1>2. CASE q \in Subacks
    <2>1. q.id \in PacketId /\ q.granted \in Int
      BY <1>2 DEF Subacks, Byte
    <2>2. WriteInt64(q.id) \o <<q.granted>> \in Seq(Int)
      BY <2>1, WriteIdLength, IntOne, IntConcat, Zenon
    <2> QED
      BY <1>2, <2>2, RestByType, Zenon
  <1>3. CASE q \in Deliveries
    <2>1. PublishBody(q) \in Seq(Int)
      BY <1>3, DeliveryHasLength, Zenon
    <2> QED
      BY <1>3, <2>1, RestByType, Zenon
  <1>4. CASE q \in Replies
    <2>1. q.id \in PacketId /\ q.cmd \in Int /\ q.status \in Int /\ q.payload \in Text
      BY <1>4 DEF Replies, Byte
    <2>2. WriteInt64(q.id) \in Seq(Int) /\ q.payload \in Seq(Int) /\ Len(q.payload) \in Int
      BY <2>1, WriteIdLength, StringIsInts
    <2>3. <<q.cmd, q.status>> \in Seq(Int) /\ WriteInt(Len(q.payload)) \in Seq(Int)
      BY <2>1, <2>2, WriteIntLength
    <2>4. ((WriteInt64(q.id) \o <<q.cmd, q.status>>) \o WriteInt(Len(q.payload))) \o q.payload \in Seq(Int)
      BY <2>2, <2>3, IntConcat, Zenon
    <2> QED
      BY <1>4, <2>4, RestByType, Zenon
  <1>5. CASE q \in Returns
    <2>1. q.id \in PacketId
      BY <1>5 DEF Returns
    <2> QED
      BY <1>5, <2>1, WriteIdLength, RestByType, Zenon
  <1>6. CASE q \in Pongs
    BY <1>6, IntEmpty, RestByType, Zenon
  <1> QED
    BY <1>1, <1>2, <1>3, <1>4, <1>5, <1>6, IncomingKinds, Zenon

\* The first byte tells type and QoS.
LEMMA FirstByteTells ==
  ASSUME NEW q \in Incoming
  PROVE  /\ FirstByte(q) \in Int
         /\ FirstByte(q) \div 16 = q.type
         /\ q.type = PUBLISH => (FirstByte(q) \div 2) % 4 = q.qos
  <1> DEFINE t == q.type
             d == q.dup
             s == q.qos
             r == q.retained
  <1>1. t \in 1 .. 15 /\ (t = 3 => d \in 0 .. 1 /\ s \in 0 .. 2 /\ r \in 0 .. 1)
    BY IncomingKinds DEF Connacks, Subacks, Deliveries, Replies, Returns, Pongs, Acks, Flag, CONNACK, SUBACK, PUBLISH,
       EXTCMD, PUBACK, PUBREC, PUBREL, PUBCOMP, PINGRESP
  <1>2. CASE q.type = PUBLISH
    <2>1. FirstByte(q) = 16 * t + (8 * d + 2 * s + r) /\ t = 3
      BY <1>2 DEF FirstByte, PUBLISH, PUBREL
    <2> HIDE DEF t, d, s, r
    <2>2. /\ FirstByte(q) \in Int
          /\ FirstByte(q) \div 16 = t
          /\ (FirstByte(q) \div 2) % 4 = s
      BY <1>1, <2>1
    <2> QED
      BY <2>2 DEF t, s
  <1>3. CASE q.type = PUBREL
    <2>1. FirstByte(q) = 16 * t + 2 /\ t = 6
      BY <1>3 DEF FirstByte, PUBLISH, PUBREL
    <2>2. FirstByte(q) \in Int /\ FirstByte(q) \div 16 = 6
      BY <2>1
    <2> QED
      BY <2>1, <2>2 DEF PUBLISH
  <1>4. CASE q.type # PUBLISH /\ q.type # PUBREL
    <2>1. FirstByte(q) = 16 * t + 0
      BY <1>4 DEF FirstByte
    <2> HIDE DEF t
    <2>2. FirstByte(q) \in Int /\ FirstByte(q) \div 16 = t
      BY <1>1, <2>1
    <2> QED
      BY <1>4, <2>2 DEF t
  <1> QED
    BY <1>2, <1>3, <1>4

\* A PUBLISH, with whatever an earlier packet left behind it.
LEMMA PublishIsRead ==
  ASSUME NEW q \in Deliveries, NEW b \in Seq(Int), Start(b) \in Nat,
         End(b) = Start(b) + Len(PublishBody(q)), Has(b, Start(b), PublishBody(q)),
         Dup(b) = q.dup, QoS(b) = q.qos, Retain(b) = q.retained
  PROVE  DeserializePublish(b) = q
  <1> DEFINE i == Start(b)
             e == End(b)
             d == q.payload
             t == WriteString(q.topic)
             w == IF q.qos > 0 THEN WriteInt64(q.id) ELSE <<>>
             x == PublishBody(q)
             n == IF q.qos > 0 THEN 8 ELSE 0
             j == i + 2 + ReadInt(b, i)
             m == Len(q.topic)
  <1>1. /\ q.topic \in Text /\ d \in Seq(Byte) /\ q.qos \in Int
        /\ q.qos > 0 => q.id \in PacketId
        /\ ~(q.qos > 0) => q.id = <<>>
    BY DEF Deliveries
  <1>2. t \in Seq(Int) /\ Len(t) = m + 2 /\ m \in Nat
    BY <1>1, WriteStringLength, StringIsInts
  <1>3. d \in Seq(Int) /\ Len(d) \in Nat
    <2>1. Byte \subseteq Int
      BY DEF Byte
    <2> QED
      BY <1>1, <2>1, SeqMonotonic, LenProperties
  <1>4. w \in Seq(Int) /\ Len(w) = n
    <2>1. CASE q.qos > 0
      BY <1>1, <2>1, WriteIdLength, Zenon
    <2>2. CASE ~(q.qos > 0)
      <3>1. w = <<>> /\ n = 0
        BY <2>2, Zenon
      <3> QED
        BY <3>1, IntEmpty, Zenon
    <2> QED
      BY <2>1, <2>2
  <1>5. x = (t \o w) \o d
    BY DEF PublishBody
  <1>6. n \in Nat /\ (q.qos > 0 => n = 8) /\ (~(q.qos > 0) => n = 0)
    OBVIOUS
  <1>7. q = [type |-> PUBLISH, dup |-> q.dup, qos |-> q.qos, retained |-> q.retained, topic |-> q.topic,
             id |-> q.id, payload |-> d]
    BY DEF Deliveries
  <1>8. i \in Nat /\ e = i + Len(x) /\ Has(b, i, x)
    OBVIOUS
  <1> HIDE DEF i, e, d, t, w, x, n, m
  <1>9. t \o w \in Seq(Int) /\ Len(t \o w) = Len(t) + n
    BY <1>2, <1>4, IntConcat, Zenon
  <1>10. Len(x) = (Len(t) + n) + Len(d)
    BY <1>3, <1>5, <1>9, IntConcat, Zenon
  <1>11. Has(b, i, t \o w) /\ Has(b, i + (Len(t) + n), d)
    BY <1>3, <1>5, <1>8, <1>9, HasParts, Zenon
  <1>12. Has(b, i, t) /\ Has(b, i + Len(t), w)
    BY <1>2, <1>4, <1>8, <1>11, HasParts, Zenon
  <1>13. ReadString(b, i) = q.topic /\ ReadInt(b, i) = m
    BY <1>1, <1>8, <1>12, HasText, Zenon DEF t, m
  <1>14. j = i + Len(t)
    <2>1. j = i + 2 + m
      BY <1>13, Zenon
    <2> HIDE DEF j
    <2> QED
      BY <1>2, <1>8, <2>1
  <1>15. HasString(b, i, e)
    <2>1. HasString(b, i, e) <=> e - i > 1 /\ i + 2 + m <= e
      BY <1>13, Zenon DEF HasString
    <2>2. e - i > 1 /\ i + 2 + m <= e
      BY <1>2, <1>3, <1>6, <1>8, <1>10
    <2> QED
      BY <2>1, <2>2, Zenon
  <1> HIDE DEF j
  <1>16. (IF q.qos > 0 THEN ReadInt64(b, j) ELSE <<>>) = q.id
    <2>1. CASE q.qos > 0
      <3>1. Has(b, j, WriteInt64(q.id))
        BY <1>12, <1>14, <2>1, Zenon DEF w
      <3>2. j \in Nat
        BY <1>2, <1>8, <1>14
      <3>3. ReadInt64(b, j) = q.id
        BY <1>1, <2>1, <3>1, <3>2, HasId, Zenon
      <3> QED
        BY <2>1, <3>3, Zenon
    <2>2. CASE ~(q.qos > 0)
      BY <1>1, <2>2, Zenon
    <2> QED
      BY <2>1, <2>2
  <1> DEFINE k == IF q.qos > 0 THEN j + 8 ELSE j
  <1>17. k = i + (Len(t) + n)
    <2>1. CASE q.qos > 0
      <3>1. k = j + 8 /\ n = 8
        BY <1>6, <2>1, Zenon
      <3> QED
        BY <1>2, <1>8, <1>14, <3>1
    <2>2. CASE ~(q.qos > 0)
      <3>1. k = j /\ n = 0
        BY <1>6, <2>2, Zenon
      <3> QED
        BY <1>2, <1>8, <1>14, <3>1
    <2> QED
      BY <2>1, <2>2
  <1> HIDE DEF k
  <1>18. PublishPayload(b, k) = d
    <2>1. k \in Nat /\ e = k + Len(d)
      BY <1>2, <1>3, <1>6, <1>8, <1>10, <1>17
    <2>2. Has(b, k, d)
      BY <1>11, <1>17, Zenon
    <2>3. SubSeq(b, k + 1, k + Len(d)) = d
      BY <1>3, <2>1, <2>2, HasSub, Zenon
    <2> QED
      BY <2>1, <2>3, Zenon DEF PublishPayload, e
  <1>19. DeserializePublish(b) =
           [type |-> PUBLISH, dup |-> Dup(b), qos |-> QoS(b), retained |-> Retain(b),
            topic |-> ReadString(b, i),
            id |-> IF QoS(b) > 0 THEN ReadInt64(b, j) ELSE <<>>,
            payload |-> PublishPayload(b, IF QoS(b) > 0 THEN j + 8 ELSE j)]
    BY <1>15, Zenon DEF DeserializePublish, i, j, e
  <1> QED
    BY <1>7, <1>13, <1>16, <1>18, <1>19, Zenon DEF k

\* The first byte of a packet, as the client reads it.
LEMMA HeadTells ==
  ASSUME NEW q \in Incoming, NEW b, b[1] = FirstByte(q)
  PROVE  /\ Type(b) = q.type
         /\ q \in Deliveries => Dup(b) = q.dup /\ QoS(b) = q.qos /\ Retain(b) = q.retained
  <1>1. Type(b) = q.type
    BY FirstByteTells, Zenon DEF Type
  <1>2. ASSUME q \in Deliveries
        PROVE  Dup(b) = q.dup /\ QoS(b) = q.qos /\ Retain(b) = q.retained
    <2> DEFINE d == q.dup
               s == q.qos
               r == q.retained
               h == b[1]
    <2>1. d \in 0 .. 1 /\ s \in 0 .. 2 /\ r \in 0 .. 1
      BY <1>2 DEF Deliveries, Flag
    <2>2. h = 16 * 3 + (8 * d + 2 * s + r)
      <3>1. q.type = PUBLISH
        BY <1>2 DEF Deliveries
      <3> QED
        BY <3>1 DEF FirstByte, PUBLISH, PUBREL
    <2> HIDE DEF d, s, r, h
    <2>3. (h \div 8) % 2 = d /\ (h \div 2) % 4 = s /\ h % 2 = r
      BY <2>1, <2>2
    <2> QED
      BY <2>3, Zenon DEF Dup, QoS, Retain, d, s, r, h
  <1> QED
    BY <1>1, <1>2

\* The answer to an extended command.
LEMMA ReplyIsRead ==
  ASSUME NEW q \in Replies, NEW b \in Seq(Int), Start(b) \in Nat,
         Has(b, Start(b), ((WriteInt64(q.id) \o <<q.cmd, q.status>>) \o WriteInt(Len(q.payload))) \o q.payload)
  PROVE  DeserializeExtended(b) = [type |-> EXTCMD, cmd |-> q.cmd, status |-> q.status, payload |-> q.payload]
  <1> DEFINE o == Start(b)
             i == WriteInt64(q.id)
             m == q.cmd
             s == q.status
             c == <<m>>
             t == <<s>>
             l == Len(q.payload)
             n == WriteInt(l)
             d == q.payload
  <1>1. q.id \in PacketId /\ m \in Nat /\ s \in Nat /\ d \in Text /\ l \in Word16
    <2>1. q.id \in PacketId /\ m \in Byte /\ s \in Byte /\ d \in Text
      BY DEF Replies
    <2>2. Len(d) \in Nat
      BY <2>1, StringIsInts
    <2> QED
      BY <2>1, <2>2 DEF Byte, Text, Word16
  <1>2. i \in Seq(Int) /\ Len(i) = 8
    BY <1>1, WriteIdLength
  <1>3. c \in Seq(Int) /\ Len(c) = 1 /\ t \in Seq(Int) /\ Len(t) = 1
    BY <1>1, IntOne
  <1>4. l \in Int
    BY <1>1 DEF Word16
  <1>5. n \in Seq(Int) /\ Len(n) = 2
    BY <1>4, WriteIntLength
  <1>6. d \in Seq(Int)
    BY <1>1, StringIsInts
  <1>7. <<q.cmd, q.status>> = c \o t
    OBVIOUS
  <1>8. Has(b, o, ((i \o (c \o t)) \o n) \o d) /\ o \in Nat
    BY <1>7, Zenon
  <1> HIDE DEF o, i, c, t, n, d, l, m, s
  <1>9. c \o t \in Seq(Int) /\ Len(c \o t) = 2
    <2>1. c \o t \in Seq(Int) /\ Len(c \o t) = Len(c) + Len(t)
      BY <1>3, IntConcat, Zenon
    <2> QED
      BY <1>3, <2>1
  <1>10. i \o (c \o t) \in Seq(Int) /\ Len(i \o (c \o t)) = 10
    <2>1. i \o (c \o t) \in Seq(Int) /\ Len(i \o (c \o t)) = Len(i) + Len(c \o t)
      BY <1>2, <1>9, IntConcat, Zenon
    <2> QED
      BY <1>2, <1>9, <2>1
  <1>11. (i \o (c \o t)) \o n \in Seq(Int) /\ Len((i \o (c \o t)) \o n) = 12
    <2>1. (i \o (c \o t)) \o n \in Seq(Int) /\ Len((i \o (c \o t)) \o n) = Len(i \o (c \o t)) + Len(n)
      BY <1>5, <1>10, IntConcat, Zenon
    <2> QED
      BY <1>5, <1>10, <2>1
  <1>12. Has(b, o, (i \o (c \o t)) \o n) /\ Has(b, o + 12, d)
    BY <1>6, <1>8, <1>11, HasParts, Zenon
  <1>13. Has(b, o, i \o (c \o t)) /\ Has(b, o + 10, n)
    BY <1>5, <1>8, <1>10, <1>11, <1>12, HasParts, Zenon
  <1>14. Has(b, o, i) /\ Has(b, o + 8, c \o t)
    BY <1>2, <1>8, <1>9, <1>13, HasParts, Zenon
  <1>15. o + 8 \in Nat /\ o + 10 \in Nat /\ o + 12 \in Nat /\ (o + 8) + 1 \in Nat
    BY <1>8
  <1>16. Has(b, o + 8, c) /\ Has(b, (o + 8) + 1, t)
    BY <1>3, <1>14, <1>15, HasParts, Zenon
  <1>17. b[(o + 8) + 1] = m
    BY <1>1, <1>15, <1>16, HasByte, Zenon DEF c
  <1>18. b[((o + 8) + 1) + 1] = s
    BY <1>1, <1>15, <1>16, HasByte, Zenon DEF t
  <1>19. ReadInt(b, o + 10) = l
    BY <1>1, <1>13, <1>15, HasInt, Zenon DEF n
  <1>20. SubSeq(b, (o + 12) + 1, (o + 12) + Len(d)) = d
    BY <1>6, <1>12, <1>15, HasSub, Zenon
  <1>21. /\ ((o + 8) + 1) + 1 = (o + 8) + 2 /\ (o + 8) + 2 = o + 10
         /\ (o + 12) + 1 = (o + 8) + 5 /\ (o + 12) + l = (o + 8) + 4 + l
    BY <1>4, <1>8
  <1>22. Len(d) = l
    BY Zenon DEF d, l
  <1>23. b[(o + 8) + 2] = s /\ ReadInt(b, (o + 8) + 2) = l
    BY <1>18, <1>19, <1>21, Zenon
  <1>24. SubSeq(b, (o + 8) + 5, (o + 8) + 4 + l) = d
    BY <1>20, <1>21, <1>22, Zenon
  <1>25. DeserializeExtended(b) =
           [type |-> EXTCMD, cmd |-> b[(o + 8) + 1], status |-> b[(o + 8) + 2],
            payload |-> SubSeq(b, (o + 8) + 5, (o + 8) + 4 + ReadInt(b, (o + 8) + 2))]
    BY Zenon DEF DeserializeExtended, o
  <1> QED
    BY <1>17, <1>23, <1>24, <1>25, Zenon DEF m, s, d

\* By type, what the client learns,
LEMMA LearnsByType ==
  ASSUME NEW b
  PROVE  /\ Type(b) = CONNACK => Learns(b) = [type |-> CONNACK, code |-> b[Start(b) + 2]]
         /\ Type(b) = SUBACK  => Learns(b) = [type |-> SUBACK, granted |-> Granted(b)]
         /\ Type(b) = PUBLISH /\ QoS(b) = 0 => Learns(b) = NoPacket
         /\ Type(b) = PUBLISH /\ QoS(b) # 0 => Learns(b) = DeserializePublish(b)
         /\ Type(b) = EXTCMD  => Learns(b) = DeserializeExtended(b)
         /\ Type(b) \in Acks \union {PINGRESP} => Learns(b) = [type |-> Type(b)]
  BY DEF Learns, Acks, CONNACK, SUBACK, PUBLISH, EXTCMD, PUBACK, PUBREC, PUBREL, PUBCOMP, PINGRESP

\* and what it is meant to.
LEMMA MeansByType ==
  ASSUME NEW q
  PROVE  /\ q.type = CONNACK => Means(q) = [type |-> CONNACK, code |-> q.code]
         /\ q.type = SUBACK  => Means(q) = [type |-> SUBACK, granted |-> q.granted]
         /\ q.type = PUBLISH /\ q.qos = 0 => Means(q) = NoPacket
         /\ q.type = PUBLISH /\ q.qos # 0 => Means(q) = q
         /\ q.type = EXTCMD  =>
              Means(q) = [type |-> EXTCMD, cmd |-> q.cmd, status |-> q.status, payload |-> q.payload]
         /\ q.type \in Acks \union {PINGRESP} => Means(q) = [type |-> q.type]
  BY DEF Means, Acks, CONNACK, SUBACK, PUBLISH, EXTCMD, PUBACK, PUBREC, PUBREL, PUBCOMP, PINGRESP

\* What a packet of the broker tells the client is what it means.
LEMMA LearnsMeans ==
  ASSUME NEW q \in Incoming, NEW b \in Seq(Int), b[1] = FirstByte(q), Start(b) \in Nat,
         End(b) = Start(b) + Len(Rest(q)), Has(b, Start(b), Rest(q))
  PROVE  Learns(b) = Means(q)
  <1> DEFINE o == Start(b)
  <1>1. Type(b) = q.type
    BY HeadTells
  <1>2. CASE q \in Connacks
    <2> DEFINE z == 0
               k == q.code
    <2>1. q.type = CONNACK /\ k \in Nat /\ z \in Nat
      BY <1>2 DEF Connacks, Byte
    <2>2. Has(b, o, <<0, q.code>>)
      BY <1>2, RestByType, Zenon
    <2>3. <<0, q.code>> = <<z>> \o <<k>> /\ o \in Nat
      OBVIOUS
    <2>4. Has(b, o, <<z>> \o <<k>>)
      BY <2>2, <2>3, Zenon
    <2> HIDE DEF z, k, o
    <2>5. <<z>> \in Seq(Int) /\ Len(<<z>>) = 1 /\ <<k>> \in Seq(Int)
      BY <2>1
    <2>6. Has(b, o + 1, <<k>>)
      BY <2>3, <2>5, <2>4, HasParts, Zenon
    <2>7. b[(o + 1) + 1] = k
      <3>1. o + 1 \in Nat
        BY DEF o
      <3> QED
        BY <2>1, <2>6, <3>1, HasByte, Zenon
    <2>8. (o + 1) + 1 = o + 2
      BY DEF o
    <2>9. b[Start(b) + 2] = q.code
      BY <2>7, <2>8, Zenon DEF o, k
    <2> QED
      BY <1>1, <2>1, <2>9, LearnsByType, MeansByType, ZenonT(40)
  <1>3. CASE q \in Subacks
    <2> DEFINE i == WriteInt64(q.id)
               k == q.granted
    <2>1. q.type = SUBACK /\ k \in Nat /\ q.id \in PacketId
      BY <1>3 DEF Subacks, Byte
    <2>2. i \in Seq(Int) /\ Len(i) = 8
      BY <2>1, WriteIdLength
    <2>3. Has(b, o, i \o <<k>>)
      BY <1>3, RestByType, Zenon
    <2> HIDE DEF i, k, o
    <2>4. <<k>> \in Seq(Int)
      BY <2>1
    <2>5. Has(b, o + 8, <<k>>)
      BY <2>2, <2>3, <2>4, HasParts, Zenon DEF o
    <2>6. b[(o + 8) + 1] = k
      <3>1. o + 8 \in Nat
        BY DEF o
      <3> QED
        BY <2>1, <2>5, <3>1, HasByte, Zenon
    <2>7. (o + 8) + 1 = o + 9
      BY DEF o
    <2>8. Granted(b) = q.granted
      BY <2>6, <2>7, Zenon DEF Granted, o, k
    <2> QED
      BY <1>1, <2>1, <2>8, LearnsByType, MeansByType, ZenonT(40)
  <1>4. CASE q \in Deliveries
    <2>1. q.type = PUBLISH
      BY <1>4 DEF Deliveries
    <2>2. Dup(b) = q.dup /\ QoS(b) = q.qos /\ Retain(b) = q.retained
      BY <1>4, HeadTells, Zenon
    <2>3. Rest(q) = PublishBody(q)
      BY <1>4, RestByType, Zenon
    <2>4. DeserializePublish(b) = q
      BY <1>4, <2>2, <2>3, PublishIsRead, Zenon
    <2> QED
      BY <1>1, <2>1, <2>2, <2>4, LearnsByType, MeansByType, Zenon
  <1>5. CASE q \in Replies
    <2>1. q.type = EXTCMD
      BY <1>5 DEF Replies
    <2>2. Has(b, o, ((WriteInt64(q.id) \o <<q.cmd, q.status>>) \o WriteInt(Len(q.payload))) \o q.payload)
      BY <1>5, RestByType, Zenon
    <2>3. DeserializeExtended(b) = [type |-> EXTCMD, cmd |-> q.cmd, status |-> q.status, payload |-> q.payload]
      BY <1>5, <2>2, ReplyIsRead, Zenon
    <2> QED
      BY <1>1, <2>1, <2>3, LearnsByType, MeansByType, ZenonT(40)
  <1>6. CASE q \in Returns \/ q \in Pongs
    <2>1. q.type \in Acks \union {PINGRESP}
      BY <1>6 DEF Returns, Pongs
    <2> QED
      BY <1>1, <2>1, LearnsByType, MeansByType, ZenonT(40)
  <1> QED
    BY <1>2, <1>3, <1>4, <1>5, <1>6, IncomingKinds

\* The answer carries the identifier of what it answers.
LEMMA AnswerIsDue ==
  ASSUME NEW q \in Incoming, NEW b \in Seq(Int), b[1] = FirstByte(q), Start(b) \in Nat,
         End(b) = Start(b) + Len(Rest(q)), Has(b, Start(b), Rest(q))
  PROVE  \/ Answer(b) = NoPacket
         \/ \E t \in {PUBACK, PUBREC, PUBREL, PUBCOMP} : \E id \in PacketId :
              Answer(b) = Ack(t, id) /\ Due(q) = Ack(t, id)
  <1>1. Type(b) = q.type
    BY HeadTells
  <1>2. CASE q \in Deliveries
    <2>1. q.type = PUBLISH /\ q.qos \in 0 .. 2 /\ (q.qos # 0 => q.id \in PacketId)
      BY <1>2 DEF Deliveries
    <2>2. Dup(b) = q.dup /\ QoS(b) = q.qos /\ Retain(b) = q.retained
      BY <1>2, HeadTells, Zenon
    <2>3. Rest(q) = PublishBody(q)
      BY <1>2, RestByType, Zenon
    <2>4. DeserializePublish(b) = q
      BY <1>2, <2>2, <2>3, PublishIsRead, Zenon
    <2>5. CASE q.qos = 1
      <3>1. Answer(b) = Ack(PUBACK, DeserializePublish(b).id)
        BY <1>1, <2>1, <2>2, <2>5 DEF Answer, PUBLISH, PUBREC, PUBREL
      <3>2. Due(q) = Ack(PUBACK, q.id)
        BY <2>1, <2>5 DEF Due, Ack, PUBLISH, PUBREC, PUBREL
      <3>3. q.id \in PacketId
        BY <2>1, <2>5
      <3> QED
        BY <2>4, <3>1, <3>2, <3>3, Zenon
    <2>6. CASE q.qos = 2
      <3>1. Answer(b) = Ack(PUBREC, DeserializePublish(b).id)
        BY <1>1, <2>1, <2>2, <2>6 DEF Answer, PUBLISH, PUBREC, PUBREL
      <3>2. Due(q) = Ack(PUBREC, q.id)
        BY <2>1, <2>6 DEF Due, Ack, PUBLISH, PUBREC, PUBREL
      <3>3. q.id \in PacketId
        BY <2>1, <2>6
      <3> QED
        BY <2>4, <3>1, <3>2, <3>3, Zenon
    <2>7. CASE q.qos = 0
      BY <1>1, <2>1, <2>2, <2>7 DEF Answer, PUBLISH, PUBREC, PUBREL
    <2> QED
      BY <2>1, <2>5, <2>6, <2>7
  <1>3. CASE q \in Returns
    <2>1. q.id \in PacketId /\ q.type \in Acks
      BY <1>3 DEF Returns
    <2>2. Rest(q) = WriteInt64(q.id)
      BY <1>3, RestByType, Zenon
    <2>3. AckId(b) = q.id
      BY <2>1, <2>2, HasId, Zenon DEF AckId
    <2>4. CASE q.type = PUBREC
      <3>1. Answer(b) = Ack(PUBREL, AckId(b)) /\ Due(q) = Ack(PUBREL, q.id)
        BY <1>1, <2>4 DEF Answer, Due, Ack, PUBLISH, PUBREC, PUBREL
      <3> QED
        BY <2>1, <2>3, <3>1, Zenon
    <2>5. CASE q.type = PUBREL
      <3>1. Answer(b) = Ack(PUBCOMP, AckId(b)) /\ Due(q) = Ack(PUBCOMP, q.id)
        BY <1>1, <2>5 DEF Answer, Due, Ack, PUBLISH, PUBREC, PUBREL
      <3> QED
        BY <2>1, <2>3, <3>1, Zenon
    <2>6. CASE q.type # PUBREC /\ q.type # PUBREL
      <3>1. q.type # PUBLISH
        BY <2>1 DEF Acks, PUBLISH, PUBACK, PUBREC, PUBREL, PUBCOMP
      <3> QED
        BY <1>1, <2>6, <3>1, Zenon DEF Answer
    <2> QED
      BY <2>4, <2>5, <2>6
  <1>4. CASE q \in Connacks \/ q \in Subacks \/ q \in Replies \/ q \in Pongs
    <2>1. q.type # PUBLISH /\ q.type # PUBREC /\ q.type # PUBREL
      BY <1>4 DEF Connacks, Subacks, Replies, Pongs, CONNACK, SUBACK, EXTCMD, PINGRESP, PUBLISH, PUBREC, PUBREL
    <2> QED
      BY <1>1, <2>1, Zenon DEF Answer
  <1> QED
    BY <1>2, <1>3, <1>4, IncomingKinds

----------------------------------------------------------------------------
(* The steps. *)

\* cycle() answers whatever asks for an answer.
LEMMA AnswersWhenDue ==
  ASSUME NEW b, NEW q \in Incoming, Type(b) = q.type, q.type = PUBLISH => QoS(b) = q.qos
  PROVE  \/ Answer(b) = NoPacket /\ Due(q) = NoPacket
         \/ \E t \in {PUBACK, PUBREC, PUBREL, PUBCOMP} : \E id : Answer(b) = Ack(t, id)
  <1>1. CASE Type(b) = PUBLISH /\ QoS(b) = 1
    <2>1. Answer(b) = Ack(PUBACK, DeserializePublish(b).id)
      BY <1>1 DEF Answer, PUBLISH, PUBREC, PUBREL
    <2> QED
      BY <2>1, Zenon
  <1>2. CASE Type(b) = PUBLISH /\ QoS(b) = 2
    <2>1. Answer(b) = Ack(PUBREC, DeserializePublish(b).id)
      BY <1>2 DEF Answer, PUBLISH, PUBREC, PUBREL
    <2> QED
      BY <2>1, Zenon
  <1>3. CASE Type(b) = PUBREC
    <2>1. Answer(b) = Ack(PUBREL, AckId(b))
      BY <1>3 DEF Answer, PUBLISH, PUBREC, PUBREL
    <2> QED
      BY <2>1, Zenon
  <1>4. CASE Type(b) = PUBREL
    <2>1. Answer(b) = Ack(PUBCOMP, AckId(b))
      BY <1>4 DEF Answer, PUBLISH, PUBREC, PUBREL
    <2> QED
      BY <2>1, Zenon
  <1>5. CASE /\ ~(Type(b) = PUBLISH /\ QoS(b) = 1) /\ ~(Type(b) = PUBLISH /\ QoS(b) = 2)
             /\ Type(b) # PUBREC /\ Type(b) # PUBREL
    <2>1. Answer(b) = NoPacket
      BY <1>5 DEF Answer
    <2>2. /\ ~(q.type = PUBLISH /\ q.qos = 1) /\ ~(q.type = PUBLISH /\ q.qos = 2)
          /\ q.type # PUBREC /\ q.type # PUBREL
      BY <1>5
    <2>3. Due(q) = NoPacket
      BY <2>2 DEF Due
    <2> QED
      BY <2>1, <2>3
  <1> QED
    BY <1>1, <1>2, <1>3, <1>4, <1>5

\* Nothing was sent at the start.
LEMMA CodecInit == Init => IInv
  <1> SUFFICES ASSUME Init PROVE IInv
    OBVIOUS
  <1>1. readbuf = <<>> /\ sent = <<>> /\ asked = NoPacket
    BY DEF Init
  <1>2. Len(sent) <= BufSize
    BY <1>1, IntEmpty, BufSizeAssumption
  <1> QED
    BY <1>1, <1>2, IntEmpty DEF IInv, FitsOrRefused

\* A request that is sent fits, and one that is refused would have filled the buffer.
LEMMA SendsStep ==
  ASSUME IInv, NEW p \in Requests, Sends(p)
  PROVE  IInv'
  <1>1. Request(p)
    BY RequestsAssumption DEF Request
  <1>2. asked' = p /\ sent' = Serialize(p) /\ readbuf' = readbuf
    BY DEF Sends
  <1>3. /\ Len(sent') <= BufSize
        /\ sent' = <<>> => 1 + Digits(Len(Body(asked'))) + Len(Body(asked')) >= BufSize
    BY <1>1, <1>2, RequestFits
  <1> QED
    BY <1>2, <1>3, Zenon DEF IInv, FitsOrRefused

\* An answer is ten bytes or nothing.
LEMMA ReceivesStep ==
  ASSUME IInv, NEW q \in Incoming, Receives(q)
  PROVE  IInv'
  <1> DEFINE f == <<FirstByte(q)>>
             e == Encode(Len(Rest(q)))
             r == Rest(q)
             bytes == f \o e \o r
             old == SubSeq(readbuf, Len(bytes) + 1, Len(readbuf))
  <1>1. readbuf' = bytes \o old /\ asked' = Due(q) /\ sent' = Answers(readbuf')
    BY DEF Receives
  <1>2. f \in Seq(Int) /\ Len(f) = 1 /\ f[1] = FirstByte(q)
    BY FirstByteTells
  <1>3. r \in Seq(Int) /\ Len(r) \in Nat
    BY RestIsInts, IntLen
  <1>4. e \in Seq(Int) /\ Len(e) \in Nat
    BY <1>3, EncodeLength, IntLen
  <1> HIDE DEF f, e, r
  <1>5. bytes \in Seq(Int) /\ Len(bytes) = Len(f) + Len(e) + Len(r)
    BY <1>2, <1>3, <1>4, IntConcat3, Zenon
  <1>6. bytes[1] = FirstByte(q)
    <2>1. f \o e \in Seq(Int) /\ Len(f \o e) = Len(f) + Len(e) /\ (f \o e)[1] = f[1]
      <3>1. 1 \in 1 .. Len(f) + Len(e) /\ 1 <= Len(f)
        BY <1>2, <1>4
      <3> QED
        BY <1>2, <1>4, <3>1, ConcatProperties, Zenon
    <2>2. ((f \o e) \o r)[1] = (f \o e)[1]
      BY <1>2, <1>3, <1>4, <2>1, ConcatProperties
    <2> QED
      BY <1>2, <2>1, <2>2
  <1> HIDE DEF bytes
  <1>7. readbuf \in Seq(Int) /\ Len(readbuf) \in Nat
    BY IntLen DEF IInv
  <1>8. old \in Seq(Int)
    BY <1>2, <1>3, <1>4, <1>5, <1>7
  <1> HIDE DEF old
  <1>9. readbuf' \in Seq(Int) /\ readbuf'[1] = FirstByte(q)
    BY <1>1, <1>2, <1>3, <1>4, <1>5, <1>6, <1>8, ConcatProperties
  <1>10. Type(readbuf') = q.type /\ (q.type = PUBLISH => QoS(readbuf') = q.qos)
    BY <1>9, FirstByteTells DEF Type, QoS
  <1>11. FitsOrRefused'
    <2>1. CASE Answer(readbuf') = NoPacket /\ Due(q) = NoPacket
      <3>1. sent' = <<>> /\ asked' = NoPacket
        BY <1>1, <2>1, Zenon DEF Answers
      <3>2. Len(sent') <= BufSize
        BY <3>1, IntEmpty, BufSizeAssumption
      <3> QED
        BY <3>1, <3>2, Zenon DEF FitsOrRefused
    <2>2. ASSUME NEW t \in {PUBACK, PUBREC, PUBREL, PUBCOMP}, NEW id, Answer(readbuf') = Ack(t, id)
          PROVE  FitsOrRefused'
      <3>1. Ack(t, id) # NoPacket
        <4>1. Ack(t, id).type = t /\ NoPacket.type = 0
          BY DEF Ack, NoPacket
        <4> QED
          BY <4>1 DEF PUBACK, PUBREC, PUBREL, PUBCOMP
      <3>2. sent' = Serialize(Ack(t, id))
        BY <1>1, <2>2, <3>1, Zenon DEF Answers
      <3> QED
        BY <3>2, AckFits, Zenon DEF FitsOrRefused
    <2> QED
      BY <1>10, <2>1, <2>2, AnswersWhenDue, Zenon
  <1> QED
    BY <1>9, <1>11 DEF IInv

\* No step disturbs the invariant.
LEMMA CodecStep == IInv /\ [Next]_vars => IInv'
  <1> SUFFICES ASSUME IInv, [Next]_vars PROVE IInv'
    OBVIOUS
  <1>1. ASSUME NEW p \in Requests, Sends(p) PROVE IInv'
    BY <1>1, SendsStep
  <1>2. ASSUME NEW q \in Incoming, Receives(q) PROVE IInv'
    BY <1>2, ReceivesStep
  <1>3. CASE UNCHANGED vars
    BY <1>3, Zenon DEF vars, IInv, FitsOrRefused
  <1> QED
    BY <1>1, <1>2, <1>3, Zenon DEF Next

\* No serialiser the client calls writes past its buffer, and one refuses only a packet
\* that would leave no byte free (MQTTSerialize_*, MQTTPacket_len).  This is so for
\* buffers of every size and for every packet that reaches a serialiser: the parts of
\* an MQTTPublish2 are taken to fit into its pub_buf (Publish2Assumption), which
\* nothing in the code compares with a size.
THEOREM FitsOrRefusedHolds == Spec => []FitsOrRefused
  <1>1. Init => IInv
    BY CodecInit
  <1>2. IInv /\ [Next]_vars => IInv'
    BY CodecStep
  <1>3. IInv => FitsOrRefused
    BY DEF IInv
  <1> QED
    BY <1>1, <1>2, <1>3, PTL DEF Spec

\* How a packet stands in readbuf.
LEMMA ReceivesFrames ==
  ASSUME BufSize <= MaxLength, IInv, NEW q \in Incoming, Receives(q)
  PROVE  LET b == readbuf' IN
         /\ b \in Seq(Int) /\ b[1] = FirstByte(q) /\ Start(b) \in Nat
         /\ End(b) = Start(b) + Len(Rest(q)) /\ Has(b, Start(b), Rest(q))
  <1> DEFINE h == FirstByte(q)
             r == Rest(q)
             bytes == <<h>> \o Encode(Len(r)) \o r
             old == SubSeq(readbuf, Len(bytes) + 1, Len(readbuf))
  <1>1. readbuf' = bytes \o old
    BY DEF Receives
  <1>2. h \in Int /\ r \in Seq(Int)
    BY FirstByteTells, RestIsInts
  <1>3. Len(r) <= MaxLength
    <2>1. Len(r) \in Nat /\ Digits(Len(r)) \in Nat
      BY <1>2, IntLen DEF Digits
    <2>2. 1 + Digits(Len(r)) + Len(r) <= BufSize
      BY IncomingAssumption, Zenon
    <2> HIDE DEF r
    <2> QED
      BY <2>1, <2>2, BufSizeAssumption DEF MaxLength
  <1>4. old \in Seq(Int)
    <2>1. <<h>> \in Seq(Int) /\ Encode(Len(r)) \in Seq(Int)
      BY <1>2, IntLen, IntOne, EncodeLength
    <2>2. bytes \in Seq(Int)
      BY <1>2, <2>1, IntConcat3, Zenon
    <2> HIDE DEF bytes
    <2>3. Len(bytes) \in Nat /\ readbuf \in Seq(Int) /\ Len(readbuf) \in Nat
      BY <2>2, IntLen DEF IInv
    <2> QED
      BY <2>3
  <1> HIDE DEF old
  <1>5. LET b == bytes \o old IN
        /\ b \in Seq(Int) /\ b[1] = h /\ Start(b) \in Nat
        /\ End(b) = Start(b) + Len(r) /\ Has(b, Start(b), r)
    BY <1>2, <1>3, <1>4, Framed, Zenon
  <1> QED
    BY <1>1, <1>5, Zenon

\* What the broker makes of what the client sends.
LEMMA SentStep ==
  ASSUME BufSize \in Word16, IInv, SentIsAsked, [Next]_vars
  PROVE  SentIsAsked'
  <1>1. ASSUME NEW p \in Requests, Sends(p) PROVE SentIsAsked'
    <2>1. asked' = p /\ sent' = Serialize(p)
      BY <1>1 DEF Sends
    <2>2. Request(p)
      BY RequestsAssumption DEF Request
    <2> QED
      BY <2>1, <2>2, RequestIsRead, Zenon DEF SentIsAsked
  <1>2. ASSUME NEW q \in Incoming, Receives(q) PROVE SentIsAsked'
    <2>1. asked' = Due(q) /\ sent' = Answers(readbuf')
      BY <1>2 DEF Receives
    <2>2. BufSize <= MaxLength
      BY BufSizeAssumption DEF Word16, MaxLength
    <2>3. \/ Answer(readbuf') = NoPacket
          \/ \E t \in {PUBACK, PUBREC, PUBREL, PUBCOMP} : \E id \in PacketId :
               Answer(readbuf') = Ack(t, id) /\ Due(q) = Ack(t, id)
      BY <1>2, <2>2, ReceivesFrames, AnswerIsDue, Zenon
    <2>4. CASE Answer(readbuf') = NoPacket
      BY <2>1, <2>4, Zenon DEF Answers, SentIsAsked
    <2>5. ASSUME NEW t \in {PUBACK, PUBREC, PUBREL, PUBCOMP}, NEW id \in PacketId,
                 Answer(readbuf') = Ack(t, id), Due(q) = Ack(t, id)
          PROVE  SentIsAsked'
      <3>1. Ack(t, id) # NoPacket
        <4>1. Ack(t, id).type = t /\ NoPacket.type = 0
          BY DEF Ack, NoPacket
        <4> QED
          BY <4>1 DEF PUBACK, PUBREC, PUBREL, PUBCOMP
      <3>2. sent' = Serialize(Ack(t, id)) /\ asked' = Ack(t, id)
        BY <2>1, <2>5, <3>1, Zenon DEF Answers
      <3> QED
        BY <3>2, AckIsRead, Zenon DEF SentIsAsked
    <2> QED
      BY <2>3, <2>4, <2>5, Zenon
  <1>3. CASE UNCHANGED vars
    BY <1>3, Zenon DEF vars, SentIsAsked
  <1> QED
    BY <1>1, <1>2, <1>3, Zenon DEF Next

\* What the client makes of what the broker sends.
LEMMA LearntStep ==
  ASSUME BufSize <= MaxLength, IInv, LearntIsMeant, [Next]_vars
  PROVE  LearntIsMeant'
  <1>1. ASSUME NEW p \in Requests, Sends(p) PROVE LearntIsMeant'
    BY <1>1, Zenon DEF Sends, LearntIsMeant
  <1>2. ASSUME NEW q \in Incoming, Receives(q) PROVE LearntIsMeant'
    <2>1. came' = q /\ learnt' = Learns(readbuf')
      BY <1>2 DEF Receives
    <2>2. Learns(readbuf') = Means(q)
      BY <1>2, ReceivesFrames, LearnsMeans, Zenon
    <2> QED
      BY <2>1, <2>2, Zenon DEF LearntIsMeant
  <1>3. CASE UNCHANGED vars
    BY <1>3, Zenon DEF vars, LearntIsMeant
  <1> QED
    BY <1>1, <1>2, <1>3, Zenon DEF Next

\* Whatever is sent, the broker reads as the packet that was asked for: every string
\* of any length, every option, flag and identifier comes back, and the packet ends where
\* it says.  An acknowledgement carries the identifier out of readbuf (MQTTSerialize_*,
\* cycle()).  The buffers have 200 bytes; beyond 16 bits the length of an
\* extended command's parts would be cut off.
THEOREM SentIsAskedHolds ==
  ASSUME BufSize \in Word16
  PROVE  Spec => []SentIsAsked
  <1>1. Init => IInv /\ SentIsAsked
    BY CodecInit, Zenon DEF Init, SentIsAsked
  <1>2. IInv /\ SentIsAsked /\ [Next]_vars => IInv' /\ SentIsAsked'
    BY CodecStep, SentStep
  <1> QED
    BY <1>1, <1>2, PTL DEF Spec

\* Whatever the broker sends, and whatever longer packets left in readbuf, the client
\* learns topic, payload, identifier, flags, codes and status as they were sent
\* (MQTTDeserialize_*).  The buffer is no larger than a length that can be encoded.
THEOREM LearntIsMeantHolds ==
  ASSUME BufSize <= MaxLength
  PROVE  Spec => []LearntIsMeant
  <1>1. Init => IInv /\ LearntIsMeant
    BY CodecInit, Zenon DEF Init, LearntIsMeant
  <1>2. IInv /\ LearntIsMeant /\ [Next]_vars => IInv' /\ LearntIsMeant'
    BY CodecStep, LearntStep
  <1> QED
    BY <1>1, <1>2, PTL DEF Spec
=============================================================================
