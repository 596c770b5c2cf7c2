-------------------------- MODULE MqttFramingProofs --------------------------
(***************************************************************************)
(* Proofs about MqttFraming for packets of every length that four digits   *)
(* can hold, digits to every base, and any number of packets, connections  *)
(* and cut-off reads.                                                      *)
(***************************************************************************)
EXTENDS MqttFraming, SequenceTheorems, TLAPS

\* The weights of the digits.
LEMMA Weights ==
  /\ Weight[1] = 1
  /\ \A i \in 1 .. 4 : Weight[i] \in Nat /\ Weight[i] >= 1
  /\ \A i \in 1 .. 3 : Weight[i + 1] = Weight[i] * Base
  <1>1. Base \in Nat /\ Base > 1
    BY BaseAssumption
  <1> DEFINE w2 == Base * Base
             w3 == Base * Base * Base
  <1>2. w2 \in Nat /\ w2 >= 1
    BY <1>1
  <1>3. w3 = w2 * Base
    OBVIOUS
  <1>4. w3 \in Nat /\ w3 >= 1
    <2> HIDE DEF w2, w3
    <2> QED
      BY <1>1, <1>2, <1>3
  <1>5. Weight = <<1, Base, w2, w3>>
    BY DEF Weight
  <1> HIDE DEF w2, w3
  <1>6. Weight[1] = 1 /\ Weight[2] = Base /\ Weight[3] = w2 /\ Weight[4] = w3
    BY <1>5
  <1>7. Weight[2] = Weight[1] * Base /\ Weight[3] = Weight[2] * Base /\ Weight[4] = Weight[3] * Base
    BY <1>1, <1>3, <1>6 DEF w2
  <1> QED
    BY <1>1, <1>2, <1>4, <1>6, <1>7

\* Division with remainder,
LEMMA Divides ==
  ASSUME NEW M \in Nat, M > 0, NEW n \in Nat
  PROVE  /\ n = M * (n \div M) + (n % M)
         /\ n \div M \in Nat /\ n % M \in Nat /\ n % M < M
  BY SMT

\* which has but one result.
LEMMA OneRemainder ==
  ASSUME NEW D \in Nat, D > 0, NEW u \in Nat, NEW w \in Nat, w < D, NEW n \in Nat, n = D * u + w
  PROVE  n % D = w
  <1> DEFINE q == n \div D
             r == n % D
  <1>1. n = D * q + r /\ q \in Nat /\ r \in Nat /\ r < D
    BY Divides
  <1> HIDE DEF q, r
  <1>2. CASE q < u
    <2>1. q + 1 <= u
      BY <1>1, <1>2
    <2>2. D * (q + 1) <= D * u
      BY <1>1, <2>1
    <2>3. D * (q + 1) = D * q + D
      BY <1>1
    <2>4. D * q \in Nat /\ D * u \in Nat
      BY <1>1
    <2> QED
      BY <1>1, <2>2, <2>3, <2>4
  <1>3. CASE u < q
    <2>1. u + 1 <= q
      BY <1>1, <1>3
    <2>2. D * (u + 1) <= D * q
      BY <1>1, <2>1
    <2>3. D * (u + 1) = D * u + D
      OBVIOUS
    <2>4. D * q \in Nat /\ D * u \in Nat
      BY <1>1
    <2> QED
      BY <1>1, <2>2, <2>3, <2>4
  <1>4. CASE u = q
    BY <1>1, <1>4 DEF r
  <1> QED
    BY <1>1, <1>2, <1>3, <1>4

\* One digit more.
LEMMA OneDigitMore ==
  ASSUME NEW M \in Nat, M > 0, NEW n \in Nat
  PROVE  n % (M * Base) = (n % M) + ((n \div M) % Base) * M
  <1> DEFINE q == n \div M
             r == n % M
             u == q \div Base
             v == q % Base
  <1>1. Base \in Nat /\ Base > 0
    BY BaseAssumption
  <1>2. n = M * q + r /\ q \in Nat /\ r \in Nat /\ r < M
    BY Divides
  <1> HIDE DEF q, r
  <1>3. q = Base * u + v /\ u \in Nat /\ v \in Nat /\ v < Base
    BY <1>1, <1>2, Divides
  <1> HIDE DEF u, v
  <1> DEFINE D == M * Base
             w == r + v * M
  <1>4. D \in Nat /\ D > 0
    BY <1>1
  <1>5. w \in Nat /\ w < D
    <2>1. v + 1 <= Base
      BY <1>1, <1>3
    <2>2. (v + 1) * M <= Base * M
      BY <1>1, <1>3, <2>1
    <2>3. (v + 1) * M = v * M + M /\ v * M \in Nat
      BY <1>3
    <2>4. Base * M = M * Base /\ M * Base \in Nat
      BY <1>1
    <2> DEFINE a == v * M
               c == M * Base
    <2>5. a + M <= c /\ a \in Nat /\ c \in Nat
      BY <2>2, <2>3, <2>4, Zenon
    <2> HIDE DEF a, c
    <2>6. r + a \in Nat /\ r + a < c
      BY <1>2, <2>5
    <2> QED
      BY <2>6, Zenon DEF a, c
  <1>6. n = D * u + w
    <2>1. M * q = M * (Base * u + v)
      BY <1>3
    <2>2. M * (Base * u + v) = (M * Base) * u + v * M
      <3>1. M * (Base * u + v) = M * (Base * u) + M * v
        BY <1>1, <1>3
      <3>2. M * (Base * u) = (M * Base) * u
        BY <1>1, <1>3
      <3>3. M * v = v * M
        BY <1>3
      <3> QED
        BY <3>1, <3>2, <3>3, Zenon
    <2> QED
      BY <1>1, <1>2, <1>3, <2>1, <2>2
  <1> HIDE DEF D, w
  <1>7. n % D = w
    BY <1>3, <1>4, <1>5, <1>6, OneRemainder
  <1> QED
    BY <1>7 DEF D, w, v, q, r

\* Enough digits for the length, and no more than four.
LEMMA DigitsSuffice ==
  ASSUME NEW n \in Nat, n < Base * Weight[4]
  PROVE  NumDigits(n) \in 1 .. 4 /\ n < Weight[NumDigits(n)] * Base
  <1> DEFINE w2 == Weight[2]
             w3 == Weight[3]
             w4 == Weight[4]
             d  == NumDigits(n)
  <1>1. /\ w2 = Weight[1] * Base /\ w3 = w2 * Base /\ w4 = w3 * Base
        /\ w4 \in Nat /\ Base \in Nat
    BY Weights, BaseAssumption
  <1>2. w4 * Base = Base * w4
    BY <1>1
  <1>3. /\ n < w2 => d = 1
        /\ ~(n < w2) /\ n < w3 => d = 2
        /\ ~(n < w2) /\ ~(n < w3) /\ n < w4 => d = 3
        /\ ~(n < w2) /\ ~(n < w3) /\ ~(n < w4) => d = 4
    BY DEF NumDigits
  <1>4. CASE n < w2
    <2>1. d = 1
      BY <1>3, <1>4, Zenon
    <2>2. n < Weight[1] * Base
      BY <1>1, <1>4, Zenon
    <2>3. d \in 1 .. 4
      <3> HIDE DEF d
      <3> QED
        BY <2>1
    <2> QED
      BY <2>1, <2>2, <2>3, Zenon
  <1>5. CASE ~(n < w2) /\ n < w3
    <2>1. d = 2
      BY <1>3, <1>5, Zenon
    <2>2. n < Weight[2] * Base
      BY <1>1, <1>5, Zenon
    <2>3. d \in 1 .. 4
      <3> HIDE DEF d
      <3> QED
        BY <2>1
    <2> QED
      BY <2>1, <2>2, <2>3, Zenon
  <1>6. CASE ~(n < w2) /\ ~(n < w3) /\ n < w4
    <2>1. d = 3
      BY <1>3, <1>6, Zenon
    <2>2. n < Weight[3] * Base
      BY <1>1, <1>6, Zenon
    <2>3. d \in 1 .. 4
      <3> HIDE DEF d
      <3> QED
        BY <2>1
    <2> QED
      BY <2>1, <2>2, <2>3, Zenon
  <1>7. CASE ~(n < w2) /\ ~(n < w3) /\ ~(n < w4)
    <2>1. d = 4
      BY <1>3, <1>7, Zenon
    <2>2. n < Weight[4] * Base
      BY <1>2, Zenon
    <2>3. d \in 1 .. 4
      <3> HIDE DEF d
      <3> QED
        BY <2>1
    <2> QED
      BY <2>1, <2>2, <2>3, Zenon
  <1> QED
    BY <1>4, <1>5, <1>6, <1>7, Zenon

\* A digit fits into a byte, marked or not, and tells whether it is the last.
LEMMA DigitIsByte ==
  ASSUME NEW n \in Nat, n < Base * Weight[4], NEW i \in 1 .. NumDigits(n)
  PROVE  /\ Digits(n)[i] \in Byte
         /\ Digits(n)[i] % Base = (n \div Weight[i]) % Base
         /\ Digits(n)[i] < Base <=> i = NumDigits(n)
  <1> DEFINE d == NumDigits(n)
             v == (n \div Weight[i]) % Base
  <1>1. d \in 1 .. 4 /\ i \in 1 .. 4 /\ i <= d
    BY DigitsSuffice
  <1>2. Base \in Nat /\ Base > 1
    BY BaseAssumption
  <1>3. v \in Nat /\ v < Base
    <2>1. Weight[i] \in Nat /\ Weight[i] > 0
      BY <1>1, Weights
    <2>2. n \div Weight[i] \in Nat
      BY <2>1, Divides
    <2> QED
      BY <1>2, <2>2, Divides
  <1>4. Digits(n)[i] = v + (IF i < d THEN Base ELSE 0)
    BY DEF Digits
  <1> HIDE DEF d, v
  <1>5. CASE i < d
    <2>1. Digits(n)[i] = v + Base
      BY <1>4, <1>5
    <2>2. (v + Base) % Base = v
      <3>1. v + Base = Base * 1 + v /\ v + Base \in Nat
        BY <1>2, <1>3
      <3> QED
        BY <1>2, <1>3, <3>1, OneRemainder
    <2>3. v + Base \in Byte /\ ~(v + Base < Base) /\ i # d
      BY <1>2, <1>3, <1>5 DEF Byte
    <2> QED
      BY <2>1, <2>2, <2>3, Zenon DEF v, d
  <1>6. CASE ~(i < d)
    <2>1. Digits(n)[i] = v
      BY <1>3, <1>4, <1>6
    <2>2. v % Base = v
      <3>1. v = Base * 0 + v
        BY <1>2, <1>3
      <3> QED
        BY <1>2, <1>3, <3>1, OneRemainder
    <2>3. v \in Byte /\ i = d
      BY <1>1, <1>2, <1>3, <1>6 DEF Byte
    <2> QED
      BY <1>3, <2>1, <2>2, <2>3, Zenon DEF v, d
  <1> QED
    BY <1>5, <1>6

\* A packet on the wire, byte by byte.
LEMMA PacketBytes ==
  ASSUME NEW p \in Packets
  PROVE  /\ Len(p.body) \in Nat /\ Len(p.body) < Base * Weight[4]
         /\ Bytes(p) \in Seq(Byte) /\ Len(Bytes(p)) = 1 + NumDigits(Len(p.body)) + Len(p.body)
         /\ Bytes(p)[1] = p.type
         /\ \A i \in 1 .. NumDigits(Len(p.body)) : Bytes(p)[1 + i] = Digits(Len(p.body))[i]
         /\ \A j \in 1 .. Len(p.body) : Bytes(p)[1 + NumDigits(Len(p.body)) + j] = p.body[j]
  <1> DEFINE b == p.body
             n == Len(b)
             d == NumDigits(n)
             h == <<p.type>>
             l == Digits(n)
  <1>1. p.type \in Byte /\ b \in Seq(Byte) /\ n < Base * Weight[4]
    BY PacketsAssumption DEF Frame, MAX_NO_OF_REMAINING_LENGTH_BYTES
  <1>2. n \in Nat
    BY <1>1, LenProperties, Zenon
  <1>3. d \in 1 .. 4
    BY <1>1, <1>2, DigitsSuffice, Zenon
  <1>4. l \in Seq(Byte) /\ Len(l) = d
    <2>1. \A i \in 1 .. d : l[i] \in Byte
      BY <1>1, <1>2, DigitIsByte, Zenon
    <2>2. l = [i \in 1 .. d |-> l[i]]
      BY DEF Digits
    <2> HIDE DEF l
    <2>3. l \in [1 .. d -> Byte]
      BY <2>1, <2>2
    <2> HIDE DEF d
    <2> QED
      BY <1>3, <2>3
  <1>5. h \in Seq(Byte) /\ Len(h) = 1 /\ h[1] = p.type
    BY <1>1
  <1>6. Bytes(p) = (h \o l) \o b
    BY DEF Bytes
  <1> DEFINE f == h \o l
  <1> HIDE DEF b, n, d, h, l
  <1>7. f \in Seq(Byte) /\ Len(f) = 1 + d /\ f[1] = p.type /\ \A i \in 1 .. d : f[1 + i] = l[i]
    <2>1. /\ f \in Seq(Byte) /\ Len(f) = Len(h) + Len(l)
          /\ \A i \in 1 .. Len(h) + Len(l) : f[i] = IF i <= Len(h) THEN h[i] ELSE l[i - Len(h)]
      BY <1>4, <1>5, ConcatProperties, Zenon
    <2> HIDE DEF f
    <2>2. Len(f) = 1 + d /\ \A i \in 1 .. 1 + d : f[i] = IF i <= 1 THEN h[i] ELSE l[i - 1]
      BY <1>4, <1>5, <2>1, Zenon
    <2> QED
      BY <1>3, <1>5, <2>1, <2>2
  <1> HIDE DEF f
  <1>8. /\ f \o b \in Seq(Byte) /\ Len(f \o b) = Len(f) + Len(b)
        /\ \A i \in 1 .. Len(f) + Len(b) : (f \o b)[i] = IF i <= Len(f) THEN f[i] ELSE b[i - Len(f)]
    BY <1>1, <1>7, ConcatProperties, Zenon
  <1> DEFINE g == f \o b
  <1>9. g = Bytes(p)
    BY <1>6, Zenon DEF f
  <1>10. /\ g \in Seq(Byte) /\ Len(g) = (1 + d) + n
         /\ \A i \in 1 .. (1 + d) + n : g[i] = IF i <= 1 + d THEN f[i] ELSE b[i - (1 + d)]
    BY <1>7, <1>8, Zenon DEF n
  <1> HIDE DEF g
  <1>11. g[1] = p.type /\ \A i \in 1 .. d : g[1 + i] = l[i]
    BY <1>2, <1>3, <1>7, <1>10
  <1>12. \A j \in 1 .. n : g[1 + d + j] = b[j]
    BY <1>2, <1>3, <1>10
  <1> QED
    BY <1>1, <1>2, <1>9, <1>10, <1>11, <1>12, Zenon DEF b, n, d, l

\* A byte is gone.
LEMMA CutsTail ==
  ASSUME NEW s \in Seq(Byte), s # <<>>, NEW ps \in Seq(Packets), NEW k \in 0 .. Len(ps), NEW at, Cuts(at, s, ps, k)
  PROVE  \E bt : Cuts(bt, Tail(s), ps, k) /\ bt[k] = at[k] - 1
  <1> DEFINE m == Len(ps)
             t == Tail(s)
             bt == [i \in k .. m |-> at[i] - 1]
  <1>1. m \in Nat /\ k \in Nat /\ k <= m
    BY LenProperties
  <1>2. /\ t \in Seq(Byte) /\ Len(s) \in Nat /\ Len(t) = Len(s) - 1
        /\ \A i \in 1 .. Len(t) : t[i] = s[i + 1]
    BY HeadTailProperties, LenProperties
  <1>3. /\ at \in [k .. m -> Int] /\ at[m] = Len(s)
        /\ \A i \in k .. m : at[i] <= Len(s)
        /\ \A i \in k .. m - 1 :
             /\ at[i + 1] = at[i] + Len(Bytes(ps[i + 1]))
             /\ \A j \in 1 .. Len(Bytes(ps[i + 1])) :
                  at[i] + j >= 1 => s[at[i] + j] = Bytes(ps[i + 1])[j]
    BY Zenon DEF Cuts
  <1> HIDE DEF t
  <1>4. bt \in [k .. m -> Int] /\ \A i \in k .. m : bt[i] = at[i] - 1 /\ at[i] \in Int
    <2>1. ASSUME NEW i \in k .. m PROVE at[i] \in Int /\ at[i] - 1 \in Int
      <3>1. at[i] \in Int
        BY <1>3, Zenon
      <3> QED
        BY <3>1
    <2> QED
      BY <2>1, Zenon
  <1> HIDE DEF bt
  <1>5. k \in k .. m /\ m \in k .. m
    BY <1>1
  <1>6. bt[m] = Len(t) /\ \A i \in k .. m : bt[i] <= Len(t)
    <2>1. ASSUME NEW i \in k .. m PROVE bt[i] <= Len(t)
      <3>1. bt[i] = at[i] - 1 /\ at[i] \in Int /\ at[i] <= Len(s)
        BY <1>3, <1>4, Zenon
      <3> QED
        BY <1>2, <3>1
    <2>2. bt[m] = at[m] - 1 /\ at[m] = Len(s)
      BY <1>3, <1>4, <1>5, Zenon
    <2>3. bt[m] = Len(t)
      BY <1>2, <2>2
    <2> QED
      BY <2>1, <2>3, Zenon
  <1>7. ASSUME NEW i \in k .. m - 1
        PROVE  /\ bt[i + 1] = bt[i] + Len(Bytes(ps[i + 1]))
               /\ \A j \in 1 .. Len(Bytes(ps[i + 1])) :
                    bt[i] + j >= 1 => t[bt[i] + j] = Bytes(ps[i + 1])[j]
    <2> DEFINE x == Bytes(ps[i + 1])
               a == at[i]
    <2>1. i \in k .. m /\ i + 1 \in k .. m /\ i + 1 \in 1 .. m
      BY <1>1
    <2>2. ps[i + 1] \in Packets
      BY <2>1, ElementOfSeq
    <2>3. x \in Seq(Byte) /\ Len(x) \in Nat
      BY <2>2, PacketBytes, LenProperties
    <2>4. /\ at[i + 1] = a + Len(x) /\ at[i + 1] \in Int /\ a \in Int /\ at[i + 1] <= Len(s)
          /\ \A j \in 1 .. Len(x) : a + j >= 1 => s[a + j] = x[j]
      BY <1>3, <1>4, <2>1
    <2>5. bt[i] = a - 1 /\ bt[i + 1] = at[i + 1] - 1
      BY <1>4, <2>1
    <2> HIDE DEF x, a
    <2>6. bt[i + 1] = bt[i] + Len(x)
      BY <2>3, <2>4, <2>5
    <2>7. ASSUME NEW j \in 1 .. Len(x), bt[i] + j >= 1 PROVE t[bt[i] + j] = x[j]
      <3>1. a + j >= 1 /\ bt[i] + j \in 1 .. Len(t) /\ (bt[i] + j) + 1 = a + j
        BY <1>2, <2>3, <2>4, <2>5, <2>7
      <3>2. s[a + j] = x[j]
        BY <2>4, <3>1, Zenon
      <3>3. t[bt[i] + j] = s[(bt[i] + j) + 1]
        BY <1>2, <3>1, Zenon
      <3> QED
        BY <3>1, <3>2, <3>3, Zenon
    <2> QED
      BY <2>6, <2>7, Zenon DEF x
  <1>8. Cuts(bt, t, ps, k)
    BY <1>4, <1>6, <1>7, Zenon DEF Cuts
  <1>9. bt[k] = at[k] - 1
    BY <1>4, <1>5, Zenon
  <1> QED
    BY <1>8, <1>9, Zenon DEF t

\* A packet is complete.
LEMMA CutsDrop ==
  ASSUME NEW s \in Seq(Byte), NEW ps \in Seq(Packets), NEW k \in 0 .. Len(ps) - 1, NEW at, Cuts(at, s, ps, k)
  PROVE  \E bt : Cuts(bt, s, ps, k + 1) /\ bt[k + 1] = at[k] + Len(Bytes(ps[k + 1]))
  <1> DEFINE m == Len(ps)
             bt == [i \in k + 1 .. m |-> at[i]]
  <1>1. m \in Nat /\ k \in Nat /\ k + 1 <= m
    BY LenProperties
  <1>2. /\ at \in [k .. m -> Int] /\ at[m] = Len(s)
        /\ \A i \in k .. m : at[i] <= Len(s)
        /\ \A i \in k .. m - 1 :
             /\ at[i + 1] = at[i] + Len(Bytes(ps[i + 1]))
             /\ \A j \in 1 .. Len(Bytes(ps[i + 1])) :
                  at[i] + j >= 1 => s[at[i] + j] = Bytes(ps[i + 1])[j]
    BY Zenon DEF Cuts
  <1>3. bt \in [k + 1 .. m -> Int] /\ \A i \in k + 1 .. m : bt[i] = at[i]
    BY <1>1, <1>2
  <1> HIDE DEF bt
  <1>4. k + 1 \in k + 1 .. m /\ m \in k + 1 .. m /\ k \in k .. m - 1
    BY <1>1
  <1>5. /\ \A i \in k + 1 .. m : i \in k .. m
        /\ \A i \in k + 1 .. m - 1 : i \in k .. m - 1 /\ i \in k + 1 .. m /\ i + 1 \in k + 1 .. m
    BY <1>1
  <1>6. bt[m] = Len(s) /\ \A i \in k + 1 .. m : bt[i] <= Len(s)
    BY <1>2, <1>3, <1>4, <1>5, Zenon
  <1>7. ASSUME NEW i \in k + 1 .. m - 1
        PROVE  /\ bt[i + 1] = bt[i] + Len(Bytes(ps[i + 1]))
               /\ \A j \in 1 .. Len(Bytes(ps[i + 1])) :
                    bt[i] + j >= 1 => s[bt[i] + j] = Bytes(ps[i + 1])[j]
    <2>1. bt[i] = at[i] /\ bt[i + 1] = at[i + 1] /\ i \in k .. m - 1
      BY <1>3, <1>5, Zenon
    <2> QED
      BY <1>2, <2>1, Zenon
  <1>8. Cuts(bt, s, ps, k + 1)
    BY <1>3, <1>6, <1>7, Zenon DEF Cuts
  <1>9. bt[k + 1] = at[k] + Len(Bytes(ps[k + 1]))
    BY <1>2, <1>3, <1>4, Zenon
  <1> QED
    BY <1>8, <1>9, Zenon

\* A packet is sent.
LEMMA CutsAppend ==
  ASSUME NEW s \in Seq(Byte), NEW ps \in Seq(Packets), NEW k \in 0 .. Len(ps), NEW at, Cuts(at, s, ps, k),
         NEW p \in Packets
  PROVE  \E bt : Cuts(bt, s \o Bytes(p), Append(ps, p), k) /\ bt[k] = at[k]
  <1> DEFINE m == Len(ps)
             x == Bytes(p)
             t == s \o x
             qs == Append(ps, p)
             bt == [i \in k .. m + 1 |-> IF i <= m THEN at[i] ELSE Len(t)]
  <1>1. m \in Nat /\ k \in Nat /\ k <= m /\ Len(s) \in Nat
    BY LenProperties
  <1>2. x \in Seq(Byte) /\ Len(x) \in Nat
    BY PacketBytes, LenProperties
  <1>3. /\ t \in Seq(Byte) /\ Len(t) = Len(s) + Len(x)
        /\ \A i \in 1 .. Len(s) + Len(x) : t[i] = IF i <= Len(s) THEN s[i] ELSE x[i - Len(s)]
    BY <1>2, ConcatProperties, Zenon
  <1>4. Len(qs) = m + 1 /\ qs[m + 1] = p /\ \A i \in 1 .. m : qs[i] = ps[i]
    <2>1. Len(Append(ps, p)) = Len(ps) + 1
      BY SMT
    <2>2. Append(ps, p)[Len(ps) + 1] = p
      BY SMT
    <2>3. \A i \in 1 .. Len(ps) : Append(ps, p)[i] = ps[i]
      BY SMT
    <2> QED
      BY <2>1, <2>2, <2>3, Zenon
  <1>5. /\ at \in [k .. m -> Int] /\ at[m] = Len(s)
        /\ \A i \in k .. m : at[i] <= Len(s)
        /\ \A i \in k .. m - 1 :
             /\ at[i + 1] = at[i] + Len(Bytes(ps[i + 1]))
             /\ \A j \in 1 .. Len(Bytes(ps[i + 1])) :
                  at[i] + j >= 1 => s[at[i] + j] = Bytes(ps[i + 1])[j]
    BY Zenon DEF Cuts
  <1> HIDE DEF x, t, qs
  <1> DEFINE n == Len(t)
  <1>6. n \in Int /\ Len(s) <= n
    BY <1>1, <1>2, <1>3
  <1>7. \A i \in k .. m : at[i] \in Int
    BY <1>5, Zenon
  <1>8. \A i \in k .. m + 1 : i \in Int /\ (i <= m => i \in k .. m) /\ (~ i <= m => i = m + 1)
    BY <1>1
  <1>9. m + 1 \in k .. m + 1 /\ ~ m + 1 <= m /\ \A i \in k .. m : i \in k .. m + 1 /\ i <= m
    BY <1>1
  <1>10. /\ bt \in [k .. m + 1 -> Int] /\ bt[m + 1] = n
        /\ \A i \in k .. m : bt[i] = at[i] /\ at[i] \in Int
    <2> HIDE DEF n
    <2>1. \A i \in k .. m + 1 : bt[i] = IF i <= m THEN at[i] ELSE n
      BY Zenon DEF n
    <2>2. bt \in [k .. m + 1 -> Int]
      <3> SUFFICES ASSUME NEW i \in k .. m + 1 PROVE (IF i <= m THEN at[i] ELSE n) \in Int
        BY Zenon DEF n
      <3> QED
        BY <1>6, <1>7, <1>8, Zenon
    <2>3. bt[m + 1] = n
      BY <2>1, <1>9, Zenon
    <2>4. \A i \in k .. m : bt[i] = at[i]
      BY <2>1, <1>9, Zenon
    <2> QED
      BY <1>7, <2>2, <2>3, <2>4, Zenon
  <1> HIDE DEF bt
  <1>11. k \in k .. m /\ m \in k .. m
    BY <1>1
  <1>12. \A i \in k .. m + 1 : bt[i] <= n
    <2> SUFFICES ASSUME NEW i \in k .. m + 1 PROVE bt[i] <= n
      OBVIOUS
    <2> HIDE DEF n
    <2>1. CASE i <= m
      <3>1. bt[i] = at[i] /\ at[i] \in Int /\ at[i] <= Len(s)
        BY <1>5, <1>10, <1>8, <2>1, Zenon
      <3> QED
        BY <1>1, <1>6, <3>1
    <2>2. CASE ~ i <= m
      <3>1. bt[i] = n
        BY <1>10, <1>8, <2>2, Zenon
      <3> QED
        BY <1>6, <3>1
    <2> QED
      BY <2>1, <2>2
  <1>13. ASSUME NEW i \in k .. m
        PROVE  /\ bt[i + 1] = bt[i] + Len(Bytes(qs[i + 1]))
               /\ \A j \in 1 .. Len(Bytes(qs[i + 1])) :
                    bt[i] + j >= 1 => t[bt[i] + j] = Bytes(qs[i + 1])[j]
    <2>1. CASE i = m
      <3>1. qs[i + 1] = p /\ bt[i] = Len(s) /\ bt[i + 1] = Len(t)
        BY <1>4, <1>5, <1>10, <1>11, <2>1, Zenon
      <3>2. bt[i + 1] = bt[i] + Len(x)
        BY <1>3, <3>1, Zenon
      <3>3. ASSUME NEW j \in 1 .. Len(x) PROVE t[Len(s) + j] = x[j]
        <4>1. Len(s) + j \in 1 .. Len(s) + Len(x) /\ ~ Len(s) + j <= Len(s) /\ Len(s) + j - Len(s) = j
          BY <1>1, <1>2
        <4> DEFINE e == Len(s) + j
        <4>2. e \in 1 .. Len(s) + Len(x) /\ ~ e <= Len(s) /\ e - Len(s) = j
          BY <4>1
        <4> HIDE DEF e
        <4>3. t[e] = IF e <= Len(s) THEN s[e] ELSE x[e - Len(s)]
          BY <1>3, <4>2, Zenon
        <4>4. t[e] = x[j]
          BY <4>2, <4>3, Zenon
        <4> QED
          BY <4>4, Zenon DEF e
      <3> QED
        BY <3>1, <3>2, <3>3, Zenon DEF x
    <2>2. CASE i # m
      <3> DEFINE y == Bytes(ps[i + 1])
                 a == at[i]
      <3>1. i \in k .. m - 1 /\ i + 1 \in k .. m /\ i + 1 \in 1 .. m
        BY <1>1, <2>2
      <3>2. qs[i + 1] = ps[i + 1] /\ bt[i] = a /\ bt[i + 1] = at[i + 1] /\ a \in Int
        BY <1>4, <1>10, <3>1, Zenon
      <3>3. /\ at[i + 1] = a + Len(y) /\ at[i + 1] <= Len(s)
            /\ \A j \in 1 .. Len(y) : a + j >= 1 => s[a + j] = y[j]
        BY <1>5, <3>1, Zenon
      <3>4. ps[i + 1] \in Packets
        BY <3>1, ElementOfSeq
      <3>5. y \in Seq(Byte) /\ Len(y) \in Nat
        BY <3>4, PacketBytes, LenProperties
      <3> HIDE DEF y, a
      <3>6. ASSUME NEW j \in 1 .. Len(y), a + j >= 1 PROVE t[a + j] = y[j]
        <4>1. a + j \in 1 .. Len(s) + Len(x) /\ a + j <= Len(s)
          BY <1>1, <1>2, <3>2, <3>3, <3>5, <3>6
        <4>2. t[a + j] = s[a + j]
          BY <1>3, <4>1, Zenon
        <4> QED
          BY <3>3, <3>6, <4>2, Zenon
      <3> QED
        BY <3>2, <3>3, <3>6, Zenon DEF y
    <2> QED
      BY <2>1, <2>2
  <1>14. Len(qs) - 1 = m
    BY <1>1, <1>4
  <1>15. Cuts(bt, t, qs, k)
    BY <1>4, <1>10, <1>12, <1>13, <1>14, Zenon DEF Cuts
  <1>16. bt[k] = at[k]
    BY <1>10, <1>11, Zenon
  <1> QED
    BY <1>15, <1>16, Zenon DEF t, x, qs

\* The next byte is the next one of the packet that is being read.
LEMMA CutsNext ==
  ASSUME NEW s \in Seq(Byte), s # <<>>, NEW ps \in Seq(Packets), NEW k \in 0 .. Len(ps) - 1, NEW at,
         Cuts(at, s, ps, k), NEW n \in Nat, at[k] = 0 - n, n < Len(Bytes(ps[k + 1]))
  PROVE  Head(s) = Bytes(ps[k + 1])[1 + n]
  <1> DEFINE x == Bytes(ps[k + 1])
  <1>1. k \in k .. Len(ps) - 1 /\ k + 1 \in 1 .. Len(ps)
    BY LenProperties
  <1>2. ps[k + 1] \in Packets
    BY <1>1, ElementOfSeq
  <1>3. Len(x) \in Nat
    BY <1>2, PacketBytes, LenProperties
  <1>4. \A j \in 1 .. Len(x) : at[k] + j >= 1 => s[at[k] + j] = x[j]
    BY <1>1, Zenon DEF Cuts
  <1> HIDE DEF x
  <1>5. 1 + n \in 1 .. Len(x) /\ at[k] + (1 + n) = 1
    BY <1>3 DEF x
  <1>6. s[1] = x[1 + n]
    <2>1. at[k] + (1 + n) >= 1
      BY <1>5
    <2> QED
      BY <1>4, <1>5, <2>1, Zenon
  <1>7. Head(s) = s[1]
    OBVIOUS
  <1> QED
    BY <1>6, <1>7, Zenon DEF x

\* One more digit is read.
LEMMA LengthBound ==
  ASSUME NEW d \in 0 .. 3, NEW r \in Nat, r < Weight[d + 1], NEW b \in Byte
  PROVE  /\ r + (b % Base) * Weight[d + 1] \in 0 .. Base * Weight[4] - 1
         /\ d + 1 # 4 => d + 1 \in 0 .. 3 /\ r + (b % Base) * Weight[d + 1] < Weight[d + 1 + 1]
  <1> DEFINE w == Weight[d + 1]
             v == b % Base
             w4 == Weight[4]
             n == r + v * w
  <1>1. Base \in Nat /\ Base > 1
    BY BaseAssumption
  <1>2. v \in Nat /\ v <= Base - 1
    BY <1>1 DEF Byte
  <1>3. w \in Nat /\ w >= 1 /\ w4 \in Nat /\ w4 >= 1
    BY Weights
  <1>4. d + 1 # 4 => d + 1 \in 0 .. 3 /\ d + 1 \in 1 .. 3 /\ Weight[d + 1 + 1] = w * Base
    BY Weights
  <1>5. w <= w4
    <2>1. /\ Weight[2] = Weight[1] * Base /\ Weight[3] = Weight[2] * Base /\ Weight[4] = Weight[3] * Base
          /\ Weight[1] \in Nat /\ Weight[2] \in Nat /\ Weight[3] \in Nat /\ Weight[4] \in Nat
      BY Weights
    <2>2. ASSUME NEW x \in Nat PROVE x <= x * Base
      BY <1>1
    <2>3. Weight[1] <= Weight[2] /\ Weight[2] <= Weight[3] /\ Weight[3] <= Weight[4]
      BY <2>1, <2>2, Zenon
    <2>4. d = 0 \/ d = 1 \/ d = 2 \/ d = 3
      OBVIOUS
    <2> DEFINE x1 == Weight[1]
               x2 == Weight[2]
               x3 == Weight[3]
    <2>5. w = x1 \/ w = x2 \/ w = x3 \/ w = w4
      BY <2>4
    <2> HIDE DEF x1, x2, x3, w, w4
    <2> QED
      BY <2>1, <2>3, <2>5 DEF x1, x2, x3, w4
  <1>6. r < w
    OBVIOUS
  <1> HIDE DEF w, v, w4
  <1>7. v * w <= (Base - 1) * w /\ v * w \in Nat
    BY <1>1, <1>2, <1>3
  <1>8. (Base - 1) * w = w * Base - w
    BY <1>1, <1>3
  <1>9. w * Base <= Base * w4 /\ w * Base \in Nat /\ Base * w4 \in Nat
    BY <1>1, <1>3, <1>5
  <1> DEFINE wb == w * Base
             vw == v * w
             b4 == Base * w4
  <1>10. vw <= wb - w /\ vw \in Nat
    BY <1>1, <1>3, <1>7, <1>8, <1>9
  <1>11. wb \in Nat /\ b4 \in Nat /\ wb <= b4
    BY <1>9
  <1> HIDE DEF wb, vw, b4
  <1>12. r + vw \in 0 .. b4 - 1 /\ r + vw < wb
    BY <1>3, <1>6, <1>10, <1>11
  <1>13. n \in 0 .. b4 - 1 /\ n < wb
    BY <1>12 DEF vw
  <1> QED
    BY <1>4, <1>13 DEF wb, b4, w, w4, v

\* The reader's counts at the start, and after each step: first what holds whether or not
\* a read was cut off.
LEMMA RegularInit == Init => Regular
  <1> SUFFICES ASSUME Init PROVE Regular
    OBVIOUS
  <1>1. Weight[1] = 1 /\ Weight[4] \in Nat /\ Weight[4] >= 1 /\ Base \in Nat /\ Base > 1
    BY Weights, BaseAssumption
  <1>2. Base * Weight[4] >= 1 /\ Base * Weight[4] \in Nat
    BY <1>1
  <1>3. /\ stream = <<>> /\ sent = <<>> /\ received = <<>>
        /\ stage = "header" /\ type = 0 /\ rem_len = 0 /\ digits = 0 /\ got = 0 /\ body = <<>>
        /\ clean \in BOOLEAN
    BY Zenon DEF Init
  <1> DEFINE top == Base * Weight[4]
  <1>4. 0 \in Byte /\ 0 \in 0 .. top - 1 /\ 0 \in 0 .. 3 /\ 0 \in 0 .. 0
    <2>1. 0 \in Byte
      BY <1>1 DEF Byte
    <2> HIDE DEF top
    <2> QED
      BY <1>2, <2>1 DEF top
  <1>5. /\ stream \in Seq(Byte) /\ body \in Seq(Byte) /\ sent \in Seq(Packets) /\ received \in Seq(Frame)
    BY <1>3
  <1> HIDE DEF top
  <1>6. TypeOK
    BY <1>3, <1>4, <1>5, Zenon DEF TypeOK, top
  <1>7. ReaderInv
    BY <1>3 DEF ReaderInv
  <1> QED
    BY <1>5, <1>6, <1>7, Zenon DEF Regular

\* The reader at the start of a packet.
LEMMA FreshIsRegular ==
  ASSUME Fresh, stream' \in Seq(Byte), sent' \in Seq(Packets), received' \in Seq(Frame), clean' \in BOOLEAN
  PROVE  Regular'
  <1>1. Weight[4] \in Nat /\ Weight[4] >= 1 /\ Base \in Nat /\ Base > 1
    BY Weights, BaseAssumption
  <1> DEFINE top == Base * Weight[4]
  <1>2. top >= 1 /\ top \in Nat
    BY <1>1
  <1>3. stage' = "header" /\ type' = 0 /\ rem_len' = 0 /\ digits' = 0 /\ got' = 0 /\ body' = <<>>
    BY Zenon DEF Fresh
  <1>4. 0 \in Byte
    BY <1>1 DEF Byte
  <1> HIDE DEF top
  <1>5. 0 \in 0 .. top - 1 /\ 0 \in 0 .. 3 /\ 0 \in 0 .. 0 /\ <<>> \in Seq(Byte)
    BY <1>2
  <1>6. TypeOK'
    BY <1>3, <1>4, <1>5, Zenon DEF TypeOK, top
  <1>7. ReaderInv'
    BY <1>3 DEF ReaderInv
  <1> QED
    BY <1>6, <1>7, Zenon DEF Regular

\* A byte is taken.
LEMMA TakesTyped ==
  ASSUME stream \in Seq(Byte), NEW b, Takes(b)
  PROVE  stream # <<>> /\ b = Head(stream) /\ b \in Byte /\ stream' = Tail(stream) /\ stream' \in Seq(Byte)
  BY HeadTailProperties DEF Takes

\* A packet is returned.
LEMMA ReturnsTyped ==
  ASSUME Regular, NEW t \in Byte, NEW b \in Seq(Byte), Returns(t, b), stream' \in Seq(Byte), UNCHANGED <<sent, clean>>
  PROVE  Regular'
  <1>1. sent' \in Seq(Packets) /\ clean' \in BOOLEAN /\ received \in Seq(Frame)
    BY DEF Regular, TypeOK
  <1>2. [type |-> t, body |-> b] \in Frame
    BY DEF Frame
  <1>3. Append(received, [type |-> t, body |-> b]) \in Seq(Frame)
    BY <1>1, <1>2, AppendProperties, Zenon
  <1>4. received' \in Seq(Frame) /\ Fresh
    BY <1>1, <1>3 DEF Returns
  <1> QED
    BY <1>1, <1>4, FreshIsRegular, Zenon

\* The rest of a packet is due.
LEMMA ReadRestTyped ==
  ASSUME Regular, stage = "length", NEW n \in 0 .. Base * Weight[4] - 1, ReadRest(n),
         stream' \in Seq(Byte), UNCHANGED sent, clean' \in BOOLEAN
  PROVE  Regular'
  <1> DEFINE top == Base * Weight[4]
  <1> HIDE DEF top
  <1>0. /\ type \in Byte /\ digits \in 0 .. 3 /\ got = 0 /\ body = <<>> /\ body \in Seq(Byte)
        /\ sent \in Seq(Packets) /\ received \in Seq(Frame)
    BY Zenon DEF Regular, TypeOK, ReaderInv
  <1>1. CASE n = 0
    <2>1. Returns(type, <<>>)
      BY <1>1, Zenon DEF ReadRest
    <2>2. [type |-> type, body |-> <<>>] \in Frame
      BY <1>0 DEF Frame
    <2>3. Append(received, [type |-> type, body |-> <<>>]) \in Seq(Frame)
      BY <1>0, <2>2, AppendProperties, Zenon
    <2>4. received' \in Seq(Frame) /\ Fresh
      BY <1>0, <2>1, <2>3 DEF Returns
    <2>5. sent' \in Seq(Packets)
      BY <1>0
    <2> QED
      BY <2>4, <2>5, FreshIsRegular, Zenon
  <1>2. CASE n # 0
    <2>1. /\ stage' = "body" /\ rem_len' = n
          /\ type' = type /\ digits' = digits /\ got' = got /\ body' = body /\ received' = received
      BY <1>2, Zenon DEF ReadRest
    <2>2. n \in Nat /\ 0 \in 0 .. n /\ 0 < n
      BY <1>2 DEF top
    <2>3. TypeOK'
      <3>1. got' \in 0 .. rem_len' /\ rem_len' \in 0 .. Base * Weight[4] - 1
        BY <1>0, <2>1, <2>2, Zenon
      <3>2. stage' \in {"header", "length", "body"} /\ type' \in Byte /\ digits' \in 0 .. 3 /\ body' \in Seq(Byte)
        BY <1>0, <2>1
      <3> QED
        BY <3>1, <3>2, Zenon DEF TypeOK
    <2>4. ReaderInv'
      <3>1. got' < rem_len'
        BY <1>0, <2>1, <2>2, Zenon
      <3>2. stage' # "header" /\ stage' # "length"
        BY <2>1
      <3> QED
        BY <2>1, <3>1, <3>2, Zenon DEF ReaderInv
    <2> QED
      BY <1>0, <2>1, <2>3, <2>4 DEF Regular
  <1> QED
    BY <1>1, <1>2

\* The broker sends;
LEMMA SendsRegular == ASSUME Regular, NEW p \in Packets, BrokerSends(p) PROVE Regular'
  <1>1. Bytes(p) \in Seq(Byte) /\ stream \in Seq(Byte) /\ sent \in Seq(Packets)
    BY PacketBytes DEF Regular, TypeOK
  <1>2. stream' = stream \o Bytes(p) /\ sent' = Append(sent, p)
    BY Zenon DEF BrokerSends
  <1>3. stream' \in Seq(Byte)
    BY <1>1, <1>2, ConcatProperties, Zenon
  <1>4. sent' \in Seq(Packets)
    BY <1>1, <1>2, AppendProperties, Zenon
  <1>5. /\ stage' = stage /\ type' = type /\ rem_len' = rem_len /\ digits' = digits /\ got' = got
        /\ body' = body /\ received' = received /\ clean' = clean
    BY DEF BrokerSends, reader
  <1>6. TypeOK'
    BY <1>3, <1>5, Zenon DEF Regular, TypeOK
  <1>7. ReaderInv'
    BY <1>5, Zenon DEF Regular, ReaderInv
  <1>8. received' \in Seq(Frame)
    BY <1>5, Zenon DEF Regular
  <1> QED
    BY <1>4, <1>6, <1>7, <1>8, Zenon DEF Regular

\* the reader takes the header byte,
LEMMA HeaderRegular == ASSUME Regular, ReadHeader PROVE Regular'
  <1>1. PICK b \in Byte : Takes(b) /\ type' = b
    BY Zenon DEF ReadHeader
  <1>2. stream' \in Seq(Byte)
    BY <1>1, TakesTyped, Zenon DEF Regular, TypeOK
  <1>3. /\ stage = "header" /\ stage' = "length"
        /\ rem_len' = rem_len /\ digits' = digits /\ got' = got
        /\ body' = body /\ received' = received /\ clean' = clean /\ sent' = sent
    BY DEF ReadHeader
  <1>4. TypeOK'
    <2>1. stage' \in {"header", "length", "body"}
      BY <1>3
    <2> QED
      BY <1>1, <1>2, <1>3, <2>1, Zenon DEF Regular, TypeOK
  <1>5. rem_len = 0 /\ digits = 0 /\ got = 0 /\ body = <<>>
    BY <1>3 DEF Regular, ReaderInv
  <1>6. 0 < Weight[0 + 1]
    BY Weights
  <1>7. ReaderInv'
    <2>1. stage' # "header" /\ stage' # "body"
      BY <1>3
    <2> QED
      BY <1>3, <1>5, <1>6, <2>1, Zenon DEF ReaderInv
  <1> QED
    BY <1>3, <1>4, <1>7, Zenon DEF Regular

\* a byte of the length,
LEMMA LengthRegular == ASSUME Regular, ReadLength PROVE Regular'
  <1>1. PICK b \in Byte :
          /\ Takes(b)
          /\ LET n == rem_len + (b % Base) * Weight[digits + 1] IN
               IF LastDigit(b) THEN ReadRest(n)
               ELSE /\ rem_len' = n /\ digits' = digits + 1
                    /\ UNCHANGED <<stage, type, got, body, received>>
    BY Zenon DEF ReadLength
  <1> DEFINE n == rem_len + (b % Base) * Weight[digits + 1]
             top == Base * Weight[4]
  <1>2. stream' \in Seq(Byte)
    BY <1>1, TakesTyped, Zenon DEF Regular, TypeOK
  <1>3. stage = "length" /\ sent' = sent /\ clean' = clean
    BY DEF ReadLength
  <1>4. /\ digits \in 0 .. 3 /\ rem_len \in 0 .. top - 1 /\ rem_len < Weight[digits + 1] /\ clean' \in BOOLEAN
        /\ got = 0 /\ body = <<>>
    BY <1>3, Zenon DEF Regular, TypeOK, ReaderInv
  <1>5. rem_len \in Nat
    <2>1. top \in Int
      BY BaseAssumption, Weights
    <2> HIDE DEF top
    <2> QED
      BY <1>4, <2>1
  <1>6. /\ n \in 0 .. top - 1
        /\ digits + 1 # 4 => digits + 1 \in 0 .. 3 /\ n < Weight[digits + 1 + 1]
    BY <1>4, <1>5, LengthBound, Zenon
  <1> HIDE DEF n, top
  <1>7. CASE LastDigit(b)
    <2>1. ReadRest(n)
      BY <1>1, <1>7, Zenon DEF n
    <2> QED
      BY <1>2, <1>3, <1>4, <1>6, <2>1, ReadRestTyped, Zenon DEF top
  <1>8. CASE ~LastDigit(b)
    <2>1. /\ rem_len' = n /\ digits' = digits + 1
          /\ UNCHANGED <<stage, type, got, body, received>>
      BY <1>1, <1>8, Zenon DEF n
    <2>2. digits + 1 # 4
      BY <1>8, Zenon DEF LastDigit, MAX_NO_OF_REMAINING_LENGTH_BYTES
    <2>3. stage' = stage /\ type' = type /\ got' = got /\ body' = body /\ received' = received
      BY <2>1
    <2>4. 0 \in 0 .. n
      <3>1. top \in Int
        BY BaseAssumption, Weights DEF top
      <3> QED
        BY <1>6, <3>1
    <2>5. TypeOK'
      BY <1>2, <1>3, <1>4, <1>6, <2>1, <2>2, <2>3, <2>4, Zenon DEF Regular, TypeOK, top
    <2>6. ReaderInv'
      <3>1. stage' # "header" /\ stage' # "body"
        BY <1>3, <2>3
      <3> QED
        BY <1>4, <1>6, <2>1, <2>2, <2>3, <3>1, Zenon DEF ReaderInv
    <2> QED
      BY <1>3, <2>3, <2>5, <2>6, Zenon DEF Regular
  <1> QED
    BY <1>7, <1>8

\* a byte of the rest;
LEMMA BodyRegular == ASSUME Regular, ReadBody PROVE Regular'
  <1>1. PICK b \in Byte :
          /\ Takes(b)
          /\ IF got + 1 = rem_len THEN Returns(type, Append(body, b))
             ELSE /\ got' = got + 1
                  /\ body' = IF clean THEN Append(body, b) ELSE body
                  /\ UNCHANGED <<stage, type, rem_len, digits, received>>
    BY Zenon DEF ReadBody
  <1>2. stream' \in Seq(Byte)
    BY <1>1, TakesTyped, Zenon DEF Regular, TypeOK
  <1>3. stage = "body" /\ sent' = sent /\ clean' = clean
    BY DEF ReadBody
  <1>4. type \in Byte /\ body \in Seq(Byte) /\ Append(body, b) \in Seq(Byte)
    <2>1. type \in Byte /\ body \in Seq(Byte)
      BY Zenon DEF Regular, TypeOK
    <2> QED
      BY <2>1, AppendProperties, Zenon
  <1>5. CASE got + 1 = rem_len
    <2>1. Returns(type, Append(body, b))
      BY <1>1, <1>5, Zenon
    <2>2. UNCHANGED <<sent, clean>>
      BY <1>3
    <2> QED
      BY <1>2, <1>4, <2>1, <2>2, ReturnsTyped, Zenon
  <1>6. CASE got + 1 # rem_len
    <2>1. /\ got' = got + 1
          /\ body' = IF clean THEN Append(body, b) ELSE body
          /\ UNCHANGED <<stage, type, rem_len, digits, received>>
      BY <1>1, <1>6, Zenon
    <2>2. stage' = stage /\ type' = type /\ rem_len' = rem_len /\ digits' = digits /\ received' = received
      BY <2>1
    <2> DEFINE top == Base * Weight[4]
    <2>3. got \in 0 .. rem_len /\ rem_len \in 0 .. top - 1 /\ got < rem_len
      BY <1>3, Zenon DEF Regular, TypeOK, ReaderInv
    <2>4. top \in Int
      BY BaseAssumption, Weights
    <2> HIDE DEF top
    <2>5. got + 1 \in 0 .. rem_len /\ got + 1 < rem_len
      BY <1>6, <2>3, <2>4
    <2>6. body' \in Seq(Byte)
      BY <1>4, <2>1, Zenon
    <2>7. TypeOK'
      BY <1>2, <1>3, <2>1, <2>2, <2>5, <2>6, Zenon DEF Regular, TypeOK
    <2>8. ReaderInv'
      <3>1. stage' # "header" /\ stage' # "length" /\ stage' = "body"
        BY <1>3, <2>2
      <3> QED
        BY <2>1, <2>2, <2>5, <3>1, Zenon DEF ReaderInv
    <2> QED
      BY <1>3, <2>2, <2>7, <2>8, Zenon DEF Regular
  <1> QED
    BY <1>5, <1>6

\* a read is cut off;
LEMMA FailsRegular == ASSUME Regular, ReadFails PROVE Regular'
  <1>1. stream' = stream /\ sent' = sent /\ clean' = FALSE
    BY DEF ReadFails
  <1>2. stream' \in Seq(Byte) /\ sent' \in Seq(Packets) /\ clean' \in BOOLEAN /\ received \in Seq(Frame)
    BY <1>1, Zenon DEF Regular, TypeOK
  <1>3. CASE stage = "length" /\ ReadRest(rem_len)
    <2>1. rem_len \in 0 .. Base * Weight[4] - 1
      BY Zenon DEF Regular, TypeOK
    <2>2. UNCHANGED sent
      BY <1>1
    <2> QED
      BY <1>2, <1>3, <2>1, <2>2, ReadRestTyped, Zenon
  <1>4. CASE stage = "body" /\ Fresh /\ UNCHANGED received
    BY <1>2, <1>4, FreshIsRegular, Zenon
  <1> QED
    BY <1>3, <1>4, Zenon DEF ReadFails, CutOff

\* the connection is replaced.
LEMMA ReconnectsRegular == ASSUME Regular, Reconnects PROVE Regular'
  <1>1. stream' = <<>> /\ sent' = <<>> /\ received' = <<>>
    BY DEF Reconnects
  <1>2. stream' \in Seq(Byte) /\ sent' \in Seq(Packets) /\ received' \in Seq(Frame) /\ <<>> \in Seq(Byte)
    BY <1>1
  <1>3. clean' \in BOOLEAN
    BY Zenon DEF Reconnects
  <1>4. CASE stage = "body" /\ Fresh
    BY <1>2, <1>3, <1>4, FreshIsRegular, Zenon
  <1>5. CASE (body' = body \/ (body' = <<>> /\ stage # "header")) /\ UNCHANGED reader
    <2>1. stage' = stage /\ type' = type /\ rem_len' = rem_len /\ digits' = digits /\ got' = got
      BY <1>5 DEF reader
    <2>2. body' \in Seq(Byte)
      BY <1>2, <1>5, Zenon DEF Regular, TypeOK
    <2>3. TypeOK'
      BY <1>2, <1>3, <2>1, <2>2, Zenon DEF Regular, TypeOK
    <2>4. ReaderInv'
      BY <1>5, <2>1, Zenon DEF Regular, ReaderInv
    <2> QED
      BY <1>2, <2>3, <2>4, Zenon DEF Regular
  <1>6. (body' = body /\ UNCHANGED reader) \/ (stage = "body" /\ Fresh) \/ (stage # "header" /\ body' = <<>> /\ UNCHANGED reader)
    <2>1. \/ stage = "header" /\ clean' = TRUE /\ UNCHANGED <<reader, body>>
          \/ stage = "body" /\ clean' = TRUE /\ Fresh
          \/ stage # "header" /\ clean' = FALSE /\ body' = <<>> /\ UNCHANGED reader
      BY Zenon DEF Reconnects
    <2>2. UNCHANGED <<reader, body>> => UNCHANGED reader /\ body' = body
      OBVIOUS
    <2> QED
      BY <2>1, <2>2, Zenon
  <1> QED
    BY <1>4, <1>5, <1>6, Zenon

\* So every step keeps the counts.
LEMMA RegularStep == Regular /\ [Next]_vars => Regular'
  <1> SUFFICES ASSUME Regular, [Next]_vars PROVE Regular'
    OBVIOUS
  <1>1. CASE UNCHANGED vars
    <2>1. /\ stream' = stream /\ sent' = sent /\ clean' = clean /\ stage' = stage /\ type' = type
          /\ rem_len' = rem_len /\ digits' = digits /\ got' = got /\ body' = body /\ received' = received
      BY <1>1 DEF vars, reader
    <2>2. TypeOK'
      BY <2>1, Zenon DEF Regular, TypeOK
    <2>3. ReaderInv'
      BY <2>1, Zenon DEF Regular, ReaderInv
    <2> QED
      BY <2>1, <2>2, <2>3, Zenon DEF Regular
  <1>2. CASE \E p \in Packets : BrokerSends(p)
    BY <1>2, SendsRegular, Zenon
  <1>3. CASE ReadHeader
    BY <1>3, HeaderRegular, Zenon
  <1>4. CASE ReadLength
    BY <1>4, LengthRegular, Zenon
  <1>5. CASE ReadBody
    BY <1>5, BodyRegular, Zenon
  <1>6. CASE ReadFails
    BY <1>6, FailsRegular, Zenon
  <1>7. CASE Reconnects
    BY <1>7, ReconnectsRegular, Zenon
  <1> QED
    BY <1>1, <1>2, <1>3, <1>4, <1>5, <1>6, <1>7, Zenon DEF Next

\* Whatever bytes come and wherever reads are cut off, decodePacket and readPacket count no
\* length above four digits and read no more bytes than the length says.
THEOREM TypeCorrect == Spec => []TypeOK
  <1>1. Regular => TypeOK
    BY Zenon DEF Regular
  <1> QED
    BY <1>1, RegularInit, RegularStep, PTL DEF Spec

----------------------------------------------------------------------------
\* Where no read was cut off.
\* What the reader sees of the stream: k packets are behind it, and n bytes of the next.
Sees(s, k, n) == \E at : Cuts(at, s, sent, k) /\ at[k] = 0 - n

\* It takes the next byte of the packet.
LEMMA Advance ==
  ASSUME stream \in Seq(Byte), sent \in Seq(Packets), NEW k \in 0 .. Len(sent), NEW n \in Nat, Sees(stream, k, n),
         NEW b, Takes(b)
  PROVE  /\ Sees(stream', k, n + 1)
         /\ k < Len(sent) /\ n < Len(Bytes(sent[k + 1])) => b = Bytes(sent[k + 1])[1 + n]
         /\ n = 0 => k < Len(sent)
  <1>1. stream # <<>> /\ b = Head(stream) /\ stream' = Tail(stream)
    BY TakesTyped, Zenon
  <1>2. PICK at : Cuts(at, stream, sent, k) /\ at[k] = 0 - n
    BY Zenon DEF Sees
  <1>3. PICK bt : Cuts(bt, Tail(stream), sent, k) /\ bt[k] = at[k] - 1
    BY <1>1, <1>2, CutsTail, Zenon
  <1>4. bt[k] = 0 - (n + 1)
    BY <1>2, <1>3
  <1>5. Sees(stream', k, n + 1)
    BY <1>1, <1>3, <1>4, Zenon DEF Sees
  <1>6. ASSUME k < Len(sent), n < Len(Bytes(sent[k + 1])) PROVE b = Bytes(sent[k + 1])[1 + n]
    <2>1. k \in 0 .. Len(sent) - 1
      BY <1>6, LenProperties
    <2> QED
      BY <1>1, <1>2, <1>6, <2>1, CutsNext, Zenon
  <1>7. ASSUME n = 0 PROVE k < Len(sent)
    <2>1. at[Len(sent)] = Len(stream)
      BY <1>2, Zenon DEF Cuts
    <2>2. Len(stream) \in Nat /\ Len(stream) # 0
      BY <1>1, LenProperties, EmptySeq
    <2>3. k # Len(sent)
      <3> SUFFICES ASSUME k = Len(sent) PROVE FALSE
        OBVIOUS
      <3>1. Len(stream) = 0 - n
        BY <1>2, <2>1, Zenon
      <3> QED
        BY <1>7, <2>2, <3>1
    <2> QED
      BY <2>3, LenProperties
  <1> QED
    BY <1>5, <1>6, <1>7, Zenon

\* The reader is at the start of a packet;
LEMMA AtHeader ==
  ASSUME stage' = "header", Len(received') <= Len(sent'),
         \A i \in 1 .. Len(received') : received'[i] = sent'[i],
         \E at : Cuts(at, stream', sent', Len(received')) /\ at[Len(received')] = 0
  PROVE  CleanInv'
  <1>1. 0 - Taken' = 0
    BY DEF Taken
  <1> QED
    BY <1>1, Zenon DEF CleanInv

\* in its length;
LEMMA InLength ==
  ASSUME UNCHANGED <<sent, received>>, Len(received) < Len(sent),
         \A i \in 1 .. Len(received) : received[i] = sent[i],
         sent \in Seq(Packets), received \in Seq(Frame),
         NEW p, p = sent[Len(received) + 1], type' = p.type, stage' = "length",
         digits' < NumDigits(Len(p.body)), rem_len' = Len(p.body) % Weight[digits' + 1],
         Sees(stream', Len(received), 1 + digits')
  PROVE  CleanInv'
  <1>1. Len(received) <= Len(sent)
    BY LenProperties
  <1>2. Taken' = 1 + digits'
    BY DEF Taken
  <1>3. sent' = sent /\ received' = received
    OBVIOUS
  <1>4. stage' # "body"
    OBVIOUS
  <1>5. \E at : Cuts(at, stream', sent', Len(received')) /\ at[Len(received')] = 0 - Taken'
    BY <1>2, <1>3, Zenon DEF Sees
  <1> QED
    BY <1>1, <1>3, <1>4, <1>5, Zenon DEF CleanInv, InPacket

\* in the rest of it;
LEMMA InBody ==
  ASSUME UNCHANGED <<sent, received>>, Len(received) < Len(sent),
         \A i \in 1 .. Len(received) : received[i] = sent[i],
         sent \in Seq(Packets), received \in Seq(Frame),
         NEW p, p = sent[Len(received) + 1], type' = p.type, stage' = "body",
         rem_len' = Len(p.body), Len(body') = got', \A j \in 1 .. got' : body'[j] = p.body[j],
         Sees(stream', Len(received), 1 + NumDigits(Len(p.body)) + got')
  PROVE  CleanInv'
  <1>1. Len(received) <= Len(sent)
    BY LenProperties
  <1>2. Taken' = 1 + NumDigits(rem_len') + got'
    BY DEF Taken, NumDigits
  <1>3. sent' = sent /\ received' = received
    OBVIOUS
  <1>4. stage' # "length"
    OBVIOUS
  <1>5. \E at : Cuts(at, stream', sent', Len(received')) /\ at[Len(received')] = 0 - Taken'
    BY <1>2, <1>3, Zenon DEF Sees
  <1> QED
    BY <1>1, <1>3, <1>4, <1>5, Zenon DEF CleanInv, InPacket

\* at its end.
LEMMA Delivers ==
  ASSUME sent \in Seq(Packets), received \in Seq(Frame), Len(received) < Len(sent), UNCHANGED <<sent, clean>>, clean,
         \A i \in 1 .. Len(received) : received[i] = sent[i],
         NEW p, p = sent[Len(received) + 1], Returns(p.type, p.body),
         stream' \in Seq(Byte), Sees(stream', Len(received), Len(Bytes(p)))
  PROVE  CleanInv'
  <1> DEFINE k == Len(received)
             m == Len(sent)
             n == Len(Bytes(p))
  <1>1. k \in Nat /\ m \in Nat /\ k \in 0 .. m - 1 /\ k + 1 \in 1 .. m /\ k \in 0 .. m
    BY LenProperties
  <1>2. p \in Packets /\ p \in Frame
    <2>1. p \in Packets
      BY <1>1, ElementOfSeq
    <2> QED
      BY <2>1, PacketsAssumption, Zenon
  <1>3. [type |-> p.type, body |-> p.body] = p
    BY <1>2 DEF Frame
  <1>4. received' = Append(received, p) /\ stage' = "header" /\ sent' = sent
    BY <1>3, Zenon DEF Returns, Fresh
  <1>5. Len(received') = k + 1 /\ received'[k + 1] = p /\ \A i \in 1 .. k : received'[i] = received[i]
    <2>1. Len(Append(received, p)) = Len(received) + 1
      BY <1>2, SMT
    <2>2. Append(received, p)[Len(received) + 1] = p
      BY <1>2, SMT
    <2>3. \A i \in 1 .. Len(received) : Append(received, p)[i] = received[i]
      BY <1>2, SMT
    <2> QED
      BY <1>4, <2>1, <2>2, <2>3, Zenon
  <1>6. PICK at : Cuts(at, stream', sent, k) /\ at[k] = 0 - n
    BY Zenon DEF Sees
  <1>8. n \in Nat
    BY <1>2, PacketBytes, LenProperties
  <1>9. \A i \in 1 .. k + 1 : received'[i] = sent'[i]
    <2> SUFFICES ASSUME NEW i \in 1 .. k + 1 PROVE received'[i] = sent[i]
      BY <1>4, Zenon
    <2>1. i \in 1 .. k \/ i = k + 1
      BY <1>1
    <2> QED
      BY <1>5, <2>1, Zenon
  <1>10. PICK bt : Cuts(bt, stream', sent, k + 1) /\ bt[k + 1] = at[k] + Len(Bytes(sent[k + 1]))
    BY <1>1, <1>6, CutsDrop, Zenon
  <1>11. bt[k + 1] = 0
    <2>1. bt[k + 1] = at[k] + n
      BY <1>10, Zenon
    <2> HIDE DEF n
    <2> QED
      BY <1>6, <1>8, <2>1
  <1>12. k + 1 <= m
    BY <1>1
  <1> QED
    BY <1>4, <1>5, <1>9, <1>10, <1>11, <1>12, AtHeader, Zenon

\* What is known in a state where no read was cut off.
LEMMA CleanFacts ==
  ASSUME IInv, clean
  PROVE  /\ sent \in Seq(Packets) /\ received \in Seq(Frame) /\ stream \in Seq(Byte)
         /\ Len(received) <= Len(sent) /\ Len(received) \in 0 .. Len(sent)
         /\ \A i \in 1 .. Len(received) : received[i] = sent[i]
         /\ Sees(stream, Len(received), Taken)
  <1>1. sent \in Seq(Packets) /\ received \in Seq(Frame) /\ stream \in Seq(Byte) /\ CleanInv
    BY Zenon DEF IInv, Regular, TypeOK
  <1>2. Len(received) <= Len(sent)
    BY <1>1, Zenon DEF CleanInv
  <1>3. Len(received) \in 0 .. Len(sent)
    BY <1>1, <1>2, LenProperties
  <1> QED
    BY <1>1, <1>2, <1>3, Zenon DEF CleanInv, Sees

\* The packet the reader is in, if it is in one.
LEMMA PacketFacts ==
  ASSUME IInv, clean, Len(received) < Len(sent), NEW p, p = sent[Len(received) + 1]
  PROVE  /\ p \in Packets
         /\ Len(p.body) \in Nat /\ Len(p.body) < Base * Weight[4] /\ NumDigits(Len(p.body)) \in 1 .. 4
         /\ Len(Bytes(p)) = 1 + NumDigits(Len(p.body)) + Len(p.body)
         /\ stage # "header" => InPacket(p)
  <1>1. sent \in Seq(Packets) /\ received \in Seq(Frame) /\ CleanInv
    BY Zenon DEF IInv, Regular
  <1>2. Len(received) + 1 \in 1 .. Len(sent)
    BY <1>1, LenProperties
  <1>3. p \in Packets
    BY <1>1, <1>2, ElementOfSeq
  <1> QED
    BY <1>1, <1>3, PacketBytes, DigitsSuffice, Zenon DEF CleanInv

\* The broker sends: the packets before are where they were;
LEMMA SendsClean == ASSUME IInv, NEW q \in Packets, BrokerSends(q), clean' PROVE CleanInv'
  <1> DEFINE k == Len(received)
             m == Len(sent)
  <1>1. /\ stream' = stream \o Bytes(q) /\ sent' = Append(sent, q)
        /\ stage' = stage /\ type' = type /\ rem_len' = rem_len /\ digits' = digits /\ got' = got
        /\ body' = body /\ received' = received /\ clean' = clean
    BY DEF BrokerSends, reader
  <1>2. clean
    BY <1>1, Zenon
  <1>3. /\ sent \in Seq(Packets) /\ received \in Seq(Frame) /\ stream \in Seq(Byte)
        /\ k <= m /\ k \in 0 .. m
        /\ \A i \in 1 .. k : received[i] = sent[i]
        /\ Sees(stream, k, Taken)
    BY <1>2, CleanFacts, Zenon
  <1>4. k \in Nat /\ m \in Nat
    BY <1>3, LenProperties
  <1>5. Len(sent') = m + 1 /\ \A i \in 1 .. m : sent'[i] = sent[i]
    <2>1. Len(Append(sent, q)) = Len(sent) + 1
      BY <1>3, SMT
    <2>2. \A i \in 1 .. Len(sent) : Append(sent, q)[i] = sent[i]
      BY <1>3, SMT
    <2> QED
      BY <1>1, <2>1, <2>2, Zenon
  <1>6. PICK at : Cuts(at, stream, sent, k) /\ at[k] = 0 - Taken
    BY <1>3, Zenon DEF Sees
  <1>7. PICK bt : Cuts(bt, stream', sent', k) /\ bt[k] = at[k]
    <2>1. Cuts(at, stream, sent, k)
      BY <1>6, Zenon
    <2> HIDE DEF k
    <2>2. \E bt : Cuts(bt, stream \o Bytes(q), Append(sent, q), k) /\ bt[k] = at[k]
      BY <1>3, <2>1, CutsAppend, Zenon
    <2> QED
      BY <1>1, <2>2, Zenon
  <1>8. Taken' = Taken
    BY <1>1 DEF Taken, NumDigits
  <1>9. \E xt : Cuts(xt, stream', sent', Len(received')) /\ xt[Len(received')] = 0 - Taken'
    BY <1>1, <1>6, <1>7, <1>8, Zenon
  <1>10. Len(received') <= Len(sent') /\ \A i \in 1 .. k : i \in 1 .. m
    BY <1>1, <1>3, <1>4, <1>5
  <1>11. \A i \in 1 .. Len(received') : received'[i] = sent'[i]
    BY <1>1, <1>3, <1>5, <1>10, Zenon
  <1>12. ASSUME stage # "header" PROVE k < m /\ k < m + 1 /\ sent'[k + 1] = sent[k + 1] /\ InPacket(sent[k + 1])
    <2>1. k < m /\ InPacket(sent[k + 1])
      BY <1>2, <1>12, Zenon DEF IInv, CleanInv
    <2>2. k + 1 \in 1 .. m /\ k < m + 1
      BY <1>4, <2>1
    <2> QED
      BY <1>5, <2>1, <2>2, Zenon
  <1>13. CASE stage = "header"
    <2>1. stage' = "header"
      BY <1>1, <1>13, Zenon
    <2> QED
      BY <1>9, <1>10, <1>11, <2>1, Zenon DEF CleanInv
  <1>14. CASE stage # "header"
    <2> DEFINE p == sent[k + 1]
    <2>1. k < m + 1 /\ sent'[k + 1] = p /\ InPacket(p)
      BY <1>12, <1>14, Zenon
    <2>2. sent'[Len(received') + 1] = p /\ Len(received') < Len(sent')
      BY <1>1, <1>5, <2>1, Zenon
    <2> HIDE DEF p
    <2>3. /\ type' = p.type
          /\ stage' = "length" => digits' < NumDigits(Len(p.body)) /\ rem_len' = Len(p.body) % Weight[digits' + 1]
          /\ stage' = "body"   => /\ rem_len' = Len(p.body) /\ Len(body') = got'
                                  /\ \A j \in 1 .. got' : body'[j] = p.body[j]
      BY <1>1, <2>1, Zenon DEF InPacket
    <2> QED
      BY <1>9, <1>10, <1>11, <2>2, <2>3, Zenon DEF CleanInv, InPacket
  <1> QED
    BY <1>13, <1>14

\* the header byte is the type of the next packet;
LEMMA HeaderClean == ASSUME IInv, ReadHeader, clean' PROVE CleanInv'
  <1> DEFINE k == Len(received)
             p == sent[k + 1]
  <1>1. PICK b \in Byte : Takes(b) /\ type' = b
    BY Zenon DEF ReadHeader
  <1>2. /\ stage = "header" /\ stage' = "length"
        /\ rem_len' = rem_len /\ digits' = digits /\ clean' = clean /\ UNCHANGED <<sent, received>>
    BY DEF ReadHeader
  <1>3. clean
    BY <1>2, Zenon
  <1>4. Sees(stream, k, 0) /\ Taken = 0
    <2>1. Taken = 0
      BY <1>2 DEF Taken
    <2> QED
      BY <1>3, <2>1, CleanFacts, Zenon
  <1>5. 0 \in Nat /\ 0 + 1 = 1 /\ 1 + 0 = 1
    OBVIOUS
  <1>6. k < Len(sent) /\ Sees(stream', k, 1)
    BY <1>1, <1>3, <1>4, <1>5, CleanFacts, Advance, Zenon
  <1>7. /\ p \in Packets /\ Len(p.body) \in Nat /\ NumDigits(Len(p.body)) \in 1 .. 4
        /\ Len(Bytes(p)) = 1 + NumDigits(Len(p.body)) + Len(p.body)
    BY <1>3, <1>6, PacketFacts, Zenon
  <1>8. 0 < Len(Bytes(p)) /\ 0 < NumDigits(Len(p.body))
    <2> HIDE DEF p
    <2> QED
      BY <1>7
  <1>9. b = Bytes(p)[1]
    BY <1>1, <1>3, <1>4, <1>5, <1>6, <1>8, CleanFacts, Advance, Zenon
  <1>10. type' = p.type
    BY <1>1, <1>7, <1>9, PacketBytes, Zenon
  <1>11. rem_len' = 0 /\ digits' = 0
    BY <1>2, Zenon DEF IInv, Regular, ReaderInv
  <1>12. digits' < NumDigits(Len(p.body)) /\ rem_len' = Len(p.body) % Weight[digits' + 1]
    <2>1. Len(p.body) % Weight[0 + 1] = 0
      <3>1. Weight[0 + 1] = 1
        BY Weights
      <3> DEFINE l == Len(p.body)
      <3>2. l \in Nat
        BY <1>7
      <3> HIDE DEF l
      <3>3. l % 1 = 0
        BY <3>2
      <3> QED
        BY <3>1, <3>3, Zenon DEF l
    <2> QED
      BY <1>8, <1>11, <2>1, Zenon
  <1>13. Sees(stream', k, 1 + digits')
    BY <1>5, <1>6, <1>11, Zenon
  <1> HIDE DEF p
  <1>14. p = sent[Len(received) + 1]
    BY DEF p
  <1> QED
    BY <1>2, <1>3, <1>6, <1>10, <1>12, <1>13, <1>14, CleanFacts, InLength, Zenon

\* a byte of the length is the next digit, and the last one ends it;
LEMMA LengthClean == ASSUME IInv, ReadLength, clean' PROVE CleanInv'
  <1> DEFINE k == Len(received)
             p == sent[k + 1]
             l == Len(p.body)
             d == NumDigits(l)
             w == Weight[digits + 1]
  <1>1. PICK b \in Byte :
          /\ Takes(b)
          /\ LET n == rem_len + (b % Base) * Weight[digits + 1] IN
               IF LastDigit(b) THEN ReadRest(n)
               ELSE /\ rem_len' = n /\ digits' = digits + 1
                    /\ UNCHANGED <<stage, type, got, body, received>>
    BY Zenon DEF ReadLength
  <1> DEFINE n == rem_len + (b % Base) * w
  <1>2. /\ stage = "length" /\ sent' = sent /\ clean' = clean /\ clean
        /\ stage # "header" /\ stage # "body"
    BY DEF ReadLength
  <1>3. k < Len(sent)
    BY <1>2, Zenon DEF IInv, CleanInv
  <1>4. /\ p \in Packets /\ l \in Nat /\ l < Base * Weight[4] /\ d \in 1 .. 4
        /\ Len(Bytes(p)) = 1 + d + l
        /\ InPacket(p)
    BY <1>2, <1>3, PacketFacts, Zenon
  <1>5. type = p.type /\ digits < d /\ rem_len = l % w
    BY <1>2, <1>4, Zenon DEF InPacket
  <1>6. digits \in 0 .. 3 /\ got = 0 /\ body = <<>>
    BY <1>2, Zenon DEF IInv, Regular, TypeOK, ReaderInv
  <1>7. Sees(stream, k, 1 + digits)
    <2>1. Taken = 1 + digits
      BY <1>2 DEF Taken
    <2> QED
      BY <1>2, <2>1, CleanFacts, Zenon
  <1>8. /\ 1 + digits \in Nat /\ 1 + digits < 1 + d + l /\ 1 + digits \in 1 .. d /\ 1 + digits \in 1 .. 4
        /\ 1 + digits = digits + 1 /\ (1 + digits) + 1 = 1 + (digits + 1)
        /\ 1 + (1 + digits) = 1 + (digits + 1)
    <2> HIDE DEF p, l, d
    <2> QED
      BY <1>4, <1>5, <1>6
  <1>9. b = Bytes(p)[1 + (1 + digits)] /\ Sees(stream', k, (1 + digits) + 1)
    BY <1>1, <1>2, <1>3, <1>4, <1>7, <1>8, CleanFacts, Advance, Zenon
  <1>10. b = Digits(l)[1 + digits]
    BY <1>4, <1>8, <1>9, PacketBytes, Zenon
  <1>11. b % Base = (l \div w) % Base /\ (b < Base <=> 1 + digits = d)
    BY <1>4, <1>8, <1>10, DigitIsByte, Zenon
  <1>12. w \in Nat /\ w > 0
    BY <1>8, Weights
  <1>13. n = l % (w * Base)
    <2>1. l % (w * Base) = (l % w) + ((l \div w) % Base) * w
      BY <1>4, <1>12, OneDigitMore, Zenon
    <2> QED
      BY <1>5, <1>11, <2>1, Zenon
  <1>14. LastDigit(b) <=> digits + 1 = d
    <2>1. digits + 1 = 4 => digits + 1 = d
      <3> HIDE DEF d, l, p
      <3> QED
        BY <1>4, <1>5, <1>6
    <2> QED
      BY <1>8, <1>11, <2>1, Zenon DEF LastDigit, MAX_NO_OF_REMAINING_LENGTH_BYTES
  <1>15. p = sent[Len(received) + 1]
    OBVIOUS
  <1> HIDE DEF n, w, d, l, p
  <1>16. CASE digits + 1 = d
    <2>1. n = l
      <3>1. l < w * Base
        <4>1. l < Weight[d] * Base
          BY <1>4, DigitsSuffice, Zenon DEF d
        <4> QED
          BY <1>16, <4>1, Zenon DEF w
      <3>2. w * Base \in Nat
        BY <1>12, BaseAssumption
      <3> DEFINE wb == w * Base
      <3>3. wb \in Nat /\ l < wb /\ n = l % wb
        BY <1>13, <3>1, <3>2
      <3> HIDE DEF wb
      <3> QED
        BY <1>4, <3>3
    <2>2. ReadRest(l)
      BY <1>1, <1>14, <1>16, <2>1, Zenon DEF n, w
    <2>3. Sees(stream', k, 1 + d)
      BY <1>8, <1>9, <1>16, Zenon
    <2>4. CASE l = 0
      <3>1. Returns(type, <<>>)
        BY <2>2, <2>4, Zenon DEF ReadRest
      <3>2. p.body = <<>>
        <4>1. p.body \in Seq(Byte)
          BY <1>4, PacketsAssumption DEF Frame
        <4> QED
          BY <2>4, <4>1, EmptySeq, Zenon DEF l
      <3>3. Returns(p.type, p.body)
        BY <1>5, <3>1, <3>2, Zenon
      <3>4. 1 + d = Len(Bytes(p))
        BY <1>4, <2>4
      <3>5. stream' \in Seq(Byte)
        BY <1>1, <1>2, CleanFacts, TakesTyped, Zenon
      <3>6. Sees(stream', Len(received), Len(Bytes(p))) /\ UNCHANGED <<sent, clean>>
        BY <1>2, <2>3, <3>4
      <3>7. Len(received) < Len(sent)
        BY <1>3
      <3> QED
        BY <1>2, <1>15, <3>3, <3>5, <3>6, <3>7, CleanFacts, Delivers, Zenon
    <2>5. CASE l # 0
      <3>1. /\ stage' = "body" /\ rem_len' = l /\ UNCHANGED <<sent, received>>
            /\ type' = type /\ digits' = digits /\ got' = got /\ body' = body
        BY <1>2, <2>2, <2>5 DEF ReadRest
      <3>2. got' = 0 /\ Len(body') = got' /\ \A j \in 1 .. got' : body'[j] = p.body[j]
        BY <1>6, <3>1
      <3>3. 1 + d = 1 + d + 0
        BY <1>4
      <3>4. Sees(stream', Len(received), 1 + NumDigits(Len(p.body)) + got')
        BY <2>3, <3>2, <3>3, Zenon DEF d, l
      <3>5. type' = p.type /\ rem_len' = Len(p.body)
        BY <1>5, <3>1, Zenon DEF l
      <3>6. Len(received) < Len(sent)
        BY <1>3
      <3> QED
        BY <1>2, <1>15, <3>1, <3>2, <3>4, <3>5, <3>6, CleanFacts, InBody, Zenon
    <2> QED
      BY <2>4, <2>5
  <1>17. CASE digits + 1 # d
    <2>1. /\ rem_len' = n /\ digits' = digits + 1
          /\ UNCHANGED <<stage, type, got, body, received>>
      BY <1>1, <1>14, <1>17, Zenon DEF n, w
    <2>2. digits + 1 < d /\ digits + 1 \in 1 .. 3
      BY <1>4, <1>5, <1>6, <1>17
    <2>3. Weight[digits + 1 + 1] = w * Base
      BY <2>2, Weights, Zenon DEF w
    <2>4. rem_len' = Len(p.body) % Weight[digits' + 1] /\ digits' < NumDigits(Len(p.body))
      BY <1>13, <2>1, <2>2, <2>3, Zenon DEF l, d
    <2>5. stage' = "length" /\ type' = p.type /\ UNCHANGED <<sent, received>>
      BY <1>2, <1>5, <2>1
    <2>6. Sees(stream', Len(received), 1 + digits')
      BY <1>8, <1>9, <2>1, Zenon
    <2>7. Len(received) < Len(sent)
      BY <1>3
    <2> QED
      BY <1>2, <1>15, <2>4, <2>5, <2>6, <2>7, CleanFacts, InLength, Zenon
  <1> QED
    BY <1>16, <1>17

\* a byte of the rest is the next one, and the last one ends the packet;
LEMMA BodyClean == ASSUME IInv, ReadBody, clean' PROVE CleanInv'
  <1> DEFINE k == Len(received)
             p == sent[k + 1]
             l == Len(p.body)
             d == NumDigits(l)
  <1>1. PICK b \in Byte :
          /\ Takes(b)
          /\ IF got + 1 = rem_len THEN Returns(type, Append(body, b))
             ELSE /\ got' = got + 1
                  /\ body' = IF clean THEN Append(body, b) ELSE body
                  /\ UNCHANGED <<stage, type, rem_len, digits, received>>
    BY Zenon DEF ReadBody
  <1>2. /\ stage = "body" /\ sent' = sent /\ clean' = clean /\ clean
        /\ stage # "header" /\ stage # "length"
    BY DEF ReadBody
  <1>3. k < Len(sent)
    BY <1>2, Zenon DEF IInv, CleanInv
  <1>4. /\ p \in Packets /\ l \in Nat /\ d \in 1 .. 4
        /\ Len(Bytes(p)) = 1 + d + l
        /\ InPacket(p)
    BY <1>2, <1>3, PacketFacts, Zenon
  <1>5. type = p.type /\ rem_len = l /\ Len(body) = got /\ \A j \in 1 .. got : body[j] = p.body[j]
    BY <1>2, <1>4, Zenon DEF InPacket
  <1>6. got \in 0 .. rem_len /\ got < rem_len /\ body \in Seq(Byte)
    BY <1>2, Zenon DEF IInv, Regular, TypeOK, ReaderInv
  <1>7. Sees(stream, k, 1 + d + got)
    <2>1. Taken = 1 + d + got
      BY <1>2, <1>5 DEF Taken
    <2> QED
      BY <1>2, <2>1, CleanFacts, Zenon
  <1>8. p.body \in Seq(Byte)
    BY <1>4, PacketsAssumption DEF Frame
  <1>9. p = sent[Len(received) + 1]
    OBVIOUS
  <1>10. /\ 1 + d + got \in Nat /\ 1 + d + got < 1 + d + l /\ got + 1 \in 1 .. l /\ got \in Nat
         /\ 1 + (1 + d + got) = 1 + d + (got + 1) /\ (1 + d + got) + 1 = 1 + d + (got + 1)
    <2> HIDE DEF p, l, d
    <2> QED
      BY <1>4, <1>5, <1>6
  <1>11. b = Bytes(p)[1 + (1 + d + got)] /\ Sees(stream', k, (1 + d + got) + 1)
    BY <1>1, <1>2, <1>3, <1>4, <1>7, <1>10, CleanFacts, Advance, Zenon
  <1>12. b = p.body[got + 1]
    BY <1>4, <1>10, <1>11, PacketBytes, Zenon
  <1>13. Sees(stream', k, 1 + d + (got + 1))
    BY <1>10, <1>11, Zenon
  <1> DEFINE xs == Append(body, b)
  <1>14. xs \in Seq(Byte) /\ Len(xs) = got + 1 /\ \A j \in 1 .. got + 1 : xs[j] = p.body[j]
    <2>1. Len(Append(body, b)) = Len(body) + 1 /\ Append(body, b) \in Seq(Byte)
      BY <1>6, SMT
    <2>2. Append(body, b)[Len(body) + 1] = b
      BY <1>6, SMT
    <2>3. \A j \in 1 .. Len(body) : Append(body, b)[j] = body[j]
      BY <1>6, SMT
    <2>4. \A j \in 1 .. got + 1 : j \in 1 .. got \/ j = got + 1
      BY <1>10
    <2> QED
      BY <1>5, <1>12, <2>1, <2>2, <2>3, <2>4, Zenon
  <1> HIDE DEF xs, d, l, p
  <1>15. CASE got + 1 = rem_len
    <2>1. Returns(type, xs)
      BY <1>1, <1>15, Zenon DEF xs
    <2>2. xs = p.body
      <3>1. Len(xs) = Len(p.body) /\ \A j \in 1 .. Len(xs) : xs[j] = p.body[j]
        BY <1>5, <1>14, <1>15, Zenon DEF l
      <3> QED
        BY <1>8, <1>14, <3>1, SeqEqual, Zenon
    <2>3. Returns(p.type, p.body)
      BY <1>5, <2>1, <2>2, Zenon
    <2>4. Sees(stream', Len(received), Len(Bytes(p)))
      BY <1>4, <1>5, <1>13, <1>15, Zenon
    <2>5. stream' \in Seq(Byte)
      BY <1>1, <1>2, CleanFacts, TakesTyped, Zenon
    <2>6. UNCHANGED <<sent, clean>> /\ Len(received) < Len(sent)
      BY <1>2, <1>3
    <2> QED
      BY <1>2, <1>9, <2>3, <2>4, <2>5, <2>6, CleanFacts, Delivers, Zenon
  <1>16. CASE got + 1 # rem_len
    <2>1. /\ got' = got + 1 /\ body' = xs
          /\ UNCHANGED <<stage, type, rem_len, digits, received>>
      BY <1>1, <1>2, <1>16, Zenon DEF xs
    <2>2. stage' = "body" /\ type' = p.type /\ rem_len' = Len(p.body) /\ UNCHANGED <<sent, received>>
      BY <1>2, <1>5, <2>1 DEF l
    <2>3. Len(body') = got' /\ \A j \in 1 .. got' : body'[j] = p.body[j]
      BY <1>14, <2>1, Zenon
    <2>4. Sees(stream', Len(received), 1 + NumDigits(Len(p.body)) + got')
      BY <1>13, <2>1, Zenon DEF d, l
    <2>5. Len(received) < Len(sent)
      BY <1>3
    <2> QED
      BY <1>2, <1>9, <2>2, <2>3, <2>4, <2>5, CleanFacts, InBody, Zenon
  <1> QED
    BY <1>15, <1>16

\* An empty connection, and the reader at the start of a packet.
LEMMA EmptyClean ==
  ASSUME stream' = <<>>, sent' = <<>>, received' = <<>>, stage' = "header"
  PROVE  CleanInv'
  <1> DEFINE at == [i \in 0 .. 0 |-> 0]
  <1>1. Len(<<>>) = 0 /\ 0 \in 0 .. 0 /\ at[0] = 0 /\ at \in [0 .. 0 -> Int] /\ \A i \in 0 .. 0 : at[i] <= 0
    OBVIOUS
  <1>2. 0 .. 0 - 1 = {}
    OBVIOUS
  <1> HIDE DEF at
  <1>3. Cuts(at, <<>>, <<>>, 0)
    BY <1>1, <1>2, Zenon DEF Cuts
  <1>4. \E bt : Cuts(bt, stream', sent', Len(received')) /\ bt[Len(received')] = 0
    BY <1>1, <1>3, Zenon
  <1>5. Len(received') <= Len(sent') /\ \A i \in 1 .. Len(received') : received'[i] = sent'[i]
    OBVIOUS
  <1> QED
    BY <1>4, <1>5, AtHeader, Zenon

\* a new connection.
LEMMA ReconnectsClean == ASSUME Reconnects, clean' PROVE CleanInv'
  <1>1. stream' = <<>> /\ sent' = <<>> /\ received' = <<>>
    BY DEF Reconnects
  <1>2. stage' = "header"
    BY DEF Reconnects, Fresh, reader
  <1> QED
    BY <1>1, <1>2, EmptyClean, Zenon

\* The invariant holds at the start,
LEMMA IInvInit == Init => IInv
  <1> SUFFICES ASSUME Init PROVE IInv
    OBVIOUS
  <1>1. stream = <<>> /\ sent = <<>> /\ received = <<>> /\ stage = "header"
    BY DEF Init
  <1> DEFINE at == [i \in 0 .. 0 |-> 0]
  <1>2. Len(<<>>) = 0 /\ 0 \in 0 .. 0 /\ at[0] = 0 /\ at \in [0 .. 0 -> Int] /\ \A i \in 0 .. 0 : at[i] <= 0
    OBVIOUS
  <1>3. 0 .. 0 - 1 = {}
    OBVIOUS
  <1> HIDE DEF at
  <1>4. Cuts(at, <<>>, <<>>, 0)
    BY <1>2, <1>3, Zenon DEF Cuts
  <1>5. 0 - Taken = 0
    BY <1>1 DEF Taken
  <1>6. \E bt : Cuts(bt, stream, sent, Len(received)) /\ bt[Len(received)] = 0 - Taken
    BY <1>1, <1>2, <1>4, <1>5, Zenon
  <1>7. Len(received) <= Len(sent) /\ \A i \in 1 .. Len(received) : received[i] = sent[i]
    BY <1>1
  <1>8. CleanInv
    BY <1>1, <1>6, <1>7, Zenon DEF CleanInv
  <1> QED
    BY <1>8, RegularInit, Zenon DEF IInv

\* and every step keeps it.
LEMMA IInvStep == IInv /\ [Next]_vars => IInv'
  <1> SUFFICES ASSUME IInv, [Next]_vars PROVE IInv'
    OBVIOUS
  <1>0. Regular'
    BY RegularStep, Zenon DEF IInv
  <1> SUFFICES ASSUME clean' PROVE CleanInv'
    BY <1>0, Zenon DEF IInv
  <1>1. CASE UNCHANGED vars
    <2>1. /\ stream' = stream /\ sent' = sent /\ clean' = clean /\ stage' = stage /\ type' = type
          /\ rem_len' = rem_len /\ digits' = digits /\ got' = got /\ body' = body /\ received' = received
      BY <1>1 DEF vars, reader
    <2>2. CleanInv
      BY <2>1, Zenon DEF IInv
    <2>3. Taken' = Taken
      BY <2>1 DEF Taken, NumDigits
    <2> QED
      BY <2>1, <2>2, <2>3, Zenon DEF CleanInv, InPacket
  <1>2. CASE \E q \in Packets : BrokerSends(q)
    BY <1>2, SendsClean, Zenon
  <1>3. CASE ReadHeader
    BY <1>3, HeaderClean, Zenon
  <1>4. CASE ReadLength
    BY <1>4, LengthClean, Zenon
  <1>5. CASE ReadBody
    BY <1>5, BodyClean, Zenon
  <1>6. CASE ReadFails
    BY <1>6, Zenon DEF ReadFails
  <1>7. CASE Reconnects
    BY <1>7, ReconnectsClean, Zenon
  <1> QED
    BY <1>1, <1>2, <1>3, <1>4, <1>5, <1>6, <1>7, Zenon DEF Next

\* As long as no read on the connection was cut off, readPacket returns the packets the
\* broker sent, in order and whole: for bodies of every length that four digits can hold,
\* however the bytes arrive, and whatever went wrong on earlier connections.
THEOREM PacketsIntactHolds == Spec => []PacketsIntact
  <1>1. IInv => PacketsIntact
    <2> SUFFICES ASSUME IInv, clean PROVE IsPrefix(received, sent)
      BY Zenon DEF PacketsIntact
    <2>1. /\ sent \in Seq(Packets) /\ received \in Seq(Frame) /\ Len(received) <= Len(sent)
          /\ Len(received) \in 0 .. Len(sent)
          /\ \A i \in 1 .. Len(received) : received[i] = sent[i]
      BY CleanFacts, Zenon
    <2> DEFINE k == Len(received)
               x == SubSeq(sent, 1, k)
               y == SubSeq(received, 1, k)
    <2>2. x \in Seq(Packets) /\ Len(x) = k /\ \A i \in 1 .. k : x[i] = sent[i]
      BY <2>1
    <2>3. y \in Seq(Frame) /\ Len(y) = k /\ \A i \in 1 .. k : y[i] = received[i]
      BY <2>1
    <2> HIDE DEF x, y
    <2>4. y \in Seq(Frame \cup Packets) /\ x \in Seq(Frame \cup Packets)
      BY <2>2, <2>3
    <2>5. y = x
      BY <2>1, <2>2, <2>3, <2>4, SeqEqual, Zenon
    <2> QED
      BY <2>1, <2>5, Zenon DEF IsPrefix, x, y
  <1> QED
    BY <1>1, IInvInit, IInvStep, PTL DEF Spec
=============================================================================
