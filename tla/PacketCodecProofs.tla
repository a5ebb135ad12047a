-------------------------- MODULE PacketCodecProofs -------------------------
(* What decode makes of the packets that the encoders of protocol.js make. *)
EXTENDS PacketCodec, SequenceTheorems, TLAPS

(* A quotient and its remainder make the number again.                     *)
LEMMA Division ==
    ASSUME NEW n \in Int
    PROVE  /\ n \div Byte \in Int
           /\ n % Byte \in 0..Byte - 1
           /\ n = Byte * (n \div Byte) + (n % Byte)
  BY CodecAssumption, SMTT(60)

Words == 0..WordSize - 1

LEMMA SizeOfWord == WordSize \in Nat /\ WordSize > 7
<1>1. Byte * Byte \in Nat /\ Byte * Byte > 7
  BY CodecAssumption
<1>2. Byte * Byte * Byte \in Nat /\ Byte * Byte * Byte > 7
  BY <1>1, CodecAssumption
<1> QED
  BY <1>2, CodecAssumption DEF WordSize

(* The remainder is the only word that a multiple of the size is away.     *)
LEMMA Remainder ==
    ASSUME NEW n \in Int
    PROVE  /\ n % WordSize \in Words
           /\ \E k \in Int : n = WordSize * k + (n % WordSize)
           /\ \A k \in Int, w \in Words : n = WordSize * k + w => n % WordSize = w
<1> DEFINE q == n \div WordSize
           r == n % WordSize
<1>1. WordSize \in Nat /\ WordSize > 7
  BY SizeOfWord
<1>2. q \in Int /\ r \in 0..WordSize - 1 /\ n = WordSize * q + r
  <2> HIDE DEF WordSize
  <2> QED
    BY <1>1, SMTT(60)
<1> HIDE DEF q, r, WordSize
<1>3. ASSUME NEW k \in Int, NEW w \in Words, n = WordSize * k + w
      PROVE  r = w
  <2>1. w \in 0..WordSize - 1
    BY DEF Words
  <2>2. WordSize * (q - k) = w - r
    BY <1>1, <1>2, <1>3, <2>1
  <2>3. q - k \in Int /\ w - r < WordSize /\ r - w < WordSize
    BY <1>1, <1>2, <2>1
  <2>4. CASE q - k >= 1
    <3>1. ASSUME NEW d \in Int, d >= 1 PROVE WordSize * d >= WordSize
      BY <1>1, <3>1
    <3> QED
      BY <1>1, <1>2, <2>1, <2>2, <2>3, <2>4, <3>1
  <2>5. CASE q - k <= -1
    <3>1. ASSUME NEW d \in Int, d <= -1 PROVE WordSize * d <= -WordSize
      BY <1>1, <3>1
    <3> QED
      BY <1>1, <1>2, <2>1, <2>2, <2>3, <2>5, <3>1
  <2>6. CASE q - k = 0
    BY <1>1, <1>2, <2>1, <2>2, <2>6
  <2> QED
    BY <2>3, <2>4, <2>5, <2>6
<1> QED
  BY <1>2, <1>3 DEF Words, q, r

(* The four bytes of a number are bytes, and make its last word again.     *)
LEMMA WordOfBytes ==
    ASSUME NEW n \in Int
    PROVE  LET w == SetUint32(n)
           IN  /\ w \in Seq(0..Byte - 1) /\ Len(w) = 4
               /\ ((w[1] * Byte + w[2]) * Byte + w[3]) * Byte + w[4] = n % WordSize
<1> DEFINE n1 == n \div Byte
           n2 == n1 \div Byte
           n3 == n2 \div Byte
           n4 == n3 \div Byte
           w == SetUint32(n)
<1>1. n1 \in Int /\ n % Byte \in 0..Byte - 1 /\ n = Byte * n1 + (n % Byte)
  BY Division
<1>2. n2 \in Int /\ n1 % Byte \in 0..Byte - 1 /\ n1 = Byte * n2 + (n1 % Byte)
  BY <1>1, Division
<1>3. n3 \in Int /\ n2 % Byte \in 0..Byte - 1 /\ n2 = Byte * n3 + (n2 % Byte)
  BY <1>2, Division
<1>4. n4 \in Int /\ n3 % Byte \in 0..Byte - 1 /\ n3 = Byte * n4 + (n3 % Byte)
  BY <1>3, Division
<1>5. w = <<n3 % Byte, n2 % Byte, n1 % Byte, n % Byte>>
  BY DEF SetUint32
<1> HIDE DEF n4, n3, n2, n1, w
<1>6. w \in Seq(0..Byte - 1) /\ Len(w) = 4
  BY <1>1, <1>2, <1>3, <1>4, <1>5
<1>7. ASSUME NEW w1 \in 0..Byte - 1, NEW w2 \in 0..Byte - 1,
             NEW w3 \in 0..Byte - 1, NEW w4 \in 0..Byte - 1,
             w1 = n3 % Byte, w2 = n2 % Byte, w3 = n1 % Byte, w4 = n % Byte
      PROVE  ((w1 * Byte + w2) * Byte + w3) * Byte + w4 = n % WordSize
  <2> DEFINE v2 == w1 * Byte + w2
             v3 == v2 * Byte + w3
             v4 == v3 * Byte + w4
  <2>1. v2 \in 0..Byte * Byte - 1 /\ n2 = (Byte * Byte) * n4 + v2
    <3>1. n2 = Byte * (Byte * n4 + w1) + w2
      BY <1>3, <1>4, <1>7
    <3>2. w1 * Byte <= (Byte - 1) * Byte
      BY CodecAssumption
    <3> QED
      BY <1>4, <3>1, <3>2, CodecAssumption
  <2> HIDE DEF v2
  <2>2. v3 \in 0..Byte * Byte * Byte - 1 /\ n1 = (Byte * Byte * Byte) * n4 + v3
    <3>1. n1 = Byte * ((Byte * Byte) * n4 + v2) + w3
      BY <1>2, <1>7, <2>1
    <3>2. v2 * Byte <= (Byte * Byte - 1) * Byte
      BY <2>1, CodecAssumption
    <3> QED
      BY <1>4, <2>1, <3>1, <3>2, CodecAssumption
  <2> HIDE DEF v3
  <2>3. v4 \in 0..Byte * Byte * Byte * Byte - 1 /\ n = (Byte * Byte * Byte * Byte) * n4 + v4
    <3>1. n = Byte * ((Byte * Byte * Byte) * n4 + v3) + w4
      BY <1>1, <1>7, <2>2
    <3>2. v3 * Byte <= (Byte * Byte * Byte - 1) * Byte
      BY <2>2, CodecAssumption
    <3> QED
      BY <1>4, <2>2, <3>1, <3>2, CodecAssumption
  <2> HIDE DEF v4
  <2>4. v4 \in Words /\ n = WordSize * n4 + v4
    BY <2>3 DEF Words, WordSize
  <2>5. v4 = n % WordSize
    BY <1>4, <2>4, Remainder
  <2> QED
    BY <2>5 DEF v2, v3, v4
<1>8. ((w[1] * Byte + w[2]) * Byte + w[3]) * Byte + w[4] = n % WordSize
  BY <1>1, <1>2, <1>3, <1>4, <1>5, <1>7
<1> QED
  BY <1>6, <1>8 DEF w

Bytes == 0..Byte - 1

(* Where the items of two sequences of bytes are in the two joined.        *)
LEMMA Joined ==
    ASSUME NEW u \in Seq(Bytes), NEW v \in Seq(Bytes)
    PROVE  /\ u \o v \in Seq(Bytes)
           /\ Len(u \o v) = Len(u) + Len(v)
           /\ \A j \in 1..Len(u) : (u \o v)[j] = u[j]
           /\ \A j \in 1..Len(v) : (u \o v)[j + Len(u)] = v[j]
<1> DEFINE w == u \o v
           m == Len(u)
           n == Len(v)
<1>1. m \in Nat /\ n \in Nat
  OBVIOUS
<1>2. /\ w \in Seq(Bytes) /\ Len(w) = m + n
      /\ \A j \in 1..m + n : w[j] = IF j <= m THEN u[j] ELSE v[j - m]
  BY ConcatProperties, Zenon
<1> HIDE DEF w, m, n
<1>3. \A j \in 1..m : w[j] = u[j]
  BY <1>1, <1>2
<1>4. ASSUME NEW j \in 1..n
      PROVE  w[j + m] = v[j]
  <2>1. j + m \in 1..m + n /\ ~(j + m <= m) /\ j + m - m = j
    BY <1>1
  <2>2. w[j + m] = v[j + m - m]
    BY <1>1, <1>2, <2>1, SMT
  <2> QED
    BY <2>1, <2>2
<1> QED
  BY <1>2, <1>3, <1>4 DEF w, m, n

(* decode undoes every encoder: type, file id, sequence number or length,  *)
(* and payload come out as they went in, numbers cut to a word.            *)
THEOREM DecodeUndoesEncode ==
    ASSUME NEW type \in Types, NEW fileId \in Int, NEW seqOrLen \in Int,
           NEW payload \in Seq(0..Byte - 1)
    PROVE  LET b == Encode(type, fileId, seqOrLen, payload)
           IN  /\ b \in Seq(0..Byte - 1)
               /\ Decodable(b)
               /\ Decode(b) = [type |-> type, fileId |-> fileId % WordSize,
                               seqOrLen |-> seqOrLen % WordSize, payload |-> payload]
<1> DEFINE i == SetUint32(fileId)
           s == SetUint32(seqOrLen)
           b == Encode(type, fileId, seqOrLen, payload)
<1>1. /\ i \in Seq(Bytes) /\ Len(i) = 4
      /\ ((i[1] * Byte + i[2]) * Byte + i[3]) * Byte + i[4] = fileId % WordSize
  BY WordOfBytes DEF Bytes
<1>2. /\ s \in Seq(Bytes) /\ Len(s) = 4
      /\ ((s[1] * Byte + s[2]) * Byte + s[3]) * Byte + s[4] = seqOrLen % WordSize
  BY WordOfBytes DEF Bytes
<1>3. type \in Bytes
  BY CodecAssumption, SMT DEF Types, Bytes
<1> HIDE DEF i, s
<1> DEFINE t == <<type>>
           h == t \o i
           k == h \o s
<1>4. b = k \o payload /\ payload \in Seq(Bytes)
  BY DEF Encode, Bytes, i, s
<1>5. t \in Seq(Bytes) /\ Len(t) = 1 /\ t[1] = type
  BY <1>3
<1> HIDE DEF t
<1>6. /\ h \in Seq(Bytes) /\ Len(h) = 5 /\ h[1] = type
      /\ h[2] = i[1] /\ h[3] = i[2] /\ h[4] = i[3] /\ h[5] = i[4]
  <2>1. /\ h \in Seq(Bytes) /\ Len(h) = Len(t) + Len(i)
        /\ \A j \in 1..Len(t) : h[j] = t[j]
        /\ \A j \in 1..Len(i) : h[j + Len(t)] = i[j]
    BY <1>1, <1>5, Joined, Zenon
  <2> HIDE DEF h
  <2> QED
    BY <1>1, <1>5, <2>1
<1> HIDE DEF h
<1>7. /\ k \in Seq(Bytes) /\ Len(k) = 9 /\ \A j \in 1..5 : k[j] = h[j]
      /\ k[6] = s[1] /\ k[7] = s[2] /\ k[8] = s[3] /\ k[9] = s[4]
  <2>1. /\ k \in Seq(Bytes) /\ Len(k) = Len(h) + Len(s)
        /\ \A j \in 1..Len(h) : k[j] = h[j]
        /\ \A j \in 1..Len(s) : k[j + Len(h)] = s[j]
    BY <1>2, <1>6, Joined, Zenon
  <2> HIDE DEF k
  <2> QED
    BY <1>2, <1>6, <2>1
<1> HIDE DEF k, b
<1>8. /\ b \in Seq(Bytes) /\ Len(payload) \in Nat
      /\ Len(b) = 9 + Len(payload)
      /\ \A j \in 1..9 : b[j] = k[j]
      /\ \A j \in 1..Len(payload) : b[j + 9] = payload[j]
  <2> DEFINE c == k \o payload
  <2>1. /\ c \in Seq(Bytes) /\ Len(c) = Len(k) + Len(payload)
        /\ \A j \in 1..Len(k) : c[j] = k[j]
        /\ \A j \in 1..Len(payload) : c[j + Len(k)] = payload[j]
    BY <1>4, <1>7, Joined, Zenon
  <2>2. b = c
    BY <1>4
  <2> HIDE DEF c
  <2> QED
    BY <1>4, <1>7, <2>1, <2>2
<1>9. /\ b[1] = type
      /\ b[2] = i[1] /\ b[3] = i[2] /\ b[4] = i[3] /\ b[5] = i[4]
      /\ b[6] = s[1] /\ b[7] = s[2] /\ b[8] = s[3] /\ b[9] = s[4]
  BY <1>6, <1>7, <1>8
<1>10. SubSeq(b, 10, Len(b)) = payload
  <2> DEFINE p == SubSeq(b, 10, Len(b))
  <2>1. Len(b) \in Int /\ \A j \in 10..Len(b) : b[j] \in Bytes
    BY <1>8
  <2>2. /\ p \in Seq(Bytes)
        /\ Len(p) = IF 10 <= Len(b) THEN Len(b) - 10 + 1 ELSE 0
        /\ \A j \in 1..Len(b) - 10 + 1 : p[j] = b[10 + j - 1]
    BY <2>1, SubSeqProperties
  <2> HIDE DEF p
  <2>3. Len(p) = Len(payload) /\ \A j \in 1..Len(p) : p[j] = payload[j]
    <3>1. Len(p) = Len(payload)
      BY <1>8, <2>2
    <3>2. ASSUME NEW j \in 1..Len(payload)
          PROVE  p[j] = payload[j]
      <4>1. j \in 1..Len(b) - 10 + 1 /\ 10 + j - 1 = j + 9
        BY <1>8
      <4> QED
        BY <1>8, <2>2, <4>1
    <3> QED
      BY <3>1, <3>2
  <2>4. p = payload
    BY <1>4, <2>2, <2>3, SeqEqual
  <2> QED
    BY <2>4 DEF p
<1>11. Decodable(b)
  BY <1>8 DEF Decodable, HeaderSize
<1>12. GetUint32(b, 2) = fileId % WordSize /\ GetUint32(b, 6) = seqOrLen % WordSize
  BY <1>1, <1>2, <1>9 DEF GetUint32
<1>13. PayloadOf(b) = payload
  BY <1>10 DEF PayloadOf, HeaderSize
<1> QED
  BY <1>8, <1>9, <1>11, <1>12, <1>13 DEF Decode, b, Bytes
=============================================================================
