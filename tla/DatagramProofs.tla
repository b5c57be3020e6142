--------------------------- MODULE DatagramProofs ---------------------------
(***************************************************************************)
(* What a checksum tells of a datagram of any length, with bytes of any    *)
(* size: the packet that is accepted is the one that was sent, but for the *)
(* two zeros of one's complement arithmetic; and the checksum is that of   *)
(* RFC 1071.                                                               *)
(***************************************************************************)
EXTENDS Datagram, TLAPS, SequenceTheorems

-----------------------------------------------------------------------------
(* Bytes and words                                                         *)

\* A number is its quotient and its rest.
LEMMA DivisionWithRest ==
  ASSUME NEW n \in Int, NEW d \in Int, d > 0
  PROVE  n % d = n - d * (n \div d)
OBVIOUS

LEMMA QuotientAndRest ==
  ASSUME NEW n \in Nat, NEW d \in Nat \ {0}
  PROVE  /\ n = d * (n \div d) + (n % d)
         /\ n \div d \in Nat /\ n % d \in 0 .. d - 1
<1>1. n % d \in 0 .. d - 1
  OBVIOUS
<1>2. n \div d \in Nat
  OBVIOUS
<1>3. n % d = n - d * (n \div d)
  BY DivisionWithRest
<1>4. d * (n \div d) \in Int
  BY <1>2
<1> DEFINE q == n \div d
           r == n % d
           m == d * q
<1>5. r = n - m /\ m \in Int /\ r \in Int /\ q \in Nat
  BY <1>1, <1>2, <1>3, <1>4
<1>6. n = m + r
  <2> HIDE DEF m, r
  <2> QED BY <1>5
<1>7. n = d * (n \div d) + (n % d)
  BY <1>6
<1> QED BY <1>1, <1>2, <1>7

\* A quotient stays below what the number does not reach.
LEMMA QuotientIsBelow ==
  ASSUME NEW n \in Nat, NEW d \in Nat \ {0}, NEW e \in Nat, n < d * e
  PROVE  n \div d < e
<1> DEFINE q == n \div d
           r == n % d
<1>1. n = d * q + r /\ q \in Nat /\ r \in Nat
  BY QuotientAndRest
<1> HIDE DEF q, r
<1>2. CASE q >= e
  <2> DEFINE f == q - e
  <2>1. q = e + f /\ f \in Nat
    BY <1>1, <1>2
  <2> HIDE DEF f
  <2>2. d * q = d * e + d * f /\ d * f >= 0
    BY <2>1
  <2> QED BY <1>1, <2>2
<1> QED BY <1>1, <1>2 DEF q

\* There are at least four words, and the largest is not a byte.
LEMMA WordSize ==
  /\ WORD \in Nat /\ BYTE \in Nat /\ BYTE >= 2 /\ WORD >= 4
  /\ WORD = BYTE * BYTE /\ WORD >= 2 * BYTE /\ WORD > BYTE
<1>1. BYTE \in Nat /\ BYTE >= 2
  BY ByteAssumption
<1> DEFINE b == BYTE - 2
<1>2. BYTE = b + 2 /\ b \in Nat
  BY <1>1
<1> HIDE DEF b
<1>3. BYTE * BYTE = b * b + 4 * b + 4 /\ b * b >= 0
  BY <1>2
<1> QED BY <1>1, <1>2, <1>3 DEF WORD

\* Two bytes make a word, and different ones different words.
LEMMA BytesMakeWord ==
  ASSUME NEW hi \in Byte, NEW lo \in Byte
  PROVE  /\ hi * BYTE + lo \in 0 .. WORD - 1
         /\ (hi * BYTE + lo) \div BYTE = hi
         /\ (hi * BYTE + lo) % BYTE = lo
<1>1. hi \in Nat /\ lo \in Nat /\ hi <= BYTE - 1 /\ lo <= BYTE - 1
  BY WordSize DEF Byte
<1>2. hi * BYTE <= (BYTE - 1) * BYTE
  <2> DEFINE d == BYTE - 1 - hi
  <2>1. BYTE - 1 = hi + d /\ d \in Nat
    BY <1>1, WordSize
  <2> HIDE DEF d
  <2>2. (BYTE - 1) * BYTE = hi * BYTE + d * BYTE /\ d * BYTE >= 0
    BY <1>1, <2>1, WordSize
  <2> QED BY <1>1, <2>2, WordSize
<1>3. (BYTE - 1) * BYTE = WORD - BYTE
  BY WordSize
<1>4. hi * BYTE \in Nat
  BY <1>1, WordSize
<1>5. hi * BYTE + lo \in 0 .. WORD - 1
  BY <1>1, <1>2, <1>3, <1>4, WordSize
<1> DEFINE n == hi * BYTE + lo
           q == n \div BYTE
           r == n % BYTE
<1>6. n = BYTE * q + r /\ q \in Nat /\ r \in 0 .. BYTE - 1
  <2>1. n \in Nat
    BY <1>5, WordSize
  <2>2. BYTE \in Nat \ {0}
    BY WordSize
  <2> HIDE DEF n
  <2> QED BY <2>1, <2>2, QuotientAndRest
<1>7. q = hi /\ r = lo
  <2> HIDE DEF q, r
  <2>1. BYTE * q + r = hi * BYTE + lo
    BY <1>6
  <2>2. BYTE * (q - hi) = lo - r
    BY <2>1, <1>1, <1>6, WordSize
  <2>3. CASE q - hi >= 1
    BY <1>1, <1>6, <2>2, <2>3, WordSize
  <2>4. CASE q - hi <= -1
    BY <1>1, <1>6, <2>2, <2>4, WordSize
  <2> QED BY <1>1, <1>6, <2>2, <2>3, <2>4, WordSize
<1> QED BY <1>5, <1>7

\* ntohs undoes htons.
LEMMA WordToBytes ==
  ASSUME NEW n \in 0 .. WORD - 1
  PROVE  /\ n \div BYTE \in Byte /\ n % BYTE \in Byte
         /\ (n \div BYTE) * BYTE + (n % BYTE) = n
<1>1. n \in Nat /\ n < BYTE * BYTE
  BY WordSize
<1>2. n \div BYTE < BYTE
  BY <1>1, WordSize, QuotientIsBelow
<1>3. BYTE \in Nat \ {0}
  BY WordSize
<1> DEFINE q == n \div BYTE
           r == n % BYTE
<1>4. n = BYTE * q + r /\ q \in Nat /\ r \in 0 .. BYTE - 1 /\ q < BYTE
  BY <1>1, <1>2, <1>3, QuotientAndRest
<1>5. q \in Byte /\ r \in Byte /\ q * BYTE + r = n
  <2> HIDE DEF q, r
  <2> QED BY <1>1, <1>3, <1>4 DEF Byte
<1> QED BY <1>5

\* The two bytes of a word are those of its quotient and its rest.
LEMMA WordOfBytes ==
  ASSUME NEW b, NEW i, b[i] \in Byte, b[i + 1] \in Byte
  PROVE  /\ ntohs(b, i) \in 0 .. WORD - 1
         /\ ntohs(b, i) \div BYTE = b[i] /\ ntohs(b, i) % BYTE = b[i + 1]
BY BytesMakeWord DEF ntohs

-----------------------------------------------------------------------------
(* One's complement addition                                               *)

\* The other zero.
Ones == WORD - 1

\* Below two divisors, a quotient is 0 or 1.
LEMMA DivisionOnce ==
  ASSUME NEW n \in Nat, NEW d \in Nat \ {0}, n < 2 * d
  PROVE  /\ n < d => n % d = n /\ n \div d = 0
         /\ n >= d => n % d = n - d /\ n \div d = 1
<1> DEFINE q == n \div d
           r == n % d
<1>1. n = d * q + r /\ q \in Nat /\ r \in 0 .. d - 1
  BY QuotientAndRest
<1>2. q < 2
  BY QuotientIsBelow
<1>3. /\ n < d => r = n /\ q = 0
      /\ n >= d => r = n - d /\ q = 1
  <2> HIDE DEF q, r
  <2>1. CASE q = 0
    BY <1>1, <2>1
  <2>2. CASE q = 1
    BY <1>1, <2>2
  <2> QED BY <1>1, <1>2, <2>1, <2>2
<1> QED BY <1>3

\* What AddWord does.
LEMMA AddWordIs ==
  ASSUME NEW s \in 0 .. Ones, NEW w \in 0 .. Ones
  PROVE  /\ AddWord(s, w) \in 0 .. Ones
         /\ s + w <= Ones => AddWord(s, w) = s + w
         /\ s + w > Ones => AddWord(s, w) = s + w - Ones
<1>1. s \in Nat /\ w \in Nat /\ s < WORD /\ w < WORD /\ WORD \in Nat \ {0}
  BY WordSize DEF Ones
<1>2. s + w >= WORD => (s + w) % WORD = s + w - WORD
  <2> DEFINE n == s + w
  <2>1. n \in Nat /\ n < 2 * WORD
    BY <1>1
  <2> HIDE DEF n
  <2>2. n >= WORD => n % WORD = n - WORD
    BY <1>1, <2>1, DivisionOnce
  <2>3. n = s + w
    BY DEF n
  <2> QED BY <1>1, <2>1, <2>2, <2>3
<1> DEFINE r == (s + w) % WORD
<1>3. AddWord(s, w) = IF s + w >= WORD THEN r + 1 ELSE s + w
  BY DEF AddWord
<1>4. s + w >= WORD => r = s + w - WORD
  BY <1>2
<1> HIDE DEF r
<1> QED BY <1>1, <1>3, <1>4 DEF Ones

\* The last byte is added as a word with a zero byte behind it.
LEMMA AddLastIs ==
  ASSUME NEW s \in 0 .. Ones, NEW byte \in Byte
  PROVE  /\ byte * BYTE \in 0 .. Ones - 1
         /\ AddLast(s, byte) = AddWord(s, byte * BYTE)
<1>1. byte * BYTE + 0 \in 0 .. WORD - 1 /\ byte * BYTE + 1 \in 0 .. WORD - 1
  BY BytesMakeWord, WordSize DEF Byte
<1> DEFINE w == byte * BYTE
<1>2. w \in 0 .. Ones - 1
  BY <1>1, WordSize DEF Ones, Byte
<1> HIDE DEF w
<1> DEFINE n == s + w
<1>3. n \in Nat /\ n < 2 * WORD /\ WORD \in Nat \ {0}
  BY <1>2, WordSize DEF Ones
<1> HIDE DEF n
<1>4. /\ n < WORD => n % WORD = n /\ n \div WORD = 0
      /\ n >= WORD => n % WORD = n - WORD /\ n \div WORD = 1
  BY <1>3, DivisionOnce
<1> DEFINE q == n \div WORD
           r == n % WORD
<1>5. AddLast(s, byte) = r + q
  BY DEF AddLast, w, n
<1>6. AddWord(s, w) = IF n >= WORD THEN r + 1 ELSE n
  BY DEF AddWord, n
<1>7. r + q = IF n >= WORD THEN r + 1 ELSE n
  BY <1>3, <1>4
<1>8. w = byte * BYTE
  BY DEF w
<1> QED BY <1>2, <1>5, <1>6, <1>7, <1>8

\* Two sums that neither are equal nor the two zeros.
Differ(s, t) == s # t /\ ~(s = 0 /\ t = Ones) /\ ~(s = Ones /\ t = 0)

\* They stay apart under the same words,
LEMMA DifferenceStays ==
  ASSUME NEW s \in 0 .. Ones, NEW t \in 0 .. Ones, NEW w \in 0 .. Ones, Differ(s, t)
  PROVE  Differ(AddWord(s, w), AddWord(t, w))
<1> DEFINE x == AddWord(s, w)
           y == AddWord(t, w)
<1>1. /\ s + w <= Ones => x = s + w
      /\ s + w > Ones => x = s + w - Ones
      /\ t + w <= Ones => y = t + w
      /\ t + w > Ones => y = t + w - Ones
  BY AddWordIs
<1> HIDE DEF x, y
<1>2. Ones \in Nat
  BY WordSize DEF Ones
<1>3. Differ(x, y)
  BY <1>1, <1>2 DEF Differ
<1> QED BY <1>3 DEF x, y

\* and come apart by different ones, but for a zero that turns into the other.
LEMMA DifferenceComes ==
  ASSUME NEW s \in 0 .. Ones, NEW w \in 0 .. Ones, NEW v \in 0 .. Ones, Differ(w, v)
  PROVE  Differ(AddWord(s, w), AddWord(s, v))
<1> DEFINE x == AddWord(s, w)
           y == AddWord(s, v)
<1>1. /\ s + w <= Ones => x = s + w
      /\ s + w > Ones => x = s + w - Ones
      /\ s + v <= Ones => y = s + v
      /\ s + v > Ones => y = s + v - Ones
  BY AddWordIs
<1> HIDE DEF x, y
<1>2. Ones \in Nat
  BY WordSize DEF Ones
<1>3. Differ(x, y)
  BY <1>1, <1>2 DEF Differ
<1> QED BY <1>3 DEF x, y

\* A complement is a word, and tells a sum.
LEMMA ComplementIs ==
  ASSUME NEW s \in 0 .. Ones
  PROVE  Complement(s) \in 0 .. WORD - 1 /\ Complement(s) = Ones - s
<1>1. s \in Nat /\ s < WORD /\ WORD \in Nat \ {0}
  BY WordSize DEF Ones
<1>2. s % WORD = s
  BY <1>1, DivisionOnce
<1> QED BY <1>1, <1>2 DEF Complement, Ones

-----------------------------------------------------------------------------
(* What build_packet lays out                                              *)

\* ntohl undoes htonl.
LEMMA LongToBytes ==
  ASSUME NEW n \in 0 .. WORD * WORD - 1
  PROVE  /\ \A i \in 1 .. 4 : htonl(n)[i] \in Byte
         /\ (htonl(n)[1] * BYTE + htonl(n)[2]) * WORD
              + (htonl(n)[3] * BYTE + htonl(n)[4]) = n
<1> DEFINE q == n \div WORD
           r == n % WORD
<1>1. n = WORD * q + r /\ q \in 0 .. WORD - 1 /\ r \in 0 .. WORD - 1
  <2>1. n \in Nat /\ WORD \in Nat \ {0} /\ n < WORD * WORD
    BY WordSize
  <2>2. n = WORD * q + r /\ q \in Nat /\ r \in 0 .. WORD - 1
    BY <2>1, QuotientAndRest
  <2>3. q < WORD
    BY <2>1, QuotientIsBelow
  <2> HIDE DEF q, r
  <2> QED BY <2>1, <2>2, <2>3
<1>2. htonl(n) = htons(q) \o htons(r)
  BY DEF htonl
<1> HIDE DEF q, r
<1> DEFINE qh == q \div BYTE
           ql == q % BYTE
           rh == r \div BYTE
           rl == r % BYTE
<1>3. qh \in Byte /\ ql \in Byte /\ qh * BYTE + ql = q
  BY <1>1, WordToBytes
<1>4. rh \in Byte /\ rl \in Byte /\ rh * BYTE + rl = r
  BY <1>1, WordToBytes
<1>5. htonl(n) = <<qh, ql>> \o <<rh, rl>>
  BY <1>2 DEF htons
<1> HIDE DEF qh, ql, rh, rl
<1> DEFINE h == htonl(n)
<1>6. h[1] = qh /\ h[2] = ql /\ h[3] = rh /\ h[4] = rl
  BY <1>5
<1> HIDE DEF h
<1>7. \A i \in 1 .. 4 : h[i] \in Byte
  BY <1>3, <1>4, <1>6
<1>8. (h[1] * BYTE + h[2]) * WORD + (h[3] * BYTE + h[4]) = n
  BY <1>1, <1>3, <1>4, <1>6, WordSize
<1> QED BY <1>7, <1>8 DEF h

\* The fifteen bytes of a header, and the payload.
LEMMA LayoutIs ==
  ASSUME NEW p \in PacketType, Len(p.payload) < WORD
  PROVE  /\ Layout(p) \in Seq(Byte)
         /\ Len(Layout(p)) = HEADER + Len(p.payload)
         /\ Layout(p)[CHECKSUM] = 0 /\ Layout(p)[CHECKSUM + 1] = 0
         /\ ntohs(Layout(p), PAYLOAD_LEN) = Len(p.payload)
         /\ Extracted(Layout(p)) = p
<1> DEFINE seq  == htonl(p.seq_num)
           ack  == htonl(p.ack_num)
           conn == htons(p.conn_id)
           len  == htons(Len(p.payload))
           head == << seq[1], seq[2], seq[3], seq[4], ack[1], ack[2], ack[3], ack[4],
                      conn[1], conn[2], 0, 0, len[1], len[2], p.flags >>
           L    == Layout(p)
<1>1. /\ p.seq_num \in 0 .. WORD * WORD - 1 /\ p.ack_num \in 0 .. WORD * WORD - 1
      /\ p.conn_id \in 0 .. WORD - 1 /\ p.flags \in Byte /\ p.payload \in Seq(Byte)
      /\ Len(p.payload) \in 0 .. WORD - 1
  BY WordSize DEF PacketType
<1>2. /\ seq[1] \in Byte /\ seq[2] \in Byte /\ seq[3] \in Byte /\ seq[4] \in Byte
      /\ (seq[1] * BYTE + seq[2]) * WORD + (seq[3] * BYTE + seq[4]) = p.seq_num
  BY <1>1, LongToBytes
<1>3. /\ ack[1] \in Byte /\ ack[2] \in Byte /\ ack[3] \in Byte /\ ack[4] \in Byte
      /\ (ack[1] * BYTE + ack[2]) * WORD + (ack[3] * BYTE + ack[4]) = p.ack_num
  BY <1>1, LongToBytes
<1>4. conn[1] \in Byte /\ conn[2] \in Byte /\ conn[1] * BYTE + conn[2] = p.conn_id
  BY <1>1, WordToBytes DEF htons
<1>5. len[1] \in Byte /\ len[2] \in Byte /\ len[1] * BYTE + len[2] = Len(p.payload)
  BY <1>1, WordToBytes DEF htons
<1>6. L = head \o p.payload
  BY DEF Layout
<1> HIDE DEF seq, ack, conn, len, L
<1>7. 0 \in Byte
  BY WordSize DEF Byte
<1>8. head \in Seq(Byte) /\ Len(head) = 15
  BY <1>1, <1>2, <1>3, <1>4, <1>5, <1>7
<1>9. /\ L \in Seq(Byte)
      /\ Len(L) = 15 + Len(p.payload)
      /\ \A i \in 1 .. 15 : L[i] = head[i]
      /\ \A i \in 1 .. Len(p.payload) : L[15 + i] = p.payload[i]
  <2> HIDE DEF head
  <2> DEFINE s == p.payload
  <2>1. s \in Seq(Byte) /\ Len(s) \in Nat
    BY <1>1
  <2> HIDE DEF s
  <2>2. L = head \o s
    BY <1>6 DEF s
  <2>3. /\ L \in Seq(Byte)
        /\ Len(L) = Len(head) + Len(s)
        /\ \A i \in 1 .. Len(head) + Len(s) :
             L[i] = IF i <= Len(head) THEN head[i] ELSE s[i - Len(head)]
    BY <1>8, <2>1, <2>2, ConcatProperties
  <2>4. ASSUME NEW i \in 1 .. 15
        PROVE  L[i] = head[i]
    <3>1. i \in 1 .. Len(head) + Len(s) /\ i <= Len(head)
      BY <1>8, <2>1
    <3> QED BY <2>3, <3>1
  <2>5. ASSUME NEW i \in 1 .. Len(s)
        PROVE  L[15 + i] = s[i]
    <3>1. 15 + i \in 1 .. Len(head) + Len(s) /\ ~(15 + i <= Len(head)) /\ 15 + i - Len(head) = i
      BY <1>8, <2>1
    <3> QED BY <2>3, <3>1
  <2> QED BY <1>8, <2>3, <2>4, <2>5 DEF s
<1>10. /\ L[1] = seq[1] /\ L[2] = seq[2] /\ L[3] = seq[3] /\ L[4] = seq[4]
       /\ L[5] = ack[1] /\ L[6] = ack[2] /\ L[7] = ack[3] /\ L[8] = ack[4]
       /\ L[9] = conn[1] /\ L[10] = conn[2] /\ L[11] = 0 /\ L[12] = 0
       /\ L[13] = len[1] /\ L[14] = len[2] /\ L[15] = p.flags
  BY <1>9
<1> HIDE DEF head
<1>11. ntohs(L, 13) = Len(p.payload) /\ ntohs(L, 9) = p.conn_id
  BY <1>4, <1>5, <1>10 DEF ntohs
<1>12. ntohl(L, 1) = p.seq_num /\ ntohl(L, 5) = p.ack_num
  <2>1. ntohl(L, 1) = (L[1] * BYTE + L[2]) * WORD + (L[3] * BYTE + L[4])
    BY DEF ntohl, ntohs
  <2>2. ntohl(L, 5) = (L[5] * BYTE + L[6]) * WORD + (L[7] * BYTE + L[8])
    BY DEF ntohl, ntohs
  <2> QED BY <1>2, <1>3, <1>10, <2>1, <2>2
<1>13. SubSeq(L, 16, 15 + Len(p.payload)) = p.payload
  <2> DEFINE s == SubSeq(L, 16, 15 + Len(p.payload))
          n == Len(p.payload)
  <2>1. n \in Nat /\ 15 + n \in Int
    BY <1>1
  <2> HIDE DEF n
  <2>2. \A i \in 16 .. 15 + n : L[i] \in Byte
    BY <1>9, <2>1 DEF n
  <2>3. /\ s \in Seq(Byte)
        /\ Len(s) = IF 16 <= 15 + n THEN (15 + n) - 16 + 1 ELSE 0
        /\ \A i \in 1 .. (15 + n) - 16 + 1 : s[i] = L[16 + i - 1]
    BY <2>1, <2>2, SubSeqProperties DEF n
  <2> HIDE DEF s
  <2>4. Len(s) = n
    BY <2>1, <2>3
  <2>5. ASSUME NEW i \in 1 .. Len(s)
        PROVE  s[i] = p.payload[i]
    <3>1. i \in 1 .. (15 + n) - 16 + 1 /\ 16 + i - 1 = 15 + i
      BY <2>1, <2>4
    <3>2. s[i] = L[15 + i]
      BY <2>3, <3>1
    <3> QED BY <1>9, <2>4, <3>2 DEF n
  <2>6. s = p.payload
    BY <1>1, <2>3, <2>4, <2>5, SeqEqual DEF n
  <2> QED BY <2>6 DEF s
<1>14. Extracted(L) = [ seq_num |-> p.seq_num, ack_num |-> p.ack_num,
         conn_id |-> p.conn_id, flags |-> p.flags, payload |-> p.payload ]
  <2>1. L[HEADER] = p.flags
    BY <1>10 DEF HEADER
  <2>2. SubSeq(L, HEADER + 1, HEADER + ntohs(L, PAYLOAD_LEN)) = p.payload
    BY <1>11, <1>13 DEF HEADER, PAYLOAD_LEN
  <2> QED BY <1>11, <1>12, <2>1, <2>2 DEF Extracted
<1>15. Extracted(L) = p
  BY <1>14 DEF PacketType
<1> QED BY <1>9, <1>10, <1>11, <1>15 DEF L, HEADER, CHECKSUM, PAYLOAD_LEN

\* The checksum takes two bytes of the header, and leaves the others alone.
LEMMA ChecksumBytes ==
  ASSUME NEW b \in Seq(Byte), Len(b) >= HEADER, NEW c \in 0 .. WORD - 1
  PROVE  /\ WithChecksum(b, c) \in Seq(Byte)
         /\ Len(WithChecksum(b, c)) = Len(b)
         /\ WithChecksum(b, c)[11] = c \div BYTE /\ WithChecksum(b, c)[12] = c % BYTE
         /\ ntohs(WithChecksum(b, c), 11) = c
         /\ \A i \in 1 .. Len(b) : i # 11 /\ i # 12 => WithChecksum(b, c)[i] = b[i]
<1> DEFINE hi == c \div BYTE
           lo == c % BYTE
           d  == WithChecksum(b, c)
<1>1. hi \in Byte /\ lo \in Byte /\ hi * BYTE + lo = c
  BY WordToBytes
<1>2. d = [b EXCEPT ![11] = hi, ![12] = lo]
  BY DEF WithChecksum, CHECKSUM
<1> HIDE DEF hi, lo, d
<1>3. 11 \in 1 .. Len(b) /\ 12 \in 1 .. Len(b) /\ Len(b) \in Nat
  BY DEF HEADER
<1>4. d \in Seq(Byte) /\ Len(d) = Len(b) /\ d[11] = hi /\ d[12] = lo
  BY <1>1, <1>2, <1>3
<1>5. \A i \in 1 .. Len(b) : i # 11 /\ i # 12 => d[i] = b[i]
  BY <1>2, <1>3
<1>6. ntohs(d, 11) = c
  BY <1>1, <1>4 DEF ntohs
<1> QED BY <1>4, <1>5, <1>6 DEF d, hi, lo

\* What is extracted depends on no byte of the checksum, nor on what stands behind
\* the payload.
LEMMA ExtractedAgrees ==
  ASSUME NEW b \in Seq(Byte), NEW d \in Seq(Byte),
         Len(d) = HEADER + ntohs(d, PAYLOAD_LEN), Len(b) >= Len(d), Len(d) >= HEADER,
         \A i \in 1 .. Len(d) : i # 11 /\ i # 12 => b[i] = d[i]
  PROVE  ntohs(b, PAYLOAD_LEN) = ntohs(d, PAYLOAD_LEN) /\ Extracted(b) = Extracted(d)
<1> DEFINE n == ntohs(d, 13)
<1>1. /\ b[1] = d[1] /\ b[2] = d[2] /\ b[3] = d[3] /\ b[4] = d[4] /\ b[5] = d[5]
      /\ b[6] = d[6] /\ b[7] = d[7] /\ b[8] = d[8] /\ b[9] = d[9] /\ b[10] = d[10]
      /\ b[13] = d[13] /\ b[14] = d[14] /\ b[15] = d[15]
  BY DEF HEADER
<1>2. ntohs(b, 13) = n /\ ntohs(b, 9) = ntohs(d, 9)
  BY <1>1 DEF ntohs
<1>3. ntohl(b, 1) = ntohl(d, 1) /\ ntohl(b, 5) = ntohl(d, 5)
  <2>1. \A x : ntohl(x, 1) = (x[1] * BYTE + x[2]) * WORD + (x[3] * BYTE + x[4])
    BY DEF ntohl, ntohs
  <2>2. \A x : ntohl(x, 5) = (x[5] * BYTE + x[6]) * WORD + (x[7] * BYTE + x[8])
    BY DEF ntohl, ntohs
  <2> QED BY <1>1, <2>1, <2>2
<1>4. Len(d) = 15 + n /\ n \in Int /\ Len(d) \in Nat /\ Len(b) \in Nat
  <2>1. d[13] \in Byte /\ d[14] \in Byte
    BY DEF HEADER
  <2>2. n \in 0 .. WORD - 1
    <3>1. n = d[13] * BYTE + d[14]
      BY DEF ntohs
    <3> HIDE DEF n
    <3> QED BY <2>1, <3>1, BytesMakeWord
  <2> HIDE DEF n
  <2>3. Len(d) = 15 + n
    BY DEF HEADER, PAYLOAD_LEN, n
  <2> QED BY <2>2, <2>3, WordSize
<1> HIDE DEF n
<1>5. \A i \in 16 .. 15 + n : b[i] = d[i] /\ d[i] \in Byte
  BY <1>4
<1>6. SubSeq(b, 16, 15 + n) = SubSeq(d, 16, 15 + n)
  <2> DEFINE s == SubSeq(b, 16, 15 + n)
             t == SubSeq(d, 16, 15 + n)
  <2>1. /\ s \in Seq(Byte) /\ Len(s) = IF 16 <= 15 + n THEN (15 + n) - 16 + 1 ELSE 0
        /\ \A i \in 1 .. (15 + n) - 16 + 1 : s[i] = b[16 + i - 1]
    BY <1>4, <1>5, SubSeqProperties
  <2>2. /\ t \in Seq(Byte) /\ Len(t) = IF 16 <= 15 + n THEN (15 + n) - 16 + 1 ELSE 0
        /\ \A i \in 1 .. (15 + n) - 16 + 1 : t[i] = d[16 + i - 1]
    BY <1>4, <1>5, SubSeqProperties
  <2> HIDE DEF s, t
  <2>3. ASSUME NEW i \in 1 .. Len(s)
        PROVE  s[i] = t[i]
    <3>1. i \in 1 .. (15 + n) - 16 + 1 /\ 16 + i - 1 \in 16 .. 15 + n
      BY <1>4, <2>1
    <3> QED BY <1>5, <2>1, <2>2, <3>1
  <2>4. s = t
    BY <2>1, <2>2, <2>3, SeqEqual
  <2> QED BY <2>4 DEF s, t
<1>7. Extracted(b) = Extracted(d)
  <2>1. SubSeq(b, HEADER + 1, HEADER + ntohs(b, PAYLOAD_LEN))
          = SubSeq(d, HEADER + 1, HEADER + ntohs(d, PAYLOAD_LEN))
    BY <1>2, <1>6 DEF HEADER, PAYLOAD_LEN, n
  <2> QED BY <1>1, <1>2, <1>3, <2>1 DEF Extracted, HEADER
<1> QED BY <1>2, <1>7 DEF PAYLOAD_LEN, n

-----------------------------------------------------------------------------
(* What the network makes of a datagram                                    *)

\* b is as long as d, and differs from it in its kth word at most.
SameBut(b, d, k) ==
  /\ Len(b) = Len(d)
  /\ \A m \in 1 .. Len(d) : m # 2 * k + 1 /\ m # 2 * k + 2 => b[m] = d[m]

\* b differs from d in one word, or is it cut or with something behind it.
Arrived(b, d) ==
  \/ \E k \in Nat : 2 * k < Len(d) /\ SameBut(b, d, k)
  \/ \A m \in 1 .. Len(d) : m <= Len(b) => b[m] = d[m]

LEMMA WhatArrives ==
  ASSUME NEW d \in Seq(Byte), Len(d) <= MAX_PACKET_SIZE, Len(d) >= HEADER,
         NEW bytes \in {d} \cup Damaged(d) \cup Cut(d) \cup Padded(d)
  PROVE  RecvFrom(bytes) \in Seq(Byte) /\ Arrived(RecvFrom(bytes), d)
<1>0. Len(d) \in Nat /\ MAX_PACKET_SIZE \in Nat
  BY SizeAssumption
<1>1. CASE bytes = d
  <2>1. RecvFrom(bytes) = d
    BY <1>0, <1>1 DEF RecvFrom
  <2> QED BY <2>1 DEF Arrived
<1>2. CASE bytes \in Damaged(d)
  <2>1. PICK k \in 0 .. (Len(d) - 1) \div 2, hi \in Byte, lo \in Byte :
          bytes = [i \in 1 .. Len(d) |-> IF (i - 1) \div 2 # k THEN d[i]
                                         ELSE IF i % 2 = 1 THEN hi ELSE lo]
    BY <1>2 DEF Damaged
  <2>2. bytes \in Seq(Byte) /\ Len(bytes) = Len(d)
    BY <1>0, <2>1
  <2>3. RecvFrom(bytes) = bytes
    BY <1>0, <2>2 DEF RecvFrom
  <2>4. k \in Nat /\ 2 * k < Len(d)
    <3>1. (Len(d) - 1) % 2 = (Len(d) - 1) - 2 * ((Len(d) - 1) \div 2)
      BY <1>0, DivisionWithRest
    <3>2. (Len(d) - 1) % 2 >= 0 /\ (Len(d) - 1) \div 2 \in Int /\ (Len(d) - 1) % 2 \in Int
      BY <1>0
    <3> QED BY <1>0, <3>1, <3>2
  <2>5. ASSUME NEW m \in 1 .. Len(d), m # 2 * k + 1, m # 2 * k + 2
        PROVE  bytes[m] = d[m]
    <3>1. (m - 1) % 2 = (m - 1) - 2 * ((m - 1) \div 2)
      BY <1>0, DivisionWithRest
    <3>2. (m - 1) % 2 \in 0 .. 1
      BY <1>0
    <3>3. (m - 1) \div 2 # k
      BY <1>0, <2>4, <2>5, <3>1, <3>2
    <3> QED BY <2>1, <3>3
  <2>6. SameBut(bytes, d, k)
    BY <2>2, <2>5 DEF SameBut
  <2> QED BY <2>2, <2>3, <2>4, <2>6 DEF Arrived
<1>3. CASE bytes \in Cut(d)
  <2>1. PICK n \in 0 .. Len(d) - 1 : bytes = SubSeq(d, 1, n)
    BY <1>3 DEF Cut
  <2>2. n \in Nat /\ n < Len(d) /\ (\A i \in 1 .. n : d[i] \in Byte)
    BY <1>0
  <2>3. /\ bytes \in Seq(Byte) /\ Len(bytes) = n
        /\ \A i \in 1 .. n : bytes[i] = d[i]
    <3>1. /\ bytes \in Seq(Byte) /\ Len(bytes) = IF 1 <= n THEN n - 1 + 1 ELSE 0
          /\ \A i \in 1 .. n - 1 + 1 : bytes[i] = d[1 + i - 1]
      BY <2>1, <2>2, SubSeqProperties
    <3> QED BY <2>2, <3>1
  <2>4. RecvFrom(bytes) = bytes
    BY <1>0, <2>2, <2>3 DEF RecvFrom
  <2>5. \A m \in 1 .. Len(d) : m <= Len(bytes) => bytes[m] = d[m]
    BY <2>2, <2>3
  <2> QED BY <2>3, <2>4, <2>5 DEF Arrived
<1>4. CASE bytes \in Padded(d)
  <2>1. PICK tail \in Seq(Byte) : bytes = d \o tail
    BY <1>4, SizeAssumption DEF Padded
  <2>2. /\ bytes \in Seq(Byte) /\ Len(bytes) = Len(d) + Len(tail)
        /\ \A i \in 1 .. Len(d) + Len(tail) :
             bytes[i] = IF i <= Len(d) THEN d[i] ELSE tail[i - Len(d)]
    BY <2>1, ConcatProperties
  <2>3. Len(bytes) >= Len(d) /\ Len(bytes) \in Nat /\ \A m \in 1 .. Len(d) : bytes[m] = d[m]
    BY <1>0, <2>2
  <2> HIDE DEF Padded
  <2>4. CASE Len(bytes) <= MAX_PACKET_SIZE
    <3>1. RecvFrom(bytes) = bytes
      BY <1>0, <2>3, <2>4 DEF RecvFrom
    <3> QED BY <2>2, <2>3, <3>1 DEF Arrived
  <2>5. CASE Len(bytes) > MAX_PACKET_SIZE
    <3> DEFINE s == SubSeq(bytes, 1, MAX_PACKET_SIZE)
    <3>1. RecvFrom(bytes) = s
      BY <2>5 DEF RecvFrom
    <3>2. \A i \in 1 .. MAX_PACKET_SIZE : bytes[i] \in Byte
      BY <1>0, <2>2, <2>3, <2>5
    <3>3. /\ s \in Seq(Byte)
          /\ \A i \in 1 .. MAX_PACKET_SIZE - 1 + 1 : s[i] = bytes[1 + i - 1]
      BY <1>0, <3>2, SubSeqProperties
    <3> HIDE DEF s
    <3>4. \A m \in 1 .. Len(d) : s[m] = d[m]
      BY <1>0, <2>3, <3>3
    <3> QED BY <3>1, <3>3, <3>4 DEF Arrived
  <2> QED BY <1>0, <2>3, <2>4, <2>5
<1> QED BY <1>1, <1>2, <1>3, <1>4

-----------------------------------------------------------------------------
(* The loop of calculate_checksum                                          *)

\* How many words the first n bytes make.
Index(n) == (n + 1) \div 2

\* The loop is between two words, or at the end.
Between == 2 * Index(pos) = pos \/ pos = Len(buffer)

\* The kth word of b, counted from 0, filled up with a zero byte.
WordAt(b, k) ==
  IF 2 * k + 2 <= Len(b) THEN ntohs(b, 2 * k + 1) ELSE b[2 * k + 1] * BYTE

\* t holds the sums of the words of b, up to that of the first n.
Trace(t, b, n) ==
  /\ t \in [Nat -> 0 .. Ones]
  /\ t[0] = 0
  /\ \A k \in 0 .. n - 1 : t[k + 1] = AddWord(t[k], WordAt(b, k))

LEMMA IndexIs ==
  ASSUME NEW n \in Nat
  PROVE  Index(n) \in Nat /\ 2 * Index(n) \in n .. n + 1
<1>1. (n + 1) % 2 = (n + 1) - 2 * ((n + 1) \div 2)
  BY DivisionWithRest
<1>2. (n + 1) % 2 \in 0 .. 1 /\ (n + 1) \div 2 \in Int
  OBVIOUS
<1> QED BY <1>1, <1>2 DEF Index

LEMMA NoWords == Index(0) = 0
<1>1. Index(0) \in Nat /\ 2 * Index(0) \in 0 .. 1
  BY IndexIs
<1> QED BY <1>1

\* A word is a word.
LEMMA WordAtIs ==
  ASSUME NEW b \in Seq(Byte), NEW k \in Nat, 2 * k < Len(b)
  PROVE  /\ WordAt(b, k) \in 0 .. Ones
         /\ 2 * k + 2 <= Len(b) => WordAt(b, k) = ntohs(b, 2 * k + 1)
         /\ 2 * k + 2 > Len(b) => /\ WordAt(b, k) = b[2 * k + 1] * BYTE
                                  /\ WordAt(b, k) < Ones
<1> DEFINE i == 2 * k + 1
<1>1. i \in 1 .. Len(b) /\ (2 * k + 2 <= Len(b) => i + 1 \in 1 .. Len(b)) /\ Len(b) \in Nat
  OBVIOUS
<1>2. b[i] \in Byte
  BY <1>1
<1>3. CASE 2 * k + 2 <= Len(b)
  <2>1. WordAt(b, k) = ntohs(b, i)
    BY <1>3 DEF WordAt
  <2> HIDE DEF i
  <2>2. ntohs(b, i) \in 0 .. WORD - 1
    BY <1>1, <1>2, <1>3, WordOfBytes
  <2> QED BY <1>1, <1>3, <2>1, <2>2 DEF Ones, i
<1>4. CASE 2 * k + 2 > Len(b)
  <2>1. WordAt(b, k) = b[i] * BYTE
    BY <1>1, <1>4 DEF WordAt
  <2> HIDE DEF i
  <2>2. 0 \in 0 .. Ones
    BY WordSize DEF Ones
  <2>3. b[i] * BYTE \in 0 .. Ones - 1
    BY <1>2, <2>2, AddLastIs
  <2>4. Ones \in Nat
    BY WordSize DEF Ones
  <2>5. WordAt(b, k) \in 0 .. Ones /\ WordAt(b, k) < Ones
    BY <2>1, <2>3, <2>4
  <2> QED BY <1>1, <1>4, <2>1, <2>5 DEF i
<1> QED BY <1>1, <1>3, <1>4

\* A turn of the loop adds the next word.
LEMMA SumStep ==
  ASSUME SumWord \/ SumLast, Between,
         buffer \in Seq(Byte), pos \in 0 .. Len(buffer), sum \in 0 .. Ones
  PROVE  /\ Index(pos) \in Nat /\ 2 * Index(pos) < Len(buffer)
         /\ Index(pos') = Index(pos) + 1
         /\ WordAt(buffer, Index(pos)) \in 0 .. Ones
         /\ sum' = AddWord(sum, WordAt(buffer, Index(pos)))
         /\ sum' \in 0 .. Ones
         /\ buffer' = buffer /\ pos' \in 0 .. Len(buffer)
         /\ Between'
<1> DEFINE k == Index(pos)
<1>1. pos < Len(buffer) /\ Len(buffer) \in Nat /\ pos \in Nat
  BY DEF SumWord, SumLast
<1>2. k \in Nat /\ 2 * k = pos
  BY <1>1, IndexIs DEF Between
<1>3. WordAt(buffer, k) \in 0 .. Ones
  BY <1>1, <1>2, WordAtIs
<1>4. pos' \in Nat /\ Index(pos') \in Nat /\ 2 * Index(pos') \in pos' .. pos' + 1
  <2>1. pos' \in Nat
    BY <1>1 DEF SumWord, SumLast
  <2> QED BY <2>1, IndexIs
<1>5. buffer' = buffer
  BY DEF SumWord, SumLast
<1>6. ASSUME SumWord
      PROVE  /\ sum' = AddWord(sum, WordAt(buffer, k))
             /\ Index(pos') = k + 1 /\ Between' /\ pos' \in 0 .. Len(buffer)
  <2>1. pos' = pos + 2 /\ pos + 2 <= Len(buffer) /\ sum' = AddWord(sum, ntohs(buffer, pos + 1))
    BY <1>1, <1>6 DEF SumWord
  <2>2. WordAt(buffer, k) = ntohs(buffer, pos + 1)
    <3>1. 2 * k + 2 <= Len(buffer) /\ 2 * k + 1 = pos + 1
      BY <1>2, <2>1
    <3> HIDE DEF k
    <3> QED BY <3>1 DEF WordAt
  <2>3. sum' = AddWord(sum, WordAt(buffer, k))
    BY <2>1, <2>2
  <2>4. Index(pos') = k + 1 /\ 2 * Index(pos') = pos' /\ pos' \in 0 .. Len(buffer)
    <3> HIDE DEF k
    <3> QED BY <1>1, <1>2, <1>4, <2>1
  <2>5. Between'
    BY <2>4 DEF Between, Index
  <2> QED BY <2>3, <2>4, <2>5
<1>7. ASSUME SumLast
      PROVE  /\ sum' = AddWord(sum, WordAt(buffer, k))
             /\ Index(pos') = k + 1 /\ Between' /\ pos' \in 0 .. Len(buffer)
  <2>1. pos' = pos + 1 /\ pos + 1 = Len(buffer) /\ sum' = AddLast(sum, buffer[pos + 1])
    BY <1>1, <1>7 DEF SumLast
  <2>2. buffer[pos + 1] \in Byte
    BY <1>1, <2>1
  <2>3. WordAt(buffer, k) = buffer[pos + 1] * BYTE
    <3>1. ~(2 * k + 2 <= Len(buffer)) /\ 2 * k + 1 = pos + 1
      BY <1>1, <1>2, <2>1
    <3> HIDE DEF k
    <3> QED BY <3>1 DEF WordAt
  <2>4. sum' = AddWord(sum, WordAt(buffer, k))
    BY <2>1, <2>2, <2>3, AddLastIs
  <2>5. Index(pos') = k + 1 /\ pos' = Len(buffer) /\ pos' \in 0 .. Len(buffer)
    <3> HIDE DEF k
    <3> QED BY <1>1, <1>2, <1>4, <2>1
  <2>6. Between'
    BY <2>5, <1>5 DEF Between
  <2> QED BY <2>4, <2>5, <2>6
<1>8. sum' = AddWord(sum, WordAt(buffer, k)) /\ Index(pos') = k + 1
      /\ Between' /\ pos' \in 0 .. Len(buffer)
  BY <1>6, <1>7
<1>9. sum' \in 0 .. Ones
  BY <1>3, <1>8, AddWordIs
<1> QED BY <1>1, <1>2, <1>3, <1>5, <1>8, <1>9

-----------------------------------------------------------------------------
(* The words of what was sent and of what has arrived                      *)

LEMMA WordsAgree ==
  ASSUME NEW b \in Seq(Byte), NEW c \in Seq(Byte), Len(b) = Len(c),
         NEW k \in Nat, 2 * k < Len(c),
         b[2 * k + 1] = c[2 * k + 1], 2 * k + 2 <= Len(c) => b[2 * k + 2] = c[2 * k + 2]
  PROVE  WordAt(b, k) = WordAt(c, k)
<1> DEFINE i == 2 * k + 1
<1>1. i + 1 = 2 * k + 2 /\ b[i] = c[i]
  OBVIOUS
<1>2. CASE 2 * k + 2 <= Len(c)
  <2>1. b[i + 1] = c[i + 1]
    BY <1>1, <1>2
  <2>2. ntohs(b, i) = ntohs(c, i)
    BY <1>1, <2>1 DEF ntohs
  <2>3. WordAt(b, k) = ntohs(b, i) /\ WordAt(c, k) = ntohs(c, i)
    BY <1>2 DEF WordAt
  <2> QED BY <2>2, <2>3
<1>3. CASE ~(2 * k + 2 <= Len(c))
  BY <1>1, <1>3 DEF WordAt
<1> QED BY <1>2, <1>3

\* Where a word is all that differs, the words differ as numbers, and are not the
\* two zeros but where ZerosForOnes says so.
LEMMA WordsDiffer ==
  ASSUME NEW b \in Seq(Byte), NEW d \in Seq(Byte), b # d,
         NEW k \in Nat, 2 * k < Len(d), SameBut(b, d, k)
  PROVE  \/ Differ(WordAt(b, k), WordAt(d, k))
         \/ 2 * k + 2 <= Len(d) /\ ZerosForOnes(d, b, 2 * k + 1)
<1> DEFINE i == 2 * k + 1
           w == WordAt(b, k)
           v == WordAt(d, k)
<1>1. Len(b) = Len(d) /\ \A m \in 1 .. Len(d) : m # i /\ m # i + 1 => b[m] = d[m]
  BY DEF SameBut
<1>2. /\ w \in 0 .. Ones /\ v \in 0 .. Ones
      /\ 2 * k + 2 <= Len(d) => w = ntohs(b, i) /\ v = ntohs(d, i)
      /\ 2 * k + 2 > Len(d) => /\ w = b[i] * BYTE /\ v = d[i] * BYTE
                               /\ w < Ones /\ v < Ones
  BY <1>1, WordAtIs
<1>3. i \in 1 .. Len(d) /\ Len(d) \in Nat /\ b[i] \in Byte /\ d[i] \in Byte
  BY <1>1
<1>4. 2 * k + 2 <= Len(d) => i + 1 \in 1 .. Len(d) /\ b[i + 1] \in Byte /\ d[i + 1] \in Byte
  BY <1>1
<1>5. w # v
  <2>1. SUFFICES ASSUME w = v
                 PROVE  b = d
    OBVIOUS
  <2>2. CASE 2 * k + 2 <= Len(d)
    <3>1. /\ ntohs(b, i) \div BYTE = b[i] /\ ntohs(b, i) % BYTE = b[i + 1]
          /\ ntohs(d, i) \div BYTE = d[i] /\ ntohs(d, i) % BYTE = d[i + 1]
      BY <1>3, <1>4, <2>2, WordOfBytes
    <3>2. b[i] = d[i] /\ b[i + 1] = d[i + 1]
      <4>1. ntohs(b, i) = ntohs(d, i)
        BY <1>2, <2>1, <2>2
      <4> HIDE DEF i
      <4> QED BY <3>1, <4>1
    <3>3. \A m \in 1 .. Len(d) : b[m] = d[m]
      BY <1>1, <3>2
    <3> QED BY <1>1, <3>3, SeqEqual
  <2>3. CASE 2 * k + 2 > Len(d)
    <3>1. 0 \in Byte
      BY WordSize DEF Byte
    <3>2. (b[i] * BYTE + 0) \div BYTE = b[i] /\ (d[i] * BYTE + 0) \div BYTE = d[i]
      BY <1>3, <3>1, BytesMakeWord
    <3>3. b[i] = d[i]
      <4>1. b[i] * BYTE + 0 = d[i] * BYTE + 0
        BY <1>2, <2>1, <2>3
      <4> HIDE DEF i
      <4> QED BY <3>2, <4>1
    <3>4. \A m \in 1 .. Len(d) : b[m] = d[m]
      BY <1>1, <1>3, <2>3, <3>3
    <3> QED BY <1>1, <3>4, SeqEqual
  <2> QED BY <1>3, <2>2, <2>3
<1>6. CASE Differ(w, v)
  BY <1>6
<1>7. CASE ~Differ(w, v)
  <2>1. (w = 0 /\ v = Ones) \/ (w = Ones /\ v = 0)
    BY <1>5, <1>7 DEF Differ
  <2>2. 2 * k + 2 <= Len(d)
    BY <1>2, <1>3, <2>1, WordSize DEF Ones
  <2>3. {ntohs(d, i), ntohs(b, i)} = {0, WORD - 1}
    BY <1>2, <2>1, <2>2 DEF Ones
  <2> QED BY <2>2, <2>3 DEF ZerosForOnes
<1> QED BY <1>6, <1>7

\* How the sum over what has arrived compares to the sum over what was sent, while
\* the receiver adds: only the word that differs sets them apart, and that of the
\* checksum itself does not.
Compared(t) ==
  \A k \in Nat :
    2 * k < Len(datagram) /\ SameBut(in_buffer, datagram, k) =>
      /\ k = 5 \/ Index(pos) <= k => sum = t[Index(pos)]
      /\ k # 5 /\ Index(pos) > k /\ in_buffer # datagram =>
           \/ Differ(sum, t[Index(pos)])
           \/ 2 * k + 2 <= Len(datagram) /\ ZerosForOnes(datagram, in_buffer, 2 * k + 1)

\* What the sender has summed and sent.
Carried(t) ==
  LET L == Layout(sent) IN
    /\ Trace(t, L, Index(Len(L)))
    /\ datagram = WithChecksum(L, Complement(t[Index(Len(L))]))

\* What is known of a packet that has been sent.
LEMMA SentIs ==
  ASSUME sent \in Packets, NEW t, Carried(t)
  PROVE  LET L == Layout(sent)
             K == Index(Len(L))
         IN  /\ L \in Seq(Byte) /\ datagram \in Seq(Byte)
             /\ Len(datagram) = Len(L) /\ Len(L) \in HEADER .. MAX_PACKET_SIZE
             /\ K \in Nat /\ 2 * K \in Len(L) .. Len(L) + 1 /\ t[K] \in 0 .. Ones
             /\ L[11] = 0 /\ L[12] = 0
             /\ \A i \in 1 .. Len(L) : i # 11 /\ i # 12 => datagram[i] = L[i]
             /\ ntohs(datagram, CHECKSUM) = Complement(t[K])
             /\ Len(datagram) = HEADER + ntohs(datagram, PAYLOAD_LEN)
             /\ Extracted(datagram) = sent
<1> DEFINE L == Layout(sent)
           K == Index(Len(L))
<1>1. sent \in PacketType /\ Len(sent.payload) < WORD
      /\ HEADER + Len(sent.payload) <= MAX_PACKET_SIZE
      /\ MAX_PACKET_SIZE \in Nat /\ Len(sent.payload) \in Nat
  BY SizeAssumption DEF PacketType
<1>2. /\ L \in Seq(Byte) /\ Len(L) = HEADER + Len(sent.payload)
      /\ L[CHECKSUM] = 0 /\ L[CHECKSUM + 1] = 0
      /\ ntohs(L, PAYLOAD_LEN) = Len(sent.payload) /\ Extracted(L) = sent
  BY <1>1, LayoutIs
<1>3. Len(L) \in HEADER .. MAX_PACKET_SIZE /\ Len(L) \in Nat /\ L[11] = 0 /\ L[12] = 0
  BY <1>1, <1>2 DEF HEADER, CHECKSUM
<1> HIDE DEF L
<1>4. K \in Nat /\ 2 * K \in Len(L) .. Len(L) + 1
  BY <1>3, IndexIs
<1>5. t[K] \in 0 .. Ones /\ datagram = WithChecksum(L, Complement(t[K]))
  BY <1>4 DEF Carried, Trace, L
<1> HIDE DEF K
<1>6. Complement(t[K]) \in 0 .. WORD - 1 /\ Len(L) >= HEADER
  BY <1>3, <1>5, ComplementIs DEF HEADER
<1>7. /\ datagram \in Seq(Byte) /\ Len(datagram) = Len(L)
      /\ ntohs(datagram, 11) = Complement(t[K])
      /\ \A i \in 1 .. Len(L) : i # 11 /\ i # 12 => datagram[i] = L[i]
  BY <1>2, <1>5, <1>6, ChecksumBytes
<1>8. ntohs(datagram, PAYLOAD_LEN) = ntohs(L, PAYLOAD_LEN) /\ Extracted(datagram) = Extracted(L)
  BY <1>2, <1>6, <1>7, ExtractedAgrees
<1> QED BY <1>2, <1>3, <1>4, <1>5, <1>7, <1>8 DEF CHECKSUM, L, K

\* A turn of the receiver's loop keeps the comparison.
LEMMA CompareStep ==
  ASSUME sent \in Packets, NEW t, Carried(t), Compared(t),
         in_buffer \in Seq(Byte), Len(in_buffer) >= HEADER, buffer = WithChecksum(in_buffer, 0),
         buffer \in Seq(Byte), pos \in 0 .. Len(buffer), sum \in 0 .. Ones, Between,
         SumWord \/ SumLast
  PROVE  Compared(t)'
<1> DEFINE L == Layout(sent)
           K == Index(Len(L))
           n == Index(pos)
<1>1. /\ L \in Seq(Byte) /\ datagram \in Seq(Byte)
      /\ Len(datagram) = Len(L) /\ Len(L) \in HEADER .. MAX_PACKET_SIZE
      /\ K \in Nat /\ 2 * K \in Len(L) .. Len(L) + 1
      /\ L[11] = 0 /\ L[12] = 0
      /\ \A i \in 1 .. Len(L) : i # 11 /\ i # 12 => datagram[i] = L[i]
  BY SentIs
<1>2. /\ n \in Nat /\ 2 * n < Len(buffer) /\ Index(pos') = n + 1
      /\ WordAt(buffer, n) \in 0 .. Ones /\ sum' = AddWord(sum, WordAt(buffer, n))
  BY SumStep
<1>3. 0 \in 0 .. WORD - 1 /\ 0 \div BYTE = 0 /\ 0 % BYTE = 0
  <2>1. 0 \in Byte
    BY WordSize DEF Byte
  <2>2. (0 * BYTE + 0) \div BYTE = 0 /\ (0 * BYTE + 0) % BYTE = 0 /\ 0 * BYTE + 0 = 0
    BY <2>1, BytesMakeWord, WordSize
  <2> QED BY <2>2, WordSize
<1>4. /\ Len(buffer) = Len(in_buffer) /\ buffer[11] = 0 /\ buffer[12] = 0
      /\ \A i \in 1 .. Len(in_buffer) : i # 11 /\ i # 12 => buffer[i] = in_buffer[i]
  BY <1>3, ChecksumBytes
<1>5. /\ t \in [Nat -> 0 .. Ones]
      /\ \A k \in 0 .. K - 1 : t[k + 1] = AddWord(t[k], WordAt(L, k))
  BY DEF Carried, Trace
<1>6. datagram' = datagram /\ in_buffer' = in_buffer
  BY DEF SumWord, SumLast
<1> HIDE DEF L, K, n
<1>7. SUFFICES ASSUME NEW k \in Nat, 2 * k < Len(datagram), SameBut(in_buffer, datagram, k)
               PROVE  /\ k = 5 \/ n + 1 <= k => sum' = t[n + 1]
                      /\ k # 5 /\ n + 1 > k /\ in_buffer # datagram =>
                           \/ Differ(sum', t[n + 1])
                           \/ /\ 2 * k + 2 <= Len(datagram)
                              /\ ZerosForOnes(datagram, in_buffer, 2 * k + 1)
  BY <1>2, <1>6 DEF Compared, SameBut, ZerosForOnes, Differ, ntohs
<1>8. /\ k = 5 \/ n <= k => sum = t[n]
      /\ k # 5 /\ n > k /\ in_buffer # datagram =>
           \/ Differ(sum, t[n])
           \/ 2 * k + 2 <= Len(datagram) /\ ZerosForOnes(datagram, in_buffer, 2 * k + 1)
  BY <1>7 DEF Compared, n
<1>9. /\ Len(in_buffer) = Len(datagram)
      /\ \A m \in 1 .. Len(datagram) : m # 2 * k + 1 /\ m # 2 * k + 2 => in_buffer[m] = datagram[m]
  BY <1>7 DEF SameBut
<1>10. 2 * n < Len(L) /\ Len(buffer) = Len(L) /\ n \in 0 .. K - 1 /\ Len(L) \in Nat
  BY <1>1, <1>2, <1>4, <1>9
<1>11. t[n] \in 0 .. Ones /\ t[n + 1] = AddWord(t[n], WordAt(L, n)) /\ WordAt(L, n) \in 0 .. Ones
  BY <1>1, <1>2, <1>5, <1>10, WordAtIs
<1>12. n # k \/ k = 5 => WordAt(buffer, n) = WordAt(L, n)
  <2>1. SUFFICES ASSUME n # k \/ k = 5
                 PROVE  WordAt(buffer, n) = WordAt(L, n)
    OBVIOUS
  <2>2. ASSUME NEW m \in 1 .. Len(L), m = 2 * n + 1 \/ m = 2 * n + 2
        PROVE  buffer[m] = L[m]
    <3>1. CASE m = 11 \/ m = 12
      BY <1>1, <1>4, <3>1
    <3>2. CASE m # 11 /\ m # 12
      <4>1. m # 2 * k + 1 /\ m # 2 * k + 2
        BY <1>2, <1>7, <2>1, <2>2, <3>2
      <4>2. m \in 1 .. Len(datagram) /\ m \in 1 .. Len(in_buffer)
        BY <1>1, <1>9
      <4> QED BY <1>1, <1>4, <1>9, <3>2, <4>1, <4>2
    <3> QED BY <3>1, <3>2
  <2>3. buffer[2 * n + 1] = L[2 * n + 1]
    BY <1>2, <1>10, <2>2
  <2>4. 2 * n + 2 <= Len(L) => buffer[2 * n + 2] = L[2 * n + 2]
    BY <1>2, <1>10, <2>2
  <2> QED BY <1>1, <1>2, <1>10, <2>3, <2>4, WordsAgree
<1>13. CASE k = 5 \/ n + 1 <= k
  <2>1. sum = t[n] /\ WordAt(buffer, n) = WordAt(L, n)
    BY <1>2, <1>7, <1>8, <1>12, <1>13
  <2>2. sum' = t[n + 1]
    BY <1>2, <1>11, <2>1
  <2> QED BY <1>2, <1>7, <1>13, <2>2
<1>14. CASE k # 5 /\ n > k /\ in_buffer # datagram
  <2>1. CASE Differ(sum, t[n])
    <3>1. WordAt(buffer, n) = WordAt(L, n)
      BY <1>2, <1>7, <1>12, <1>14
    <3>2. Differ(AddWord(sum, WordAt(L, n)), AddWord(t[n], WordAt(L, n)))
      BY <1>11, <2>1, DifferenceStays
    <3>3. Differ(sum', t[n + 1])
      BY <1>2, <1>11, <3>1, <3>2
    <3> QED BY <1>2, <1>7, <1>14, <3>3
  <2> QED BY <1>2, <1>7, <1>8, <1>14, <2>1
<1>15. CASE k # 5 /\ n = k /\ in_buffer # datagram
  <2>1. sum = t[n]
    BY <1>2, <1>8, <1>15
  <2>2. WordAt(buffer, n) = WordAt(in_buffer, n)
    <3>1. 2 * n + 1 \in 1 .. Len(in_buffer) /\ 2 * n + 1 # 11 /\ 2 * n + 1 # 12
      BY <1>2, <1>4, <1>15
    <3>2. 2 * n + 2 <= Len(in_buffer) => 2 * n + 2 \in 1 .. Len(in_buffer)
      BY <1>2, <1>4
    <3>3. 2 * n + 2 # 11 /\ 2 * n + 2 # 12
      BY <1>2, <1>15
    <3> QED BY <1>2, <1>4, <3>1, <3>2, <3>3, WordsAgree
  <2>3. WordAt(datagram, n) = WordAt(L, n)
    <3>1. 2 * n + 1 \in 1 .. Len(L) /\ 2 * n + 1 # 11 /\ 2 * n + 1 # 12
      BY <1>2, <1>10, <1>15
    <3>2. 2 * n + 2 <= Len(L) => 2 * n + 2 \in 1 .. Len(L)
      BY <1>2, <1>10
    <3>3. 2 * n + 2 # 11 /\ 2 * n + 2 # 12
      BY <1>2, <1>15
    <3> QED BY <1>1, <1>2, <1>10, <3>1, <3>2, <3>3, WordsAgree
  <2>4. \/ Differ(WordAt(in_buffer, n), WordAt(datagram, n))
        \/ 2 * n + 2 <= Len(datagram) /\ ZerosForOnes(datagram, in_buffer, 2 * n + 1)
    BY <1>1, <1>7, <1>15, WordsDiffer
  <2>5. CASE Differ(WordAt(buffer, n), WordAt(L, n))
    <3>1. Differ(AddWord(sum, WordAt(buffer, n)), AddWord(sum, WordAt(L, n)))
      BY <1>2, <1>11, <2>1, <2>5, DifferenceComes
    <3>2. Differ(sum', t[n + 1])
      BY <1>2, <1>11, <2>1, <3>1
    <3> QED BY <1>2, <1>15, <3>2
  <2> QED BY <1>2, <1>15, <2>2, <2>3, <2>4, <2>5
<1>16. CASE k # 5 /\ n + 1 > k /\ in_buffer = datagram
  BY <1>2, <1>7, <1>16
<1> QED BY <1>2, <1>7, <1>13, <1>14, <1>15, <1>16

-----------------------------------------------------------------------------
(* What parse_packet decides                                               *)

\* Once everything is summed, a packet with one word damaged is accepted only if
\* it is the one that was sent, or the damage was a zero for the other.
LEMMA DamageIsSeen ==
  ASSUME sent \in Packets, NEW t, Carried(t), Compared(t), Summed,
         in_buffer \in Seq(Byte), buffer = WithChecksum(in_buffer, 0), sum \in 0 .. Ones,
         ChecksumFits, Len(in_buffer) >= HEADER,
         NEW k \in Nat, 2 * k < Len(datagram), SameBut(in_buffer, datagram, k)
  PROVE  \/ in_buffer = datagram
         \/ 2 * k + 2 <= Len(datagram) /\ ZerosForOnes(datagram, in_buffer, 2 * k + 1)
<1> DEFINE K == Index(Len(Layout(sent)))
<1>1. /\ datagram \in Seq(Byte) /\ Len(datagram) = Len(Layout(sent))
      /\ Len(datagram) \in Nat
      /\ K \in Nat /\ 2 * K \in Len(datagram) .. Len(datagram) + 1 /\ t[K] \in 0 .. Ones
      /\ ntohs(datagram, CHECKSUM) = Complement(t[K])
  BY SentIs
<1>2. Len(in_buffer) = Len(datagram) /\ 0 \in 0 .. WORD - 1
  BY WordSize DEF SameBut
<1>3. pos = Len(datagram)
  BY <1>2, ChecksumBytes DEF Summed
<1>4. Index(pos) = K
  BY <1>1, <1>3
<1> HIDE DEF K
<1>5. /\ k = 5 \/ K <= k => sum = t[K]
      /\ k # 5 /\ K > k /\ in_buffer # datagram =>
           \/ Differ(sum, t[K])
           \/ 2 * k + 2 <= Len(datagram) /\ ZerosForOnes(datagram, in_buffer, 2 * k + 1)
  BY <1>4 DEF Compared
<1>6. K > k
  BY <1>1
<1>7. Complement(sum) = ntohs(in_buffer, CHECKSUM)
  BY DEF ChecksumFits
<1>8. Complement(sum) = Ones - sum /\ Complement(t[K]) = Ones - t[K] /\ Ones \in Nat
  BY <1>1, ComplementIs, WordSize DEF Ones
<1>9. CASE k = 5
  <2>1. ntohs(in_buffer, 11) = ntohs(datagram, 11)
    BY <1>1, <1>5, <1>7, <1>9 DEF CHECKSUM
  <2>2. /\ in_buffer[11] \in Byte /\ in_buffer[12] \in Byte
        /\ datagram[11] \in Byte /\ datagram[12] \in Byte
    BY <1>1, <1>2 DEF HEADER
  <2>3. /\ ntohs(in_buffer, 11) \div BYTE = in_buffer[11]
        /\ ntohs(in_buffer, 11) % BYTE = in_buffer[12]
        /\ ntohs(datagram, 11) \div BYTE = datagram[11]
        /\ ntohs(datagram, 11) % BYTE = datagram[12]
    <3>1. \A b : b[11] \in Byte /\ b[12] \in Byte =>
            ntohs(b, 11) \div BYTE = b[11] /\ ntohs(b, 11) % BYTE = b[12]
      <4>1. \A b : ntohs(b, 11) = b[11] * BYTE + b[12]
        BY DEF ntohs
      <4> QED BY <4>1, BytesMakeWord
    <3> QED BY <2>2, <3>1
  <2>4. in_buffer[11] = datagram[11] /\ in_buffer[12] = datagram[12]
    BY <2>1, <2>3
  <2>5. \A m \in 1 .. Len(datagram) : in_buffer[m] = datagram[m]
    BY <1>1, <1>9, <2>4 DEF SameBut
  <2>6. in_buffer = datagram
    BY <1>1, <1>2, <2>5, SeqEqual
  <2> QED BY <2>6
<1>10. CASE k # 5
  <2>1. CASE in_buffer # datagram /\ Differ(sum, t[K])
    <3>1. sum # t[K]
      BY <2>1 DEF Differ
    <3>2. ntohs(in_buffer, CHECKSUM) # ntohs(datagram, CHECKSUM)
      BY <1>1, <1>7, <1>8, <3>1
    <3>3. in_buffer[11] = datagram[11] /\ in_buffer[12] = datagram[12]
      BY <1>1, <1>2, <1>10 DEF SameBut, HEADER
    <3>4. ntohs(in_buffer, CHECKSUM) = ntohs(datagram, CHECKSUM)
      BY <3>3 DEF ntohs, CHECKSUM
    <3> QED BY <3>2, <3>4
  <2> QED BY <1>5, <1>6, <1>10, <2>1
<1> QED BY <1>9, <1>10

\* A packet that is accepted is the one that was sent, but for the two zeros.
LEMMA AcceptedIsSent ==
  ASSUME sent \in Packets, NEW t, Carried(t), Compared(t), Summed,
         in_buffer \in Seq(Byte), buffer = WithChecksum(in_buffer, 0), sum \in 0 .. Ones,
         ChecksumFits, PayloadFits, Len(in_buffer) >= HEADER, Arrived(in_buffer, datagram)
  PROVE  \/ Extracted(in_buffer) = sent
         \/ \E i \in 1 .. Len(datagram) - 1 :
              i % 2 = 1 /\ ZerosForOnes(datagram, in_buffer, i)
<1>1. /\ datagram \in Seq(Byte) /\ Len(datagram) \in Nat /\ Len(datagram) >= HEADER
      /\ Len(datagram) = HEADER + ntohs(datagram, PAYLOAD_LEN)
      /\ Extracted(datagram) = sent
  BY SentIs DEF HEADER
<1>2. CASE \E k \in Nat : 2 * k < Len(datagram) /\ SameBut(in_buffer, datagram, k)
  <2>1. PICK k \in Nat : 2 * k < Len(datagram) /\ SameBut(in_buffer, datagram, k)
    BY <1>2
  <2>2. CASE in_buffer = datagram
    BY <1>1, <2>2
  <2>3. CASE 2 * k + 2 <= Len(datagram) /\ ZerosForOnes(datagram, in_buffer, 2 * k + 1)
    <3>1. 2 * k + 1 \in 1 .. Len(datagram) - 1 /\ (2 * k + 1) % 2 = 1
      BY <1>1, <2>3
    <3> QED BY <2>3, <3>1
  <2> QED BY <2>1, <2>2, <2>3, DamageIsSeen
<1>3. CASE \A m \in 1 .. Len(datagram) : m <= Len(in_buffer) => in_buffer[m] = datagram[m]
  <2>1. in_buffer[13] = datagram[13] /\ in_buffer[14] = datagram[14]
    BY <1>1, <1>3 DEF HEADER
  <2>2. ntohs(in_buffer, PAYLOAD_LEN) = ntohs(datagram, PAYLOAD_LEN)
    BY <2>1 DEF ntohs, PAYLOAD_LEN
  <2>3. Len(in_buffer) >= Len(datagram)
    BY <1>1, <2>2 DEF PayloadFits
  <2>4. \A i \in 1 .. Len(datagram) : i # 11 /\ i # 12 => in_buffer[i] = datagram[i]
    BY <1>1, <1>3, <2>3
  <2>5. Extracted(in_buffer) = Extracted(datagram)
    BY <1>1, <2>3, <2>4, ExtractedAgrees
  <2> QED BY <1>1, <2>5
<1> QED BY <1>2, <1>3 DEF Arrived

\* A datagram that has arrived whole passes both tests.
LEMMA IntactFits ==
  ASSUME sent \in Packets, NEW t, Carried(t), Compared(t), Summed,
         in_buffer = datagram, buffer = WithChecksum(in_buffer, 0)
  PROVE  ChecksumFits /\ PayloadFits
<1> DEFINE K == Index(Len(Layout(sent)))
<1>1. /\ datagram \in Seq(Byte) /\ Len(datagram) = Len(Layout(sent))
      /\ Len(datagram) \in Nat /\ Len(datagram) >= 15
      /\ Len(datagram) = HEADER + ntohs(datagram, PAYLOAD_LEN)
      /\ ntohs(datagram, CHECKSUM) = Complement(t[K])
  BY SentIs DEF HEADER
<1>2. pos = Len(datagram)
  BY <1>1, ChecksumBytes, WordSize DEF Summed, HEADER
<1>3. Index(pos) = K
  BY <1>1, <1>2
<1> HIDE DEF K
<1>4. 5 \in Nat /\ 2 * 5 < Len(datagram) /\ SameBut(in_buffer, datagram, 5)
  BY <1>1 DEF SameBut
<1>5. sum = t[K]
  BY <1>3, <1>4 DEF Compared
<1>6. ChecksumFits
  BY <1>1, <1>5 DEF ChecksumFits
<1>7. PayloadFits
  BY <1>1 DEF PayloadFits
<1> QED BY <1>6, <1>7

-----------------------------------------------------------------------------
(* The invariant                                                           *)

\* The sums that the sender has made on its way, for as long as they matter.
SenderSums ==
  /\ pc = "sum" =>
       /\ buffer = Layout(sent)
       /\ \E t : Trace(t, buffer, Index(pos)) /\ sum = t[Index(pos)]
  /\ pc \notin {"build", "sum"} => \E t : Carried(t) /\ (pc = "check" => Compared(t))

\* What the receiver has.
ReceiverHas ==
  /\ pc \in {"parse", "check"} => Arrived(in_buffer, datagram)
  /\ pc = "check" => /\ buffer = WithChecksum(in_buffer, 0)
                     /\ Len(in_buffer) \in HEADER .. MAX_PACKET_SIZE

DatagramInv ==
  /\ TypeOK
  /\ pc \in {"sum", "check"} => Between
  /\ SenderSums
  /\ ReceiverHas
  /\ NeverMistaken /\ IntactIsAccepted

LEMMA InvInit == Init => DatagramInv
<1> SUFFICES ASSUME Init PROVE DatagramInv
  OBVIOUS
<1>1. TypeOK
  BY WordSize DEF Init, TypeOK
<1>2. NeverMistaken /\ IntactIsAccepted
  BY DEF Init, NeverMistaken, IntactIsAccepted
<1> QED BY <1>1, <1>2 DEF Init, DatagramInv, SenderSums, ReceiverHas

\* Build: the loop is about to start.
LEMMA BuildKeeps ==
  ASSUME DatagramInv, Build
  PROVE  DatagramInv'
<1>1. /\ pc' = "sum" /\ buffer' = Layout(sent) /\ pos' = 0 /\ sum' = 0 /\ sent' = sent
      /\ datagram' = datagram /\ in_buffer' = in_buffer /\ sent \in Packets
  BY DEF Build, SumFrom, DatagramInv, TypeOK
<1>2. sent \in PacketType /\ Len(sent.payload) < WORD
  BY <1>1, SizeAssumption
<1>3. buffer' \in Seq(Byte)
  BY <1>1, <1>2, LayoutIs
<1>4. TypeOK'
  BY <1>1, <1>3, WordSize DEF DatagramInv, TypeOK
<1>5. Index(pos') = 0
  BY <1>1, NoWords
<1>6. Between'
  BY <1>1, <1>5 DEF Between, Index
<1>7. \E t : Trace(t, buffer', Index(pos')) /\ sum' = t[Index(pos')]
  <2> DEFINE t == [k \in Nat |-> 0]
  <2>1. t \in [Nat -> 0 .. Ones] /\ t[0] = 0
    BY WordSize DEF Ones
  <2>2. Trace(t, buffer', 0)
    BY <2>1 DEF Trace
  <2> QED BY <1>1, <1>5, <2>1, <2>2
<1>8. SenderSums'
  BY <1>1, <1>7 DEF SenderSums, Trace, Index, WordAt, ntohs
<1> QED BY <1>1, <1>4, <1>6, <1>8 DEF DatagramInv, ReceiverHas, NeverMistaken, IntactIsAccepted

\* A turn of the sender's loop extends the trace of its sums by one.
LEMMA TraceGrows ==
  ASSUME NEW b, NEW n \in Nat, NEW t, Trace(t, b, n), NEW s \in 0 .. Ones,
         s = AddWord(t[n], WordAt(b, n))
  PROVE  \E u : Trace(u, b, n + 1) /\ u[n + 1] = s
<1> DEFINE u == [t EXCEPT ![n + 1] = s]
<1>1. /\ t \in [Nat -> 0 .. Ones] /\ t[0] = 0
      /\ \A k \in 0 .. n - 1 : t[k + 1] = AddWord(t[k], WordAt(b, k))
  BY DEF Trace
<1>2. u \in [Nat -> 0 .. Ones] /\ u[n + 1] = s /\ \A k \in 0 .. n : u[k] = t[k]
  BY <1>1
<1> HIDE DEF u
<1>3. u[0] = 0
  BY <1>1, <1>2
<1>4. ASSUME NEW k \in 0 .. (n + 1) - 1
      PROVE  u[k + 1] = AddWord(u[k], WordAt(b, k))
  <2>1. CASE k = n
    BY <1>2, <2>1
  <2>2. CASE k # n
    <3>1. k \in 0 .. n - 1 /\ k + 1 \in 0 .. n /\ k \in 0 .. n
      BY <2>2
    <3> QED BY <1>1, <1>2, <3>1
  <2> QED BY <2>1, <2>2
<1> QED BY <1>2, <1>3, <1>4 DEF Trace

LEMMA SumKeeps ==
  ASSUME DatagramInv, SumWord \/ SumLast
  PROVE  DatagramInv'
<1>1. /\ pc \in {"sum", "check"} /\ pc' = pc /\ sent' = sent /\ buffer' = buffer
      /\ datagram' = datagram /\ in_buffer' = in_buffer
  BY DEF SumWord, SumLast
<1>2. /\ sent \in Packets /\ buffer \in Seq(Byte) /\ pos \in 0 .. Len(buffer)
      /\ sum \in 0 .. Ones /\ Between /\ in_buffer \in Seq(Byte)
  BY <1>1 DEF DatagramInv, TypeOK, Ones
<1> DEFINE n == Index(pos)
<1>3. /\ n \in Nat /\ Index(pos') = n + 1
      /\ sum' = AddWord(sum, WordAt(buffer, n)) /\ sum' \in 0 .. Ones
      /\ pos' \in 0 .. Len(buffer) /\ Between'
  BY <1>2, SumStep
<1>4. TypeOK'
  BY <1>1, <1>3 DEF DatagramInv, TypeOK, Ones
<1> HIDE DEF n
<1>5. CASE pc = "sum"
  <2>1. PICK t : Trace(t, buffer, n) /\ sum = t[n]
    BY <1>5 DEF DatagramInv, SenderSums, n
  <2>2. \E u : Trace(u, buffer, n + 1) /\ u[n + 1] = sum'
    BY <1>3, <2>1, TraceGrows
  <2>3. buffer = Layout(sent)
    BY <1>5 DEF DatagramInv, SenderSums
  <2>4. SenderSums'
    <3>1. PICK u : Trace(u, buffer, n + 1) /\ u[n + 1] = sum'
      BY <2>2
    <3>2. Trace(u, buffer', Index(pos')) /\ sum' = u[Index(pos')]
      BY <1>1, <1>3, <3>1
    <3>3. (\E v : Trace(v, buffer, Index(pos)) /\ sum = v[Index(pos)])'
      BY <3>2 DEF Trace, Index, WordAt, ntohs
    <3> QED BY <1>1, <1>5, <2>3, <3>3 DEF SenderSums
  <2> QED BY <1>1, <1>3, <1>4, <1>5, <2>4
        DEF DatagramInv, ReceiverHas, NeverMistaken, IntactIsAccepted
<1>6. CASE pc = "check"
  <2>1. PICK t : Carried(t) /\ Compared(t)
    BY <1>6 DEF DatagramInv, SenderSums
  <2>2. buffer = WithChecksum(in_buffer, 0) /\ Len(in_buffer) >= HEADER
    BY <1>2, <1>6 DEF DatagramInv, ReceiverHas, HEADER
  <2>3. Compared(t)'
    BY <1>2, <2>1, <2>2, CompareStep
  <2>4. Carried(t)'
    BY <1>1, <2>1 DEF Carried
  <2>5. SenderSums'
    BY <1>1, <1>6, <2>3, <2>4 DEF SenderSums
  <2>6. ReceiverHas'
    BY <1>1, <1>6 DEF DatagramInv, ReceiverHas, Arrived, SameBut
  <2> QED BY <1>1, <1>3, <1>4, <1>6, <2>5, <2>6
        DEF DatagramInv, NeverMistaken, IntactIsAccepted
<1> QED BY <1>1, <1>5, <1>6

\* Send: the trace is complete, and its last sum is in the header.
LEMMA SendKeeps ==
  ASSUME DatagramInv, Send
  PROVE  DatagramInv'
<1>1. /\ pc = "sum" /\ Summed /\ pc' = "flight" /\ sent' = sent /\ buffer' = buffer
      /\ datagram' = WithChecksum(buffer, Complement(sum))
      /\ in_buffer' = in_buffer /\ pos' = pos /\ sum' = sum
  BY DEF Send
<1>2. /\ sent \in Packets /\ buffer \in Seq(Byte) /\ pos = Len(buffer)
      /\ sum \in 0 .. Ones /\ buffer = Layout(sent)
  BY <1>1 DEF DatagramInv, TypeOK, SenderSums, Summed, Ones
<1>3. sent \in PacketType /\ Len(sent.payload) < WORD /\ Len(sent.payload) \in Nat
  BY <1>2, SizeAssumption DEF PacketType
<1>4. Len(buffer) >= HEADER
  BY <1>2, <1>3, LayoutIs DEF HEADER
<1>5. datagram' \in Seq(Byte)
  BY <1>1, <1>2, <1>4, ComplementIs, ChecksumBytes
<1>6. TypeOK'
  BY <1>1, <1>5 DEF DatagramInv, TypeOK
<1>7. PICK t : Trace(t, buffer, Index(pos)) /\ sum = t[Index(pos)]
  BY <1>1 DEF DatagramInv, SenderSums
<1>8. Carried(t)'
  BY <1>1, <1>2, <1>7 DEF Carried
<1>9. SenderSums'
  BY <1>1, <1>8 DEF SenderSums
<1> QED BY <1>1, <1>6, <1>9 DEF DatagramInv, ReceiverHas, NeverMistaken, IntactIsAccepted

LEMMA ReceiveKeeps ==
  ASSUME DatagramInv, Receive
  PROVE  DatagramInv'
<1>1. /\ pc = "flight" /\ pc' = "parse" /\ sent' = sent /\ buffer' = buffer
      /\ datagram' = datagram /\ pos' = pos /\ sum' = sum /\ sent \in Packets
  BY DEF Receive, DatagramInv, TypeOK
<1>2. PICK bytes \in {datagram} \cup Damaged(datagram) \cup Cut(datagram) \cup Padded(datagram) :
        in_buffer' = RecvFrom(bytes)
  BY DEF Receive
<1>3. PICK t : Carried(t)
  BY <1>1 DEF DatagramInv, SenderSums
<1>4. datagram \in Seq(Byte) /\ Len(datagram) <= MAX_PACKET_SIZE /\ Len(datagram) >= HEADER
  BY <1>1, <1>3, SentIs, SizeAssumption DEF HEADER
<1>5. in_buffer' \in Seq(Byte) /\ Arrived(in_buffer', datagram)
  BY <1>2, <1>4, WhatArrives
<1>6. TypeOK'
  BY <1>1, <1>5 DEF DatagramInv, TypeOK
<1>7. Carried(t)'
  BY <1>1, <1>3 DEF Carried
<1>8. SenderSums'
  BY <1>1, <1>7 DEF SenderSums
<1>9. ReceiverHas'
  BY <1>1, <1>5 DEF ReceiverHas, Arrived, SameBut
<1> QED BY <1>1, <1>6, <1>8, <1>9 DEF DatagramInv, NeverMistaken, IntactIsAccepted

LEMMA ParseKeeps ==
  ASSUME DatagramInv, Parse
  PROVE  DatagramInv'
<1>1. /\ pc = "parse" /\ sent' = sent /\ datagram' = datagram /\ in_buffer' = in_buffer
      /\ sent \in Packets /\ in_buffer \in Seq(Byte) /\ Len(in_buffer) \in Nat
  BY DEF Parse, DatagramInv, TypeOK
<1>2. PICK t : Carried(t)
  BY <1>1 DEF DatagramInv, SenderSums
<1>3. Len(datagram) \in HEADER .. MAX_PACKET_SIZE
  BY <1>1, <1>2, SentIs
<1>4. Carried(t)'
  BY <1>1, <1>2 DEF Carried
<1>5. CASE pc' = "rejected"
  <2>1. /\ Len(in_buffer) < HEADER \/ Len(in_buffer) > MAX_PACKET_SIZE
        /\ buffer' = buffer /\ pos' = pos /\ sum' = sum
    BY <1>5 DEF Parse
  <2>2. in_buffer # datagram
    BY <1>3, <2>1, SizeAssumption DEF HEADER
  <2>3. TypeOK'
    BY <1>1, <1>5, <2>1 DEF DatagramInv, TypeOK
  <2>4. SenderSums'
    BY <1>4, <1>5 DEF SenderSums
  <2> QED BY <1>1, <1>5, <2>2, <2>3, <2>4
        DEF DatagramInv, ReceiverHas, NeverMistaken, IntactIsAccepted
<1>6. CASE pc' = "check"
  <2>1. /\ Len(in_buffer) \in HEADER .. MAX_PACKET_SIZE
        /\ buffer' = WithChecksum(in_buffer, 0) /\ pos' = 0 /\ sum' = 0
    BY <1>6 DEF Parse, SumFrom
  <2>2. buffer' \in Seq(Byte) /\ Len(buffer') = Len(in_buffer)
    <3>1. 0 \in 0 .. WORD - 1 /\ Len(in_buffer) >= HEADER
      BY <1>1, <2>1, WordSize DEF HEADER
    <3> QED BY <1>1, <2>1, <3>1, ChecksumBytes
  <2>3. TypeOK'
    BY <1>1, <1>6, <2>1, <2>2, WordSize DEF DatagramInv, TypeOK
  <2>4. Index(pos') = 0
    BY <2>1, NoWords
  <2>5. Between'
    BY <2>1, <2>4 DEF Between, Index
  <2>6. t[0] = 0
    BY <1>2 DEF Carried, Trace
  <2>7. Compared(t)'
    <3>1. sum' = t[Index(pos')] /\ \A k \in Nat : ~(Index(pos') > k)
      BY <2>1, <2>4, <2>6
    <3> QED BY <3>1 DEF Compared, Index
  <2>8. SenderSums'
    BY <1>4, <1>6, <2>7 DEF SenderSums
  <2>9. ReceiverHas'
    BY <1>1, <1>6, <2>1 DEF DatagramInv, ReceiverHas, Arrived, SameBut
  <2> QED BY <1>6, <2>3, <2>5, <2>8, <2>9 DEF DatagramInv, NeverMistaken, IntactIsAccepted
<1> QED BY <1>5, <1>6 DEF Parse

LEMMA CheckKeeps ==
  ASSUME DatagramInv, Check
  PROVE  DatagramInv'
<1>1. /\ pc = "check" /\ Summed /\ sent' = sent /\ datagram' = datagram
      /\ in_buffer' = in_buffer /\ buffer' = buffer /\ pos' = pos /\ sum' = sum
  BY DEF Check
<1>2. /\ sent \in Packets /\ in_buffer \in Seq(Byte) /\ sum \in 0 .. Ones
      /\ buffer = WithChecksum(in_buffer, 0) /\ Len(in_buffer) >= HEADER
      /\ Arrived(in_buffer, datagram)
  BY <1>1 DEF DatagramInv, TypeOK, ReceiverHas, Ones, HEADER
<1>3. PICK t : Carried(t) /\ Compared(t)
  BY <1>1 DEF DatagramInv, SenderSums
<1>4. Carried(t)'
  BY <1>1, <1>3 DEF Carried
<1>5. pc' \in {"accepted", "rejected"}
  BY DEF Check
<1>6. TypeOK' /\ SenderSums' /\ ReceiverHas'
  BY <1>1, <1>4, <1>5 DEF DatagramInv, TypeOK, SenderSums, ReceiverHas
<1>7. NeverMistaken'
  <2>1. CASE pc' = "accepted"
    <3>1. ChecksumFits /\ PayloadFits /\ received' = Extracted(in_buffer)
      BY <2>1 DEF Check
    <3>2. \/ Extracted(in_buffer) = sent
          \/ \E i \in 1 .. Len(datagram) - 1 :
               i % 2 = 1 /\ ZerosForOnes(datagram, in_buffer, i)
      BY <1>1, <1>2, <1>3, <3>1, AcceptedIsSent
    <3> QED BY <1>1, <3>1, <3>2 DEF NeverMistaken, ZerosForOnes, ntohs
  <2> QED BY <2>1 DEF NeverMistaken
<1>8. IntactIsAccepted'
  <2>1. CASE pc' = "rejected"
    <3>1. ~(ChecksumFits /\ PayloadFits)
      BY <2>1 DEF Check
    <3>2. in_buffer # datagram
      BY <1>1, <1>2, <1>3, <3>1, IntactFits
    <3> QED BY <1>1, <3>2 DEF IntactIsAccepted
  <2> QED BY <2>1 DEF IntactIsAccepted
<1> QED BY <1>5, <1>6, <1>7, <1>8 DEF DatagramInv

LEMMA InvNext == DatagramInv /\ [Next]_vars => DatagramInv'
<1> SUFFICES ASSUME DatagramInv, [Next]_vars
             PROVE  DatagramInv'
  OBVIOUS
<1>1. CASE Next
  BY <1>1, BuildKeeps, SumKeeps, SendKeeps, ReceiveKeeps, ParseKeeps, CheckKeeps DEF Next
<1>2. CASE UNCHANGED vars
  <2>1. /\ pc' = pc /\ sent' = sent /\ buffer' = buffer /\ pos' = pos /\ sum' = sum
        /\ datagram' = datagram /\ in_buffer' = in_buffer /\ received' = received
    BY <1>2 DEF vars
  <2>2. TypeOK' /\ NeverMistaken' /\ IntactIsAccepted'
    BY <2>1 DEF DatagramInv, TypeOK, NeverMistaken, IntactIsAccepted, ZerosForOnes, ntohs
  <2>3. (pc \in {"sum", "check"} => Between)'
    BY <2>1 DEF DatagramInv, Between, Index
  <2>4. ReceiverHas'
    BY <2>1 DEF DatagramInv, ReceiverHas, Arrived, SameBut
  <2>5. SenderSums'
    <3>1. CASE pc = "build"
      BY <2>1, <3>1 DEF SenderSums
    <3>2. CASE pc = "sum"
      <4>1. PICK t : Trace(t, buffer, Index(pos)) /\ sum = t[Index(pos)]
        BY <3>2 DEF DatagramInv, SenderSums
      <4>2. (\E u : Trace(u, buffer, Index(pos)) /\ sum = u[Index(pos)])'
        BY <2>1, <4>1 DEF Trace, Index, WordAt, ntohs
      <4>3. buffer = Layout(sent)
        BY <3>2 DEF DatagramInv, SenderSums
      <4> QED BY <2>1, <3>2, <4>2, <4>3 DEF SenderSums
    <3>3. CASE pc \notin {"build", "sum"}
      <4>1. PICK t : Carried(t) /\ (pc = "check" => Compared(t))
        BY <3>3 DEF DatagramInv, SenderSums
      <4>2. Carried(t)'
        BY <2>1, <4>1 DEF Carried
      <4>3. (pc = "check" => Compared(t))'
        BY <2>1, <4>1 DEF Compared, SameBut, Differ, Index, ZerosForOnes, ntohs
      <4> QED BY <2>1, <3>3, <4>2, <4>3 DEF SenderSums
    <3> QED BY <3>1, <3>2, <3>3
  <2> QED BY <2>2, <2>3, <2>4, <2>5 DEF DatagramInv
<1> QED BY <1>1, <1>2

LEMMA DatagramInvariant == Spec => []DatagramInv
BY InvInit, InvNext, PTL DEF Spec

\* Every variable keeps its type, whatever a byte holds and however long a packet
\* is: the accumulator of calculate_checksum stays within a word.
THEOREM DatagramTypeCorrect == Spec => []TypeOK
<1>1. DatagramInv => TypeOK
  BY DEF DatagramInv
<1> QED BY <1>1, DatagramInvariant, PTL

\* Whatever word of it was damaged, wherever it was cut and whatever stands behind
\* it, a packet that parse_packet accepts is the one given to build_packet, but
\* for a word that turned from all zeros to all ones or back.
THEOREM AcceptedIsNeverMistaken == Spec => []NeverMistaken
<1>1. DatagramInv => NeverMistaken
  BY DEF DatagramInv
<1> QED BY <1>1, DatagramInvariant, PTL

\* Whatever a packet holds, parse_packet takes what build_packet made of it.
THEOREM IntactIsAlwaysAccepted == Spec => []IntactIsAccepted
<1>1. DatagramInv => IntactIsAccepted
  BY DEF DatagramInv
<1> QED BY <1>1, DatagramInvariant, PTL

-----------------------------------------------------------------------------
(* The sum of RFC 1071                                                     *)

\* A number below the divisor is the rest of every number that far above a
\* multiple of it.
LEMMA RestIs ==
  ASSUME NEW d \in Nat \ {0}, NEW q \in Nat, NEW r \in 0 .. d - 1
  PROVE  (d * q + r) % d = r
<1> DEFINE n == d * q + r
           p == n \div d
           s == n % d
<1>1. n \in Nat
  <2>1. d * q \in Nat
    OBVIOUS
  <2> QED BY <2>1
<1>2. n = d * p + s /\ p \in Nat /\ s \in 0 .. d - 1
  <2> HIDE DEF n
  <2> QED BY <1>1, QuotientAndRest
<1>3. s = r
  <2> HIDE DEF p, s
  <2>1. d * (p - q) = r - s
    BY <1>2
  <2>2. CASE p - q >= 1
    BY <1>2, <2>1, <2>2
  <2>3. CASE p - q <= -1
    BY <1>2, <2>1, <2>3
  <2> QED BY <1>2, <2>1, <2>2, <2>3
<1> QED BY <1>3

\* What the carries of a sum come to: the number from 1 to Ones that differs from
\* it by a multiple of Ones, or 0 for the sum 0.
LEMMA CarriesComeTo ==
  ASSUME NEW n \in Nat
  PROVE  /\ OnesComplement(n) \in 0 .. Ones
         /\ OnesComplement(n) = 0 <=> n = 0
         /\ \E q \in Nat : n = Ones * q + OnesComplement(n)
<1>1. Ones \in Nat \ {0} /\ WORD - 1 = Ones
  BY WordSize DEF Ones
<1>2. CASE n = 0
  <2>1. OnesComplement(n) = 0
    BY <1>2 DEF OnesComplement
  <2>2. Ones * 0 = 0
    BY <1>1
  <2>3. \E q \in Nat : n = Ones * q + OnesComplement(n)
    <3>1. n = Ones * 0 + OnesComplement(n)
      BY <1>2, <2>1, <2>2
    <3> QED BY <3>1
  <2>4. OnesComplement(n) \in 0 .. Ones /\ (OnesComplement(n) = 0 <=> n = 0)
    BY <1>1, <1>2, <2>1
  <2> QED BY <2>3, <2>4
<1>3. CASE n # 0
  <2> DEFINE m == n - 1
             q == m \div Ones
             r == m % Ones
  <2>1. m = Ones * q + r /\ q \in Nat /\ r \in 0 .. Ones - 1
    <3>1. m \in Nat
      BY <1>3
    <3> HIDE DEF m
    <3> QED BY <1>1, <3>1, QuotientAndRest
  <2>2. OnesComplement(n) = r + 1
    BY <1>1, <1>3 DEF OnesComplement
  <2>3. n = Ones * q + (r + 1) /\ r + 1 \in 1 .. Ones
    <3>1. n = m + 1
      OBVIOUS
    <3> HIDE DEF m, q, r
    <3> QED BY <1>1, <2>1, <3>1
  <2> HIDE DEF m, q, r
  <2> QED BY <1>1, <1>3, <2>1, <2>2, <2>3
<1> QED BY <1>2, <1>3

\* There is no other such number.
LEMMA CarriesComeToNoOther ==
  ASSUME NEW n \in Nat, NEW q \in Nat, NEW v \in 0 .. Ones, n = Ones * q + v,
         v = 0 <=> n = 0
  PROVE  OnesComplement(n) = v
<1>1. Ones \in Nat \ {0} /\ WORD - 1 = Ones
  BY WordSize DEF Ones
<1>2. CASE n = 0
  BY <1>2 DEF OnesComplement
<1>3. CASE n # 0
  <2> DEFINE r == v - 1
  <2>1. r \in 0 .. Ones - 1
    BY <1>1, <1>3
  <2>2. n - 1 = Ones * q + r
    <3>1. Ones * q \in Nat
      BY <1>1
    <3> QED BY <1>1, <3>1
  <2>3. (n - 1) % Ones = r
    <3> HIDE DEF r
    <3>1. (Ones * q + r) % Ones = r
      BY <1>1, <2>1, RestIs
    <3> QED BY <2>2, <3>1
  <2>4. OnesComplement(n) = r + 1
    BY <1>1, <1>3, <2>3 DEF OnesComplement
  <2> QED BY <1>1, <2>4
<1> QED BY <1>2, <1>3

\* Putting the carry back after each word comes to the same as at the end.
LEMMA CarriesMayBeAddedAtOnce ==
  ASSUME NEW n \in Nat, NEW w \in 0 .. Ones
  PROVE  AddWord(OnesComplement(n), w) = OnesComplement(n + w)
<1> DEFINE s == OnesComplement(n)
           a == AddWord(s, w)
<1>1. Ones \in Nat \ {0}
  BY WordSize DEF Ones
<1>2. s \in 0 .. Ones /\ (s = 0 <=> n = 0) /\ \E q \in Nat : n = Ones * q + s
  BY CarriesComeTo
<1>3. PICK q \in Nat : n = Ones * q + s
  BY <1>2
<1> HIDE DEF s
<1>4. /\ a \in 0 .. Ones
      /\ s + w <= Ones => a = s + w
      /\ s + w > Ones => a = s + w - Ones
  BY <1>2, AddWordIs
<1> HIDE DEF a
<1>5. n + w \in Nat /\ (a = 0 <=> n + w = 0)
  BY <1>1, <1>2, <1>4
<1>6. \E p \in Nat : n + w = Ones * p + a
  <2>1. Ones * q \in Nat /\ Ones * (q + 1) = Ones * q + Ones
    BY <1>1
  <2>2. CASE s + w <= Ones
    <3>1. n + w = Ones * q + a
      BY <1>1, <1>2, <1>3, <1>4, <2>1, <2>2
    <3> QED BY <3>1
  <2>3. CASE s + w > Ones
    <3>1. n + w = Ones * (q + 1) + a
      BY <1>1, <1>2, <1>3, <1>4, <2>1, <2>3
    <3> QED BY <3>1
  <2> QED BY <1>1, <1>2, <2>2, <2>3
<1>7. OnesComplement(n + w) = a
  BY <1>4, <1>5, <1>6, CarriesComeToNoOther
<1> QED BY <1>7 DEF a, s

\* The words of RFC 1071 are those that the loop adds.
LEMMA WordsAreTheLoops ==
  ASSUME NEW b \in Seq(Byte)
  PROVE  /\ Words(b) = Index(Len(b)) /\ Words(b) \in Nat
         /\ \A k \in 0 .. Words(b) - 1 : ntohs(Padded16(b), 2 * (k + 1) - 1) = WordAt(b, k)
<1>1. Len(b) \in Nat /\ Words(b) = Index(Len(b))
  BY DEF Words, Index
<1>2. Words(b) \in Nat /\ 2 * Words(b) \in Len(b) .. Len(b) + 1
  BY <1>1, IndexIs
<1>3. ASSUME NEW k \in 0 .. Words(b) - 1
      PROVE  ntohs(Padded16(b), 2 * (k + 1) - 1) = WordAt(b, k)
  <2> DEFINE i == 2 * k + 1
             d == b \o <<0>>
  <2>1. k \in Nat /\ i \in 1 .. Len(b) /\ 2 * (k + 1) - 1 = i /\ 2 * k + 2 = i + 1
    BY <1>1, <1>2, <1>3
  <2>2. d[i] = b[i] /\ (i + 1 <= Len(b) => d[i + 1] = b[i + 1])
        /\ (i = Len(b) => d[i + 1] = 0)
    BY <1>1, <2>1
  <2>3. b[i] * BYTE + 0 = b[i] * BYTE
    <3>1. b[i] \in Byte
      BY <2>1
    <3> QED BY <3>1, WordSize DEF Byte
  <2> HIDE DEF d
  <2>4. Padded16(b) = b \/ Padded16(b) = d
    BY DEF Padded16, d
  <2>5. i = Len(b) => Padded16(b) = d
    <3>1. i = Len(b) => Len(b) % 2 = 1
      BY <2>1
    <3> QED BY <3>1 DEF Padded16, d
  <2> HIDE DEF i
  <2>6. CASE i + 1 <= Len(b)
    <3>1. WordAt(b, k) = ntohs(b, i)
      BY <2>1, <2>6 DEF WordAt, i
    <3>2. ntohs(Padded16(b), i) = ntohs(b, i)
      BY <2>2, <2>4, <2>6 DEF ntohs
    <3> QED BY <2>1, <3>1, <3>2
  <2>7. CASE i = Len(b)
    <3>1. WordAt(b, k) = b[i] * BYTE
      BY <1>1, <2>1, <2>7 DEF WordAt, i
    <3>2. ntohs(Padded16(b), i) = b[i] * BYTE
      BY <2>2, <2>3, <2>5, <2>7 DEF ntohs
    <3> QED BY <2>1, <3>1, <3>2
  <2> QED BY <1>1, <2>1, <2>6, <2>7
<1> QED BY <1>1, <1>2, <1>3

\* t holds the plain sums of the first words of b, as PlainSum has them.
Totals(t, b, n) ==
  t = [k \in 0 .. n |-> IF k = 0 THEN 0
                        ELSE t[k - 1] + ntohs(Padded16(b), 2 * k - 1)]

\* What holds of the last of them, if they exist and are all alike in that, holds
\* of PlainSum.
LEMMA PlainSumIsTotal ==
  ASSUME NEW b, NEW v, \E t : Totals(t, b, Words(b)),
         \A t : Totals(t, b, Words(b)) => OnesComplement(t[Words(b)]) = v
  PROVE  OnesComplement(PlainSum(b)) = v
<1> DEFINE total == CHOOSE t : Totals(t, b, Words(b))
<1>1. Totals(total, b, Words(b))
  OBVIOUS
<1>2. PlainSum(b) = total[Words(b)]
  BY DEF PlainSum, Totals
<1> HIDE DEF total
<1> QED BY <1>1, <1>2

\* One more word can be totalled.
LEMMA TotalsGrow ==
  ASSUME NEW b, NEW n \in Nat, NEW t, Totals(t, b, n)
  PROVE  \E u : Totals(u, b, n + 1)
<1> DEFINE Word(k) == ntohs(Padded16(b), 2 * k - 1)
           u == [k \in 0 .. n + 1 |-> IF k = n + 1 THEN t[n] + Word(n + 1) ELSE t[k]]
           v == [k \in 0 .. n + 1 |-> IF k = 0 THEN 0 ELSE u[k - 1] + Word(k)]
<1>1. \A k \in 0 .. n : t[k] = IF k = 0 THEN 0 ELSE t[k - 1] + Word(k)
  BY DEF Totals
<1>2. ASSUME NEW k \in 0 .. n + 1
      PROVE  u[k] = IF k = 0 THEN 0 ELSE u[k - 1] + Word(k)
  <2> HIDE DEF Word
  <2>1. CASE k = n + 1
    <3>1. u[k] = t[n] + Word(n + 1) /\ u[k - 1] = t[n] /\ k # 0
      BY <2>1
    <3> HIDE DEF u
    <3> QED BY <2>1, <3>1
  <2>2. CASE k \in 0 .. n
    <3>1. u[k] = t[k] /\ (k # 0 => u[k - 1] = t[k - 1])
      BY <2>2
    <3> HIDE DEF u
    <3> QED BY <1>1, <2>2, <3>1
  <2> QED BY <2>1, <2>2
<1>3. u = v
  <2> HIDE DEF Word
  <2>1. \A k \in 0 .. n + 1 : u[k] = v[k]
    BY <1>2
  <2> QED BY <2>1
<1> HIDE DEF u
<1>4. Totals(u, b, n + 1)
  BY <1>3 DEF Totals
<1> QED BY <1>4

\* The loop is its own induction: with every word it adds, the totals of the words
\* read so far exist, and the accumulator is what the carries of any of them, made
\* for the whole of the bytes, come to.
TotalsSoFar ==
  pc \in {"sum", "check"} =>
    /\ \E t : Totals(t, buffer, Index(pos))
    /\ \A t : Totals(t, buffer, Words(buffer)) =>
         t[Index(pos)] \in Nat /\ sum = OnesComplement(t[Index(pos)])

\* The loop starts with no words.
LEMMA NoTotals ==
  ASSUME pos' = 0, sum' = 0, buffer' \in Seq(Byte)
  PROVE  TotalsSoFar'
<1>1. Index(pos') = 0
  BY NoWords
<1>2. Words(buffer') \in Nat
  BY WordsAreTheLoops
<1>3. \E t : Totals(t, buffer', 0)
  <2> DEFINE t == [k \in 0 .. 0 |-> 0]
  <2>1. Totals(t, buffer', 0)
    BY DEF Totals
  <2> QED BY <2>1
<1>4. ASSUME NEW t, Totals(t, buffer', Words(buffer'))
      PROVE  t[0] = 0
  BY <1>2, <1>4 DEF Totals
<1>5. OnesComplement(0) = 0
  BY DEF OnesComplement
<1> QED BY <1>1, <1>3, <1>4, <1>5
        DEF TotalsSoFar, Totals, Words, Index, Padded16, ntohs

\* A turn of the loop adds one.
LEMMA TotalsFollowTheLoop ==
  ASSUME DatagramInv, TotalsSoFar, SumWord \/ SumLast
  PROVE  TotalsSoFar'
<1> DEFINE n == Index(pos)
<1>1. pc \in {"sum", "check"} /\ pc' = pc
  BY DEF SumWord, SumLast
<1>2. buffer \in Seq(Byte) /\ pos \in 0 .. Len(buffer) /\ sum \in 0 .. Ones /\ Between
  BY <1>1 DEF DatagramInv, TypeOK, Ones
<1>3. /\ n \in Nat /\ 2 * n < Len(buffer) /\ Index(pos') = n + 1
      /\ WordAt(buffer, n) \in 0 .. Ones
      /\ sum' = AddWord(sum, WordAt(buffer, n)) /\ buffer' = buffer
  BY <1>2, SumStep
<1>4. /\ Words(buffer) \in Nat /\ 2 * Words(buffer) >= Len(buffer)
      /\ \A k \in 0 .. Words(buffer) - 1 :
           ntohs(Padded16(buffer), 2 * (k + 1) - 1) = WordAt(buffer, k)
  <2>1. Len(buffer) \in Nat
    BY <1>2
  <2> QED BY <1>2, <2>1, IndexIs, WordsAreTheLoops
<1>5. n \in 0 .. Words(buffer) - 1 /\ n + 1 \in 0 .. Words(buffer)
  <2>1. Len(buffer) \in Nat
    BY <1>2
  <2> HIDE DEF n
  <2> QED BY <1>3, <1>4, <2>1
<1>6. /\ \E t : Totals(t, buffer, n)
      /\ \A t : Totals(t, buffer, Words(buffer)) =>
           t[n] \in Nat /\ sum = OnesComplement(t[n])
  BY <1>1 DEF TotalsSoFar
<1> HIDE DEF n
<1>7. \E t : Totals(t, buffer, n + 1)
  BY <1>3, <1>6, TotalsGrow
<1>8. ASSUME NEW t, Totals(t, buffer, Words(buffer))
      PROVE  t[n + 1] \in Nat /\ sum' = OnesComplement(t[n + 1])
  <2>1. t[n + 1] = t[n] + WordAt(buffer, n)
    <3> DEFINE m == n + 1
               word == ntohs(Padded16(buffer), 2 * m - 1)
    <3>1. m \in 0 .. Words(buffer) /\ m # 0 /\ m - 1 = n
      BY <1>3, <1>5
    <3>2. word = WordAt(buffer, n)
      BY <1>4, <1>5
    <3> HIDE DEF m
    <3>3. t[m] = t[m - 1] + word
      BY <1>8, <3>1 DEF Totals
    <3> HIDE DEF word
    <3>4. t[m] = t[n] + WordAt(buffer, n)
      BY <3>1, <3>2, <3>3
    <3> QED BY <3>4 DEF m
  <2>2. t[n] \in Nat /\ sum = OnesComplement(t[n])
    BY <1>6, <1>8
  <2>3. sum' = OnesComplement(t[n] + WordAt(buffer, n))
    BY <1>3, <2>2, CarriesMayBeAddedAtOnce
  <2>4. t[n] + WordAt(buffer, n) \in Nat
    BY <1>3, <2>2, WordSize DEF Ones
  <2> QED BY <2>1, <2>3, <2>4
<1>9. (\E t : Totals(t, buffer, Index(pos)))'
  <2>1. PICK t : Totals(t, buffer, n + 1)
    BY <1>7
  <2>2. Totals(t, buffer', Index(pos'))
    BY <1>3, <2>1
  <2> QED BY <2>2 DEF Totals, Index, Padded16, ntohs
<1>10. ASSUME NEW t, Totals(t, buffer', Words(buffer'))
       PROVE  t[Index(pos')] \in Nat /\ sum' = OnesComplement(t[Index(pos')])
  BY <1>3, <1>8, <1>10
<1> QED BY <1>9, <1>10 DEF TotalsSoFar, Totals, Words, Index, Padded16, ntohs

LEMMA TotalsInvariant == Spec => []TotalsSoFar
<1>1. Init => TotalsSoFar
  BY DEF Init, TotalsSoFar
<1>2. TypeOK' /\ DatagramInv /\ TotalsSoFar /\ [Next]_vars => TotalsSoFar'
  <2> SUFFICES ASSUME TypeOK', DatagramInv, TotalsSoFar, [Next]_vars
               PROVE  TotalsSoFar'
    OBVIOUS
  <2>1. buffer' \in Seq(Byte)
    BY DEF TypeOK
  <2>2. CASE Build
    BY <2>1, <2>2, NoTotals DEF Build, SumFrom
  <2>3. CASE SumWord \/ SumLast
    BY <2>3, TotalsFollowTheLoop
  <2>4. CASE Send \/ Receive \/ Check
    BY <2>4 DEF Send, Receive, Check, TotalsSoFar
  <2>5. CASE Parse
    <3>1. pc' = "rejected" \/ (pos' = 0 /\ sum' = 0)
      BY <2>5 DEF Parse, SumFrom
    <3> QED BY <2>1, <3>1, NoTotals DEF TotalsSoFar
  <2>6. CASE UNCHANGED vars
    <3>1. UNCHANGED <<pc, buffer, pos, sum>>
      BY <2>6 DEF vars
    <3> QED BY <3>1 DEF TotalsSoFar, Totals, Words, Index, Padded16, ntohs
  <2> QED BY <2>2, <2>3, <2>4, <2>5, <2>6 DEF Next
<1>3. DatagramInv => TypeOK
  BY DEF DatagramInv
<1> QED BY <1>1, <1>2, <1>3, DatagramInvariant, PTL DEF Spec

\* However many bytes there are, and of whatever size a byte is, the sum that
\* calculate_checksum ends with is the one RFC 1071 describes.
THEOREM ChecksumIsRFC1071 == Spec => []SumsAsRFC1071
<1>1. ASSUME DatagramInv, TotalsSoFar PROVE SumsAsRFC1071
  <2> SUFFICES ASSUME pc \in {"sum", "check"}, Summed
               PROVE  sum = OnesComplement(PlainSum(buffer))
    BY DEF SumsAsRFC1071
  <2>1. buffer \in Seq(Byte)
    BY <1>1 DEF DatagramInv, TypeOK
  <2>2. Words(buffer) = Index(pos)
    BY <2>1, WordsAreTheLoops DEF Summed
  <2>3. /\ \E t : Totals(t, buffer, Words(buffer))
        /\ \A t : Totals(t, buffer, Words(buffer)) =>
             OnesComplement(t[Words(buffer)]) = sum
    BY <1>1, <2>2 DEF TotalsSoFar
  <2> QED BY <2>3, PlainSumIsTotal
<1> QED BY <1>1, DatagramInvariant, TotalsInvariant, PTL
=============================================================================
