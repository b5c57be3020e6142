------------------------------ MODULE Datagram ------------------------------
(***************************************************************************)
(* A packet on its way through the wrappers of utils.c and protocol.c:     *)
(* build_packet lays it out and sums it, the network delivers the datagram *)
(* whole, damaged, cut short or with something behind it, and parse_packet *)
(* sums what arrived and takes it apart.  The loop of calculate_checksum   *)
(* runs twice, so it is a pair of actions that both ends share.            *)
(***************************************************************************)
EXTENDS Integers, Sequences

CONSTANTS
  BYTE,             \* how many values a byte has: 256
  MAX_PACKET_SIZE,  \* the size of the buffers
  Packets,          \* the packets there may be to send
  Tails             \* what may arrive behind a datagram

\* sizeof(RDTHeader), and where its checksum and its payload_len are
HEADER      == 15
CHECKSUM    == 11
PAYLOAD_LEN == 13

WORD == BYTE * BYTE   \* how many values a uint16_t has
Byte == 0 .. BYTE - 1

\* A header, without the fields build_packet fills in itself, and a payload.
PacketType ==
  [ seq_num : 0 .. WORD * WORD - 1, ack_num : 0 .. WORD * WORD - 1,
    conn_id : 0 .. WORD - 1, flags : Byte, payload : Seq(Byte) ]

ASSUME ByteAssumption == BYTE \in Nat \ {0, 1}
ASSUME SizeAssumption ==
  /\ MAX_PACKET_SIZE \in Nat
  /\ Packets \subseteq PacketType
  /\ \A p \in Packets :
       Len(p.payload) < WORD /\ HEADER + Len(p.payload) <= MAX_PACKET_SIZE
  /\ Tails \subseteq Seq(Byte)

VARIABLES
  pc,         \* "build", "sum", "flight", "parse", "check", "accepted", "rejected"
  sent,       \* the header and the payload given to send_packet
  buffer,     \* the bytes that are summed: out_buffer, then tmp_buff
  pos,        \* how many of them calculate_checksum has read
  sum,        \* its accumulator
  datagram,   \* what sendto was given
  in_buffer,  \* what recvfrom has returned
  received    \* the header and the payload parse_packet has extracted

vars == <<pc, sent, buffer, pos, sum, datagram, in_buffer, received>>

-----------------------------------------------------------------------------
(* Bytes and their order                                                   *)

htons(n) == <<n \div BYTE, n % BYTE>>
htonl(n) == htons(n \div WORD) \o htons(n % WORD)

\* Of the bytes of b from index i.
ntohs(b, i) == b[i] * BYTE + b[i + 1]
ntohl(b, i) == ntohs(b, i) * WORD + ntohs(b, i + 2)

\* The header in network order with the checksum still 0, and the payload.
Layout(p) ==
  LET seq  == htonl(p.seq_num)
      ack  == htonl(p.ack_num)
      conn == htons(p.conn_id)
      len  == htons(Len(p.payload))
  IN  << seq[1], seq[2], seq[3], seq[4], ack[1], ack[2], ack[3], ack[4],
         conn[1], conn[2], 0, 0, len[1], len[2], p.flags >> \o p.payload

\* The bytes b with a checksum in their header.
WithChecksum(b, checksum) ==
  [b EXCEPT ![CHECKSUM] = checksum \div BYTE, ![CHECKSUM + 1] = checksum % BYTE]

\* What parse_packet takes out of a datagram.
Extracted(b) ==
  [ seq_num |-> ntohl(b, 1), ack_num |-> ntohl(b, 5), conn_id |-> ntohs(b, 9),
    flags |-> b[HEADER],
    payload |-> SubSeq(b, HEADER + 1, HEADER + ntohs(b, PAYLOAD_LEN)) ]

-----------------------------------------------------------------------------
(* calculate_checksum                                                      *)

\* Mutant: the carry is dropped.
AddWordNoCarry(s, word) == (s + word) % WORD

\* A word is added, and a carry put back in at once.
AddWord(s, word) ==
  IF s + word >= WORD THEN ((s + word) % WORD) + 1 ELSE s + word

\* Mutant: a byte without a partner is left out.
AddLastSkipped(s, byte) == s

\* Mutant: the carries are left in the upper half of the accumulator.
AddLastUnfolded(s, byte) == s + byte * BYTE

\* The last byte of an odd number of them counts as the high byte of a word.
AddLast(s, byte) ==
  LET t == s + byte * BYTE IN (t % WORD) + (t \div WORD)

\* (uint16_t)~sum
Complement(s) == (WORD - 1) - (s % WORD)

SumWord ==
  /\ pc \in {"sum", "check"}
  /\ Len(buffer) - pos > 1
  /\ sum' = AddWord(sum, ntohs(buffer, pos + 1))
  /\ pos' = pos + 2
  /\ UNCHANGED <<pc, sent, buffer, datagram, in_buffer, received>>

SumLast ==
  /\ pc \in {"sum", "check"}
  /\ Len(buffer) - pos = 1
  /\ sum' = AddLast(sum, buffer[pos + 1])
  /\ pos' = pos + 1
  /\ UNCHANGED <<pc, sent, buffer, datagram, in_buffer, received>>

\* The loop has read the buffer b from its start, or is about to.
SumFrom(b) == buffer' = b /\ pos' = 0 /\ sum' = 0
Summed     == pos = Len(buffer)

-----------------------------------------------------------------------------
(* build_packet, called by send_packet                                     *)

Build ==
  /\ pc = "build"
  /\ pc' = "sum"
  /\ SumFrom(Layout(sent))
  /\ UNCHANGED <<sent, datagram, in_buffer, received>>

Send ==
  /\ pc = "sum"
  /\ Summed
  /\ pc' = "flight"
  /\ datagram' = WithChecksum(buffer, Complement(sum))
  /\ UNCHANGED <<sent, buffer, pos, sum, in_buffer, received>>

-----------------------------------------------------------------------------
(* What the network makes of a datagram d                                  *)

Damaged(d) ==
  { [i \in 1 .. Len(d) |-> IF (i - 1) \div 2 # k THEN d[i]
                           ELSE IF i % 2 = 1 THEN hi ELSE lo] :
      k \in 0 .. (Len(d) - 1) \div 2, hi \in Byte, lo \in Byte }

Cut(d) == { SubSeq(d, 1, n) : n \in 0 .. Len(d) - 1 }

Padded(d) == { d \o tail : tail \in Tails }

-----------------------------------------------------------------------------
(* recv_packet and parse_packet                                            *)

\* recvfrom keeps of a datagram what the buffer holds.
RecvFrom(bytes) ==
  IF Len(bytes) > MAX_PACKET_SIZE THEN SubSeq(bytes, 1, MAX_PACKET_SIZE) ELSE bytes

Receive ==
  /\ pc = "flight"
  /\ \E bytes \in {datagram} \cup Damaged(datagram) \cup Cut(datagram) \cup Padded(datagram) :
       in_buffer' = RecvFrom(bytes)
  /\ pc' = "parse"
  /\ UNCHANGED <<sent, buffer, pos, sum, datagram, received>>

\* The two tests of total_len; recv_packet never hands over too much.
Parse ==
  /\ pc = "parse"
  /\ \/ /\ Len(in_buffer) < HEADER \/ Len(in_buffer) > MAX_PACKET_SIZE
        /\ pc' = "rejected"
        /\ UNCHANGED <<buffer, pos, sum>>
     \/ /\ Len(in_buffer) \in HEADER .. MAX_PACKET_SIZE
        /\ pc' = "check"
        /\ SumFrom(WithChecksum(in_buffer, 0))
  /\ UNCHANGED <<sent, datagram, in_buffer, received>>

\* Whether the checksum that arrived is that of the bytes that arrived.
ChecksumFits == Complement(sum) = ntohs(in_buffer, CHECKSUM)

\* Mutant: a packet without a payload is too short as well.
PayloadFitsStrictly == Len(in_buffer) > HEADER + ntohs(in_buffer, PAYLOAD_LEN)

\* Whether the payload that the header announces has arrived.
PayloadFits == Len(in_buffer) >= HEADER + ntohs(in_buffer, PAYLOAD_LEN)

Check ==
  /\ pc = "check"
  /\ Summed
  /\ \/ /\ ChecksumFits /\ PayloadFits
        /\ pc' = "accepted"
        /\ received' = Extracted(in_buffer)
     \/ /\ ~(ChecksumFits /\ PayloadFits)
        /\ pc' = "rejected"
        /\ UNCHANGED received
  /\ UNCHANGED <<sent, buffer, pos, sum, datagram, in_buffer>>

-----------------------------------------------------------------------------

\* RDTHeader header = {0}
NoHeader ==
  [seq_num |-> 0, ack_num |-> 0, conn_id |-> 0, flags |-> 0, payload |-> << >>]

Init ==
  /\ pc = "build"
  /\ sent \in Packets
  /\ buffer = << >> /\ pos = 0 /\ sum = 0
  /\ datagram = << >> /\ in_buffer = << >>
  /\ received = NoHeader

Next == Build \/ SumWord \/ SumLast \/ Send \/ Receive \/ Parse \/ Check

Spec == Init /\ [][Next]_vars

-----------------------------------------------------------------------------
(* Properties                                                              *)

\* Every variable has its type; the accumulator stays within a word, far below
\* the 32 bits it has.
TypeOK ==
  /\ pc \in {"build", "sum", "flight", "parse", "check", "accepted", "rejected"}
  /\ sent \in Packets
  /\ buffer \in Seq(Byte) /\ datagram \in Seq(Byte) /\ in_buffer \in Seq(Byte)
  /\ pos \in 0 .. Len(buffer)
  /\ sum \in 0 .. WORD - 1

\* The word at index i is all zeros in one sequence of bytes, all ones in the other.
ZerosForOnes(b, c, i) ==
  {ntohs(b, i), ntohs(c, i)} = {0, WORD - 1}

\* What parse_packet accepts is what was sent, whatever has been done to a word of
\* it, cut off from it or put behind it; but the checksum of RFC 1071 has two
\* zeros, and where all sixteen bits of a word were flipped together between all
\* zeros and all ones it sees nothing (calculate_checksum, parse_packet).
NeverMistaken ==
  pc = "accepted" =>
    \/ received = sent
    \/ \E i \in 1 .. Len(datagram) - 1 :
         i % 2 = 1 /\ ZerosForOnes(datagram, in_buffer, i)

\* A datagram that arrives whole is never rejected, whatever its length and the
\* parity of it (build_packet and parse_packet agree).
IntactIsAccepted == pc = "rejected" => in_buffer # datagram

-----------------------------------------------------------------------------
(* RFC 1071, section 1: the 16-bit words, with a zero byte behind an odd    *)
(* one, are added, and the sum is brought below 2^16 by adding the carries. *)

Padded16(b) == IF Len(b) % 2 = 0 THEN b ELSE b \o <<0>>

Words(b) == (Len(b) + 1) \div 2

PlainSum(b) ==
  LET total[k \in 0 .. Words(b)] ==
        IF k = 0 THEN 0 ELSE total[k - 1] + ntohs(Padded16(b), 2 * k - 1)
  IN  total[Words(b)]

OnesComplement(n) == IF n = 0 THEN 0 ELSE ((n - 1) % (WORD - 1)) + 1

\* Folding after each word, and the last byte on its own, is the sum of RFC 1071,
\* for every number of bytes (calculate_checksum).
SumsAsRFC1071 ==
  pc \in {"sum", "check"} /\ Summed => sum = OnesComplement(PlainSum(buffer))
=============================================================================
