--------------------------- MODULE TransferProofs ---------------------------
(***************************************************************************)
(* Theorems about Transfer, for every instance of its constants.           *)
(***************************************************************************)
EXTENDS Transfer, TLAPS

-----------------------------------------------------------------------------
(* The operators of the network                                            *)

\* Sequence numbers are natural, and there is a first one.
LEMMA Numbers ==
  /\ SeqNum \subseteq Nat
  /\ 0 \in SeqNum
BY SpaceAssumption DEF SeqNum

\* The next number is a number.
LEMMA IncType ==
  ASSUME NEW seq \in Nat
  PROVE  Inc(seq) \in SeqNum
BY SpaceAssumption DEF Inc, SeqNum

\* Below the last one, it is the successor.
LEMMA IncIsSuccessor ==
  ASSUME NEW seq \in Nat, seq + 1 < SeqSpace
  PROVE  Inc(seq) = seq + 1
BY SpaceAssumption DEF Inc

\* What is drawn for a connection is a number, and not the last one.
LEMMA DrawsAreNumbers ==
  ASSUME NEW seq \in ISN
  PROVE  seq \in SeqNum /\ seq \in Nat /\ Inc(seq) = seq + 1 /\ Inc(seq) \in SeqNum
<1>1. seq \in 0 .. SeqSpace - 2
  BY DrawAssumption
<1>2. seq \in Nat /\ seq \in SeqNum /\ seq + 1 < SeqSpace
  BY <1>1, SpaceAssumption DEF SeqNum
<1> QED BY <1>2, IncIsSuccessor, IncType

\* The flag bytes of the packets differ from each other.
LEMMA FlagsDiffer ==
  /\ DATA \notin {SYN, ACK, FIN, SYNACK, FINACK}
  /\ SYN \notin {ACK, FIN, SYNACK, FINACK}
  /\ ACK \notin {FIN, SYNACK, FINACK}
  /\ FIN \notin {SYNACK, FINACK}
  /\ SYNACK # FINACK
<1>1. /\ DATA # SYN /\ DATA # ACK /\ DATA # FIN /\ DATA # SYNACK /\ DATA # FINACK
  <2>1. "DATA" \in DATA BY DEF DATA
  <2>2. /\ "DATA" \notin SYN /\ "DATA" \notin ACK /\ "DATA" \notin FIN
        /\ "DATA" \notin SYNACK /\ "DATA" \notin FINACK
    BY DEF SYN, ACK, FIN, SYNACK, FINACK
  <2> QED BY <2>1, <2>2
<1>2. /\ "SYN" \in SYN /\ "SYN" \in SYNACK
      /\ "SYN" \notin ACK /\ "SYN" \notin FIN /\ "SYN" \notin FINACK
  BY DEF SYN, ACK, FIN, SYNACK, FINACK
<1>3. /\ "ACK" \in ACK /\ "ACK" \in SYNACK /\ "ACK" \in FINACK
      /\ "ACK" \notin SYN /\ "ACK" \notin FIN
  BY DEF SYN, ACK, FIN, SYNACK, FINACK
<1>4. "FIN" \in FINACK /\ "FIN" \notin ACK
  BY DEF ACK, FINACK
<1> QED BY <1>1, <1>2, <1>3, <1>4

\* What an arrival leaves in flight was in flight.
LEMMA AfterIsLess ==
  ASSUME NEW p, NEW F
  PROVE  After(p, F) \subseteq F
BY DEF After

\* What a call of send_packet leaves in flight was in flight or is sent by it.
LEMMA SentIsBounded ==
  ASSUME NEW S, NEW addr, NEW endpoint, NEW F
  PROVE  Sent(S, addr, endpoint, F) \subseteq F \cup S
BY DEF Sent

\* A header of a connection is a packet without a payload.
LEMMA HeaderIsPacket ==
  ASSUME NEW conn \in ConnectionState,
         NEW flags \in {SYN, ACK, FIN, SYNACK, FINACK}
  PROVE  Header(conn, flags) \in Packet
BY DEF Header, ConnectionState, Packet, ControlPackets

-----------------------------------------------------------------------------
(* The operators of the window                                             *)

\* Every number has a slot.
LEMMA IndexIsSlot ==
  ASSUME NEW seq \in Nat
  PROVE  Index(seq) \in Slots
BY WindowAssumption DEF Index, Slots

\* Filling keeps the type of the window.
LEMMA FillType ==
  ASSUME NEW w \in GBNSenderState, NEW p \in DataPackets
  PROVE  gbn_fill(w, p) \in GBNSenderState
<1>1. [packet |-> p, is_valid |-> TRUE] \in WindowPacket
  BY DEF WindowPacket
<1>2. [w.buffer EXCEPT ![Index(w.nextseqnum)] = [packet |-> p, is_valid |-> TRUE]]
        \in [Slots -> WindowPacket \cup {EmptySlot}]
  BY <1>1 DEF GBNSenderState
<1>3. Inc(w.nextseqnum) \in SeqNum
  BY Numbers, IncType DEF GBNSenderState
<1> QED BY <1>2, <1>3 DEF gbn_fill, GBNSenderState

\* So does an ACK.
LEMMA ProcessAckType ==
  ASSUME NEW w \in GBNSenderState, NEW ack \in SeqNum
  PROVE  gbn_process_ack(w, ack) \in GBNSenderState
<1>1. CASE ~AckInWindow(w, ack)
  BY <1>1 DEF gbn_process_ack
<1>2. CASE AckInWindow(w, ack)
  <2>1. ASSUME NEW slot \in WindowPacket \cup {EmptySlot}
        PROVE  Acked(slot) \in WindowPacket \cup {EmptySlot}
    <3>1. CASE slot \in WindowPacket BY <3>1 DEF Acked, WindowPacket
    <3>2. CASE slot = EmptySlot BY <3>2 DEF Acked, EmptySlot
    <3> QED BY <3>1, <3>2
  <2> DEFINE buffer ==
        [i \in Slots |->
           IF \E seq \in w.base .. ack - 1 : Index(seq) = i
           THEN Acked(w.buffer[i])
           ELSE w.buffer[i]]
  <2>2. w.buffer \in [Slots -> WindowPacket \cup {EmptySlot}]
    BY DEF GBNSenderState
  <2>3. buffer \in [Slots -> WindowPacket \cup {EmptySlot}]
    BY <2>1, <2>2
  <2>4. gbn_process_ack(w, ack) = [w EXCEPT !.base = ack, !.buffer = buffer]
    BY <1>2 DEF gbn_process_ack
  <2> HIDE DEF buffer
  <2> QED BY <2>3, <2>4 DEF GBNSenderState
<1> QED BY <1>1, <1>2

\* What a retransmission sends is DATA that waits in a slot.
LEMMA UnackedInSlots ==
  ASSUME NEW w \in GBNSenderState, NEW p \in Unacked(w)
  PROVE  /\ p \in DataPackets
         /\ \E i \in Slots : w.buffer[i].is_valid /\ p = w.buffer[i].packet
<1>1. PICK seq \in InFlight(w) :
        w.buffer[Index(seq)].is_valid /\ p = w.buffer[Index(seq)].packet
  BY DEF Unacked
<1>2. seq \in Nat
  <2>1. w.base \in Nat /\ w.nextseqnum \in Nat
    BY Numbers DEF GBNSenderState
  <2> QED BY <2>1 DEF InFlight
<1>3. Index(seq) \in Slots
  BY <1>2, IndexIsSlot
<1>4. w.buffer[Index(seq)] \in WindowPacket
  BY <1>1, <1>3 DEF GBNSenderState, EmptySlot
<1> QED BY <1>1, <1>3, <1>4 DEF WindowPacket

-----------------------------------------------------------------------------
(* Every variable has its type                                             *)

USE DEF netVars, established

\* What the stream holds is chunks.
LEMMA InputType ==
  ASSUME ClientTypeOK
  PROVE  /\ input \in Seq(Chunk)
         /\ Len(input) \in Nat
         /\ \A i \in 1 .. Len(input) : input[i] \in Chunk
BY InputsAssumption DEF ClientTypeOK

\* send_packet and the next state keep the types of what they change.
LEMMA ClientSendThenTypes ==
  ASSUME NetTypeOK, cExit \in ExitCode,
         NEW packet \in Packet, NEW addr, NEW state \in ClientState,
         ClientSendThen(packet, addr, state)
  PROVE  /\ toServer' \subseteq Packet
         /\ cState' \in ClientState
         /\ cPc' = "step"
         /\ cExit' \in ExitCode
<1>1. Sent({packet}, addr, "server", toServer) \subseteq Packet
  BY DEF NetTypeOK, Sent
<1> QED
  BY <1>1 DEF NetTypeOK, ClientSendThen, ClientGoto, ClientQuit, ClientState, ExitCode

\* What is sent in part is packets if all of it is.
LEMMA ClientSendsSomeTypes ==
  ASSUME NetTypeOK, NEW S, S \subseteq Packet, ClientSendsSome(S)
  PROVE  toServer' \subseteq Packet
BY DEF NetTypeOK, ClientSendsSome, Sent

\* What select and recv_packet return to the client is a packet, and its
\* environment keeps its types.
LEMMA ClientReceivesTypes ==
  ASSUME NetTypeOK, ClientTypeOK, NEW p, ClientReceives(p)
  PROVE  /\ p \in Packet
         /\ toClient' \subseteq Packet
         /\ mishaps' \in 0 .. MaxMishaps
         /\ input' \in Inputs /\ input' = input
         /\ cAddr' \in {"server", "other"}
         /\ cStop' \in BOOLEAN
         /\ cDraw' \in ISN
<1>1. After(p, toClient) \subseteq toClient
  BY AfterIsLess
<1> QED
  BY <1>1 DEF NetTypeOK, ClientTypeOK, ClientReceives

\* A packet's numbers are numbers, and so are those that follow them.
LEMMA PacketNumbers ==
  ASSUME NEW p \in Packet
  PROVE  /\ p.seq_num \in SeqNum /\ p.ack_num \in SeqNum /\ p.conn_id \in Nat
         /\ p.seq_num \in Nat /\ p.ack_num \in Nat
         /\ Inc(p.seq_num) \in SeqNum
<1>1. p.seq_num \in SeqNum /\ p.ack_num \in SeqNum /\ p.conn_id \in Nat
  BY DEF Packet, ControlPackets, DataPackets
<1> QED BY <1>1, Numbers, IncType

\* The same holds of a connection.
LEMMA ConnectionNumbers ==
  ASSUME NEW conn \in ConnectionState
  PROVE  /\ conn.seq_num \in Nat /\ conn.ack_num \in Nat
         /\ Inc(conn.seq_num) \in SeqNum /\ Inc(conn.ack_num) \in SeqNum
<1>1. conn.seq_num \in SeqNum /\ conn.ack_num \in SeqNum
  BY DEF ConnectionState
<1> QED BY <1>1, Numbers, IncType

\* What the client does keeps the types of its variables, and of the network.
LEMMA ClientKeepsItsTypes ==
  ASSUME NetTypeOK, ClientTypeOK, ClientNext
  PROVE  NetTypeOK' /\ ClientTypeOK'
<1>1. CASE ClientCloses
  <2>1. cConn' \in ConnectionState
    BY <1>1, DrawsAreNumbers, Numbers DEF ClientCloses, ConnectionState, ClientTypeOK
  <2>2. Header(cConn', SYN) \in Packet
    BY <2>1, HeaderIsPacket
  <2>3. ClientSendThen(Header(cConn', SYN), cAddr, "SYN_SENT")
    BY <1>1 DEF ClientCloses
  <2>4. /\ toServer' \subseteq Packet
        /\ cState' \in ClientState
        /\ cPc' = "step"
        /\ cExit' \in ExitCode
    BY <2>2, <2>3, ClientSendThenTypes DEF ClientTypeOK, ClientState
  <2> QED
    BY <1>1, <2>1, <2>4 DEF ClientCloses, NetTypeOK, ClientTypeOK
<1>2. CASE ClientBlocks
  BY <1>2 DEF ClientBlocks, NetTypeOK, ClientTypeOK
<1>3. CASE TransferStarts
  <2>1. NewWindow(cConn.seq_num) \in GBNSenderState
    BY DEF NewWindow, GBNSenderState, ClientTypeOK, ConnectionState
  <2>2. cDup' \in [last : SeqNum, count : 0 .. 2]
    BY <1>3, Numbers DEF TransferStarts
  <2>3. cWin' \in GBNSenderState
    BY <1>3, <2>1 DEF TransferStarts
  <2> QED
    BY <1>3, <2>2, <2>3 DEF TransferStarts, NetTypeOK, ClientTypeOK
<1>4. CASE TransferEnds
  BY <1>4 DEF TransferEnds, ClientGoto, ClientState, GBNSenderState, ConnectionState,
              NetTypeOK, ClientTypeOK
<1>5. CASE TransferExpires
  BY <1>5 DEF TransferExpires, ClientQuit, ClientState, ExitCode, NetTypeOK, ClientTypeOK
<1>6. CASE TransferTurns
  BY <1>6 DEF TransferTurns, NetTypeOK, ClientTypeOK
<1>7. CASE Fill
  <2> DEFINE packet == DataPacket(cWin, cConn, input[cRead + 1])
  <2>1. packet \in DataPackets
    BY <1>7, InputType
    DEF Fill, DataPacket, DataPackets, GBNSenderState, ConnectionState, ClientTypeOK
  <2>2. cWin' \in GBNSenderState
    BY <1>7, <2>1, FillType DEF Fill, ClientTypeOK
  <2>3. toServer' \subseteq Packet
    BY <1>7, <2>1, ClientSendsSomeTypes DEF Fill, Packet
  <2>4. cRead' \in 0 .. Len(input')
    BY <1>7, InputType DEF Fill, ClientTypeOK
  <2> QED
    BY <1>7, <2>2, <2>3, <2>4 DEF Fill, NetTypeOK, ClientTypeOK
<1>8. CASE FillEnds
  BY <1>8 DEF FillEnds, NetTypeOK, ClientTypeOK
<1>9. CASE FillFails
  BY <1>9 DEF FillFails, ClientQuit, ClientState, ExitCode, NetTypeOK, ClientTypeOK
<1>10. CASE Retransmit
  <2>1. toServer' \subseteq Packet
    BY <1>10, UnackedInSlots, ClientSendsSomeTypes DEF Retransmit, ClientTypeOK, Packet
  <2> QED
    BY <1>10, <2>1 DEF Retransmit, GBNSenderState, NetTypeOK, ClientTypeOK
<1>11. CASE TransferBlocks
  BY <1>11 DEF TransferBlocks, GBNSenderState, NetTypeOK, ClientTypeOK
<1>12. CASE FinWaitSends
  <2>1. Header(cConn, FIN) \in Packet
    BY HeaderIsPacket DEF ClientTypeOK
  <2>2. toServer' \subseteq Packet
    BY <1>12, <2>1 DEF FinWaitSends, Sent, NetTypeOK
  <2> QED
    BY <1>12, <2>2
    DEF FinWaitSends, ClientQuit, ClientState, ExitCode, NetTypeOK, ClientTypeOK
<1>13. CASE ClientStops \/ ClientExits
  BY <1>13
  DEF ClientStops, ClientExits, ExitCodes, ClientQuit, ClientState, ExitCode,
      NetTypeOK, ClientTypeOK
<1>14. CASE SynSentTimeout
  <2>1. Header(cConn, SYN) \in Packet
    BY HeaderIsPacket DEF ClientTypeOK
  <2>2. ClientSendThen(Header(cConn, SYN), cAddr, "SYN_SENT")
    BY <1>14 DEF SynSentTimeout
  <2>3. /\ toServer' \subseteq Packet
        /\ cState' \in ClientState
        /\ cPc' = "step"
        /\ cExit' \in ExitCode
    BY <2>1, <2>2, ClientSendThenTypes DEF ClientTypeOK, ClientState
  <2> QED
    BY <1>14, <2>3 DEF SynSentTimeout, NetTypeOK, ClientTypeOK
<1>15. CASE TransferTimeout
  BY <1>15 DEF TransferTimeout, NetTypeOK, ClientTypeOK
<1>16. CASE FinWaitTimeout \/ TimeWaitTimeout
  BY <1>16
  DEF FinWaitTimeout, TimeWaitTimeout, ClientGoto, ClientState, NetTypeOK, ClientTypeOK
<1>17. CASE ClientExpires
  BY <1>17 DEF ClientExpires, ClientQuit, ClientState, ExitCode, NetTypeOK, ClientTypeOK
<1>18. ASSUME NEW p \in toClient, ClientHandles(p)
       PROVE  NetTypeOK' /\ ClientTypeOK'
  <2>1. ClientReceives(p)
    BY <1>18
    DEF ClientHandles, AcceptSynAck, AckProgresses, AckRepeats, AcceptFinAck,
        RepeatLastAck, ClientIgnores
  <2>2. /\ p \in Packet
        /\ toClient' \subseteq Packet
        /\ mishaps' \in 0 .. MaxMishaps
        /\ input' \in Inputs /\ input' = input
        /\ cAddr' \in {"server", "other"}
        /\ cStop' \in BOOLEAN
        /\ cDraw' \in ISN
    BY <2>1, ClientReceivesTypes
  <2>3. /\ p.seq_num \in SeqNum /\ p.ack_num \in SeqNum /\ p.conn_id \in Nat
        /\ Inc(p.seq_num) \in SeqNum
    BY <2>2, PacketNumbers
  <2>4. CASE AcceptSynAck(p)
    <3>1. cConn' \in ConnectionState
      BY <2>4, <2>3, ConnectionNumbers DEF AcceptSynAck, ConnectionState, ClientTypeOK
    <3>2. Header(cConn', ACK) \in Packet
      BY <3>1, HeaderIsPacket
    <3>3. ClientSendThen(Header(cConn', ACK), "server", "ESTABLISHED")
      BY <2>4 DEF AcceptSynAck
    <3>4. /\ toServer' \subseteq Packet
          /\ cState' \in ClientState
          /\ cPc' = "step"
          /\ cExit' \in ExitCode
      BY <3>2, <3>3, ClientSendThenTypes DEF ClientTypeOK, ClientState
    <3> QED
      BY <2>2, <2>4, <3>1, <3>4
      DEF AcceptSynAck, ClientProgress, NetTypeOK, ClientTypeOK
  <2>5. CASE AckProgresses(p)
    <3> DEFINE w == gbn_process_ack(cWin, p.ack_num)
    <3>1. w \in GBNSenderState
      BY <2>3, ProcessAckType DEF ClientTypeOK
    <3>2. cWin' \in GBNSenderState
      BY <2>5, <3>1 DEF AckProgresses, TimerAfterAck, GBNSenderState
    <3>3. cDup' \in [last : SeqNum, count : 0 .. 2]
      BY <2>3, <2>5 DEF AckProgresses
    <3> QED
      BY <2>2, <2>5, <3>2, <3>3
      DEF AckProgresses, ClientProgress, NetTypeOK, ClientTypeOK
  <2>6. CASE AckRepeats(p)
    <3> DEFINE w == gbn_process_ack(cWin, p.ack_num)
    <3>1. w \in GBNSenderState
      BY <2>3, ProcessAckType DEF ClientTypeOK
    <3>2. cWin' \in GBNSenderState
      BY <2>6, <3>1 DEF AckRepeats, GBNSenderState
    <3>3. Unacked(w) \subseteq Packet
      BY <3>1, UnackedInSlots DEF Packet
    <3>4. toServer' \subseteq Packet
      BY <2>6, <3>3, ClientSendsSomeTypes DEF AckRepeats, NetTypeOK
    <3>5. cDup' \in [last : SeqNum, count : 0 .. 2]
      BY <2>3, <2>6 DEF AckRepeats, DupAckLimit, ClientTypeOK
    <3> QED
      BY <2>2, <2>6, <3>2, <3>4, <3>5 DEF AckRepeats, NetTypeOK, ClientTypeOK
  <2>7. CASE AcceptFinAck(p)
    <3>0. Inc(cConn.seq_num) \in SeqNum
      BY ConnectionNumbers DEF ClientTypeOK
    <3>1. cConn' \in ConnectionState
      BY <2>3, <2>7, <3>0 DEF AcceptFinAck, ConnectionState, ClientTypeOK
    <3>2. Header(cConn', ACK) \in Packet
      BY <3>1, HeaderIsPacket
    <3>3. ClientSendThen(Header(cConn', ACK), "server", "TIME_WAIT")
      BY <2>7 DEF AcceptFinAck
    <3>4. /\ toServer' \subseteq Packet
          /\ cState' \in ClientState
          /\ cPc' = "step"
          /\ cExit' \in ExitCode
      BY <3>2, <3>3, ClientSendThenTypes DEF ClientTypeOK, ClientState
    <3> QED
      BY <2>2, <2>7, <3>1, <3>4
      DEF AcceptFinAck, ClientProgress, NetTypeOK, ClientTypeOK
  <2>8. CASE RepeatLastAck(p)
    <3>1. Header(cConn, ACK) \in Packet
      BY HeaderIsPacket DEF ClientTypeOK
    <3>2. toServer' \subseteq Packet
      BY <2>8, <3>1 DEF RepeatLastAck, Sent, NetTypeOK
    <3> QED
      BY <2>2, <2>8, <3>2
      DEF RepeatLastAck, ClientProgress, ClientGoto, ClientQuit, ClientState, ExitCode,
          NetTypeOK, ClientTypeOK
  <2>9. CASE ClientIgnores(p)
    BY <2>2, <2>9 DEF ClientIgnores, NextTurn, NetTypeOK, ClientTypeOK
  <2> QED
    BY <1>18, <2>4, <2>5, <2>6, <2>7, <2>8, <2>9 DEF ClientHandles
<1>19. ASSUME NEW from \in {"server", "other"}, ClientRejects(from)
       PROVE  NetTypeOK' /\ ClientTypeOK'
  BY <1>19, FaultAssumption
  DEF ClientRejects, Malformed, NextTurn, NetTypeOK, ClientTypeOK
<1>20. CASE TimerFires
  BY <1>20 DEF TimerFires, GBNSenderState, NetTypeOK, ClientTypeOK
<1>21. CASE ClientDeadline
  BY <1>21 DEF ClientDeadline, NetTypeOK, ClientTypeOK
<1>22. CASE ClientSignal
  BY <1>22 DEF ClientSignal, ClientQuit, ClientState, ExitCode, NetTypeOK, ClientTypeOK
<1> QED
  BY <1>1, <1>2, <1>3, <1>4, <1>5, <1>6, <1>7, <1>8, <1>9, <1>10, <1>11, <1>12,
     <1>13, <1>14, <1>15, <1>16, <1>17, <1>18, <1>19, <1>20, <1>21, <1>22
  DEF ClientNext, ClientRuns, ClientTimesOut

\* So is what they return to the server.
LEMMA ServerReceivesTypes ==
  ASSUME NetTypeOK, SessionTypeOK, NEW p, ServerReceives(p)
  PROVE  /\ p \in Packet
         /\ toServer' \subseteq Packet
         /\ mishaps' \in 0 .. MaxMishaps
         /\ sAddr' = "client"
         /\ sStop' \in BOOLEAN
         /\ sDraw' = sDraw
<1>1. After(p, toServer) \subseteq toServer
  BY AfterIsLess
<1> QED
  BY <1>1 DEF NetTypeOK, SessionTypeOK, ServerReceives

\* The server's send_packet, with the next state, keeps the types as well.
LEMMA ServerSendThenTypes ==
  ASSUME NetTypeOK, sExit \in ExitCode,
         NEW packet \in Packet, NEW addr, NEW state \in ServerState,
         ServerSendThen(packet, addr, state)
  PROVE  /\ toClient' \subseteq Packet
         /\ sState' \in ServerState
         /\ sPc' = "step"
         /\ sExit' \in ExitCode
<1>1. Sent({packet}, addr, "client", toClient) \subseteq Packet
  BY DEF NetTypeOK, Sent
<1> QED
  BY <1>1 DEF NetTypeOK, ServerSendThen, ServerGoto, ServerQuit, ServerState, ExitCode

\* What the server does keeps the types of its variables, and of the network.
LEMMA ServerKeepsItsTypes ==
  ASSUME NetTypeOK, SessionTypeOK,
         sDraw.seq_num \in SeqNum, sDraw.conn_id \in Nat,
         ServerActs \/ \E p \in toServer : ServerHandles(p)
  PROVE  NetTypeOK' /\ SessionTypeOK'
<1>1. CASE ServerBlocks \/ ServerTimeout
  BY <1>1 DEF ServerBlocks, ServerTimeout, NetTypeOK, SessionTypeOK
<1>2. CASE ServerStops \/ ServerExits
  BY <1>2
  DEF ServerStops, ServerExits, ExitCodes, ServerQuit, ServerState, ExitCode,
      NetTypeOK, SessionTypeOK
<1>3. CASE LastAckTimeout
  <2>1. Header(sConn, FINACK) \in Packet
    BY HeaderIsPacket DEF SessionTypeOK
  <2>2. toClient' \subseteq Packet
    BY <1>3, <2>1 DEF LastAckTimeout, Sent, NetTypeOK
  <2> QED
    BY <1>3, <2>2
    DEF LastAckTimeout, ServerGoto, ServerQuit, ServerState, ExitCode, NetTypeOK,
        SessionTypeOK
<1>4. CASE ServerExpires
  BY <1>4
  DEF ServerExpires, SilenceCode, ServerQuit, ServerState, ExitCode, NetTypeOK,
      SessionTypeOK
<1>5. ASSUME NEW from \in {"client", "other"}, ServerRejects(from)
      PROVE  NetTypeOK' /\ SessionTypeOK'
  BY <1>5, FaultAssumption DEF ServerRejects, Malformed, NetTypeOK, SessionTypeOK
<1>6. CASE ServerDeadline
  BY <1>6 DEF ServerDeadline, NetTypeOK, SessionTypeOK
<1>7. CASE ServerSignal
  BY <1>7 DEF ServerSignal, ServerQuit, ServerState, ExitCode, NetTypeOK, SessionTypeOK
<1>8. ASSUME NEW p \in toServer, ServerHandles(p)
      PROVE  NetTypeOK' /\ SessionTypeOK'
  <2>1. ServerReceives(p)
    BY <1>8
    DEF ServerHandles, AcceptSyn, RepeatSynAck, AcceptHandshake, AcceptFin, AcceptData,
        WriteFails, RepeatAck, RepeatFinAck, AcceptLastAck, ServerIgnores
  <2>2. /\ p \in Packet
        /\ toServer' \subseteq Packet
        /\ mishaps' \in 0 .. MaxMishaps
        /\ sStop' \in BOOLEAN
    BY <2>1, ServerReceivesTypes
  <2>3. /\ p.seq_num \in SeqNum /\ p.ack_num \in SeqNum /\ p.conn_id \in Nat
        /\ Inc(p.seq_num) \in SeqNum
    BY <2>2, PacketNumbers
  <2>4. CASE AcceptSyn(p)
    <3>1. sConn' \in ConnectionState
      BY <2>3, <2>4 DEF AcceptSyn, ConnectionState
    <3>2. Header(sConn', SYNACK) \in Packet
      BY <3>1, HeaderIsPacket
    <3>3. toClient' \subseteq Packet
      BY <2>4, <3>2 DEF AcceptSyn, Sent, NetTypeOK
    <3> QED
      BY <2>2, <2>4, <3>1, <3>3
      DEF AcceptSyn, ServerProgress, ServerGoto, ServerQuit, ServerState, ExitCode,
          NetTypeOK, SessionTypeOK
  <2>5. CASE RepeatSynAck(p)
    <3>1. Header(sConn, SYNACK) \in Packet
      BY HeaderIsPacket DEF SessionTypeOK
    <3>2. ServerSendThen(Header(sConn, SYNACK), "client", "HANDSHAKE")
      BY <2>5 DEF RepeatSynAck
    <3>3. /\ toClient' \subseteq Packet
          /\ sState' \in ServerState
          /\ sPc' = "step"
          /\ sExit' \in ExitCode
      BY <3>1, <3>2, ServerSendThenTypes DEF SessionTypeOK, ServerState
    <3> QED
      BY <2>2, <2>5, <3>3 DEF RepeatSynAck, NetTypeOK, SessionTypeOK
  <2>6. CASE AcceptHandshake(p)
    <3>1. sConn' \in ConnectionState
      BY <2>3, <2>6 DEF AcceptHandshake, AfterHandshake, ConnectionState, SessionTypeOK
    <3> QED
      BY <2>2, <2>6, <3>1
      DEF AcceptHandshake, ServerProgress, ServerGoto, ServerState, NetTypeOK, SessionTypeOK
  <2>7. CASE AcceptFin(p)
    <3>1. sConn' \in ConnectionState
      BY <2>3, <2>7 DEF AcceptFin, ConnectionState, SessionTypeOK
    <3>2. Header(sConn', FINACK) \in Packet
      BY <3>1, HeaderIsPacket
    <3>3. toClient' \subseteq Packet
      BY <2>7, <3>2 DEF AcceptFin, Sent, NetTypeOK
    <3> QED
      BY <2>2, <2>7, <3>1, <3>3
      DEF AcceptFin, ServerProgress, ServerGoto, ServerQuit, ServerState, ExitCode,
          NetTypeOK, SessionTypeOK
  <2>8. CASE AcceptData(p)
    <3>0. Inc(sConn.ack_num) \in SeqNum
      BY ConnectionNumbers DEF SessionTypeOK
    <3>1. sConn' \in ConnectionState
      BY <2>8, <3>0 DEF AcceptData, ConnectionState, SessionTypeOK
    <3>2. Header(sConn', ACK) \in Packet
      BY <3>1, HeaderIsPacket
    <3>3. ServerSendThen(Header(sConn', ACK), "client", "ESTABLISHED")
      BY <2>8 DEF AcceptData
    <3>4. /\ toClient' \subseteq Packet
          /\ sState' \in ServerState
          /\ sPc' = "step"
          /\ sExit' \in ExitCode
      BY <3>2, <3>3, ServerSendThenTypes DEF SessionTypeOK, ServerState
    <3>5. p.payload \in Chunk
      BY <2>2, <2>8, FlagsDiffer
      DEF AcceptData, IsData, Packet, ControlPackets, DataPackets
    <3>6. out' \in Seq(Chunk)
      BY <2>8, <3>5 DEF AcceptData, SessionTypeOK
    <3> QED
      BY <2>2, <2>8, <3>1, <3>4, <3>6
      DEF AcceptData, ServerProgress, NetTypeOK, SessionTypeOK
  <2>9. CASE WriteFails(p)
    BY <2>2, <2>9
    DEF WriteFails, ServerQuit, ServerState, ExitCode, NetTypeOK, SessionTypeOK
  <2>10. CASE RepeatAck(p)
    <3>1. Header(sConn, ACK) \in Packet
      BY HeaderIsPacket DEF SessionTypeOK
    <3>2. ServerSendThen(Header(sConn, ACK), "client", "ESTABLISHED")
      BY <2>10 DEF RepeatAck
    <3>3. /\ toClient' \subseteq Packet
          /\ sState' \in ServerState
          /\ sPc' = "step"
          /\ sExit' \in ExitCode
      BY <3>1, <3>2, ServerSendThenTypes DEF SessionTypeOK, ServerState
    <3> QED
      BY <2>2, <2>10, <3>3 DEF RepeatAck, NetTypeOK, SessionTypeOK
  <2>11. CASE RepeatFinAck(p)
    <3>1. Header(sConn, FINACK) \in Packet
      BY HeaderIsPacket DEF SessionTypeOK
    <3>2. ServerSendThen(Header(sConn, FINACK), "client", "LAST_ACK")
      BY <2>11 DEF RepeatFinAck
    <3>3. /\ toClient' \subseteq Packet
          /\ sState' \in ServerState
          /\ sPc' = "step"
          /\ sExit' \in ExitCode
      BY <3>1, <3>2, ServerSendThenTypes DEF SessionTypeOK, ServerState
    <3> QED
      BY <2>2, <2>11, <3>3 DEF RepeatFinAck, NetTypeOK, SessionTypeOK
  <2>12. CASE AcceptLastAck(p)
    BY <2>2, <2>12
    DEF AcceptLastAck, ServerProgress, ServerGoto, ServerState, NetTypeOK, SessionTypeOK
  <2>13. CASE ServerIgnores(p)
    BY <2>2, <2>13 DEF ServerIgnores, NetTypeOK, SessionTypeOK
  <2> QED
    BY <1>8, <2>4, <2>5, <2>6, <2>7, <2>8, <2>9, <2>10, <2>11, <2>12, <2>13
    DEF ServerHandles
<1> QED
  BY <1>1, <1>2, <1>3, <1>4, <1>5, <1>6, <1>7, <1>8
  DEF ServerActs, ServerRuns, ServerTimesOut

\* A step of the server sets client_addr to a host, and leaves what rand() draws.
LEMMA ServerAnswersAHost ==
  ASSUME ServerActs \/ \E p \in toServer : ServerHandles(p)
  PROVE  sAddr' \in {sAddr, "client", "other"} /\ sDraw' = sDraw
<1>1. ASSUME NEW p \in toServer, ServerHandles(p)
      PROVE  sAddr' = "client" /\ sDraw' = sDraw
  BY <1>1
  DEF ServerHandles, AcceptSyn, RepeatSynAck, AcceptHandshake, AcceptFin, AcceptData,
      WriteFails, RepeatAck, RepeatFinAck, AcceptLastAck, ServerIgnores, ServerReceives
<1>2. ASSUME NEW from \in {"client", "other"}, ServerRejects(from)
      PROVE  sAddr' = from /\ sDraw' = sDraw
  BY <1>2 DEF ServerRejects
<1>3. CASE ServerRuns \/ ServerTimesOut \/ ServerDeadline \/ ServerSignal
  BY <1>3
  DEF ServerRuns, ServerTimesOut, ServerBlocks, ServerStops, ServerExits, ServerTimeout,
      LastAckTimeout, ServerExpires, ServerDeadline, ServerSignal
<1> QED
  BY <1>1, <1>2, <1>3 DEF ServerActs

\* Initially the network and the client have their types.
LEMMA ClientInitTypes ==
  ASSUME NetInit, ClientInit
  PROVE  NetTypeOK /\ ClientTypeOK
<1>1. NetTypeOK
  BY FaultAssumption DEF NetInit, NetTypeOK
<1>2. NewWindow(0) \in GBNSenderState
  BY Numbers DEF NewWindow, GBNSenderState
<1>3. NoConnection \in ConnectionState
  BY Numbers DEF NoConnection, ConnectionState
<1>4. input \in Seq(Chunk)
  BY InputsAssumption DEF ClientInit
<1>5. 0 \in 0 .. Len(input)
  BY <1>4
<1>6. [last |-> 0, count |-> 0] \in [last : SeqNum, count : 0 .. 2]
  BY Numbers
<1>7. cWin \in GBNSenderState /\ cConn \in ConnectionState
  BY <1>2, <1>3 DEF ClientInit
<1>8. cDup \in [last : SeqNum, count : 0 .. 2] /\ cRead \in 0 .. Len(input)
  BY <1>5, <1>6 DEF ClientInit
<1> QED
  BY <1>1, <1>7, <1>8 DEF ClientInit, ClientTypeOK, ClientState, ExitCode

\* So does every variable.
LEMMA InitTypes ==
  ASSUME Init
  PROVE  TypeOK
<1>1. NetTypeOK /\ ClientTypeOK
  BY ClientInitTypes DEF Init
<1>2. NoConnection \in ConnectionState
  BY Numbers DEF NoConnection, ConnectionState
<1>3. ServerTypeOK
  <2>1. out \in Seq(Chunk) /\ sConn \in ConnectionState
    BY <1>2 DEF Init, ServerInit
  <2> QED
    BY <2>1 DEF Init, ServerInit, ServerTypeOK, SessionTypeOK, ServerState, ExitCode
<1> QED
  BY <1>1, <1>3 DEF TypeOK

\* Every step keeps the types.
LEMMA NextTypes ==
  ASSUME TypeOK, [Next]_vars
  PROVE  TypeOK'
<1>1. CASE ClientNext
  <2>1. ServerTypeOK'
    BY <1>1 DEF ClientNext, serverVars, TypeOK, ServerTypeOK, SessionTypeOK
  <2> QED
    BY <1>1, <2>1, ClientKeepsItsTypes DEF TypeOK
<1>2. CASE ServerNext
  <2>1. ClientTypeOK'
    BY <1>2 DEF ServerNext, clientVars, TypeOK, ClientTypeOK
  <2>2. sDraw.seq_num \in ISN /\ sDraw.conn_id \in ConnId
    BY DEF TypeOK, ServerTypeOK
  <2>3. sDraw.seq_num \in SeqNum /\ sDraw.conn_id \in Nat
    BY <2>2, DrawsAreNumbers, DrawAssumption
  <2>4. NetTypeOK' /\ SessionTypeOK'
    BY <1>2, <2>3, ServerKeepsItsTypes DEF ServerNext, TypeOK, ServerTypeOK
  <2>5. sAddr' \in {sAddr, "client", "other"} /\ sDraw' = sDraw
    BY <1>2, ServerAnswersAHost DEF ServerNext
  <2> QED
    BY <2>1, <2>4, <2>5 DEF TypeOK, ServerTypeOK
<1>3. CASE Loss
  BY <1>3, FaultAssumption
  DEF Loss, Lose, clientVars, serverVars, TypeOK, NetTypeOK, ClientTypeOK, ServerTypeOK, SessionTypeOK
<1>4. CASE UNCHANGED vars
  BY <1>4
  DEF vars, clientVars, serverVars, TypeOK, NetTypeOK, ClientTypeOK, ServerTypeOK, SessionTypeOK
<1> QED
  BY <1>1, <1>2, <1>3, <1>4 DEF Next

\* Every variable of the network and of the two processes (the packets of
\* protocol.h, the locals of run_client and run_server) always has its type.
THEOREM TypeCorrect == Spec => []TypeOK
<1>1. Init => TypeOK
  BY InitTypes
<1>2. TypeOK /\ [Next]_vars => TypeOK'
  BY NextTypes
<1> QED
  BY <1>1, <1>2, PTL DEF Spec
=============================================================================
