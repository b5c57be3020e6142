-------------------------- MODULE RefinementProofs --------------------------
(***************************************************************************)
(* The two processes and the network implement ReliableStream, for every   *)
(* choice of the constants; and what one end sends again is what the other *)
(* end waits for.                                                          *)
(***************************************************************************)
EXTENDS SessionProofs

USE DEF netVars, established

-----------------------------------------------------------------------------
(* Before the end                                                          *)

\* No number up to that of FIN is the number after FIN, even where that wraps.
LEMMA BeforeTheEnd ==
  ASSUME TypeOK, NEW n \in Nat, FirstSeq <= n, n <= FinSeq, FinSeq \in SeqNum
  PROVE  n # Inc(FinSeq)
<1>1. FinSeq \in Nat /\ FirstSeq \in Nat /\ 1 <= FirstSeq
  BY SessionNumbers
<1>2. CASE FinSeq + 1 < SeqSpace
  BY <1>1, <1>2, IncIsSuccessor
<1>3. CASE ~(FinSeq + 1 < SeqSpace)
  <2>1. FinSeq + 1 = SeqSpace
    BY <1>1, <1>3, SpaceAssumption DEF SeqNum
  <2>2. Inc(FinSeq) = 0
    BY <2>1, SpaceAssumption DEF Inc
  <2> QED BY <1>1, <2>2
<1> QED BY <1>2, <1>3

\* A connection with such a number has not come to its end.
LEMMA NotYet ==
  ASSUME TypeOK, NEW id, NEW n \in Nat, FirstSeq <= n, n <= FinSeq
  PROVE  ~AfterFin(id, n)
BY BeforeTheEnd DEF AfterFin

\* Nor has one without an identifier come to its end.
LEMMA NoIdentifier ==
  ASSUME NEW n
  PROVE  ~AfterFin(0, n)
BY DEF AfterFin

-----------------------------------------------------------------------------
(* The client                                                              *)

\* A client that has exited does nothing, and the others change their connection
\* in four places only.
LEMMA ClientConnection ==
  ASSUME SessionInv, ClientNext
  PROVE  /\ cPc # "exited"
         /\ \/ UNCHANGED cConn
            \/ ClientCloses
            \/ TransferEnds
            \/ \E p \in toClient : AcceptSynAck(p) \/ AcceptFinAck(p)
<1>1. cPc = "exited" => cState = "DONE"
  BY DEF SessionInv, ClientOK, ClientKnows
<1>2. CASE ClientRuns
  BY <1>2
  DEF ClientRuns, ClientCloses, ClientStep, ClientBlocks, TransferStarts, TransferEnds,
      TransferExpires, TransferTurns, Fill, FillEnds, FillFails, Retransmit,
      TransferBlocks, FinWaitSends, ClientStops, ClientExits
<1>3. CASE ClientTimesOut
  BY <1>3
  DEF ClientTimesOut, SynSentTimeout, TransferTimeout, FinWaitTimeout, ClientWaits,
      TimeWaitTimeout, ClientExpires
<1>4. CASE \E p \in toClient : ClientHandles(p)
  BY <1>4
  DEF ClientHandles, AcceptSynAck, AckProgresses, AckRepeats, AcceptFinAck, ClientWaits,
      RepeatLastAck, ClientIgnores, ClientReceives
<1>5. CASE \E from \in {"server", "other"} : ClientRejects(from)
  BY <1>5 DEF ClientRejects
<1>6. CASE TimerFires \/ ClientDeadline \/ ClientSignal
  BY <1>1, <1>6 DEF TimerFires, ClientDeadline, ClientSignal
<1> QED
  BY <1>2, <1>3, <1>4, <1>5, <1>6 DEF ClientNext

\* The end is confirmed to the client by an answer of a server that has closed the
\* stream, and in no other way.
LEMMA ConfirmedByFinAck ==
  ASSUME SessionInv, EndIsKnown, ClientNext
  PROVE  /\ StreamClosed' = StreamClosed
         /\ \/ CloseConfirmed' = CloseConfirmed
            \/ StreamClosed /\ CloseConfirmed' /\ cPc' = "step"
<1> USE DEF SessionInv, EndIsKnown
<1>1. FirstSeq' = FirstSeq /\ FinSeq' = FinSeq /\ UNCHANGED serverVars
  BY ClientLeaves, ChunksStay
<1>2. StreamClosed' = StreamClosed
  BY <1>1 DEF StreamClosed, AfterFin, serverVars
<1>3. CASE UNCHANGED cConn
  BY <1>1, <1>2, <1>3 DEF CloseConfirmed, AfterFin
<1>4. /\ FirstSeq \in Nat /\ FinSeq \in Nat /\ FirstSeq <= FinSeq
      /\ ~AfterFin(cConn.conn_id, FirstSeq) /\ ~AfterFin(cConn.conn_id, FinSeq)
  <2>1. FirstSeq \in Nat /\ FinSeq \in Nat /\ FirstSeq <= FinSeq
    BY SessionNumbers
  <2> QED BY <2>1, NotYet
<1>5. ASSUME ~CloseConfirmed, ~AfterFin(cConn'.conn_id, cConn'.seq_num)
      PROVE  CloseConfirmed' = CloseConfirmed
  BY <1>1, <1>5 DEF CloseConfirmed, AfterFin
<1>6. CASE ClientCloses
  <2>1. cConn.conn_id = 0 /\ cConn'.conn_id = 0
    BY <1>6 DEF ClientCloses, ClientStep, ClientKnowsEnd
  <2> QED BY <1>2, <1>5, <2>1, NoIdentifier DEF CloseConfirmed
<1>7. CASE TransferEnds
  <2>1. cConn.seq_num = FirstSeq
    BY <1>7 DEF TransferEnds, ClientOK, ClientKnows
  <2>2. ClientOK' /\ cState' = "FIN_WAIT"
    BY <1>7, ClientKeepsClientPart DEF TransferEnds, ClientGoto
  <2>3. cConn'.seq_num = FinSeq /\ cConn'.conn_id = cConn.conn_id
    BY <1>1, <1>7, <2>2 DEF ClientOK, ClientKnows, TransferEnds, TypeOK, ClientTypeOK, ConnectionState
  <2> QED BY <1>2, <1>4, <1>5, <2>1, <2>3 DEF CloseConfirmed
<1>8. ASSUME NEW p \in toClient, AcceptSynAck(p)
      PROVE  CloseConfirmed' = CloseConfirmed
  <2>1. cConn.conn_id = 0 /\ cConn'.seq_num = FirstSeq
    BY <1>8, SessionNumbers DEF AcceptSynAck, ClientWaits, ClientKnowsEnd, ClientOK, ClientKnows
  <2>2. ~AfterFin(cConn'.conn_id, FirstSeq)
    BY <1>4, NotYet
  <2> QED BY <1>5, <2>1, <2>2, NoIdentifier DEF CloseConfirmed
<1>9. ASSUME NEW p \in toClient, AcceptFinAck(p)
      PROVE  StreamClosed /\ CloseConfirmed' /\ cPc' = "step"
  <2>1. StreamClosed
    BY <1>9 DEF AcceptFinAck, IsFinAck, ServerKnowsEnd
  <2>2. cConn.seq_num = FinSeq /\ cConn.conn_id # 0
    BY <1>9 DEF AcceptFinAck, ClientWaits, ClientOK, ClientKnows, ClientKnowsEnd
  <2>3. FinSeq \in SeqNum
    BY <2>2 DEF TypeOK, ClientTypeOK, ConnectionState
  <2>4. cConn'.seq_num = Inc(FinSeq) /\ cConn'.conn_id = cConn.conn_id
    BY <1>9, <2>2 DEF AcceptFinAck, TypeOK, ClientTypeOK, ConnectionState
  <2>5. AfterFin(cConn'.conn_id, cConn'.seq_num)
    BY <2>2, <2>3, <2>4 DEF AfterFin
  <2>6. CloseConfirmed'
    BY <1>1, <2>5 DEF CloseConfirmed, AfterFin
  <2>7. cPc' = "step"
    BY <1>9 DEF AcceptFinAck, ClientSendThen, ClientGoto, ClientQuit
  <2> QED BY <2>1, <2>6, <2>7
<1> QED
  BY <1>2, <1>3, <1>6, <1>7, <1>8, <1>9, ClientConnection

\* So the client's way to success leads through it.
LEMMA ClientStillKnows ==
  ASSUME SessionInv, EndIsKnown, ClientNext
  PROVE  ClientKnowsEnd'
<1> USE DEF SessionInv, EndIsKnown
<1>1. CloseConfirmed => CloseConfirmed'
  BY ConfirmedByFinAck
<1>2. CASE ClientRuns /\ ~ClientCloses /\ ~TransferEnds
  BY <1>1, <1>2
  DEF ClientRuns, ClientStep, ClientBlocks, TransferStarts, TransferExpires,
      TransferTurns, Fill, FillEnds, FillFails, Retransmit, TransferBlocks, FinWaitSends,
      ClientStops, ClientExits, ClientQuit, ExitCodes, ClientKnowsEnd,
      EX_OK, EX_OSERR, EX_IOERR, EX_PROTOCOL, EX_SOFTWARE
<1>3. CASE ClientCloses
  BY <1>3
  DEF ClientCloses, ClientSendThen, ClientGoto, ClientQuit, ClientKnowsEnd, EX_OK, EX_OSERR
<1>4. CASE TransferEnds
  BY <1>4
  DEF TransferEnds, ClientGoto, ClientKnowsEnd, ClientOK, ClientKnows, TypeOK, ClientTypeOK,
      ConnectionState
<1>5. CASE ClientTimesOut
  BY <1>1, <1>5
  DEF ClientTimesOut, SynSentTimeout, TransferTimeout, FinWaitTimeout, TimeWaitTimeout,
      ClientExpires, ClientWaits, ClientSendThen, ClientGoto, ClientQuit, ClientKnowsEnd,
      EX_OK, EX_OSERR, EX_PROTOCOL
<1>6. ASSUME NEW p \in toClient, AcceptSynAck(p)
      PROVE  ClientKnowsEnd'
  BY <1>6
  DEF AcceptSynAck, IsSynAck, ClientSendThen, ClientGoto, ClientQuit, ClientKnowsEnd,
      EX_OK, EX_OSERR
<1>7. ASSUME NEW p \in toClient, AcceptFinAck(p)
      PROVE  ClientKnowsEnd'
  <2>1. ClientSendThen(Header(cConn', ACK), "server", "TIME_WAIT")
    BY <1>7 DEF AcceptFinAck
  <2>2. CloseConfirmed'
    <3>1. cConn'.seq_num = Inc(cConn.seq_num) /\ cConn.seq_num = FinSeq
          /\ cConn'.conn_id = cConn.conn_id /\ cConn.conn_id # 0
      BY <1>7
      DEF AcceptFinAck, ClientWaits, ClientOK, ClientKnows, ClientKnowsEnd, TypeOK, ClientTypeOK,
          ConnectionState
    <3>2. FinSeq \in SeqNum /\ FinSeq' = FinSeq
      BY <3>1, ClientLeaves, ChunksStay DEF TypeOK, ClientTypeOK, ConnectionState
    <3> QED BY <3>1, <3>2 DEF CloseConfirmed, AfterFin
  <2>3. \/ cState' = "TIME_WAIT"
        \/ cState' = "DONE" /\ cExit' = EX_OSERR
    BY <2>1 DEF ClientSendThen, ClientGoto, ClientQuit
  <2> QED BY <2>2, <2>3 DEF ClientKnowsEnd, EX_OK, EX_OSERR
<1>8. CASE \E p \in toClient :
             AckProgresses(p) \/ AckRepeats(p) \/ RepeatLastAck(p) \/ ClientIgnores(p)
  BY <1>1, <1>8
  DEF AckProgresses, AckRepeats, RepeatLastAck, ClientIgnores, ClientWaits, ClientGoto,
      ClientQuit, ClientKnowsEnd, EX_OK, EX_OSERR
<1>9. CASE \E from \in {"server", "other"} : ClientRejects(from)
  BY <1>1, <1>9 DEF ClientRejects, ClientKnowsEnd
<1>10. CASE TimerFires \/ ClientDeadline \/ ClientSignal
  BY <1>1, <1>10
  DEF TimerFires, ClientDeadline, ClientSignal, ClientQuit, ClientKnowsEnd, EX_OK, EX_OSERR
<1> QED
  BY <1>2, <1>3, <1>4, <1>5, <1>6, <1>7, <1>8, <1>9, <1>10
  DEF ClientNext, ClientHandles, ClientRuns

-----------------------------------------------------------------------------
(* The server                                                              *)

\* The server writes a chunk before the end, and closes the stream when it has all
\* of it; a server that has exited does nothing.
LEMMA ServerMoves ==
  ASSUME SessionInv, EndIsKnown, ServerNext
  PROVE  /\ CloseConfirmed' = CloseConfirmed
         /\ sPc # "exited"
         /\ \/ UNCHANGED out /\ StreamClosed' = StreamClosed
            \/ /\ ~StreamClosed /\ ~StreamClosed' /\ sPc' = "step"
               /\ Len(out) < Len(input) /\ out' = Append(out, input[Len(out) + 1])
            \/ UNCHANGED out /\ out = input /\ StreamClosed' /\ sPc' = "step"
<1> USE DEF SessionInv, EndIsKnown
<1>1. FirstSeq' = FirstSeq /\ FinSeq' = FinSeq /\ UNCHANGED clientVars
  BY ServerLeaves, ChunksStay DEF clientVars
<1>2. CloseConfirmed' = CloseConfirmed
  BY <1>1 DEF CloseConfirmed, AfterFin, clientVars
<1>3. ASSUME UNCHANGED sConn
      PROVE  StreamClosed' = StreamClosed
  BY <1>1, <1>3 DEF StreamClosed, AfterFin
<1>4. /\ FirstSeq \in Nat /\ FinSeq \in Nat /\ FinSeq = FirstSeq + Len(input)
      /\ Len(input) \in Nat /\ Len(out) \in Nat /\ Len(out) <= Len(input)
  BY SessionNumbers DEF ServerOK, IsPart
<1>5. ASSUME ~AfterFin(sConn'.conn_id, sConn'.ack_num)
      PROVE  ~StreamClosed'
  BY <1>1, <1>5 DEF StreamClosed, AfterFin
<1>6. sPc = "exited" => sState = "DONE"
  BY DEF ServerOK, IsPart
<1>7. CASE ServerActs
  <2>1. UNCHANGED <<out, sConn>> /\ sPc # "exited"
    BY <1>6, <1>7
    DEF ServerActs, ServerRuns, ServerTimesOut, ServerBlocks, ServerStops, ServerExits,
        ServerTimeout, LastAckTimeout, ServerExpires, ServerDeadline, ServerSignal,
        ServerRejects, ServerWaits
  <2> QED BY <1>2, <1>3, <2>1
<1>8. ASSUME NEW p \in toServer, AcceptSyn(p)
      PROVE  UNCHANGED out /\ StreamClosed' = StreamClosed
  <2>1. sConn.conn_id = 0 /\ UNCHANGED out
    BY <1>8 DEF AcceptSyn, ServerWaits, ServerKnowsEnd
  <2>2. sConn'.ack_num = FirstSeq
    BY <1>8, SessionNumbers DEF AcceptSyn, RequestsOK, IsRequest
  <2>3. ~AfterFin(sConn'.conn_id, FirstSeq)
    BY <1>4, NotYet
  <2>4. ~StreamClosed
    BY <2>1, NoIdentifier DEF StreamClosed
  <2>5. ~StreamClosed'
    BY <1>5, <2>2, <2>3
  <2> QED BY <2>1, <2>4, <2>5 DEF StreamClosed, AfterFin
<1>9. ASSUME NEW p \in toServer, AcceptHandshake(p)
      PROVE  UNCHANGED out /\ StreamClosed' = StreamClosed
  <2>1. p.seq_num = sConn.ack_num /\ UNCHANGED out
    BY <1>9 DEF AcceptHandshake, AnswersSynAck
  <2>2. UNCHANGED sConn
    BY <1>9, <2>1
    DEF AcceptHandshake, AfterHandshake, TypeOK, ServerTypeOK, SessionTypeOK, ConnectionState
  <2> QED BY <1>3, <2>1, <2>2
<1>10. ASSUME NEW p \in toServer, AcceptFin(p)
       PROVE  UNCHANGED out /\ out = input /\ StreamClosed' /\ sPc' = "step"
  <2>1. p.seq_num = FinSeq /\ p.seq_num = FirstSeq + Len(out)
    BY <1>10 DEF AcceptFin, ServerWaits, IsFin, RequestsOK, IsRequest, ServerOK, IsPart
  <2>2. out = input /\ UNCHANGED out
    BY <1>4, <1>10, <2>1, LongEnoughIsAll
    DEF AcceptFin, SessionInv, TypeOK, ServerTypeOK, SessionTypeOK, ServerOK
  <2>3. FinSeq \in SeqNum
    BY <2>1, PacketNumbers DEF TypeOK, NetTypeOK
  <2>4. sConn'.conn_id # 0 /\ sConn'.ack_num = Inc(FinSeq)
    BY <1>10, <2>1
    DEF AcceptFin, ServerWaits, ServerKnowsEnd, TypeOK, ServerTypeOK, SessionTypeOK, ConnectionState
  <2>5. sPc' = "step"
    BY <1>10 DEF AcceptFin, ServerGoto, ServerQuit
  <2> QED BY <1>1, <2>2, <2>3, <2>4, <2>5 DEF StreamClosed, AfterFin
<1>11. ASSUME NEW p \in toServer, AcceptData(p)
       PROVE  /\ ~StreamClosed /\ ~StreamClosed' /\ sPc' = "step"
              /\ Len(out) < Len(input) /\ out' = Append(out, input[Len(out) + 1])
  <2>1. /\ out' = Append(out, input[Len(out) + 1]) /\ Len(out) < Len(input)
        /\ sConn'.ack_num = FirstSeq + Len(out) + 1
    BY <1>11, AcceptedIsNext
  <2>2. sConn.ack_num = FirstSeq + Len(out)
    BY <1>11 DEF AcceptData, ServerWaits, ServerOK, IsPart
  <2>3. ~AfterFin(sConn.conn_id, sConn.ack_num)
    BY <1>4, <2>2, NotYet
  <2>4. ~AfterFin(sConn'.conn_id, sConn'.ack_num)
    BY <1>4, <2>1, NotYet
  <2>5. sPc' = "step"
    BY <1>11 DEF AcceptData, ServerSendThen, ServerGoto, ServerQuit
  <2> QED BY <1>5, <2>1, <2>3, <2>4, <2>5 DEF StreamClosed
<1>12. ASSUME NEW p \in toServer,
              \/ RepeatSynAck(p) \/ WriteFails(p) \/ RepeatAck(p) \/ RepeatFinAck(p)
              \/ AcceptLastAck(p) \/ ServerIgnores(p)
       PROVE  UNCHANGED out /\ StreamClosed' = StreamClosed
  <2>1. UNCHANGED <<out, sConn>>
    BY <1>12
    DEF RepeatSynAck, WriteFails, RepeatAck, RepeatFinAck, AcceptLastAck, ServerIgnores
  <2> QED BY <1>3, <2>1
<1>13. CASE \E p \in toServer : ServerHandles(p)
  <2>1. sPc # "exited"
    BY <1>13
    DEF ServerHandles, ServerReceives, AcceptSyn, AcceptHandshake, AcceptFin, AcceptData,
        RepeatSynAck, WriteFails, RepeatAck, RepeatFinAck, AcceptLastAck, ServerIgnores
  <2> QED BY <1>2, <1>8, <1>9, <1>10, <1>11, <1>12, <1>13, <2>1 DEF ServerHandles
<1> QED
  BY <1>7, <1>13 DEF ServerNext

\* So the server's way to success leads through the end of the stream.
LEMMA ServerStillKnows ==
  ASSUME SessionInv, EndIsKnown, ServerNext
  PROVE  ServerKnowsEnd'
<1> USE DEF SessionInv, EndIsKnown
<1>1. StreamClosed => StreamClosed'
  BY ServerMoves
<1>2. \A p \in toServer : Inc(p.seq_num) \in Nat
  BY PacketNumbers, Numbers DEF TypeOK, NetTypeOK
<1>3. sDraw.conn_id # 0
  <2>1. sDraw \in [seq_num : ISN, conn_id : ConnId]
    BY DEF TypeOK, ServerTypeOK, SessionTypeOK
  <2>2. sDraw.conn_id \in ConnId
    BY <2>1
  <2> QED BY <2>2, DrawAssumption
<1>4. CASE ServerBlocks \/ ServerStops \/ ServerExits \/ ServerTimeout \/ ServerExpires
             \/ ServerDeadline \/ ServerSignal
  BY <1>1, <1>4
  DEF ServerBlocks, ServerStops, ServerExits, ServerTimeout, ServerExpires,
      ServerDeadline, ServerSignal, SilenceCode, ServerQuit, ExitCodes, ServerKnowsEnd,
      EX_OK, EX_OSERR, EX_IOERR, EX_PROTOCOL, EX_SOFTWARE
<1>5. CASE \E from \in {"client", "other"} : ServerRejects(from)
  BY <1>1, <1>5 DEF ServerRejects, Malformed, ServerKnowsEnd
<1>6. CASE LastAckTimeout
  <2>1. StreamClosed' /\ sConn' = sConn /\ sConn.conn_id # 0
    BY <1>1, <1>6 DEF LastAckTimeout, ServerWaits, ServerKnowsEnd
  <2>2. sState' \in {"LAST_ACK", "DONE"}
    BY <1>6 DEF LastAckTimeout, ServerGoto, ServerQuit
  <2> QED BY <2>1, <2>2 DEF ServerKnowsEnd
<1>7. ASSUME NEW p \in toServer, AcceptSyn(p)
      PROVE  ServerKnowsEnd'
  <2>1. sConn'.conn_id # 0
    BY <1>3, <1>7 DEF AcceptSyn
  <2>2. PICK conn : toClient' \subseteq toClient \cup {Header(conn, SYNACK)}
    BY <1>7 DEF AcceptSyn, ServerReceives, Sent
  <2>3. \A q \in toClient' : q.flags = FINACK => StreamClosed'
    BY <1>1, <2>2, FlagsDiffer DEF Header, ServerKnowsEnd
  <2>4. \/ sState' = "HANDSHAKE"
        \/ sState' = "DONE" /\ sExit' = EX_OSERR
    BY <1>7 DEF AcceptSyn, ServerGoto, ServerQuit
  <2> QED BY <2>1, <2>3, <2>4 DEF ServerKnowsEnd, EX_OK, EX_OSERR
<1>8. ASSUME NEW p \in toServer, AcceptFin(p)
      PROVE  ServerKnowsEnd'
  <2>1. StreamClosed'
    <3>1. p.seq_num = FinSeq /\ FinSeq' = FinSeq
      BY <1>8, ServerLeaves, ChunksStay
      DEF AcceptFin, IsFin, RequestsOK, IsRequest, clientVars
    <3>2. sConn'.conn_id # 0 /\ sConn'.ack_num = Inc(FinSeq)
      BY <1>8, <3>1
      DEF AcceptFin, ServerWaits, ServerKnowsEnd, TypeOK, ServerTypeOK, SessionTypeOK, ConnectionState
    <3>3. FinSeq \in SeqNum
      BY <3>1, PacketNumbers DEF TypeOK, NetTypeOK
    <3> QED BY <3>1, <3>2, <3>3 DEF StreamClosed, AfterFin
  <2>2. sConn'.conn_id # 0
    BY <2>1 DEF StreamClosed, AfterFin
  <2>3. sState' \in {"LAST_ACK", "DONE"}
    BY <1>8 DEF AcceptFin, ServerGoto, ServerQuit
  <2> QED BY <2>1, <2>2, <2>3 DEF ServerKnowsEnd
<1>9. ASSUME NEW p \in toServer, AcceptData(p) \/ RepeatSynAck(p) \/ RepeatAck(p)
      PROVE  ServerKnowsEnd'
  <2>1. sConn'.conn_id = sConn.conn_id /\ sConn.conn_id # 0
    BY <1>9
    DEF AcceptData, RepeatSynAck, RepeatAck, ServerWaits, ServerKnowsEnd, TypeOK,
        ServerTypeOK, SessionTypeOK, ConnectionState
  <2>2. PICK conn : toClient' \subseteq toClient \cup {Header(conn, ACK), Header(conn, SYNACK)}
    BY <1>9 DEF AcceptData, RepeatSynAck, RepeatAck, ServerSendThen, Sent
  <2>3. \A q \in toClient' : q.flags = FINACK => StreamClosed'
    BY <1>1, <2>2, FlagsDiffer DEF Header, ServerKnowsEnd
  <2>4. \/ sState' \in {"HANDSHAKE", "ESTABLISHED"}
        \/ sState' = "DONE" /\ sExit' = EX_OSERR
    BY <1>9 DEF AcceptData, RepeatSynAck, RepeatAck, ServerSendThen, ServerGoto, ServerQuit
  <2> QED BY <2>1, <2>3, <2>4 DEF ServerKnowsEnd, EX_OK, EX_OSERR
<1>10. ASSUME NEW p \in toServer, AcceptHandshake(p)
       PROVE  ServerKnowsEnd'
  <2>1. sConn'.conn_id = sConn.conn_id /\ sConn.conn_id # 0
    BY <1>10
    DEF AcceptHandshake, AfterHandshake, ServerWaits, ServerKnowsEnd, TypeOK,
        ServerTypeOK, SessionTypeOK, ConnectionState
  <2> QED BY <1>1, <1>10, <2>1 DEF AcceptHandshake, ServerGoto, ServerKnowsEnd
<1>11. ASSUME NEW p \in toServer, RepeatFinAck(p)
       PROVE  ServerKnowsEnd'
  <2>1. StreamClosed' /\ sConn' = sConn /\ sConn.conn_id # 0
    BY <1>1, <1>11 DEF RepeatFinAck, ServerWaits, ServerKnowsEnd
  <2>2. sState' \in {"LAST_ACK", "DONE"}
    BY <1>11 DEF RepeatFinAck, ServerSendThen, ServerGoto, ServerQuit
  <2> QED BY <2>1, <2>2 DEF ServerKnowsEnd
<1>12. ASSUME NEW p \in toServer, WriteFails(p) \/ AcceptLastAck(p) \/ ServerIgnores(p)
       PROVE  ServerKnowsEnd'
  BY <1>1, <1>12
  DEF WriteFails, AcceptLastAck, ServerIgnores, ServerWaits, ServerGoto, ServerQuit,
      ServerKnowsEnd, EX_OK, EX_IOERR
<1> QED
  BY <1>4, <1>5, <1>6, <1>7, <1>8, <1>9, <1>10, <1>11, <1>12
  DEF ServerNext, ServerActs, ServerRuns, ServerTimesOut, ServerHandles

-----------------------------------------------------------------------------
(* The end is known, and the stream is implemented                         *)

\* Nothing is known of the end when the processes start.
LEMMA InitEnd ==
  ASSUME Init
  PROVE  EndIsKnown /\ ~StreamClosed /\ ~CloseConfirmed
<1>1. sConn.conn_id = 0 /\ cConn.conn_id = 0
  BY DEF Init, ClientInit, ServerInit, NoConnection
<1>2. ~StreamClosed /\ ~CloseConfirmed
  BY <1>1, NoIdentifier DEF StreamClosed, CloseConfirmed
<1> QED
  BY <1>1, <1>2
  DEF Init, NetInit, ClientInit, ServerInit, EndIsKnown, ServerKnowsEnd, ClientKnowsEnd

\* A loss, and a step of somebody else, change nothing of it.
LEMMA OthersStutter ==
  ASSUME Loss \/ UNCHANGED vars
  PROVE  /\ UNCHANGED <<clientVars, serverVars>> /\ toClient' \subseteq toClient
         /\ StreamClosed' = StreamClosed /\ CloseConfirmed' = CloseConfirmed
<1>1. UNCHANGED <<clientVars, serverVars>> /\ toClient' \subseteq toClient
  BY DEF Loss, Lose, vars
<1> QED
  BY <1>1
  DEF StreamClosed, CloseConfirmed, AfterFin, FinSeq, FirstSeq, clientVars, serverVars

\* Every step keeps the end known to those who rely on it.
LEMMA NextEnd ==
  ASSUME SessionInv, EndIsKnown, [Next]_vars
  PROVE  EndIsKnown'
<1>1. CASE ClientNext
  <2>1. ClientKnowsEnd'
    BY <1>1, ClientStillKnows
  <2>2. StreamClosed' = StreamClosed /\ UNCHANGED serverVars /\ toClient' \subseteq toClient
    BY <1>1, ConfirmedByFinAck, ClientLeaves
  <2>3. ServerKnowsEnd'
    BY <2>2 DEF EndIsKnown, ServerKnowsEnd, serverVars
  <2> QED BY <2>1, <2>3 DEF EndIsKnown
<1>2. CASE ServerNext
  <2>1. ServerKnowsEnd'
    BY <1>2, ServerStillKnows
  <2>2. CloseConfirmed' = CloseConfirmed /\ UNCHANGED clientVars
    BY <1>2, ServerMoves, ServerLeaves
  <2>3. ClientKnowsEnd'
    BY <2>2 DEF EndIsKnown, ClientKnowsEnd, clientVars
  <2> QED BY <2>1, <2>3 DEF EndIsKnown
<1>3. CASE Loss \/ UNCHANGED vars
  BY <1>3, OthersStutter
  DEF EndIsKnown, ServerKnowsEnd, ClientKnowsEnd, clientVars, serverVars
<1> QED
  BY <1>1, <1>2, <1>3 DEF Next

\* Neither process reports success on a way out of its states that skips the
\* closing handshake (the transitions of run_client and run_server).
THEOREM EndIsAlwaysKnown == Spec => []EndIsKnown
<1>1. Init => SessionInv /\ EndIsKnown
  BY InitSession, InitEnd
<1>2. SessionInv /\ EndIsKnown /\ [Next]_vars => SessionInv' /\ EndIsKnown'
  BY NextSession, NextEnd
<1> QED
  BY <1>1, <1>2, PTL DEF Spec

\* A step of the client is a step of ReliableStream, or none.
LEMMA ClientImplements ==
  ASSUME SessionInv, EndIsKnown, ClientNext
  PROVE  [Stream!Next]_(Stream!vars)
<1>1. /\ UNCHANGED <<input, out, sPc, sExit>> /\ StreamClosed' = StreamClosed
      /\ UNCHANGED Verdict(sPc, sExit)
  BY ClientLeaves, ConfirmedByFinAck DEF serverVars, Verdict
<1>2. cPc # "exited"
  BY ClientConnection
<1>3. CASE cPc' # "exited" /\ CloseConfirmed' = CloseConfirmed
  BY <1>1, <1>2, <1>3 DEF Stream!vars, Verdict
<1>4. CASE cPc' = "step" /\ StreamClosed /\ CloseConfirmed'
  <2>1. Verdict(cPc, cExit) = "none" /\ Verdict(cPc, cExit)' = "none"
    BY <1>2, <1>4 DEF Verdict
  <2>2. Stream!Tell
    BY <1>1, <1>4, <2>1 DEF Stream!Tell, CloseConfirmed, AfterFin
  <2> QED BY <2>2 DEF Stream!Next
<1>5. CASE cPc' = "exited" /\ CloseConfirmed' = CloseConfirmed
  <2>1. ClientOK' /\ ClientKnowsEnd'
    BY ClientKeepsClientPart, ClientStillKnows
  <2>2. Verdict(cPc, cExit) = "none"
    BY <1>2 DEF Verdict
  <2>3. \/ Verdict(cPc, cExit)' = "success" /\ CloseConfirmed
        \/ Verdict(cPc, cExit)' = "failure"
    BY <1>5, <2>1 DEF Verdict, ClientOK, ClientKnows, ClientKnowsEnd
  <2>4. Stream!SenderEnds
    BY <1>1, <1>5, <2>2, <2>3 DEF Stream!SenderEnds
  <2> QED BY <2>4 DEF Stream!Next
<1> QED
  BY <1>3, <1>4, <1>5, ConfirmedByFinAck

\* So is a step of the server.
LEMMA ServerImplements ==
  ASSUME SessionInv, EndIsKnown, ServerNext
  PROVE  [Stream!Next]_(Stream!vars)
<1>1. /\ UNCHANGED <<input, cPc, cExit>> /\ CloseConfirmed' = CloseConfirmed
      /\ UNCHANGED Verdict(cPc, cExit)
  BY ServerLeaves, ServerMoves DEF clientVars, Verdict
<1>2. sPc # "exited" /\ Verdict(sPc, sExit) = "none"
  BY ServerMoves DEF Verdict
<1>3. CASE UNCHANGED out /\ StreamClosed' = StreamClosed /\ sPc' # "exited"
  BY <1>1, <1>2, <1>3 DEF Stream!vars, Verdict
<1>4. CASE UNCHANGED out /\ StreamClosed' = StreamClosed /\ sPc' = "exited"
  <2>1. ServerOK' /\ ServerKnowsEnd'
    BY ServerKeepsItsPart, ServerStillKnows
  <2>2. \/ Verdict(sPc, sExit)' = "success" /\ StreamClosed
        \/ Verdict(sPc, sExit)' = "failure"
    BY <1>4, <2>1 DEF Verdict, ServerOK, IsPart, ServerKnowsEnd
  <2>3. Stream!ReceiverEnds
    BY <1>1, <1>2, <1>4, <2>2 DEF Stream!ReceiverEnds
  <2> QED BY <2>3 DEF Stream!Next
<1>5. CASE /\ ~StreamClosed /\ ~StreamClosed' /\ sPc' = "step"
           /\ Len(out) < Len(input) /\ out' = Append(out, input[Len(out) + 1])
  <2>1. Verdict(sPc, sExit)' = "none"
    BY <1>5 DEF Verdict
  <2>2. StreamClosed' = StreamClosed
    BY <1>5 DEF StreamClosed, AfterFin
  <2>3. Stream!Deliver
    BY <1>1, <1>2, <1>5, <2>1, <2>2 DEF Stream!Deliver
  <2> QED BY <2>3 DEF Stream!Next
<1>6. CASE UNCHANGED out /\ out = input /\ StreamClosed' /\ sPc' = "step"
  <2>1. Verdict(sPc, sExit)' = "none"
    BY <1>6 DEF Verdict
  <2>2. Stream!Complete
    BY <1>1, <1>2, <1>6, <2>1 DEF Stream!Complete, StreamClosed, AfterFin
  <2> QED BY <2>2 DEF Stream!Next
<1> QED
  BY <1>3, <1>4, <1>5, <1>6, ServerMoves

\* The two programs and the network implement a reliable stream: chunk by chunk in
\* order, an end that is known only with all of it written, and success reported
\* only by a process that knows it (run_client, run_server).
THEOREM ImplementsReliableStream == Spec => ImplementsStream
<1>1. Init => Stream!Init
  BY InitEnd
  DEF Init, ClientInit, ServerInit, Stream!Init, Verdict, StreamClosed, CloseConfirmed,
      AfterFin
<1>2. SessionInv /\ EndIsKnown /\ [Next]_vars => [Stream!Next]_(Stream!vars)
  <2> SUFFICES ASSUME SessionInv, EndIsKnown, [Next]_vars
               PROVE  [Stream!Next]_(Stream!vars)
    OBVIOUS
  <2>1. CASE Loss \/ UNCHANGED vars
    BY <2>1, OthersStutter DEF Stream!vars, Verdict, clientVars, serverVars
  <2> QED
    BY <2>1, ClientImplements, ServerImplements DEF Next
<1> QED
  BY <1>1, <1>2, SessionCorrect, EndIsAlwaysKnown, PTL DEF Spec, ImplementsStream, Stream!Spec

-----------------------------------------------------------------------------
(* What is sent again fits what the other end waits for                     *)

Open == {"ESTABLISHED", "FIN_WAIT", "TIME_WAIT"}

\* Both ends speak of one connection: the answers in flight bear the identifier and
\* the number of the server, and so does what the client has made of them.
OneConnection ==
  /\ \A p \in toClient : p.conn_id = sConn.conn_id /\ p.seq_num = sConn.seq_num
  /\ sState = "LISTEN" => toClient = {}
  /\ cState \in Open =>
       /\ sState # "LISTEN"
       /\ cConn.conn_id = sConn.conn_id /\ cConn.ack_num = Inc(sConn.seq_num)

\* The client opens the connection on a SYN+ACK only.
LEMMA OpensBySynAck ==
  ASSUME SessionInv, ClientNext, cState' \in Open
  PROVE  cState \in Open \/ \E p \in toClient : AcceptSynAck(p)
<1> USE DEF Open, ClientGoto, ClientQuit, ClientSendThen
<1>1. CASE ClientRuns
  BY <1>1
  DEF ClientRuns, ClientCloses, ClientStep, ClientBlocks, TransferStarts, TransferEnds,
      TransferExpires, TransferTurns, Fill, FillEnds, FillFails, Retransmit,
      TransferBlocks, FinWaitSends, ClientStops, ClientExits, SessionInv, ClientOK, ClientKnows
<1>2. CASE ClientTimesOut
  BY <1>2
  DEF ClientTimesOut, SynSentTimeout, TransferTimeout, FinWaitTimeout, ClientWaits,
      TimeWaitTimeout, ClientExpires
<1>3. CASE \E p \in toClient : ClientHandles(p)
  BY <1>3
  DEF ClientHandles, AckProgresses, AckRepeats, AcceptFinAck, ClientWaits, RepeatLastAck,
      ClientIgnores
<1>4. CASE \E from \in {"server", "other"} : ClientRejects(from)
  BY <1>4 DEF ClientRejects
<1>5. CASE TimerFires \/ ClientDeadline \/ ClientSignal
  BY <1>5 DEF TimerFires, ClientDeadline, ClientSignal
<1> QED
  BY <1>1, <1>2, <1>3, <1>4, <1>5 DEF ClientNext

LEMMA ClientKeepsConnection ==
  ASSUME SessionInv, OneConnection, ClientNext
  PROVE  OneConnection'
<1>1. UNCHANGED serverVars /\ toClient' \subseteq toClient
  BY ClientLeaves
<1>2. sConn' = sConn /\ sState' = sState /\ cConn \in ConnectionState
  BY <1>1 DEF serverVars, SessionInv, TypeOK, ClientTypeOK
<1>3. ASSUME cState' \in Open
      PROVE  /\ sState # "LISTEN" /\ cConn'.conn_id = sConn.conn_id
             /\ cConn'.ack_num = Inc(sConn.seq_num)
  <2>1. ASSUME NEW p \in toClient, AcceptSynAck(p)
        PROVE  /\ sState # "LISTEN" /\ cConn'.conn_id = sConn.conn_id
               /\ cConn'.ack_num = Inc(sConn.seq_num)
    <3>1. p.conn_id = sConn.conn_id /\ p.seq_num = sConn.seq_num /\ sState # "LISTEN"
      BY <2>1 DEF OneConnection
    <3>2. cConn'.conn_id = p.conn_id /\ cConn'.ack_num = Inc(p.seq_num)
      BY <2>1 DEF AcceptSynAck
    <3> QED BY <3>1, <3>2
  <2>2. CASE cState \in Open
    <3>1. /\ sState # "LISTEN" /\ cConn.conn_id = sConn.conn_id
          /\ cConn.ack_num = Inc(sConn.seq_num)
      BY <2>2 DEF OneConnection
    <3>2. CASE UNCHANGED cConn
      BY <3>1, <3>2
    <3>3. ASSUME NEW p \in toClient, AcceptFinAck(p)
          PROVE  cConn'.conn_id = cConn.conn_id /\ cConn'.ack_num = Inc(sConn.seq_num)
      <4>1. p.seq_num = sConn.seq_num
        BY DEF OneConnection
      <4>2. cConn' = [cConn EXCEPT !.seq_num = Inc(@), !.ack_num = Inc(p.seq_num)]
        BY <3>3 DEF AcceptFinAck
      <4> QED BY <1>2, <4>1, <4>2 DEF ConnectionState
    <3>4. CASE TransferEnds
      <4>1. cConn' = [cConn EXCEPT !.seq_num = cWin.nextseqnum]
        BY <3>4 DEF TransferEnds
      <4> QED BY <1>2, <3>1, <4>1 DEF ConnectionState
    <3>5. ~ClientCloses
      BY <2>2 DEF ClientCloses, ClientStep, Open
    <3> QED BY <2>1, <3>1, <3>2, <3>3, <3>4, <3>5, ClientConnection
  <2> QED BY <1>3, <2>1, <2>2, OpensBySynAck
<1> QED
  BY <1>1, <1>2, <1>3 DEF OneConnection

\* What the server sends bears the numbers of its connection, which it draws once.
LEMMA ServerAnswers ==
  ASSUME SessionInv, ServerNext
  PROVE  \/ \E p \in toServer : AcceptSyn(p)
         \/ /\ sConn'.conn_id = sConn.conn_id /\ sConn'.seq_num = sConn.seq_num
            /\ \A q \in toClient' :
                 \/ q \in toClient
                 \/ /\ q.conn_id = sConn.conn_id /\ q.seq_num = sConn.seq_num
                    /\ sState # "LISTEN"
            /\ sState' = "LISTEN" => sState = "LISTEN"
<1> DEFINE Keeps == sConn'.conn_id = sConn.conn_id /\ sConn'.seq_num = sConn.seq_num
           Adds  == \A q \in toClient' :
                      \/ q \in toClient
                      \/ /\ q.conn_id = sConn.conn_id /\ q.seq_num = sConn.seq_num
                         /\ sState # "LISTEN"
           Stays == sState' = "LISTEN" => sState = "LISTEN"
<1>1. sConn \in ConnectionState
  BY DEF SessionInv, TypeOK, ServerTypeOK, SessionTypeOK
<1>2. CASE ServerBlocks \/ ServerStops \/ ServerExits \/ ServerTimeout \/ ServerExpires
             \/ ServerDeadline \/ ServerSignal
  BY <1>2
  DEF ServerBlocks, ServerStops, ServerExits, ServerTimeout, ServerExpires,
      ServerDeadline, ServerSignal, ServerQuit
<1>3. CASE \E from \in {"client", "other"} : ServerRejects(from)
  BY <1>3 DEF ServerRejects, Malformed
<1>4. ASSUME NEW conn, NEW flags, NEW addr,
             conn.conn_id = sConn.conn_id, conn.seq_num = sConn.seq_num, sState # "LISTEN",
             \/ UNCHANGED toClient
             \/ toClient' = Sent({Header(conn, flags)}, addr, "client", toClient)
      PROVE  Adds
  BY <1>4, SentIsBounded DEF Header
<1>5. CASE LastAckTimeout
  <2>1. Keeps /\ Stays /\ sState # "LISTEN"
    BY <1>5 DEF LastAckTimeout, ServerWaits, ServerGoto, ServerQuit
  <2>2. \/ UNCHANGED toClient
        \/ toClient' = Sent({Header(sConn, FINACK)}, sAddr, "client", toClient)
    BY <1>5 DEF LastAckTimeout
  <2> QED BY <1>4, <2>1, <2>2
<1>6. ASSUME NEW p \in toServer, AcceptFin(p) \/ AcceptData(p)
      PROVE  Keeps /\ Adds /\ Stays
  <2>1. sState # "LISTEN" /\ \E n : sConn' = [sConn EXCEPT !.ack_num = n]
    BY <1>6 DEF AcceptFin, AcceptData, ServerWaits
  <2>2. Keeps
    BY <1>1, <2>1 DEF ConnectionState
  <2>3. Stays
    BY <1>6, <2>1 DEF AcceptFin, AcceptData, ServerSendThen, ServerGoto, ServerQuit
  <2>4. \/ UNCHANGED toClient
        \/ toClient' = Sent({Header(sConn', FINACK)}, "client", "client", toClient)
        \/ toClient' = Sent({Header(sConn', ACK)}, "client", "client", toClient)
    BY <1>6 DEF AcceptFin, AcceptData, ServerSendThen
  <2> QED BY <1>4, <2>1, <2>2, <2>3, <2>4
<1>7. ASSUME NEW p \in toServer, RepeatSynAck(p) \/ RepeatAck(p) \/ RepeatFinAck(p)
      PROVE  Keeps /\ Adds /\ Stays
  <2>1. Keeps /\ Stays /\ sState # "LISTEN"
    BY <1>7
    DEF RepeatSynAck, RepeatAck, RepeatFinAck, ServerWaits, ServerSendThen, ServerGoto,
        ServerQuit
  <2>2. \/ UNCHANGED toClient
        \/ \E flags : toClient' = Sent({Header(sConn, flags)}, "client", "client", toClient)
    BY <1>7 DEF RepeatSynAck, RepeatAck, RepeatFinAck, ServerSendThen
  <2> QED BY <1>4, <2>1, <2>2
<1>8. ASSUME NEW p \in toServer, AcceptHandshake(p)
      PROVE  Keeps /\ Adds /\ Stays
  BY <1>1, <1>8
  DEF AcceptHandshake, AfterHandshake, ServerWaits, ServerGoto, ConnectionState
<1>9. ASSUME NEW p \in toServer, WriteFails(p) \/ AcceptLastAck(p) \/ ServerIgnores(p)
      PROVE  Keeps /\ Adds /\ Stays
  BY <1>9
  DEF WriteFails, AcceptLastAck, ServerIgnores, ServerWaits, ServerGoto, ServerQuit
<1> QED
  BY <1>2, <1>3, <1>5, <1>6, <1>7, <1>8, <1>9
  DEF ServerNext, ServerActs, ServerRuns, ServerTimesOut, ServerHandles

LEMMA ServerKeepsConnection ==
  ASSUME SessionInv, OneConnection, ServerNext
  PROVE  OneConnection'
<1>1. cState' = cState /\ cConn' = cConn
  BY ServerLeaves DEF clientVars
<1>2. ASSUME NEW p \in toServer, AcceptSyn(p)
      PROVE  OneConnection'
  <2>1. toClient = {} /\ cState \notin Open
    BY <1>2 DEF AcceptSyn, ServerWaits, OneConnection
  <2>2. toClient' \subseteq {Header(sConn', SYNACK)}
    BY <1>2, <2>1, SentIsBounded DEF AcceptSyn
  <2>3. sState' # "LISTEN"
    BY <1>2 DEF AcceptSyn, ServerGoto, ServerQuit
  <2> QED BY <1>1, <2>1, <2>2, <2>3 DEF OneConnection, Header
<1>3. CASE /\ sConn'.conn_id = sConn.conn_id /\ sConn'.seq_num = sConn.seq_num
           /\ \A q \in toClient' :
                \/ q \in toClient
                \/ /\ q.conn_id = sConn.conn_id /\ q.seq_num = sConn.seq_num
                   /\ sState # "LISTEN"
           /\ sState' = "LISTEN" => sState = "LISTEN"
  BY <1>1, <1>3 DEF OneConnection
<1> QED
  BY <1>2, <1>3, ServerAnswers

LEMMA NextConnection ==
  ASSUME SessionInv, OneConnection, [Next]_vars
  PROVE  OneConnection'
<1>1. CASE Loss \/ UNCHANGED vars
  BY <1>1, OthersStutter DEF OneConnection, clientVars, serverVars
<1> QED
  BY <1>1, ClientKeepsConnection, ServerKeepsConnection DEF Next

\* With one connection, the numbers of the stream and its end known on both sides,
\* the repetitions are right.
LEMMA ConnectedRetriesFit ==
  ASSUME SessionInv, EndIsKnown, OneConnection
  PROVE  RetriesFit
<1> USE DEF SessionInv
<1>1. FirstSeq = Inc(cDraw) /\ FinSeq = FirstSeq + Len(input)
  BY SessionNumbers
<1>2. ASSUME sState = "HANDSHAKE", cState = "SYN_SENT"
      PROVE  IsRepeatedSyn(Header(cConn, SYN)) /\ IsSynAck(Header(sConn, SYNACK))
  <2>1. cConn.seq_num = cDraw /\ sConn.ack_num = FirstSeq /\ sConn.conn_id # 0
    BY <1>2 DEF ClientOK, ClientKnows, ServerOK, IsPart, EndIsKnown, ServerKnowsEnd
  <2> QED BY <1>1, <2>1 DEF IsRepeatedSyn, IsSynAck, Header
<1>3. ASSUME sState = "HANDSHAKE", cState = "ESTABLISHED"
      PROVE  AnswersSynAck(Header(cConn, ACK))
  <2>1. cConn.seq_num = FirstSeq /\ sConn.ack_num = FirstSeq
    BY <1>3 DEF ClientOK, ClientKnows, ServerOK, IsPart
  <2> QED BY <1>3, <2>1 DEF AnswersSynAck, OfSession, Header, OneConnection, Open
<1>4. ASSUME sState = "ESTABLISHED", cState = "FIN_WAIT"
      PROVE  IsFin(Header(cConn, FIN))
  <2>1. cConn.seq_num = FinSeq /\ sConn.ack_num = FirstSeq + Len(out) /\ out = input
    BY <1>4 DEF ClientOK, ClientKnows, ServerOK, IsPart
  <2> QED BY <1>1, <1>4, <2>1 DEF IsFin, OfSession, Header, OneConnection, Open
<1>5. ASSUME sState = "LAST_ACK", cState = "FIN_WAIT"
      PROVE  /\ IsRepeatedFin(Header(cConn, FIN))
             /\ IsFinAck(Header(sConn, FINACK), Inc(cConn.seq_num))
  <2>1. cConn.seq_num = FinSeq /\ sConn.ack_num = Inc(FinSeq)
    BY <1>5 DEF ClientOK, ClientKnows, EndIsKnown, ServerKnowsEnd, StreamClosed, AfterFin
  <2> QED BY <1>5, <2>1 DEF IsRepeatedFin, IsFinAck, OfSession, Header, OneConnection, Open
<1>6. ASSUME sState = "LAST_ACK", cState = "TIME_WAIT"
      PROVE  /\ IsFinAck(Header(sConn, FINACK), cConn.seq_num)
             /\ IsLastAck(Header(cConn, ACK))
  <2>1. cConn.seq_num = Inc(FinSeq) /\ sConn.ack_num = Inc(FinSeq)
    BY <1>6
    DEF EndIsKnown, ServerKnowsEnd, ClientKnowsEnd, StreamClosed, CloseConfirmed, AfterFin
  <2> QED BY <1>6, <2>1 DEF IsFinAck, IsLastAck, OfSession, Header, OneConnection, Open
<1> QED
  BY <1>2, <1>3, <1>4, <1>5, <1>6 DEF RetriesFit

\* Whichever packet of the handshake or of the closing is lost, its repetition is one
\* that the other end takes, for every stream, number and identifier (handle_syn_sent,
\* handle_fin_wait and handle_time_wait against handle_handshake, handle_established
\* and handle_last_ack).
THEOREM RetriesAlwaysFit == Spec => []RetriesFit
<1>1. Init => SessionInv /\ EndIsKnown /\ OneConnection
  BY InitSession, InitEnd
  DEF Init, NetInit, ClientInit, ServerInit, OneConnection, Open
<1>2. SessionInv /\ EndIsKnown /\ OneConnection /\ [Next]_vars
        => SessionInv' /\ EndIsKnown' /\ OneConnection'
  BY NextSession, NextEnd, NextConnection
<1> QED
  BY <1>1, <1>2, ConnectedRetriesFit, PTL DEF Spec
=============================================================================
