--------------------------- MODULE SessionProofs ---------------------------
(***************************************************************************)
(* The session invariant of Transfer, and the safety it gives: in order    *)
(* delivery, exit codes that tell the truth, and no chunk forgotten before *)
(* it is written.  All for every choice of the constants.                  *)
(***************************************************************************)
EXTENDS TransferProofs, Ownership

USE DEF netVars, established

-----------------------------------------------------------------------------
(* Facts that several actions rely on                                      *)

\* The client's part of a session in which written is what the server writes.
ClientPart(written) ==
  /\ NetTypeOK /\ ClientTypeOK
  /\ RequestsOK
  /\ \A p \in toClient : p.conn_id = cConn.conn_id => Tells(p, written)
  /\ written \in Seq(Chunk) /\ IsPart(written)
  /\ ClientKnows(written)

\* The numbers of the client are natural numbers.
LEMMA ClientNumbers ==
  ASSUME ClientTypeOK
  PROVE  /\ cDraw \in Nat /\ FirstSeq \in Nat /\ FinSeq \in Nat
         /\ Len(input) \in Nat
         /\ cRead \in Nat /\ cRead <= Len(input)
         /\ cWin.base \in Nat /\ cWin.nextseqnum \in Nat
         /\ cConn.seq_num \in Nat
         /\ FirstSeq = cDraw + 1 /\ FinSeq = FirstSeq + Len(input)
         /\ FirstSeq = Inc(cDraw)
<1>1. cDraw \in Nat /\ Len(input) \in Nat /\ Inc(cDraw) = cDraw + 1
  BY DrawsAreNumbers, InputType DEF ClientTypeOK
<1>2. cRead \in Nat /\ cRead <= Len(input)
  BY <1>1 DEF ClientTypeOK
<1>3. cWin.base \in Nat /\ cWin.nextseqnum \in Nat /\ cConn.seq_num \in Nat
  BY Numbers DEF ClientTypeOK, GBNSenderState, ConnectionState
<1> QED
  BY <1>1, <1>2, <1>3 DEF FirstSeq, FinSeq

\* So are those of the server.
LEMMA SessionNumbers ==
  ASSUME TypeOK
  PROVE  /\ cDraw \in Nat /\ FirstSeq \in Nat /\ FinSeq \in Nat
         /\ Len(input) \in Nat /\ Len(out) \in Nat
         /\ cRead \in Nat /\ cRead <= Len(input)
         /\ cWin.base \in Nat /\ cWin.nextseqnum \in Nat
         /\ cConn.seq_num \in Nat /\ sConn.ack_num \in Nat
         /\ FirstSeq = cDraw + 1 /\ FinSeq = FirstSeq + Len(input)
         /\ FirstSeq = Inc(cDraw)
<1>1. Len(out) \in Nat
  BY DEF TypeOK, ServerTypeOK, SessionTypeOK
<1>2. sConn.ack_num \in Nat
  BY Numbers DEF TypeOK, ServerTypeOK, SessionTypeOK, ConnectionState
<1> QED
  BY <1>1, <1>2, ClientNumbers DEF TypeOK

\* A server that has written as much as there is has written all of it.
LEMMA LongEnoughIsAll ==
  ASSUME ClientTypeOK, NEW w \in Seq(Chunk), IsPart(w), Len(w) >= Len(input)
  PROVE  w = input
<1>1. input \in Seq(Chunk)
  BY InputType
<1>2. Len(w) = Len(input)
  BY <1>1 DEF IsPart
<1>3. \A i \in 1 .. Len(w) : w[i] = input[i]
  BY DEF IsPart
<1> QED
  BY <1>1, <1>2, <1>3

\* The client's code leaves the stream, the server's state and, but for what it
\* receives, the replies alone.
LEMMA ClientLeaves ==
  ASSUME ClientNext
  PROVE  /\ input' = input /\ cDraw' = cDraw
         /\ UNCHANGED serverVars
         /\ toClient' \subseteq toClient
<1> SUFFICES input' = input /\ cDraw' = cDraw /\ toClient' \subseteq toClient
  BY DEF ClientNext
<1>2. CASE ClientRuns
  BY <1>2
  DEF ClientRuns, ClientCloses, ClientBlocks, TransferStarts, TransferEnds,
      TransferExpires, TransferTurns, Fill, FillEnds, FillFails, Retransmit,
      TransferBlocks, FinWaitSends, ClientStops, ClientExits
<1>3. CASE ClientTimesOut
  BY <1>3
  DEF ClientTimesOut, SynSentTimeout, TransferTimeout, FinWaitTimeout,
      TimeWaitTimeout, ClientExpires
<1>4. CASE \E p \in toClient : ClientHandles(p)
  <2>1. PICK p \in toClient : ClientHandles(p)
    BY <1>4
  <2>2. ClientReceives(p)
    BY <2>1
    DEF ClientHandles, AcceptSynAck, AckProgresses, AckRepeats, AcceptFinAck,
        RepeatLastAck, ClientIgnores
  <2> QED
    BY <2>2, AfterIsLess DEF ClientReceives
<1>5. CASE \E from \in {"server", "other"} : ClientRejects(from)
  BY <1>5 DEF ClientRejects, Malformed
<1>6. CASE TimerFires \/ ClientDeadline \/ ClientSignal
  BY <1>6 DEF TimerFires, ClientDeadline, ClientSignal
<1> QED
  BY <1>2, <1>3, <1>4, <1>5, <1>6 DEF ClientNext

\* So the client keeps the server's part, and the replies.
LEMMA ClientKeepsServerPart ==
  ASSUME SessionInv, ClientNext
  PROVE  ServerOK' /\ RepliesOK'
<1>1. /\ input' = input /\ cDraw' = cDraw
      /\ UNCHANGED serverVars
      /\ toClient' \subseteq toClient
  BY ClientLeaves
<1>2. ServerOK'
  BY <1>1 DEF SessionInv, ServerOK, IsPart, serverVars, FirstSeq
<1>3. RepliesOK'
  BY <1>1 DEF SessionInv, RepliesOK, IsReply, Tells, serverVars, FirstSeq
<1> QED
  BY <1>2, <1>3

\* The client keeps the requests if what it sends is a request.
LEMMA RequestsGrow ==
  ASSUME RequestsOK, input' = input, cDraw' = cDraw,
         \A p \in toServer' : p \in toServer \/ IsRequest(p)
  PROVE  RequestsOK'
BY DEF RequestsOK, IsRequest, CarriesItsChunk, FirstSeq, FinSeq

\* A packet carries its chunk as long as the stream is the same.
LEMMA ChunksStay ==
  ASSUME input' = input, cDraw' = cDraw
  PROVE  /\ FirstSeq' = FirstSeq /\ FinSeq' = FinSeq
         /\ \A p : CarriesItsChunk(p) => CarriesItsChunk(p)'
BY DEF CarriesItsChunk, FirstSeq, FinSeq

-----------------------------------------------------------------------------
(* The window                                                              *)

\* A slot that waits after an ACK has waited, with the same packet, before it.
LEMMA WaitingWasWaiting ==
  ASSUME NEW w \in GBNSenderState, NEW ack \in SeqNum, NEW i \in Slots,
         gbn_process_ack(w, ack).buffer[i].is_valid
  PROVE  gbn_process_ack(w, ack).buffer[i] = w.buffer[i]
BY DEF gbn_process_ack, Acked, GBNSenderState

\* A window that is not full has a number to give that is not the last one: it
\* is below the sum of gbn_fill_and_send_window, which is a number itself.
LEMMA RoomIsBelowTheEnd ==
  ASSUME NEW w \in GBNSenderState, ~WindowFull(w)
  PROVE  Inc(w.nextseqnum) = w.nextseqnum + 1
<1>1. w.nextseqnum \in Nat /\ w.base + WINDOW_SIZE \in Nat
  <2>1. w.nextseqnum \in Nat /\ w.base \in Nat
    BY Numbers DEF GBNSenderState
  <2> QED BY <2>1, WindowAssumption
<1>2. (w.base + WINDOW_SIZE) % SeqSpace \in 0 .. SeqSpace - 1
  BY <1>1, SpaceAssumption
<1>3. w.nextseqnum + 1 < SeqSpace
  BY <1>1, <1>2, SpaceAssumption DEF WindowFull
<1> QED BY <1>1, <1>3, IncIsSuccessor

\* The packet made of the chunk that is read carries the chunk of its number.
LEMMA FilledCarriesItsChunk ==
  ASSUME ClientTypeOK, NEW written, ClientKnows(written), Fill
  PROVE  CarriesItsChunk(DataPacket(cWin, cConn, input[cRead + 1]))
<1>1. cWin.nextseqnum = FirstSeq + cRead /\ cRead < Len(input)
  BY DEF Fill, ClientKnows, Transferring
<1>2. cWin.nextseqnum \in FirstSeq .. FinSeq - 1
  BY <1>1, ClientNumbers
<1>3. cWin.nextseqnum - cDraw = cRead + 1
  BY <1>1, ClientNumbers
<1>4. Inc(cWin.nextseqnum) = cWin.nextseqnum + 1
  BY RoomIsBelowTheEnd DEF Fill, ClientTypeOK
<1> QED
  BY <1>2, <1>3, <1>4 DEF DataPacket, CarriesItsChunk

-----------------------------------------------------------------------------
(* The client's steps                                                      *)

\* What the client sends on its own account is a request.
LEMMA ClientKeepsRequests ==
  ASSUME NEW written, ClientPart(written), ClientNext
  PROVE  RequestsOK'
<1> USE DEF ClientPart
<1>1. input' = input /\ cDraw' = cDraw
  BY ClientLeaves
<1>2. CASE UNCHANGED toServer
  BY <1>1, <1>2, RequestsGrow
<1>3. CASE ClientCloses
  <2> DEFINE p == Header([seq_num |-> cDraw, ack_num |-> 0, conn_id |-> 0], SYN)
  <2>1. toServer' \subseteq toServer \cup {p}
    BY <1>3 DEF ClientCloses, ClientSendThen, Sent
  <2>2. IsRequest(p)
    BY FlagsDiffer DEF IsRequest, Header
  <2> QED BY <1>1, <2>1, <2>2, RequestsGrow
<1>4. CASE SynSentTimeout
  <2>1. toServer' \subseteq toServer \cup {Header(cConn, SYN)}
    BY <1>4 DEF SynSentTimeout, ClientSendThen, Sent
  <2>2. IsRequest(Header(cConn, SYN))
    BY <1>4, FlagsDiffer DEF SynSentTimeout, ClientWaits, ClientKnows, IsRequest, Header
  <2> QED BY <1>1, <2>1, <2>2, RequestsGrow
<1>5. CASE Fill
  <2> DEFINE p == DataPacket(cWin, cConn, input[cRead + 1])
  <2>1. toServer' \subseteq toServer \cup {p}
    BY <1>5 DEF Fill, ClientSendsSome, Sent
  <2>2. IsRequest(p)
    BY <1>5, FilledCarriesItsChunk, FlagsDiffer DEF IsRequest, CarriesItsChunk
  <2> QED BY <1>1, <2>1, <2>2, RequestsGrow
<1>6. CASE Retransmit
  <2>1. toServer' \subseteq toServer \cup Unacked(cWin)
    BY <1>6 DEF Retransmit, ClientSendsSome, Sent
  <2>2. ASSUME NEW p \in Unacked(cWin) PROVE IsRequest(p)
    <3>1. PICK i \in Slots : cWin.buffer[i].is_valid /\ p = cWin.buffer[i].packet
      BY UnackedInSlots DEF ClientTypeOK
    <3>2. CarriesItsChunk(p)
      BY <1>6, <3>1 DEF Retransmit, ClientKnows, Transferring
    <3> QED BY <3>2, FlagsDiffer DEF IsRequest, CarriesItsChunk
  <2> QED BY <1>1, <2>1, <2>2, RequestsGrow
<1>7. CASE FinWaitSends
  <2>1. toServer' \subseteq toServer \cup {Header(cConn, FIN)}
    BY <1>7 DEF FinWaitSends, Sent
  <2>2. IsRequest(Header(cConn, FIN))
    BY <1>7, FlagsDiffer DEF FinWaitSends, ClientStep, ClientKnows, IsRequest, Header
  <2> QED BY <1>1, <2>1, <2>2, RequestsGrow
<1>8. ASSUME NEW p \in toClient, AckRepeats(p) PROVE RequestsOK'
  <2> DEFINE w == gbn_process_ack(cWin, p.ack_num)
  <2>1. toServer' \subseteq toServer \cup Unacked(w)
    BY <1>8 DEF AckRepeats, ClientSendsSome, ClientReceives, Sent
  <2>2. ASSUME NEW q \in Unacked(w) PROVE IsRequest(q)
    <3>0. p.ack_num \in SeqNum
      BY PacketNumbers DEF NetTypeOK
    <3>1. w \in GBNSenderState
      BY <3>0, ProcessAckType DEF ClientTypeOK
    <3>2. PICK i \in Slots : w.buffer[i].is_valid /\ q = w.buffer[i].packet
      BY <3>1, UnackedInSlots
    <3>3. cWin.buffer[i].is_valid /\ q = cWin.buffer[i].packet
      BY <3>0, <3>2, WaitingWasWaiting DEF ClientTypeOK
    <3>4. CarriesItsChunk(q)
      BY <1>8, <3>3 DEF AckRepeats, ClientWaits, ClientKnows, Transferring
    <3> QED BY <3>4, FlagsDiffer DEF IsRequest, CarriesItsChunk
  <2> QED BY <1>1, <2>1, <2>2, RequestsGrow
<1>9. ASSUME NEW p \in toClient, AcceptSynAck(p) \/ AcceptFinAck(p) \/ RepeatLastAck(p)
      PROVE  RequestsOK'
  <2>1. PICK conn : toServer' \subseteq toServer \cup {Header(conn, ACK)}
    BY <1>9
    DEF AcceptSynAck, AcceptFinAck, RepeatLastAck, ClientReceives, ClientSendThen, Sent
  <2>2. IsRequest(Header(conn, ACK))
    BY FlagsDiffer DEF IsRequest, Header
  <2> QED BY <1>1, <2>1, <2>2, RequestsGrow
<1>10. ASSUME NEW p \in toClient, AckProgresses(p) \/ ClientIgnores(p)
       PROVE  UNCHANGED toServer
  BY <1>10 DEF AckProgresses, ClientIgnores
<1>11. CASE \E p \in toClient : ClientHandles(p)
  BY <1>2, <1>8, <1>9, <1>10, <1>11 DEF ClientHandles
<1>12. CASE ClientRuns \/ ClientTimesOut
  BY <1>2, <1>3, <1>4, <1>5, <1>6, <1>7, <1>12
  DEF ClientRuns, ClientTimesOut, ClientBlocks, TransferStarts, TransferEnds,
      TransferExpires, TransferTurns, FillEnds, FillFails, TransferBlocks,
      ClientStops, ClientExits, TransferTimeout, FinWaitTimeout, TimeWaitTimeout,
      ClientExpires
<1>13. CASE \E from \in {"server", "other"} : ClientRejects(from)
  BY <1>2, <1>13 DEF ClientRejects, Malformed
<1>14. CASE TimerFires \/ ClientDeadline \/ ClientSignal
  BY <1>2, <1>14 DEF TimerFires, ClientDeadline, ClientSignal
<1> QED
  BY <1>11, <1>12, <1>13, <1>14 DEF ClientNext

\* What the client knows of the server stays true when the client moves on.
LEMMA ClientKeepsItsPart ==
  ASSUME NEW written, ClientPart(written), ClientNext
  PROVE  ClientKnows(written)'
<1> USE DEF ClientPart
<1>1. /\ input' = input /\ cDraw' = cDraw
      /\ FirstSeq' = FirstSeq /\ FinSeq' = FinSeq
      /\ \A p : CarriesItsChunk(p) => CarriesItsChunk(p)'
  BY ClientLeaves, ChunksStay DEF serverVars
<1>2. /\ cDraw \in Nat /\ FirstSeq = cDraw + 1 /\ FinSeq = FirstSeq + Len(input)
      /\ Len(input) \in Nat /\ Len(written) \in Nat /\ cRead \in Nat
      /\ cWin.base \in Nat /\ cWin.nextseqnum \in Nat /\ cConn.seq_num \in Nat
  BY ClientNumbers
<1>3. CASE ClientCloses
  BY <1>1, <1>3 DEF ClientCloses, ClientStep, ClientSendThen, ClientGoto, ClientQuit, ClientKnows,
     Transferring, EX_OK, EX_OSERR
<1>4. CASE ClientBlocks \/ TransferTurns \/ TransferTimeout
  BY <1>1, <1>4 DEF ClientBlocks, TransferTurns, TransferTimeout, ClientWaits, ClientStep,
     ClientKnows, Transferring
<1>5. CASE SynSentTimeout
  BY <1>1, <1>5 DEF SynSentTimeout, ClientWaits, ClientSendThen, ClientGoto, ClientQuit,
     ClientKnows, Transferring, EX_OK, EX_OSERR
<1>6. CASE TransferStarts
  <2>1. ~NewWindow(cConn.seq_num).buffer[0].is_valid
    BY WindowAssumption DEF NewWindow, EmptySlot, Slots
  <2> QED
    BY <1>1, <1>2, <1>6
    DEF TransferStarts, ClientStep, ClientKnows, Transferring, NewWindow, EmptySlot
<1>7. CASE TransferEnds
  <2>1. Transferring /\ cWin.base = cWin.nextseqnum /\ cRead = Len(input)
    BY <1>7 DEF TransferEnds, Drained, ClientKnows, Transferring
  <2>2. cWin.nextseqnum = FinSeq /\ cWin.base <= FirstSeq + Len(written)
    BY <1>2, <2>1 DEF ClientKnows
  <2>3. written = input
    BY <1>2, <2>1, <2>2, LongEnoughIsAll
  <2>4. cConn'.seq_num = FinSeq
    BY <1>7, <2>2 DEF TransferEnds, ClientTypeOK, ConnectionState
  <2> QED
    BY <1>1, <1>7, <2>3, <2>4 DEF TransferEnds, ClientGoto, ClientKnows, Transferring
<1>8. CASE TransferExpires \/ FillFails \/ ClientExpires \/ ClientStops
  BY <1>1, <1>8
  DEF TransferExpires, FillFails, ClientExpires, ClientStops, ClientQuit, ClientKnows,
      Transferring, EX_OK, EX_PROTOCOL, EX_IOERR, EX_SOFTWARE
<1>9. CASE Fill
  <2> DEFINE p == DataPacket(cWin, cConn, input[cRead + 1])
  <2>1. cWin' = gbn_fill(cWin, p) /\ CarriesItsChunk(p)
    BY <1>9, FilledCarriesItsChunk DEF Fill
  <2>2. /\ Transferring /\ cState' = cState /\ cPc' = cPc /\ cEof' = cEof
        /\ cConn' = cConn /\ cExit' = cExit /\ cRead' = cRead + 1 /\ cPc = "fill"
        /\ cRead < Len(input)
    BY <1>9 DEF Fill, Transferring, ClientKnows
  <2>3. cWin'.base = cWin.base /\ cWin'.nextseqnum = cWin.nextseqnum + 1
    BY <1>9, <2>1, RoomIsBelowTheEnd DEF gbn_fill, Fill, ClientTypeOK
  <2>4. ASSUME NEW i \in Slots, cWin'.buffer[i].is_valid
        PROVE  CarriesItsChunk(cWin'.buffer[i].packet)
    BY <2>1, <2>2, <2>4 DEF gbn_fill, ClientKnows, ClientTypeOK, GBNSenderState
  <2>5. \A i \in Slots : cWin'.buffer[i].is_valid
          => CarriesItsChunk(cWin.buffer[i].packet)'
    BY <1>1, <2>4 DEF CarriesItsChunk
  <2>6. cWin'.nextseqnum = FirstSeq + cRead'
    BY <1>2, <2>2, <2>3 DEF ClientKnows
  <2>7. cEof' => cRead' = Len(input)
    BY <1>2, <2>2 DEF ClientKnows
  <2> QED
    BY <1>1, <2>2, <2>3, <2>5, <2>6, <2>7 DEF ClientKnows, Transferring
<1>10. CASE FillEnds
  BY <1>1, <1>10 DEF FillEnds, ClientKnows, Transferring
<1>11. CASE Retransmit \/ TransferBlocks \/ TimerFires
  <2>1. /\ cWin'.base = cWin.base /\ cWin'.nextseqnum = cWin.nextseqnum
        /\ cWin'.buffer = cWin.buffer
    BY <1>11 DEF Retransmit, TransferBlocks, TimerFires, ClientTypeOK, GBNSenderState
  <2> QED
    BY <1>1, <1>11, <2>1
    DEF Retransmit, TransferBlocks, TimerFires, ClientKnows, Transferring
<1>12. CASE FinWaitSends \/ FinWaitTimeout \/ TimeWaitTimeout
  BY <1>1, <1>12
  DEF FinWaitSends, FinWaitTimeout, TimeWaitTimeout, ClientStep, ClientWaits, ClientGoto,
      ClientQuit, ClientKnows, Transferring, EX_OK, EX_OSERR
<1>13. CASE ClientExits
  BY <1>1, <1>13
  DEF ClientExits, ExitCodes, ClientKnows, Transferring, EX_OK, EX_IOERR, EX_OSERR
<1>14. ASSUME NEW p \in toClient, AcceptSynAck(p) PROVE ClientKnows(written)'
  BY <1>1, <1>2, <1>14, ClientNumbers
  DEF AcceptSynAck, ClientWaits, ClientSendThen, ClientGoto, ClientQuit, ClientKnows,
      Transferring, EX_OK, EX_OSERR
<1>15. ASSUME NEW p \in toClient, AckProgresses(p) \/ AckRepeats(p) PROVE ClientKnows(written)'
  <2> DEFINE w == gbn_process_ack(cWin, p.ack_num)
  <2>1. /\ Transferring /\ cPc' = "loop" /\ UNCHANGED <<cState, cConn, cEof, cRead, cExit>>
        /\ p.flags = ACK /\ p.conn_id = cConn.conn_id
    BY <1>15 DEF AckProgresses, AckRepeats, ClientWaits, Transferring, IsAck
  <2>2. p.ack_num \in SeqNum /\ p.ack_num <= FirstSeq + Len(written)
    BY <2>1, PacketNumbers DEF Tells, NetTypeOK
  <2>3. w \in GBNSenderState
    BY <2>2, ProcessAckType DEF ClientTypeOK
  <2>4. /\ cWin'.base = w.base /\ cWin'.nextseqnum = w.nextseqnum
        /\ cWin'.buffer = w.buffer
    BY <1>15, <2>3 DEF AckProgresses, AckRepeats, GBNSenderState
  <2>5. w.nextseqnum = cWin.nextseqnum /\ w.base \in {cWin.base, p.ack_num}
    BY DEF gbn_process_ack, ClientTypeOK, GBNSenderState
  <2>6. cWin'.base <= FirstSeq + Len(written)
    BY <2>1, <2>2, <2>4, <2>5 DEF ClientKnows
  <2>7. ASSUME NEW i \in Slots, cWin'.buffer[i].is_valid
        PROVE  CarriesItsChunk(cWin'.buffer[i].packet)
    BY <2>1, <2>2, <2>4, <2>7, WaitingWasWaiting DEF ClientKnows, ClientTypeOK
  <2>8. \A i \in Slots : cWin'.buffer[i].is_valid
          => CarriesItsChunk(cWin.buffer[i].packet)'
    BY <1>1, <2>7 DEF CarriesItsChunk
  <2> QED
    BY <1>1, <2>1, <2>4, <2>5, <2>6, <2>8 DEF ClientKnows, Transferring
<1>16. ASSUME NEW p \in toClient, AcceptFinAck(p) PROVE ClientKnows(written)'
  <2>1. written = input
    BY <1>16 DEF AcceptFinAck, IsFinAck, Tells
  <2> QED
    BY <1>1, <1>16, <2>1
    DEF AcceptFinAck, ClientSendThen, ClientGoto, ClientQuit, ClientKnows, Transferring
<1>17. ASSUME NEW p \in toClient, RepeatLastAck(p) PROVE ClientKnows(written)'
  BY <1>1, <1>17
  DEF RepeatLastAck, ClientWaits, ClientGoto, ClientQuit, ClientKnows, Transferring
<1>18. ASSUME NEW p \in toClient, ClientIgnores(p) PROVE ClientKnows(written)'
  BY <1>1, <1>18
  DEF ClientIgnores, ClientReceives, NextTurn, ClientKnows, Transferring
<1>19. ASSUME NEW from \in {"server", "other"}, ClientRejects(from) PROVE ClientKnows(written)'
  BY <1>1, <1>19 DEF ClientRejects, NextTurn, ClientKnows, Transferring
<1>20. CASE ClientDeadline
  BY <1>1, <1>20 DEF ClientDeadline, ClientKnows, Transferring
<1>21. CASE ClientSignal
  BY <1>1, <1>21
  DEF ClientSignal, ClientQuit, ClientKnows, Transferring, EX_OK, EX_OSERR
<1> QED
  BY <1>3, <1>4, <1>5, <1>6, <1>7, <1>8, <1>9, <1>10, <1>11, <1>12, <1>13, <1>14, <1>15,
     <1>16, <1>17, <1>18, <1>19, <1>20, <1>21
  DEF ClientNext, ClientRuns, ClientTimesOut, ClientHandles

\* With one server process, what is written is what that one has written.
LEMMA ClientKeepsClientPart ==
  ASSUME SessionInv, ClientNext
  PROVE  ClientOK' /\ RequestsOK'
<1>1. PICK written : written = out
  OBVIOUS
<1>2. ClientPart(written)
  BY <1>1
  DEF SessionInv, TypeOK, ServerTypeOK, SessionTypeOK, RepliesOK, IsReply, ServerOK, ClientOK, ClientPart
<1>3. RequestsOK' /\ ClientKnows(written)'
  BY <1>2, ClientKeepsRequests, ClientKeepsItsPart
<1>4. out' = written
  BY <1>1, ClientLeaves DEF serverVars
<1> QED
  BY <1>3, <1>4 DEF ClientOK, ClientKnows

-----------------------------------------------------------------------------
(* The server's steps                                                      *)

\* The server's code leaves the stream and the client alone, and the requests
\* but for the one that it receives.
LEMMA ServerLeaves ==
  ASSUME ServerNext
  PROVE  /\ UNCHANGED clientVars
         /\ toServer' \subseteq toServer
<1> SUFFICES toServer' \subseteq toServer
  BY DEF ServerNext
<1>1. CASE ServerRuns \/ ServerTimesOut \/ ServerDeadline \/ ServerSignal
  BY <1>1
  DEF ServerRuns, ServerTimesOut, ServerBlocks, ServerStops, ServerExits, ServerTimeout,
      LastAckTimeout, ServerExpires, ServerDeadline, ServerSignal
<1>2. CASE \E from \in {"client", "other"} : ServerRejects(from)
  BY <1>2 DEF ServerRejects, Malformed
<1>3. CASE \E p \in toServer : ServerHandles(p)
  <2>1. PICK p \in toServer : ServerHandles(p)
    BY <1>3
  <2>2. ServerReceives(p)
    BY <2>1
    DEF ServerHandles, AcceptSyn, RepeatSynAck, AcceptHandshake, AcceptFin, AcceptData,
        WriteFails, RepeatAck, RepeatFinAck, AcceptLastAck, ServerIgnores
  <2> QED
    BY <2>2, AfterIsLess DEF ServerReceives
<1> QED
  BY <1>1, <1>2, <1>3 DEF ServerNext, ServerActs

\* A DATA packet that the server takes is the next chunk of the stream.
LEMMA AcceptedIsNext ==
  ASSUME SessionInv, NEW p \in toServer, AcceptData(p)
  PROVE  /\ out' = Append(out, input[Len(out) + 1])
         /\ Len(out) < Len(input)
         /\ sConn'.ack_num = FirstSeq + Len(out) + 1
<1>1. sState = "ESTABLISHED" /\ p.flags = DATA /\ p.seq_num = sConn.ack_num
  BY DEF AcceptData, ServerWaits, IsData, IsExpected
<1>2. sConn.ack_num = FirstSeq + Len(out)
  BY <1>1 DEF SessionInv, ServerOK, IsPart
<1>3. CarriesItsChunk(p)
  BY <1>1 DEF SessionInv, RequestsOK, IsRequest
<1>4. Len(out) < Len(input) /\ p.payload = input[Len(out) + 1]
  <2>1. /\ p.seq_num = FirstSeq + Len(out) /\ FirstSeq = cDraw + 1
        /\ FinSeq = FirstSeq + Len(input)
        /\ cDraw \in Nat /\ Len(out) \in Nat /\ Len(input) \in Nat
    BY <1>1, <1>2, SessionNumbers DEF SessionInv
  <2>2. p.seq_num \in FirstSeq .. FinSeq - 1 /\ p.payload = input[p.seq_num - cDraw]
    BY <1>3 DEF CarriesItsChunk
  <2>3. p.seq_num - cDraw = Len(out) + 1 /\ Len(out) < Len(input)
    BY <2>1, <2>2
  <2> QED BY <2>2, <2>3
<1>5. sConn'.ack_num = sConn.ack_num + 1
  BY <1>1, <1>3
  DEF AcceptData, CarriesItsChunk, SessionInv, TypeOK, ServerTypeOK, SessionTypeOK, ConnectionState
<1> QED
  BY <1>2, <1>4, <1>5 DEF AcceptData

\* The server writes the next chunk, or nothing.
LEMMA ServerWrites ==
  ASSUME SessionInv, ServerNext
  PROVE  \/ out' = out
         \/ out # input /\ out' \in Seq(Chunk) /\ Len(out') = Len(out) + 1
<1>1. CASE UNCHANGED out
  BY <1>1
<1>2. ASSUME NEW p \in toServer, AcceptData(p)
      PROVE  out # input /\ out' \in Seq(Chunk) /\ Len(out') = Len(out) + 1
  <2>1. out' = Append(out, input[Len(out) + 1]) /\ Len(out) < Len(input)
    BY <1>2, AcceptedIsNext
  <2>2. out \in Seq(Chunk) /\ input[Len(out) + 1] \in Chunk
    BY <2>1, InputType DEF SessionInv, TypeOK, ServerTypeOK, SessionTypeOK
  <2> QED
    BY <2>1, <2>2, SessionNumbers DEF SessionInv
<1>3. CASE ServerActs
  BY <1>1, <1>3
  DEF ServerActs, ServerRuns, ServerTimesOut, ServerBlocks, ServerStops, ServerExits,
      ServerTimeout, LastAckTimeout, ServerExpires, ServerDeadline, ServerSignal,
      ServerRejects
<1>4. CASE \E p \in toServer : ServerHandles(p)
  BY <1>1, <1>2, <1>4
  DEF ServerHandles, AcceptSyn, RepeatSynAck, AcceptHandshake, AcceptFin,
      WriteFails, RepeatAck, RepeatFinAck, AcceptLastAck, ServerIgnores
<1> QED
  BY <1>3, <1>4 DEF ServerNext

\* What the server does leaves what the client knows true, and the requests.
LEMMA ServerKeepsClientPart ==
  ASSUME SessionInv, ServerNext
  PROVE  ClientOK' /\ RequestsOK'
<1> USE DEF SessionInv
<1>1. UNCHANGED clientVars /\ toServer' \subseteq toServer
  BY ServerLeaves
<1>2. /\ FirstSeq' = FirstSeq /\ FinSeq' = FinSeq
      /\ \A p : CarriesItsChunk(p) => CarriesItsChunk(p)'
  BY <1>1, ChunksStay DEF clientVars
<1>3. RequestsOK'
  BY <1>1, RequestsGrow DEF clientVars
<1>4. Len(out) \in Nat /\ Len(out') \in Nat /\ Len(out) <= Len(out')
      /\ (out = input => out' = input)
  BY ServerWrites, SessionNumbers
<1>5. Transferring => cWin.base <= FirstSeq + Len(out')
  <2>1. cWin.base \in Nat /\ FirstSeq \in Nat
    BY SessionNumbers
  <2> QED BY <1>4, <2>1 DEF ClientOK, ClientKnows
<1>6. Transferring =>
        \A i \in Slots :
          cWin.buffer[i].is_valid => CarriesItsChunk(cWin.buffer[i].packet)'
  BY <1>2, <1>1 DEF ClientOK, ClientKnows, CarriesItsChunk, clientVars
<1>7. ClientOK'
  BY <1>1, <1>2, <1>4, <1>5, <1>6 DEF ClientOK, ClientKnows, Transferring, clientVars
<1> QED
  BY <1>3, <1>7

\* What the server sends is a reply, and what it has written a part of the
\* stream, whatever it does.
LEMMA ServerKeepsItsPart ==
  ASSUME SessionInv, ServerNext
  PROVE  ServerOK' /\ RepliesOK'
<1> USE DEF SessionInv
<1>1. UNCHANGED clientVars /\ FirstSeq' = FirstSeq /\ FinSeq' = FinSeq
      /\ input' = input
  BY ServerLeaves, ChunksStay DEF clientVars
<1>2. /\ FirstSeq = cDraw + 1 /\ FinSeq = FirstSeq + Len(input)
      /\ cDraw \in Nat /\ Len(input) \in Nat /\ Len(out) \in Nat /\ sConn.ack_num \in Nat
  BY SessionNumbers
<1>3. ASSUME \A p \in toClient' : p \in toClient \/ IsReply(p)', ServerOK'
      PROVE  ServerOK' /\ RepliesOK'
  <2>1. ASSUME NEW p \in toClient, IsReply(p)
        PROVE  IsReply(p)'
    <3>1. p.ack_num \in Nat
      BY PacketNumbers DEF TypeOK, NetTypeOK
    <3>2. /\ Len(out') \in Nat /\ Len(out) <= Len(out')
          /\ (out = input => out' = input)
      BY <1>2, ServerWrites
    <3> QED
      BY <1>1, <1>2, <2>1, <3>1, <3>2 DEF IsReply, Tells
  <2> QED
    BY <1>3, <2>1 DEF RepliesOK
<1>4. CASE ServerBlocks \/ ServerStops \/ ServerExits \/ ServerTimeout
             \/ ServerExpires \/ ServerDeadline \/ ServerSignal
  <2>1. ServerOK'
    BY <1>1, <1>4
    DEF ServerBlocks, ServerStops, ServerExits, ServerTimeout, ServerExpires,
        ServerDeadline, ServerSignal, ServerWaits, ServerQuit, SilenceCode, ExitCodes,
        ServerOK, IsPart, EX_OK, EX_PROTOCOL, EX_SOFTWARE, EX_OSERR, EX_IOERR
  <2>2. UNCHANGED toClient
    BY <1>4
    DEF ServerBlocks, ServerStops, ServerExits, ServerTimeout, ServerExpires,
        ServerDeadline, ServerSignal
  <2> QED BY <1>3, <2>1, <2>2
<1>5. CASE \E from \in {"client", "other"} : ServerRejects(from)
  <2>1. ServerOK' /\ UNCHANGED toClient
    BY <1>1, <1>5 DEF ServerRejects, Malformed, ServerOK, IsPart
  <2> QED BY <1>3, <2>1
<1>6. CASE LastAckTimeout
  <2>1. out = input /\ UNCHANGED out
    BY <1>6 DEF LastAckTimeout, ServerWaits, ServerOK, IsPart
  <2>2. ServerOK'
    BY <1>1, <1>6, <2>1
    DEF LastAckTimeout, ServerGoto, ServerQuit, ServerOK, IsPart
  <2>3. PICK conn : toClient' \subseteq toClient \cup {Header(conn, FINACK)}
    BY <1>6 DEF LastAckTimeout, Sent
  <2>4. IsReply(Header(conn, FINACK))'
    BY <1>1, <2>1, FlagsDiffer DEF IsReply, Tells, Header
  <2> QED BY <1>3, <2>2, <2>3, <2>4
<1>7. ASSUME NEW p \in toServer, AcceptSyn(p) PROVE ServerOK' /\ RepliesOK'
  <2>1. /\ sConn'.ack_num = FirstSeq /\ out = << >> /\ out' = out
    BY <1>7, SessionNumbers DEF AcceptSyn, ServerWaits, RequestsOK, IsRequest, ServerOK, IsPart
  <2>2. ServerOK'
    BY <1>1, <1>2, <1>7, <2>1
    DEF AcceptSyn, ServerGoto, ServerQuit, ServerOK, IsPart, EX_OK, EX_OSERR
  <2>3. PICK conn : toClient' \subseteq toClient \cup {Header(conn, SYNACK)}
    BY <1>7, <2>1 DEF AcceptSyn, ServerReceives, Sent
  <2>4. IsReply(Header(conn, SYNACK))'
    BY FlagsDiffer DEF IsReply, Tells, Header
  <2> QED BY <1>3, <2>2, <2>3, <2>4
<1>8. ASSUME NEW p \in toServer, RepeatSynAck(p) PROVE ServerOK' /\ RepliesOK'
  <2>1. ServerOK'
    BY <1>1, <1>8
    DEF RepeatSynAck, ServerWaits, ServerSendThen, ServerGoto, ServerQuit, ServerOK, IsPart,
        EX_OK, EX_OSERR
  <2>2. PICK conn : toClient' \subseteq toClient \cup {Header(conn, SYNACK)}
    BY <1>8 DEF RepeatSynAck, ServerSendThen, Sent
  <2>3. IsReply(Header(conn, SYNACK))'
    BY FlagsDiffer DEF IsReply, Tells, Header
  <2> QED BY <1>3, <2>1, <2>2, <2>3
<1>9. ASSUME NEW p \in toServer, AcceptHandshake(p) PROVE ServerOK' /\ RepliesOK'
  <2>1. sConn.ack_num = FirstSeq /\ p.seq_num = sConn.ack_num /\ out = << >>
    BY <1>9 DEF AcceptHandshake, ServerWaits, AnswersSynAck, ServerOK, IsPart
  <2>2. sConn'.ack_num = FirstSeq + Len(out)
    BY <1>2, <1>9, <2>1
    DEF AcceptHandshake, AfterHandshake, TypeOK, ServerTypeOK, SessionTypeOK, ConnectionState
  <2>3. ServerOK' /\ UNCHANGED toClient
    BY <1>1, <1>9, <2>1, <2>2 DEF AcceptHandshake, ServerGoto, ServerOK, IsPart
  <2> QED BY <1>3, <2>3
<1>10. ASSUME NEW p \in toServer, AcceptFin(p) PROVE ServerOK' /\ RepliesOK'
  <2>1. p.seq_num = FinSeq /\ p.seq_num = FirstSeq + Len(out)
    BY <1>10 DEF AcceptFin, ServerWaits, IsFin, RequestsOK, IsRequest, ServerOK, IsPart
  <2>2. out = input /\ out' = out
    BY <1>2, <1>10, <2>1, LongEnoughIsAll DEF AcceptFin, TypeOK, ServerTypeOK, SessionTypeOK, ServerOK
  <2>3. ServerOK'
    BY <1>1, <1>10, <2>2 DEF AcceptFin, ServerGoto, ServerQuit, ServerOK, IsPart
  <2>4. PICK conn : toClient' \subseteq toClient \cup {Header(conn, FINACK)}
    BY <1>10 DEF AcceptFin, ServerReceives, Sent
  <2>5. IsReply(Header(conn, FINACK))'
    BY <1>1, <2>2, FlagsDiffer DEF IsReply, Tells, Header
  <2> QED BY <1>3, <2>3, <2>4, <2>5
<1>11. ASSUME NEW p \in toServer, AcceptData(p) PROVE ServerOK' /\ RepliesOK'
  <2>1. /\ out' = Append(out, input[Len(out) + 1]) /\ Len(out) < Len(input)
        /\ sConn'.ack_num = FirstSeq + Len(out) + 1
    BY <1>11, AcceptedIsNext
  <2>2. /\ Len(out') = Len(out) + 1
        /\ \A i \in 1 .. Len(out') : out'[i] = input[i]
    BY <1>2, <2>1 DEF ServerOK, IsPart, TypeOK, ServerTypeOK, SessionTypeOK
  <2>3. ServerOK'
    <3>1. /\ Len(out') <= Len(input)
          /\ \/ sState' = "ESTABLISHED" /\ sConn'.ack_num = FirstSeq + Len(out')
             \/ sState' = "DONE" /\ sExit' # EX_OK
          /\ sPc' = "step"
      <4>1. ServerSendThen(Header(sConn', ACK), "client", "ESTABLISHED")
        BY <1>11 DEF AcceptData
      <4>2. Len(out') <= Len(input) /\ sConn'.ack_num = FirstSeq + Len(out')
        BY <1>2, <2>1, <2>2
      <4> QED
        BY <4>1, <4>2 DEF ServerSendThen, ServerGoto, ServerQuit, EX_OK, EX_OSERR
    <3> QED BY <1>1, <2>2, <3>1 DEF ServerOK, IsPart
  <2>4. PICK conn : /\ toClient' \subseteq toClient \cup {Header(conn, ACK)}
                    /\ conn.ack_num = FirstSeq + Len(out) + 1
    BY <1>11, <2>1 DEF AcceptData, ServerSendThen, Sent
  <2>5. IsReply(Header(conn, ACK))'
    BY <1>1, <1>2, <2>2, <2>4, FlagsDiffer DEF IsReply, Tells, Header
  <2> QED BY <1>3, <2>3, <2>4, <2>5
<1>12. ASSUME NEW p \in toServer, WriteFails(p) PROVE ServerOK' /\ RepliesOK'
  <2>1. ServerOK' /\ UNCHANGED toClient
    BY <1>1, <1>12 DEF WriteFails, ServerQuit, ServerOK, IsPart, EX_OK, EX_IOERR
  <2> QED BY <1>3, <2>1
<1>13. ASSUME NEW p \in toServer, RepeatAck(p) PROVE ServerOK' /\ RepliesOK'
  <2>1. sConn.ack_num = FirstSeq + Len(out) /\ out' = out
    BY <1>13 DEF RepeatAck, ServerWaits, ServerOK, IsPart
  <2>2. ServerOK'
    BY <1>1, <1>13, <2>1
    DEF RepeatAck, ServerWaits, ServerSendThen, ServerGoto, ServerQuit, ServerOK, IsPart,
        EX_OK, EX_OSERR
  <2>3. PICK conn : /\ toClient' \subseteq toClient \cup {Header(conn, ACK)}
                    /\ conn.ack_num = sConn.ack_num
    BY <1>13 DEF RepeatAck, ServerSendThen, Sent
  <2>4. IsReply(Header(conn, ACK))'
    BY <1>1, <1>2, <2>1, <2>3, FlagsDiffer DEF IsReply, Tells, Header
  <2> QED BY <1>3, <2>2, <2>3, <2>4
<1>14. ASSUME NEW p \in toServer, RepeatFinAck(p) PROVE ServerOK' /\ RepliesOK'
  <2>1. out = input /\ out' = out
    BY <1>14 DEF RepeatFinAck, ServerWaits, ServerOK, IsPart
  <2>2. ServerOK'
    BY <1>1, <1>14, <2>1
    DEF RepeatFinAck, ServerSendThen, ServerGoto, ServerQuit, ServerOK, IsPart
  <2>3. PICK conn : toClient' \subseteq toClient \cup {Header(conn, FINACK)}
    BY <1>14 DEF RepeatFinAck, ServerSendThen, Sent
  <2>4. IsReply(Header(conn, FINACK))'
    BY <1>1, <2>1, FlagsDiffer DEF IsReply, Tells, Header
  <2> QED BY <1>3, <2>2, <2>3, <2>4
<1>15. ASSUME NEW p \in toServer, AcceptLastAck(p) \/ ServerIgnores(p)
       PROVE  ServerOK' /\ RepliesOK'
  <2>1. ServerOK' /\ UNCHANGED toClient
    BY <1>1, <1>15
    DEF AcceptLastAck, ServerIgnores, ServerReceives, ServerWaits, ServerGoto, ServerOK, IsPart
  <2> QED BY <1>3, <2>1
<1> QED
  BY <1>4, <1>5, <1>6, <1>7, <1>8, <1>9, <1>10, <1>11, <1>12, <1>13, <1>14, <1>15
  DEF ServerNext, ServerActs, ServerRuns, ServerTimesOut, ServerHandles

-----------------------------------------------------------------------------
(* The invariant, and what follows from it                                 *)

\* A session starts with nothing sent and nothing written.
LEMMA InitSession ==
  ASSUME Init
  PROVE  SessionInv
<1> USE DEF Init
<1>1. TypeOK
  BY InitTypes
<1>2. RequestsOK /\ RepliesOK
  BY DEF NetInit, RequestsOK, RepliesOK
<1>3. ServerOK
  BY <1>1, SessionNumbers DEF ServerInit, ServerOK, IsPart
<1>4. ClientOK
  BY DEF ClientInit, ClientOK, ClientKnows, Transferring
<1> QED
  BY <1>1, <1>2, <1>3, <1>4 DEF SessionInv

\* Every step of the client, of the server and of the network keeps the session.
LEMMA NextSession ==
  ASSUME SessionInv, [Next]_vars
  PROVE  SessionInv'
<1>1. TypeOK'
  BY NextTypes DEF SessionInv
<1>2. CASE ClientNext
  BY <1>1, <1>2, ClientKeepsClientPart, ClientKeepsServerPart DEF SessionInv
<1>3. CASE ServerNext
  BY <1>1, <1>3, ServerKeepsClientPart, ServerKeepsItsPart DEF SessionInv
<1>4. ASSUME UNCHANGED <<clientVars, serverVars>>,
             toServer' \subseteq toServer, toClient' \subseteq toClient
      PROVE  SessionInv'
  <2>1. /\ FirstSeq' = FirstSeq /\ FinSeq' = FinSeq
        /\ \A p : CarriesItsChunk(p) => CarriesItsChunk(p)'
    BY <1>4, ChunksStay DEF clientVars
  <2>2. RequestsOK' /\ RepliesOK'
    BY <1>4, <2>1, RequestsGrow
    DEF SessionInv, RepliesOK, IsReply, Tells, clientVars, serverVars
  <2>3. ServerOK'
    BY <1>4, <2>1 DEF SessionInv, ServerOK, IsPart, clientVars, serverVars
  <2>4. ClientOK'
    BY <1>4, <2>1
    DEF SessionInv, ClientOK, ClientKnows, Transferring, CarriesItsChunk, clientVars, serverVars
  <2> QED
    BY <1>1, <2>2, <2>3, <2>4 DEF SessionInv
<1>5. CASE Loss
  BY <1>4, <1>5 DEF Loss, Lose
<1>6. CASE UNCHANGED vars
  BY <1>4, <1>6 DEF vars
<1> QED
  BY <1>2, <1>3, <1>5, <1>6 DEF Next

\* The packets in flight and the two processes always agree on which number
\* stands for which chunk (the handlers of client.c and server.c together).
THEOREM SessionCorrect == Spec => []SessionInv
<1>1. Init => SessionInv
  BY InitSession
<1>2. SessionInv /\ [Next]_vars => SessionInv'
  BY NextSession
<1> QED
  BY <1>1, <1>2, PTL DEF Spec

\* The server writes the client's chunks in order, each once: the acceptance
\* test of handle_established in server.c, whatever the network does.
THEOREM DeliveredInOrder == Spec => []InOrderDelivery
<1>1. ASSUME SessionInv PROVE InOrderDelivery
  <2>1. /\ out \in Seq(Chunk) /\ input \in Seq(Chunk)
        /\ Len(out) <= Len(input)
        /\ \A i \in 1 .. Len(out) : out[i] = input[i]
    BY <1>1, InputType DEF SessionInv, TypeOK, ServerTypeOK, SessionTypeOK, ServerOK, IsPart
  <2>2. SubSeq(input, 1, Len(out)) = [i \in 1 .. Len(out) |-> input[i]]
    BY <2>1
  <2>3. SubSeq(input, 1, Len(out)) = out
    BY <2>1, <2>2
  <2> QED
    BY <2>1, <2>3 DEF InOrderDelivery, IsPrefix
<1> QED
  BY <1>1, SessionCorrect, PTL

\* A number stands for one chunk throughout: gbn_fill_and_send_window stops before
\* numbers could come round again, for every size of the sequence space.
THEOREM NumbersAreUsedOnce == Spec => []OneChunkPerNumber
<1>1. SessionInv => OneChunkPerNumber
  BY DEF SessionInv, RequestsOK, IsRequest, CarriesItsChunk, OneChunkPerNumber
<1> QED
  BY <1>1, SessionCorrect, PTL

\* A process that exits with EX_OK has transferred everything (run_client and
\* run_server, by way of TIME_WAIT and LAST_ACK).
THEOREM ExitsAreHonest == Spec => []HonestExit
<1>1. SessionInv => HonestExit
  BY DEF SessionInv, ServerOK, IsPart, ClientOK, ClientKnows, HonestExit, ClientSucceeded, ServerSucceeded
<1> QED
  BY <1>1, SessionCorrect, PTL

\* The client forgets a chunk only when the server has written it
\* (gbn_process_ack, and the acknowledgements of server.c).
THEOREM AckedIsAlwaysWritten == Spec => []AckedIsWritten
<1>1. SessionInv => AckedIsWritten
  BY DEF SessionInv, ClientOK, ClientKnows, AckedIsWritten
<1> QED
  BY <1>1, SessionCorrect, PTL

-----------------------------------------------------------------------------
(* The client among others, and the server that may serve others           *)

\* The identifier changes once: when the client accepts one.
LEMMA IdentifierStays ==
  ASSUME ClientTypeOK, BearsIdentifier, ClientNext
  PROVE  \/ cConn'.conn_id = cConn.conn_id
         \/ /\ cConn.conn_id = 0
            /\ \E p \in toClient : p.flags = SYNACK /\ cConn'.conn_id = p.conn_id
<1>1. CASE UNCHANGED cConn
  BY <1>1
<1>2. CASE ClientCloses
  BY <1>2 DEF ClientCloses, ClientStep, BearsIdentifier
<1>3. CASE TransferEnds
  BY <1>3 DEF TransferEnds, ClientTypeOK, ConnectionState
<1>4. ASSUME NEW p \in toClient, AcceptSynAck(p)
      PROVE  cConn.conn_id = 0 /\ p.flags = SYNACK /\ cConn'.conn_id = p.conn_id
  BY <1>4 DEF AcceptSynAck, IsSynAck, ClientWaits, BearsIdentifier
<1>5. ASSUME NEW p \in toClient, AcceptFinAck(p)
      PROVE  cConn'.conn_id = cConn.conn_id
  BY <1>5 DEF AcceptFinAck, ClientTypeOK, ConnectionState
<1>6. CASE \E p \in toClient : ClientHandles(p)
  BY <1>1, <1>4, <1>5, <1>6
  DEF ClientHandles, AckProgresses, AckRepeats, RepeatLastAck, ClientIgnores
<1>7. CASE ClientRuns \/ ClientTimesOut
  BY <1>1, <1>2, <1>3, <1>7
  DEF ClientRuns, ClientTimesOut, ClientBlocks, TransferStarts, TransferExpires,
      TransferTurns, Fill, FillEnds, FillFails, Retransmit, TransferBlocks, FinWaitSends,
      ClientStops, ClientExits, SynSentTimeout, TransferTimeout, FinWaitTimeout,
      TimeWaitTimeout, ClientExpires
<1>8. CASE \E from \in {"server", "other"} : ClientRejects(from)
  BY <1>1, <1>8 DEF ClientRejects
<1>9. CASE TimerFires \/ ClientDeadline \/ ClientSignal
  BY <1>1, <1>9 DEF TimerFires, ClientDeadline, ClientSignal
<1> QED
  BY <1>6, <1>7, <1>8, <1>9 DEF ClientNext

\* So the client comes to no identifier that it has not been offered.
LEMMA NothingNewIsOffered ==
  ASSUME ClientTypeOK, BearsIdentifier, ClientNext
  PROVE  Offered' \subseteq Offered
<1>1. toClient' \subseteq toClient
  BY ClientLeaves
<1> QED
  BY <1>1, IdentifierStays DEF Offered

\* A packet that waits in the window, before an ACK or after it, bears the
\* identifier of the session.
LEMMA WaitingBearsIdentifier ==
  ASSUME NEW w \in GBNSenderState, NEW id,
         \A i \in Slots : w.buffer[i].is_valid => w.buffer[i].packet.conn_id = id
  PROVE  /\ \A p \in Unacked(w) : p.conn_id = id
         /\ \A ack \in SeqNum :
              /\ \A i \in Slots :
                   gbn_process_ack(w, ack).buffer[i].is_valid
                     => gbn_process_ack(w, ack).buffer[i].packet.conn_id = id
              /\ \A p \in Unacked(gbn_process_ack(w, ack)) : p.conn_id = id
<1>1. \A p \in Unacked(w) : p.conn_id = id
  BY UnackedInSlots
<1>2. ASSUME NEW ack \in SeqNum
      PROVE  /\ \A i \in Slots :
                  gbn_process_ack(w, ack).buffer[i].is_valid
                    => gbn_process_ack(w, ack).buffer[i].packet.conn_id = id
             /\ \A p \in Unacked(gbn_process_ack(w, ack)) : p.conn_id = id
  <2>1. \A i \in Slots :
          gbn_process_ack(w, ack).buffer[i].is_valid
            => gbn_process_ack(w, ack).buffer[i].packet.conn_id = id
    BY WaitingWasWaiting
  <2>2. gbn_process_ack(w, ack) \in GBNSenderState
    BY ProcessAckType
  <2> QED BY <2>1, <2>2, UnackedInSlots
<1> QED
  BY <1>1, <1>2

\* What the client sends is SYN, or bears the identifier it has accepted.
LEMMA SentBearsIdentifier ==
  ASSUME NetTypeOK, ClientTypeOK, NEW written, ClientKnows(written), BearsIdentifier,
         ClientNext
  PROVE  \A p \in toServer' :
           \/ p \in toServer
           \/ p.flags = SYN
           \/ p.conn_id = cConn'.conn_id /\ cConn'.conn_id # 0
<1>1. CASE UNCHANGED toServer
  BY <1>1
<1>2. CASE ClientCloses \/ SynSentTimeout
  <2>1. PICK conn : toServer' \subseteq toServer \cup {Header(conn, SYN)}
    BY <1>2 DEF ClientCloses, SynSentTimeout, ClientSendThen, Sent
  <2> QED BY <2>1 DEF Header
<1>3. CASE Fill
  <2>1. /\ toServer' \subseteq toServer \cup {DataPacket(cWin, cConn, input[cRead + 1])}
        /\ cConn' = cConn /\ cConn.conn_id # 0
    BY <1>3 DEF Fill, ClientSendsSome, Sent, ClientKnows, BearsIdentifier
  <2> QED BY <2>1 DEF DataPacket
<1>4. CASE Retransmit
  <2>1. /\ toServer' \subseteq toServer \cup Unacked(cWin)
        /\ Transferring /\ cConn' = cConn /\ cConn.conn_id # 0
    BY <1>4
    DEF Retransmit, ClientSendsSome, Sent, ClientKnows, Transferring, BearsIdentifier
  <2>2. cWin \in GBNSenderState
    BY DEF ClientTypeOK
  <2>3. \A i \in Slots :
          cWin.buffer[i].is_valid => cWin.buffer[i].packet.conn_id = cConn.conn_id
    BY <2>1 DEF BearsIdentifier
  <2>4. \A q \in Unacked(cWin) : q.conn_id = cConn.conn_id
    BY <2>2, <2>3, WaitingBearsIdentifier
  <2> QED BY <2>1, <2>4
<1>5. CASE FinWaitSends
  <2>1. /\ toServer' \subseteq toServer \cup {Header(cConn, FIN)}
        /\ cConn' = cConn /\ cConn.conn_id # 0
    BY <1>5 DEF FinWaitSends, ClientStep, Sent, BearsIdentifier
  <2> QED BY <2>1 DEF Header
<1>6. ASSUME NEW p \in toClient, AckRepeats(p)
      PROVE  \A q \in toServer' :
               q \in toServer \/ (q.conn_id = cConn'.conn_id /\ cConn'.conn_id # 0)
  <2>1. /\ toServer' \subseteq toServer \cup Unacked(gbn_process_ack(cWin, p.ack_num))
        /\ Transferring /\ cConn' = cConn /\ cConn.conn_id # 0
    BY <1>6
    DEF AckRepeats, ClientWaits, ClientSendsSome, Sent, Transferring, BearsIdentifier
  <2>2. p.ack_num \in SeqNum
    BY PacketNumbers DEF NetTypeOK
  <2>3. \A q \in Unacked(gbn_process_ack(cWin, p.ack_num)) : q.conn_id = cConn.conn_id
    <3>1. cWin \in GBNSenderState
      BY DEF ClientTypeOK
    <3>2. \A i \in Slots :
            cWin.buffer[i].is_valid => cWin.buffer[i].packet.conn_id = cConn.conn_id
      BY <2>1 DEF BearsIdentifier
    <3> QED BY <2>2, <3>1, <3>2, WaitingBearsIdentifier
  <2> QED BY <2>1, <2>3
<1>7. ASSUME NEW p \in toClient, AcceptSynAck(p) \/ AcceptFinAck(p) \/ RepeatLastAck(p)
      PROVE  \A q \in toServer' :
               q \in toServer \/ (q.conn_id = cConn'.conn_id /\ cConn'.conn_id # 0)
  <2>1. toServer' \subseteq toServer \cup {Header(cConn', ACK)}
    BY <1>7
    DEF AcceptSynAck, AcceptFinAck, RepeatLastAck, ClientReceives, ClientSendThen, Sent
  <2>2. cConn'.conn_id # 0
    <3>1. CASE AcceptSynAck(p)
      BY <3>1 DEF AcceptSynAck, IsSynAck
    <3>2. CASE AcceptFinAck(p)
      BY <3>2 DEF AcceptFinAck, ClientWaits, ClientTypeOK, ConnectionState, BearsIdentifier
    <3>3. CASE RepeatLastAck(p)
      BY <3>3 DEF RepeatLastAck, ClientWaits, BearsIdentifier
    <3> QED BY <1>7, <3>1, <3>2, <3>3
  <2> QED BY <2>1, <2>2 DEF Header
<1>8. CASE \E p \in toClient : ClientHandles(p)
  BY <1>1, <1>6, <1>7, <1>8 DEF ClientHandles, AckProgresses, ClientIgnores
<1>9. CASE ClientRuns \/ ClientTimesOut
  BY <1>1, <1>2, <1>3, <1>4, <1>5, <1>9
  DEF ClientRuns, ClientTimesOut, ClientBlocks, TransferStarts, TransferEnds,
      TransferExpires, TransferTurns, FillEnds, FillFails, TransferBlocks,
      ClientStops, ClientExits, TransferTimeout, FinWaitTimeout, TimeWaitTimeout,
      ClientExpires
<1>10. CASE \E from \in {"server", "other"} : ClientRejects(from)
  BY <1>1, <1>10 DEF ClientRejects, Malformed
<1>11. CASE TimerFires \/ ClientDeadline \/ ClientSignal
  BY <1>1, <1>11 DEF TimerFires, ClientDeadline, ClientSignal
<1> QED
  BY <1>8, <1>9, <1>10, <1>11 DEF ClientNext

\* Every slot that waits bears the identifier, after the step as before it.
LEMMA WindowBearsIdentifier ==
  ASSUME NetTypeOK, ClientTypeOK, NEW written, ClientKnows(written), BearsIdentifier,
         ClientNext
  PROVE  Transferring' =>
           \A i \in Slots :
             cWin'.buffer[i].is_valid => cWin'.buffer[i].packet.conn_id = cConn'.conn_id
<1> DEFINE Bears ==
      \A i \in Slots :
        cWin'.buffer[i].is_valid => cWin'.buffer[i].packet.conn_id = cConn'.conn_id
<1>1. CASE TransferStarts
  <2>1. \A i \in Slots : ~NewWindow(cConn.seq_num).buffer[i].is_valid
    BY DEF NewWindow, EmptySlot
  <2> QED BY <1>1, <2>1 DEF TransferStarts
<1>2. CASE Fill
  <2> DEFINE p == DataPacket(cWin, cConn, input[cRead + 1])
  <2>1. cWin' = gbn_fill(cWin, p) /\ p.conn_id = cConn.conn_id /\ cConn' = cConn
    BY <1>2 DEF Fill, DataPacket
  <2>2. Transferring
    BY <1>2 DEF Fill, ClientKnows, Transferring
  <2> HIDE DEF p
  <2>3. ASSUME NEW i \in Slots, cWin'.buffer[i].is_valid
        PROVE  cWin'.buffer[i].packet.conn_id = cConn'.conn_id
    BY <2>1, <2>2, <2>3 DEF gbn_fill, ClientTypeOK, GBNSenderState, BearsIdentifier
  <2> QED BY <2>3
<1>3. CASE Retransmit \/ TransferBlocks \/ TimerFires
  <2>1. cWin'.buffer = cWin.buffer /\ cConn' = cConn
    BY <1>3 DEF Retransmit, TransferBlocks, TimerFires, ClientTypeOK, GBNSenderState
  <2>2. Transferring' => Transferring
    BY <1>3 DEF Retransmit, TransferBlocks, TimerFires, ClientKnows, Transferring
  <2> QED BY <2>1, <2>2 DEF BearsIdentifier
<1>4. ASSUME NEW p \in toClient, AckProgresses(p) \/ AckRepeats(p)
      PROVE  Bears
  <2>1. p.ack_num \in SeqNum
    BY PacketNumbers DEF NetTypeOK
  <2>2. gbn_process_ack(cWin, p.ack_num) \in GBNSenderState
    BY <2>1, ProcessAckType DEF ClientTypeOK
  <2>3. /\ cWin'.buffer = gbn_process_ack(cWin, p.ack_num).buffer
        /\ cConn' = cConn /\ Transferring
    BY <1>4, <2>2
    DEF AckProgresses, AckRepeats, ClientWaits, Transferring, GBNSenderState
  <2>4. \A i \in Slots :
          gbn_process_ack(cWin, p.ack_num).buffer[i].is_valid
            => gbn_process_ack(cWin, p.ack_num).buffer[i].packet.conn_id = cConn.conn_id
    <3>1. \A i \in Slots :
            cWin.buffer[i].is_valid => cWin.buffer[i].packet.conn_id = cConn.conn_id
      BY <2>3 DEF BearsIdentifier
    <3>2. cWin \in GBNSenderState
      BY DEF ClientTypeOK
    <3> QED BY <2>1, <3>1, <3>2, WaitingBearsIdentifier
  <2> QED
    BY <2>3, <2>4
<1>5. ASSUME UNCHANGED <<cWin, cConn>>, Transferring' => Transferring
      PROVE  Transferring' => Bears
  BY <1>5 DEF BearsIdentifier
<1>6. ASSUME ~Transferring'
      PROVE  Transferring' => Bears
  BY <1>6
<1>7. CASE \/ ClientCloses \/ SynSentTimeout \/ TransferEnds \/ TransferExpires
           \/ FillFails \/ FinWaitTimeout \/ TimeWaitTimeout \/ ClientExpires
           \/ ClientStops \/ ClientExits \/ FinWaitSends
  <2>1. ~Transferring'
    BY <1>7
    DEF ClientCloses, SynSentTimeout, TransferEnds, TransferExpires, FillFails,
        FinWaitTimeout, TimeWaitTimeout, ClientExpires, ClientStops, ClientExits,
        FinWaitSends, ClientStep, ClientSendThen, ClientGoto, ClientQuit, Transferring
  <2> QED BY <1>6, <2>1
<1>8. CASE ClientBlocks \/ TransferTurns \/ TransferTimeout \/ FillEnds
  <2>1. UNCHANGED <<cWin, cConn>> /\ (Transferring' => Transferring)
    BY <1>8
    DEF ClientBlocks, TransferTurns, TransferTimeout, FillEnds, ClientStep, ClientWaits,
        ClientKnows, Transferring
  <2> QED BY <1>5, <2>1
<1>9. ASSUME NEW p \in toClient, AcceptSynAck(p) \/ AcceptFinAck(p) \/ RepeatLastAck(p)
      PROVE  ~Transferring'
  BY <1>9
  DEF AcceptSynAck, AcceptFinAck, RepeatLastAck, ClientSendThen, ClientGoto, ClientQuit,
      Transferring
<1>10. ASSUME \/ \E p \in toClient : ClientIgnores(p)
              \/ \E from \in {"server", "other"} : ClientRejects(from)
              \/ ClientDeadline \/ ClientSignal
       PROVE  UNCHANGED <<cWin, cConn>> /\ (Transferring' => Transferring)
  BY <1>10
  DEF ClientIgnores, ClientReceives, ClientRejects, NextTurn, ClientDeadline, ClientSignal,
      ClientQuit, Transferring
<1> QED
  BY <1>1, <1>2, <1>3, <1>4, <1>5, <1>6, <1>7, <1>8, <1>9, <1>10
  DEF ClientNext, ClientRuns, ClientTimesOut, ClientHandles

\* The client has an identifier from ESTABLISHED on, and none before.
LEMMA IdentifierIsKnown ==
  ASSUME ClientTypeOK, NEW written, ClientKnows(written), BearsIdentifier, ClientNext
  PROVE  /\ cState' \in {"CLOSED", "SYN_SENT"} => cConn'.conn_id = 0
         /\ cState' \in {"ESTABLISHED", "FIN_WAIT", "TIME_WAIT"} => cConn'.conn_id # 0
         /\ cState' = "DONE" /\ cExit' = EX_OK => cConn'.conn_id # 0
<1> USE DEF BearsIdentifier
<1>1. CASE ClientCloses \/ SynSentTimeout
  BY <1>1
  DEF ClientCloses, SynSentTimeout, ClientStep, ClientWaits, ClientSendThen, ClientGoto,
      ClientQuit, EX_OK, EX_OSERR
<1>2. CASE TransferEnds
  <2>1. cState = "ESTABLISHED" /\ cState' = "FIN_WAIT" /\ cConn'.conn_id = cConn.conn_id
    BY <1>2 DEF TransferEnds, ClientGoto, ClientKnows, ClientTypeOK, ConnectionState
  <2> QED BY <2>1
<1>3. CASE \/ TransferExpires \/ FillFails \/ ClientExpires \/ ClientStops \/ ClientExits
           \/ FinWaitSends \/ FinWaitTimeout \/ TimeWaitTimeout
  BY <1>3
  DEF TransferExpires, FillFails, ClientExpires, ClientStops, ClientExits, ExitCodes,
      FinWaitSends, FinWaitTimeout, TimeWaitTimeout, ClientStep, ClientWaits, ClientGoto,
      ClientQuit, EX_OK, EX_PROTOCOL, EX_IOERR, EX_OSERR, EX_SOFTWARE
<1>4. CASE UNCHANGED <<cState, cConn, cExit>>
  BY <1>4
<1>5. CASE \/ ClientBlocks \/ TransferStarts \/ TransferTurns \/ Fill \/ FillEnds
           \/ Retransmit \/ TransferBlocks \/ TransferTimeout \/ TimerFires
           \/ ClientDeadline \/ (\E from \in {"server", "other"} : ClientRejects(from))
  BY <1>4, <1>5
  DEF ClientBlocks, TransferStarts, TransferTurns, Fill, FillEnds, Retransmit,
      TransferBlocks, TransferTimeout, TimerFires, ClientDeadline, ClientRejects
<1>6. CASE ClientSignal
  BY <1>6 DEF ClientSignal, ClientQuit, EX_OK, EX_OSERR
<1>7. ASSUME NEW p \in toClient, AcceptSynAck(p)
      PROVE  /\ cState' \in {"ESTABLISHED", "DONE"} /\ cConn'.conn_id # 0
  BY <1>7 DEF AcceptSynAck, IsSynAck, ClientSendThen, ClientGoto, ClientQuit
<1>8. ASSUME NEW p \in toClient, AcceptFinAck(p)
      PROVE  /\ cState' \in {"TIME_WAIT", "DONE"} /\ cConn'.conn_id # 0
  BY <1>8
  DEF AcceptFinAck, ClientWaits, ClientSendThen, ClientGoto, ClientQuit, ClientTypeOK,
      ConnectionState
<1>9. ASSUME NEW p \in toClient, RepeatLastAck(p)
      PROVE  /\ cState' \in {"TIME_WAIT", "DONE"} /\ cConn'.conn_id # 0
  BY <1>9 DEF RepeatLastAck, ClientWaits, ClientGoto, ClientQuit
<1>10. CASE \E p \in toClient : ClientHandles(p)
  BY <1>4, <1>7, <1>8, <1>9, <1>10
  DEF ClientHandles, AckProgresses, AckRepeats, ClientIgnores
<1> QED
  BY <1>1, <1>2, <1>3, <1>5, <1>6, <1>10 DEF ClientNext, ClientRuns, ClientTimesOut

\* Whatever the client does, its part of the session stays true.
LEMMA ClientKeepsSession ==
  ASSUME NEW written \in Seq(Chunk), ClientSession(written),
         \A p \in toClient : p.conn_id # 0,
         ClientNext
  PROVE  ClientSession(written)'
<1> USE DEF ClientSession
<1>1. ClientPart(written)
  <2>1. ASSUME NEW p \in toClient, p.conn_id = cConn.conn_id PROVE Tells(p, written)
    <3>1. p.conn_id \in Offered
      BY <2>1 DEF Offered
    <3> QED BY <3>1 DEF AnswersTell, Tells
  <2> QED BY <2>1 DEF ClientPart
<1>2. /\ input' = input /\ cDraw' = cDraw
      /\ toClient' \subseteq toClient
  BY ClientLeaves
<1>3. NetTypeOK' /\ ClientTypeOK'
  BY ClientKeepsItsTypes
<1>4. RequestsOK' /\ ClientKnows(written)'
  BY <1>1, ClientKeepsRequests, ClientKeepsItsPart
<1>5. IsPart(written)'
  BY <1>2 DEF IsPart
<1>6. BearsIdentifier'
  <2>1. \A p \in toServer' :
          p.flags # SYN => p.conn_id = cConn'.conn_id /\ cConn'.conn_id # 0
    <3>1. \A p \in toServer :
            p.flags # SYN => p.conn_id = cConn'.conn_id /\ cConn'.conn_id # 0
      BY IdentifierStays DEF BearsIdentifier
    <3> QED BY <3>1, SentBearsIdentifier
  <2> QED
    BY <2>1, WindowBearsIdentifier, IdentifierIsKnown DEF BearsIdentifier
<1>7. AnswersTell(written)'
  <2>1. ASSUME NEW p \in toClient, p.flags \in {ACK, FINACK}, p.conn_id \in Offered'
        PROVE  p.conn_id = cConn'.conn_id /\ Tells(p, written)'
    <3>1. p.conn_id \in Offered
      BY <2>1, NothingNewIsOffered
    <3>2. p.conn_id = cConn.conn_id /\ p.conn_id # 0 /\ Tells(p, written)
      BY <2>1, <3>1 DEF AnswersTell, Offered
    <3> QED
      BY <1>2, <3>2, IdentifierStays DEF Tells, FirstSeq
  <2> QED
    BY <1>2, <2>1 DEF AnswersTell
<1> QED
  BY <1>3, <1>4, <1>5, <1>6, <1>7

-----------------------------------------------------------------------------
(* The server among several clients                                        *)

\* What the server does on its own account changes neither what it has written
\* nor whom it serves, and sends FIN+ACK again at most.
LEMMA ServerActsAlone ==
  ASSUME ServerActs
  PROVE  /\ UNCHANGED <<out, sConn, sDraw, toServer>>
         /\ sState' \in {sState, "DONE"}
         /\ \/ toClient' = toClient
            \/ /\ sState = "LAST_ACK"
               /\ toClient' \subseteq toClient \cup {Header(sConn, FINACK)}
<1>1. CASE \/ ServerBlocks \/ ServerStops \/ ServerExits \/ ServerTimeout \/ ServerExpires
           \/ ServerDeadline \/ ServerSignal
  BY <1>1
  DEF ServerBlocks, ServerStops, ServerExits, ServerTimeout, ServerExpires, ServerDeadline,
      ServerSignal, ServerQuit
<1>2. CASE LastAckTimeout
  BY <1>2 DEF LastAckTimeout, ServerWaits, ServerGoto, ServerQuit, Sent
<1>3. ASSUME NEW from \in {"client", "other"}, ServerRejects(from)
      PROVE  UNCHANGED <<out, sConn, sDraw, toServer, sState, toClient>>
  BY <1>3 DEF ServerRejects, Malformed
<1> QED
  BY <1>1, <1>2, <1>3 DEF ServerActs, ServerRuns, ServerTimesOut

\* A packet of a client that the server does not serve changes nothing in the
\* session that it does.
LEMMA OthersAreIgnored ==
  ASSUME ClientTypeOK, RequestsOK, BearsIdentifier, ServerSession, PassesBy,
         NEW p \in toServer, ServerHandles(p)
  PROVE  UNCHANGED <<sState, out, sConn, toClient>>
<1>1. p.flags # SYN => p.conn_id # sConn.conn_id
  BY DEF BearsIdentifier, PassesBy, ServerSession, Offered
<1>2. p.flags = SYN => p.seq_num = cDraw
  BY DEF RequestsOK, IsRequest
<1>3. Inc(cDraw) = FirstSeq
  BY ClientNumbers
<1>4. sState \in {"HANDSHAKE", "ESTABLISHED", "LAST_ACK"}
  BY DEF PassesBy
<1>5. ~AcceptSyn(p)
  BY <1>4 DEF AcceptSyn, ServerWaits
<1>6. ~RepeatSynAck(p)
  BY <1>2, <1>3 DEF RepeatSynAck, ServerWaits, IsRepeatedSyn, PassesBy
<1>7. ~AcceptHandshake(p)
  BY <1>1, FlagsDiffer DEF AcceptHandshake, AnswersSynAck, OfSession
<1>8. ~AcceptFin(p) /\ ~AcceptData(p) /\ ~WriteFails(p) /\ ~RepeatAck(p)
  BY <1>1, FlagsDiffer DEF AcceptFin, AcceptData, WriteFails, RepeatAck, IsFin, IsData, OfSession
<1>9. ~RepeatFinAck(p) /\ ~AcceptLastAck(p)
  BY <1>1, FlagsDiffer DEF RepeatFinAck, AcceptLastAck, IsRepeatedFin, IsLastAck, OfSession
<1>10. ServerIgnores(p)
  BY <1>5, <1>6, <1>7, <1>8, <1>9 DEF ServerHandles
<1> QED
  BY <1>10 DEF ServerIgnores

\* A server that listens begins a session with the client whose SYN it takes.
LEMMA ListenerStarts ==
  ASSUME ClientTypeOK, RequestsOK, sState = "LISTEN", out = << >>,
         NEW p \in toServer, ServerHandles(p), UNCHANGED <<cDraw, input>>
  PROVE  \/ UNCHANGED <<sState, out, sConn, toClient>>
         \/ /\ Serves' \/ sState' = "DONE"
            /\ sConn'.conn_id = sDraw.conn_id
            /\ out' = out
            /\ \E conn : /\ conn.conn_id = sDraw.conn_id
                         /\ toClient' \subseteq toClient \cup {Header(conn, SYNACK)}
<1>1. CASE AcceptSyn(p)
  <2>1. p.seq_num = cDraw
    BY <1>1 DEF AcceptSyn, RequestsOK, IsRequest
  <2>2. sConn'.ack_num = FirstSeq /\ sConn'.conn_id = sDraw.conn_id /\ out' = out
    BY <1>1, <2>1, ClientNumbers DEF AcceptSyn
  <2>3. sState' \in {"HANDSHAKE", "DONE"}
    BY <1>1 DEF AcceptSyn, ServerGoto, ServerQuit
  <2>4. toClient' \subseteq toClient \cup {Header(sConn', SYNACK)}
    BY <1>1 DEF AcceptSyn, Sent
  <2>5. FirstSeq' = FirstSeq
    BY DEF FirstSeq
  <2>6. Serves' \/ sState' = "DONE"
    BY <2>2, <2>3, <2>5 DEF Serves
  <2>7. \E conn : /\ conn.conn_id = sDraw.conn_id
                  /\ toClient' \subseteq toClient \cup {Header(conn, SYNACK)}
    BY <2>2, <2>4
  <2> QED
    BY <2>2, <2>6, <2>7
<1>2. CASE ServerIgnores(p)
  BY <1>2 DEF ServerIgnores
<1> QED
  BY <1>1, <1>2
  DEF ServerHandles, RepeatSynAck, AcceptHandshake, AcceptFin, AcceptData, WriteFails,
      RepeatAck, RepeatFinAck, AcceptLastAck, ServerWaits

\* What the client has sent that the server takes for its session comes from a
\* client that has the identifier of the session.
LEMMA SessionIsTheClients ==
  ASSUME BearsIdentifier, ServerSession, Serves,
         NEW p \in toServer, p.flags # SYN, OfSession(p)
  PROVE  cConn.conn_id = sDraw.conn_id
BY DEF BearsIdentifier, ServerSession, Serves, OfSession

\* The chunk that the server takes is the next one of the client's stream.
LEMMA TakenIsNext ==
  ASSUME ClientTypeOK, SessionTypeOK, RequestsOK, IsPart(out), Serves,
         NEW p \in toServer, AcceptData(p)
  PROVE  /\ out' \in Seq(Chunk) /\ Len(out') = Len(out) + 1
         /\ out # input
         /\ IsPart(out')
         /\ sConn'.ack_num = FirstSeq + Len(out')
         /\ sConn'.conn_id = sConn.conn_id
<1>1. /\ p.flags = DATA /\ p.seq_num = sConn.ack_num
      /\ sConn.ack_num = FirstSeq + Len(out)
  BY DEF AcceptData, ServerWaits, IsData, IsExpected, Serves
<1>2. CarriesItsChunk(p)
  BY <1>1 DEF RequestsOK, IsRequest
<1>3. /\ out \in Seq(Chunk) /\ Len(out) \in Nat /\ sConn \in ConnectionState
  BY DEF SessionTypeOK
<1>4. p.payload = input[Len(out) + 1] /\ Len(out) < Len(input)
  <2>1. p.seq_num \in FirstSeq .. FinSeq - 1 /\ p.payload = input[p.seq_num - cDraw]
    BY <1>2 DEF CarriesItsChunk
  <2>2. p.seq_num - cDraw = Len(out) + 1 /\ Len(out) < Len(input)
    BY <1>1, <1>3, <2>1, ClientNumbers
  <2> QED BY <2>1, <2>2
<1>5. out' = Append(out, input[Len(out) + 1]) /\ input[Len(out) + 1] \in Chunk
  BY <1>3, <1>4, InputType, ClientNumbers DEF AcceptData
<1>6. /\ sConn'.ack_num = sConn.ack_num + 1
      /\ sConn'.conn_id = sConn.conn_id
  BY <1>1, <1>2, <1>3 DEF AcceptData, CarriesItsChunk, ConnectionState
<1>7. out' \in Seq(Chunk) /\ Len(out') = Len(out) + 1
  BY <1>3, <1>5
<1>8. sConn'.ack_num = FirstSeq + Len(out')
  BY <1>1, <1>3, <1>6, <1>7, ClientNumbers
<1>9. IsPart(out')
  BY <1>3, <1>4, <1>5, ClientNumbers DEF IsPart
<1>10. out # input
  BY <1>3, <1>4
<1> QED
  BY <1>6, <1>7, <1>8, <1>9, <1>10

\* The FIN that the server takes closes the whole stream.
LEMMA TakenFinIsLast ==
  ASSUME ClientTypeOK, SessionTypeOK, RequestsOK, IsPart(out), Serves,
         NEW p \in toServer, AcceptFin(p)
  PROVE  out = input
<1>1. p.seq_num = FinSeq /\ p.seq_num = FirstSeq + Len(out)
  BY DEF AcceptFin, ServerWaits, IsFin, RequestsOK, IsRequest, Serves
<1>2. out \in Seq(Chunk) /\ Len(out) \in Nat
  BY DEF SessionTypeOK
<1>3. Len(out) >= Len(input)
  BY <1>1, <1>2, ClientNumbers
<1> QED
  BY <1>2, <1>3, LongEnoughIsAll

\* One more chunk of the client's stream is written.
Longer(written, longer) ==
  /\ longer \in Seq(Chunk) /\ Len(longer) = Len(written) + 1
  /\ written # input
  /\ IsPart(longer)

\* The server may come to serve the client, or serves it.
Begins == sState = "LISTEN" \/ Serves

\* What a step of the server may be, seen from a client that it may serve or not.
ServerAdvances ==
  /\ UNCHANGED <<sDraw, clientVars>>
  /\ toServer' \subseteq toServer
  /\ \/ UNCHANGED <<sState, sConn, out>>
     \/ sState' = "DONE"
     \/ /\ Begins /\ Serves'
        /\ sState' = "HANDSHAKE" => sState = "LISTEN"
        /\ sConn'.conn_id = sDraw.conn_id
  /\ out' = out \/ (cConn.conn_id = sDraw.conn_id /\ Longer(out, out'))
  /\ \A q \in toClient' :
       \/ q \in toClient
       \/ /\ q.conn_id = sDraw.conn_id
          /\ \/ q.flags = SYNACK /\ Begins /\ sState' # "LISTEN"
             \/ /\ q.flags \in {ACK, FINACK}
                /\ sState \in {"ESTABLISHED", "LAST_ACK"}
                /\ sDraw.conn_id \in Offered
                     => sDraw.conn_id = cConn.conn_id /\ Tells(q, out')

\* A packet of a client that the server serves or may come to serve, or of one that
\* it does not, leads to such a step.
LEMMA HandlingMoves ==
  ASSUME NetTypeOK, ClientTypeOK, SessionTypeOK, RequestsOK, BearsIdentifier,
         ServerSession,
         Serves \/ PassesBy \/ sState \in {"LISTEN", "DONE"},
         cConn.conn_id = sDraw.conn_id => IsPart(out),
         NEW p \in toServer, ServerHandles(p), UNCHANGED clientVars
  PROVE  ServerAdvances
<1>1. toServer' \subseteq toServer /\ UNCHANGED sDraw
  <2>1. ServerReceives(p)
    BY DEF ServerHandles, AcceptSyn, RepeatSynAck, AcceptHandshake, AcceptFin, AcceptData,
        WriteFails, RepeatAck, RepeatFinAck, AcceptLastAck, ServerIgnores
  <2> QED
    BY <2>1, AfterIsLess DEF ServerReceives
<1>2. CASE UNCHANGED <<sState, sConn, out, toClient>>
  BY <1>1, <1>2 DEF ServerAdvances
<1>3. CASE sState = "LISTEN"
  <2>1. out = << >> /\ UNCHANGED <<cDraw, input>>
    BY <1>3 DEF ServerSession, clientVars
  <2>2. CASE /\ Serves' \/ sState' = "DONE"
             /\ sConn'.conn_id = sDraw.conn_id
             /\ out' = out
             /\ \E conn : /\ conn.conn_id = sDraw.conn_id
                          /\ toClient' \subseteq toClient \cup {Header(conn, SYNACK)}
    <3>1. sState' # "LISTEN"
      BY <2>2 DEF Serves
    <3>2. \A q \in toClient' :
            q \in toClient \/ (q.conn_id = sDraw.conn_id /\ q.flags = SYNACK)
      BY <2>2 DEF Header
    <3> QED BY <1>1, <1>3, <2>2, <3>1, <3>2 DEF ServerAdvances, Begins
  <2> QED BY <1>2, <1>3, <2>1, <2>2, ListenerStarts
<1>4. CASE PassesBy
  BY <1>2, <1>4, OthersAreIgnored
<1>5. CASE sState = "DONE"
  BY <1>2, <1>5
  DEF ServerHandles, AcceptSyn, RepeatSynAck, AcceptHandshake, AcceptFin, AcceptData,
      WriteFails, RepeatAck, RepeatFinAck, AcceptLastAck, ServerIgnores, ServerWaits
<1>6. CASE Serves
  <2>1. sConn.conn_id = sDraw.conn_id
    BY <1>6 DEF Serves, ServerSession
  <2>2. FirstSeq' = FirstSeq
    BY DEF clientVars, FirstSeq
  <2>3. CASE RepeatSynAck(p)
    BY <1>1, <1>6, <2>1, <2>2, <2>3
    DEF RepeatSynAck, ServerWaits, ServerSendThen, ServerGoto, ServerQuit, Sent, Header,
        ServerAdvances, Begins
  <2>4. CASE AcceptHandshake(p)
    <3>1. cConn.conn_id = sDraw.conn_id
      BY <1>6, <2>4, FlagsDiffer, SessionIsTheClients DEF AcceptHandshake, AnswersSynAck
    <3>2. /\ sState' = "ESTABLISHED" /\ out' = out /\ out = << >>
          /\ toClient' = toClient
          /\ sConn'.ack_num = FirstSeq /\ sConn'.conn_id = sConn.conn_id
      BY <1>6, <2>4
      DEF AcceptHandshake, AnswersSynAck, AfterHandshake, ServerWaits, ServerGoto, Serves,
          SessionTypeOK, ConnectionState
    <3>3. Serves'
      BY <1>1, <2>2, <3>1, <3>2, ClientNumbers DEF Serves, clientVars
    <3> QED
      BY <1>1, <1>6, <2>1, <3>2, <3>3 DEF ServerAdvances, Begins
  <2>5. CASE AcceptFin(p)
    <3>1. cConn.conn_id = sDraw.conn_id
      BY <1>6, <2>5, FlagsDiffer, SessionIsTheClients DEF AcceptFin, IsFin
    <3>2. out = input /\ out' = out
      BY <1>6, <2>5, <3>1, TakenFinIsLast DEF AcceptFin
    <3>3. sConn'.conn_id = sConn.conn_id
      BY <2>5 DEF AcceptFin, SessionTypeOK, ConnectionState
    <3>4. sState = "ESTABLISHED" /\ sState' \in {"LAST_ACK", "DONE"}
      BY <2>5 DEF AcceptFin, ServerWaits, ServerGoto, ServerQuit
    <3>5. Serves' \/ sState' = "DONE"
      BY <1>1, <3>1, <3>2, <3>4 DEF Serves, clientVars
    <3>6. \A q \in toClient' :
            q \in toClient \/ (q.conn_id = sDraw.conn_id /\ q.flags = FINACK)
      BY <2>1, <2>5, <3>3 DEF AcceptFin, Sent, Header
    <3>7. \A q : q.flags = FINACK => Tells(q, out')
      BY <3>2, FlagsDiffer DEF Tells
    <3> QED
      BY <1>1, <1>6, <2>1, <3>1, <3>2, <3>3, <3>4, <3>5, <3>6, <3>7
      DEF ServerAdvances, Begins
  <2>6. CASE AcceptData(p)
    <3>1. cConn.conn_id = sDraw.conn_id
      BY <1>6, <2>6, FlagsDiffer, SessionIsTheClients DEF AcceptData, IsData
    <3>2. /\ Longer(out, out')
          /\ sConn'.ack_num = FirstSeq + Len(out')
          /\ sConn'.conn_id = sConn.conn_id
      BY <1>6, <2>6, <3>1, TakenIsNext DEF Longer
    <3>3. sState = "ESTABLISHED" /\ sState' \in {"ESTABLISHED", "DONE"}
      BY <2>6 DEF AcceptData, ServerWaits, ServerSendThen, ServerGoto, ServerQuit
    <3>4. Serves' \/ sState' = "DONE"
      BY <1>1, <2>2, <3>1, <3>2, <3>3 DEF Serves, clientVars
    <3>5. \A q \in toClient' :
            \/ q \in toClient
            \/ q.conn_id = sDraw.conn_id /\ q.flags = ACK /\ q.ack_num = sConn'.ack_num
      BY <2>1, <2>6, <3>2 DEF AcceptData, ServerSendThen, Sent, Header
    <3>6. \A q : q.flags = ACK /\ q.ack_num = sConn'.ack_num => Tells(q, out')
      <4>1. FirstSeq + Len(out') \in Nat
        BY <3>2, ClientNumbers DEF Longer
      <4> QED BY <3>2, <4>1, FlagsDiffer DEF Tells
    <3> QED
      BY <1>1, <1>6, <2>1, <3>1, <3>2, <3>3, <3>4, <3>5, <3>6 DEF ServerAdvances, Begins
  <2>7. CASE WriteFails(p)
    BY <1>1, <2>7 DEF WriteFails, ServerQuit, ServerAdvances
  <2>8. CASE RepeatAck(p)
    <3>1. cConn.conn_id = sDraw.conn_id
      BY <1>6, <2>8, FlagsDiffer, SessionIsTheClients DEF RepeatAck, IsData
    <3>2. /\ sState = "ESTABLISHED" /\ sConn' = sConn /\ out' = out
          /\ sState' \in {"ESTABLISHED", "DONE"}
      BY <2>8 DEF RepeatAck, ServerWaits, ServerSendThen, ServerGoto, ServerQuit
    <3>3. \A q \in toClient' :
            \/ q \in toClient
            \/ q.conn_id = sDraw.conn_id /\ q.flags = ACK /\ q.ack_num = sConn.ack_num
      BY <2>1, <2>8 DEF RepeatAck, ServerSendThen, Sent, Header
    <3>4. \A q : q.flags = ACK /\ q.ack_num = sConn.ack_num => Tells(q, out')
      <4>1. sConn.ack_num = FirstSeq + Len(out) /\ sConn.ack_num \in Nat
        BY <1>6, <3>2, Numbers DEF Serves, SessionTypeOK, ConnectionState
      <4> QED BY <3>2, <4>1, FlagsDiffer DEF Tells
    <3> QED
      BY <1>1, <3>1, <3>2, <3>3, <3>4 DEF ServerAdvances
  <2>9. CASE RepeatFinAck(p)
    <3>1. cConn.conn_id = sDraw.conn_id
      BY <1>6, <2>9, FlagsDiffer, SessionIsTheClients DEF RepeatFinAck, IsRepeatedFin
    <3>2. /\ sState = "LAST_ACK" /\ sConn' = sConn /\ out' = out /\ out = input
          /\ sState' \in {"LAST_ACK", "DONE"}
      BY <1>6, <2>9
      DEF RepeatFinAck, ServerWaits, ServerSendThen, ServerGoto, ServerQuit, Serves
    <3>3. \A q \in toClient' :
            q \in toClient \/ (q.conn_id = sDraw.conn_id /\ q.flags = FINACK)
      BY <2>1, <2>9 DEF RepeatFinAck, ServerSendThen, Sent, Header
    <3>4. \A q : q.flags = FINACK => Tells(q, out')
      BY <3>2, FlagsDiffer DEF Tells
    <3> QED
      BY <1>1, <3>1, <3>2, <3>3, <3>4 DEF ServerAdvances
  <2>10. CASE AcceptLastAck(p)
    BY <1>1, <2>10 DEF AcceptLastAck, ServerGoto, ServerAdvances
  <2>11. CASE ServerIgnores(p)
    BY <1>2, <2>11 DEF ServerIgnores
  <2>12. ~AcceptSyn(p)
    BY <1>6 DEF AcceptSyn, ServerWaits, Serves
  <2> QED
    BY <2>3, <2>4, <2>5, <2>6, <2>7, <2>8, <2>9, <2>10, <2>11, <2>12 DEF ServerHandles
<1> QED
  BY <1>3, <1>4, <1>5, <1>6

\* So does what the server does on its own account.
LEMMA ActingMoves ==
  ASSUME SessionTypeOK, ServerSession,
         Serves \/ PassesBy \/ sState \in {"LISTEN", "DONE"},
         ServerActs, UNCHANGED clientVars
  PROVE  ServerAdvances
<1>1. UNCHANGED <<out, sConn, sDraw, toServer>> /\ sState' \in {sState, "DONE"}
  BY ServerActsAlone
<1>2. CASE toClient' = toClient
  BY <1>1, <1>2 DEF ServerAdvances
<1>3. CASE /\ sState = "LAST_ACK"
           /\ toClient' \subseteq toClient \cup {Header(sConn, FINACK)}
  <2>1. sConn.conn_id = sDraw.conn_id
    BY <1>3 DEF ServerSession
  <2>2. \A q \in toClient' :
          q \in toClient \/ (q.conn_id = sDraw.conn_id /\ q.flags = FINACK)
    BY <1>3, <2>1 DEF Header
  <2>3. sDraw.conn_id \in Offered => out = input /\ sDraw.conn_id = cConn.conn_id
    BY <1>3 DEF Serves, PassesBy
  <2>4. out = input => \A q : q.flags = FINACK => Tells(q, out')
    BY <1>1, FlagsDiffer DEF Tells
  <2> QED
    BY <1>1, <1>3, <2>2, <2>3, <2>4 DEF ServerAdvances
<1> QED
  BY <1>2, <1>3, ServerActsAlone

\* The server does not do both, serve the client and serve somebody else.
LEMMA ServesOrPassesBy ==
  ASSUME sDraw.conn_id # 0
  PROVE  /\ ~(Serves /\ PassesBy)
         /\ sDraw' = sDraw => ~(Serves' /\ PassesBy')
BY DEF Serves, PassesBy, Offered

\* After such a step the server serves the client, or somebody else, as before.
LEMMA MovesKeepPlace ==
  ASSUME ServerAdvances, ServerSession, NotYetTold, sDraw.conn_id # 0
  PROVE  /\ ServerSession' /\ NotYetTold'
         /\ Serves => Serves' \/ sState' = "DONE"
         /\ PassesBy => PassesBy' \/ sState' = "DONE"
         /\ sState = "LISTEN" => Serves' \/ sState' \in {"LISTEN", "DONE"}
         /\ sState = "DONE" => sState' = "DONE"
         /\ Offered' \subseteq Offered \cup {sDraw.conn_id}
         /\ Begins \/ Offered' \subseteq Offered
         /\ \A q \in toClient' : q \in toClient \/ q.conn_id = sDraw.conn_id
<1> USE DEF ServerAdvances
<1>1. UNCHANGED <<cConn, FirstSeq, input, sDraw>>
  BY DEF clientVars, FirstSeq
<1>2. UNCHANGED <<sState, sConn, out>> => (Serves <=> Serves')
  BY <1>1 DEF Serves
<1>3. Offered' \subseteq Offered \cup {sDraw.conn_id}
  BY <1>1 DEF Offered
<1>4. ServerSession'
  BY <1>1 DEF ServerSession, Serves
<1>5. ~(Serves /\ PassesBy)
  BY ServesOrPassesBy
<1>6. Begins \/ Offered' \subseteq Offered
  <2>1. ASSUME ~Begins, NEW q \in toClient', q.flags = SYNACK
        PROVE  q \in toClient
    BY <2>1, FlagsDiffer
  <2> QED BY <1>1, <2>1 DEF Offered
<1>7. PassesBy => PassesBy' \/ sState' = "DONE"
  <2>1. PassesBy => ~Begins
    BY <1>5 DEF Begins, PassesBy
  <2> QED BY <1>1, <1>6, <2>1 DEF PassesBy
<1>8. NotYetTold'
  <2>1. sState' = "LISTEN" => sState = "LISTEN" /\ ~Serves' /\ UNCHANGED sState
    BY DEF Serves
  <2>2. CASE sState' = "LISTEN"
    <3>1. \A q \in toClient' : q \in toClient
      BY <2>1, <2>2
    <3> QED BY <1>1, <2>1, <2>2, <3>1 DEF NotYetTold
  <2>3. CASE sState' = "HANDSHAKE"
    <3>1. sState \in {"LISTEN", "HANDSHAKE"}
      BY <2>3
    <3>2. \A q \in toClient' : q \in toClient \/ q.flags = SYNACK
      BY <3>1
    <3> QED BY <1>1, <2>3, <3>1, <3>2 DEF NotYetTold
  <2> QED BY <2>2, <2>3 DEF NotYetTold
<1>9. sState = "DONE" => sState' = "DONE"
  BY DEF Begins, Serves
<1>10. Serves => Serves' \/ sState' = "DONE"
  BY <1>2
<1>11. sState = "LISTEN" => Serves' \/ sState' \in {"LISTEN", "DONE"}
  OBVIOUS
<1>12. \A q \in toClient' : q \in toClient \/ q.conn_id = sDraw.conn_id
  OBVIOUS
<1> QED
  BY <1>3, <1>4, <1>6, <1>7, <1>8, <1>9, <1>10, <1>11, <1>12

\* A client whose server process moves on keeps its part of the session: what it
\* knows of what is written stays true, and the answers tell it no more than that.
LEMMA MovesKeepSession ==
  ASSUME ServerAdvances, NotYetTold, sDraw.conn_id # 0, NetTypeOK', out \in Seq(Chunk),
         NEW v \in Seq(Chunk), NEW w \in Seq(Chunk), ClientSession(v),
         cConn.conn_id = sDraw.conn_id => v = out /\ w = out',
         cConn.conn_id # sDraw.conn_id => w = v
  PROVE  ClientSession(w)'
<1> USE DEF ClientSession
<1>1. UNCHANGED clientVars /\ UNCHANGED <<FirstSeq, FinSeq>>
      /\ \A p : CarriesItsChunk(p) => CarriesItsChunk(p)'
  BY ChunksStay DEF ServerAdvances, clientVars
<1>2. RequestsOK'
  BY <1>1, RequestsGrow DEF ServerAdvances, clientVars
<1>3. BearsIdentifier'
  BY <1>1 DEF ServerAdvances, BearsIdentifier, Transferring, clientVars
<1>4. /\ Len(v) \in Nat /\ Len(w) \in Nat /\ Len(v) <= Len(w)
      /\ v = input => w = input
      /\ IsPart(w)
  BY DEF ServerAdvances, Longer
<1>5. ClientTypeOK' /\ IsPart(w)'
  BY <1>1, <1>4 DEF ClientTypeOK, IsPart, clientVars
<1>6. ClientKnows(w)'
  <2>1. Transferring => cWin.base <= FirstSeq + Len(w)
    <3>1. cWin.base \in Nat /\ FirstSeq \in Nat
      BY ClientNumbers
    <3> QED BY <1>4, <3>1 DEF ClientKnows
  <2>2. Transferring =>
          \A i \in Slots :
            cWin.buffer[i].is_valid => CarriesItsChunk(cWin.buffer[i].packet)'
    BY <1>1 DEF ClientKnows, CarriesItsChunk, clientVars
  <2> QED
    BY <1>1, <1>4, <2>1, <2>2 DEF ClientKnows, Transferring, clientVars
<1>7. ASSUME NEW q \in toClient', q.flags \in {ACK, FINACK}, q.conn_id \in Offered'
      PROVE  q.conn_id = cConn.conn_id /\ Tells(q, w)
  <2>1. \/ q.conn_id \in Offered
        \/ q.conn_id = sDraw.conn_id /\ sState \in {"LISTEN", "HANDSHAKE"}
    <3>1. cConn' = cConn
      BY <1>1 DEF clientVars
    <3>2. CASE q.conn_id = cConn.conn_id
      BY <1>7, <3>1, <3>2 DEF Offered
    <3>3. ASSUME NEW s \in toClient', s.flags = SYNACK, s.conn_id = q.conn_id, q.conn_id # 0
          PROVE  \/ q.conn_id \in Offered
                 \/ q.conn_id = sDraw.conn_id /\ sState \in {"LISTEN", "HANDSHAKE"}
      <4>1. CASE s \in toClient
        BY <3>3, <4>1 DEF Offered
      <4>2. CASE s.conn_id = sDraw.conn_id /\ Begins
        BY <3>3, <4>2 DEF Begins, Serves, Offered
      <4> QED BY <3>3, <4>1, <4>2, FlagsDiffer DEF ServerAdvances
    <3> QED BY <1>7, <3>1, <3>2, <3>3 DEF Offered
  <2>2. CASE q \in toClient
    <3>1. q.conn_id \in Offered
      BY <1>7, <2>1, <2>2, FlagsDiffer DEF NotYetTold
    <3>2. q.conn_id = cConn.conn_id /\ Tells(q, v)
      BY <1>7, <2>2, <3>1 DEF AnswersTell
    <3>3. q.ack_num \in Nat /\ FirstSeq \in Nat
      BY <2>2, PacketNumbers, ClientNumbers, Numbers DEF NetTypeOK
    <3> QED BY <1>4, <3>2, <3>3 DEF Tells
  <2>3. CASE q \notin toClient
    <3>1. /\ q.conn_id = sDraw.conn_id /\ sState \in {"ESTABLISHED", "LAST_ACK"}
          /\ sDraw.conn_id \in Offered
               => sDraw.conn_id = cConn.conn_id /\ Tells(q, out')
      BY <1>7, <2>3, FlagsDiffer DEF ServerAdvances
    <3>2. sDraw.conn_id = cConn.conn_id /\ Tells(q, out')
      BY <2>1, <3>1
    <3> QED BY <3>1, <3>2
  <2> QED BY <2>2, <2>3
<1>8. AnswersTell(w)'
  <2>1. cConn' = cConn /\ input' = input
    BY <1>1 DEF clientVars
  <2> QED
    BY <1>1, <1>7, <2>1 DEF AnswersTell, Tells
<1> QED
  BY <1>2, <1>3, <1>5, <1>6, <1>8

\* What the client does leaves its place with the server as it is.
LEMMA ClientKeepsPlace ==
  ASSUME ClientTypeOK, BearsIdentifier, ServerSession, NotYetTold, sDraw.conn_id # 0,
         ClientNext
  PROVE  /\ ServerSession' /\ NotYetTold'
         /\ Serves => Serves'
         /\ PassesBy => PassesBy'
<1>1. /\ UNCHANGED <<input, cDraw, FirstSeq, serverVars>>
      /\ toClient' \subseteq toClient
  BY ClientLeaves DEF FirstSeq
<1>2. Offered' \subseteq Offered
  BY NothingNewIsOffered
<1>3. cConn'.conn_id = cConn.conn_id
      \/ (cConn.conn_id = 0 /\ \E p \in toClient : cConn'.conn_id = p.conn_id)
  BY IdentifierStays
<1> QED
  BY <1>1, <1>2, <1>3 DEF ServerSession, NotYetTold, Serves, PassesBy, serverVars

-----------------------------------------------------------------------------
(* A step in a session among several, seen from its client                 *)

\* What the client's steps keep.
LEMMA ClientStepKeeps ==
  ASSUME NEW w \in Seq(Chunk), ClientSession(w), ServerSession, NotYetTold,
         sDraw.conn_id # 0, \A p \in toClient : p.conn_id # 0,
         ClientNext
  PROVE  /\ ClientSession(w)'
         /\ ServerSession' /\ NotYetTold'
         /\ Serves => Serves'
         /\ PassesBy => PassesBy'
         /\ Offered' \subseteq Offered
         /\ \/ cConn'.conn_id = cConn.conn_id
            \/ cConn.conn_id = 0 /\ \E p \in toClient : cConn'.conn_id = p.conn_id
         /\ UNCHANGED serverVars
         /\ toClient' \subseteq toClient
<1>1. ClientTypeOK /\ BearsIdentifier
  BY DEF ClientSession
<1>2. UNCHANGED serverVars /\ toClient' \subseteq toClient
  BY ClientLeaves
<1>3. Offered' \subseteq Offered
  BY <1>1, NothingNewIsOffered
<1>4. \/ cConn'.conn_id = cConn.conn_id
      \/ cConn.conn_id = 0 /\ \E p \in toClient : cConn'.conn_id = p.conn_id
  BY <1>1, IdentifierStays
<1> QED
  BY <1>1, <1>2, <1>3, <1>4, ClientKeepsSession, ClientKeepsPlace

\* What the server's steps keep, when v is what the server process of the client's
\* identifier has written.
LEMMA ServerStepKeeps ==
  ASSUME NEW v \in Seq(Chunk), ClientSession(v), SessionTypeOK, ServerSession, NotYetTold,
         sDraw.seq_num \in SeqNum, sDraw.conn_id \in Nat \ {0},
         Serves \/ PassesBy \/ sState \in {"LISTEN", "DONE"},
         cConn.conn_id = sDraw.conn_id => v = out,
         ServerActs \/ \E p \in toServer : ServerHandles(p),
         UNCHANGED clientVars
  PROVE  /\ SessionTypeOK' /\ NetTypeOK'
         /\ cConn.conn_id = sDraw.conn_id => ClientSession(out)'
         /\ cConn.conn_id # sDraw.conn_id => ClientSession(v)'
         /\ ServerSession' /\ NotYetTold'
         /\ Serves => Serves' \/ sState' = "DONE"
         /\ PassesBy => PassesBy' \/ sState' = "DONE"
         /\ sState = "LISTEN" => Serves' \/ sState' \in {"LISTEN", "DONE"}
         /\ sState = "DONE" => sState' = "DONE"
         /\ Offered' \subseteq Offered \cup {sDraw.conn_id}
         /\ Begins \/ Offered' \subseteq Offered
         /\ \A q \in toClient' : q \in toClient \/ q.conn_id = sDraw.conn_id
         /\ sDraw' = sDraw
         /\ out' = out \/ cConn.conn_id = sDraw.conn_id
         /\ \/ UNCHANGED <<sState, sConn>>
            \/ sState' = "DONE"
            \/ Serves' /\ (sState' = "HANDSHAKE" => sState = "LISTEN")
<1>1. NetTypeOK /\ ClientTypeOK /\ RequestsOK /\ BearsIdentifier
  BY DEF ClientSession
<1>2. cConn.conn_id = sDraw.conn_id => IsPart(out)
  BY DEF ClientSession
<1>3. NetTypeOK' /\ SessionTypeOK'
  BY <1>1, ServerKeepsItsTypes
<1>4. ServerAdvances
  <2>1. CASE ServerActs
    BY <2>1, ActingMoves
  <2>2. CASE \E p \in toServer : ServerHandles(p)
    BY <1>1, <1>2, <2>2, HandlingMoves
  <2> QED BY <2>1, <2>2
<1>5. cConn.conn_id # sDraw.conn_id => ClientSession(v)'
  BY <1>3, <1>4, MovesKeepSession DEF SessionTypeOK
<1>6. cConn.conn_id = sDraw.conn_id => ClientSession(out)'
  <2>1. PICK w : w = out'
    OBVIOUS
  <2>2. out \in Seq(Chunk) /\ w \in Seq(Chunk)
    BY <1>3, <2>1 DEF SessionTypeOK
  <2>3. cConn.conn_id = sDraw.conn_id => ClientSession(w)'
    BY <1>3, <1>4, <2>1, <2>2, MovesKeepSession
  <2> QED
    BY <2>1, <2>3
    DEF ClientSession, AnswersTell, Tells, IsPart, ClientKnows
<1>7. /\ ServerSession' /\ NotYetTold'
      /\ Serves => Serves' \/ sState' = "DONE"
      /\ PassesBy => PassesBy' \/ sState' = "DONE"
      /\ sState = "LISTEN" => Serves' \/ sState' \in {"LISTEN", "DONE"}
      /\ sState = "DONE" => sState' = "DONE"
      /\ Offered' \subseteq Offered \cup {sDraw.conn_id}
      /\ Begins \/ Offered' \subseteq Offered
      /\ \A q \in toClient' : q \in toClient \/ q.conn_id = sDraw.conn_id
  BY <1>4, MovesKeepPlace
<1>8. /\ sDraw' = sDraw
      /\ out' = out \/ cConn.conn_id = sDraw.conn_id
      /\ \/ UNCHANGED <<sState, sConn>>
         \/ sState' = "DONE"
         \/ Serves' /\ (sState' = "HANDSHAKE" => sState = "LISTEN")
  BY <1>4 DEF ServerAdvances
<1> QED
  BY <1>3, <1>5, <1>6, <1>7, <1>8

\* A client that does nothing, and is sent nothing, keeps its part of the session.
LEMMA IdleKeepsSession ==
  ASSUME NEW w, ClientSession(w), UNCHANGED clientVars, UNCHANGED <<toServer, toClient>>,
         mishaps' \in 0 .. MaxMishaps
  PROVE  ClientSession(w)' /\ Offered' = Offered
<1> USE DEF ClientSession, clientVars
<1>1. NetTypeOK' /\ ClientTypeOK'
  BY DEF NetTypeOK, ClientTypeOK
<1>2. UNCHANGED <<FirstSeq, FinSeq>> /\ \A p : CarriesItsChunk(p) => CarriesItsChunk(p)'
  BY ChunksStay
<1>3. RequestsOK'
  BY RequestsGrow
<1>4. Offered' = Offered /\ BearsIdentifier'
  BY DEF Offered, BearsIdentifier, Transferring
<1>5. AnswersTell(w)' /\ IsPart(w)'
  BY <1>2, <1>4 DEF AnswersTell, Tells, IsPart
<1>6. ClientKnows(w)'
  BY <1>2 DEF ClientKnows, Transferring
<1> QED
  BY <1>1, <1>3, <1>4, <1>5, <1>6

\* So does it keep its place, if the server does nothing either.
LEMMA IdleKeepsPlace ==
  ASSUME UNCHANGED <<toClient, cConn, cDraw, input, sState, sConn, sDraw, out>>
  PROVE  /\ Serves' <=> Serves
         /\ PassesBy' <=> PassesBy
         /\ NotYetTold' <=> NotYetTold
         /\ ServerSession' <=> ServerSession
BY DEF Serves, PassesBy, NotYetTold, ServerSession, FirstSeq, Offered

\* A client starts its part of a session, with nothing written yet.
LEMMA ClientSessionStarts ==
  ASSUME NetInit, ClientInit
  PROVE  ClientSession(<< >>) /\ Offered = {} /\ cConn.conn_id = 0
<1>1. NetTypeOK /\ ClientTypeOK
  BY ClientInitTypes
<1>2. cConn.conn_id = 0 /\ cState = "CLOSED"
  BY DEF ClientInit, NoConnection
<1>3. RequestsOK /\ BearsIdentifier /\ AnswersTell(<< >>)
  BY <1>2 DEF NetInit, RequestsOK, BearsIdentifier, AnswersTell, Transferring
<1>4. IsPart(<< >>)
  BY <1>1, ClientNumbers DEF IsPart
<1>5. ClientKnows(<< >>)
  BY DEF ClientInit, ClientKnows, Transferring
<1>6. Offered = {}
  BY <1>2 DEF Offered, NetInit
<1> QED
  BY <1>1, <1>2, <1>3, <1>4, <1>5, <1>6 DEF ClientSession
=============================================================================
