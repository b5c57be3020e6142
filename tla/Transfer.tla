------------------------------ MODULE Transfer ------------------------------
(***************************************************************************)
(* One client and one server, started together, and the network between    *)
(* them: the whole program as its end-to-end tests run it.                 *)
(***************************************************************************)
EXTENDS Client, Server, SequencesExt

vars == <<netVars, clientVars, serverVars>>

Init == NetInit /\ ClientInit /\ ServerInit

\* What the client's code does.
ClientRuns ==
  \/ ClientCloses \/ ClientBlocks
  \/ TransferStarts \/ TransferEnds \/ TransferExpires \/ TransferTurns
  \/ Fill \/ FillEnds \/ FillFails \/ Retransmit \/ TransferBlocks
  \/ FinWaitSends
  \/ ClientStops \/ ClientExits

\* What a select of the client that timed out leads to.
ClientTimesOut ==
  \/ SynSentTimeout \/ TransferTimeout \/ FinWaitTimeout \/ TimeWaitTimeout
  \/ ClientExpires

\* What a packet that reaches the client leads to.
ClientHandles(p) ==
  \/ AcceptSynAck(p) \/ AckProgresses(p) \/ AckRepeats(p) \/ AcceptFinAck(p)
  \/ RepeatLastAck(p) \/ ClientIgnores(p)

ClientNext ==
  /\ \/ ClientRuns \/ ClientTimesOut
     \/ \E p \in toClient : ClientHandles(p)
     \/ \E from \in {"server", "other"} : ClientRejects(from)
     \/ TimerFires \/ ClientDeadline \/ ClientSignal
  /\ UNCHANGED serverVars

\* What the server's code does.
ServerRuns == ServerBlocks \/ ServerStops \/ ServerExits

\* What a select of the server that timed out leads to.
ServerTimesOut == ServerTimeout \/ LastAckTimeout \/ ServerExpires

\* What a packet that reaches the server leads to.
ServerHandles(p) ==
  \/ AcceptSyn(p) \/ RepeatSynAck(p) \/ AcceptHandshake(p) \/ AcceptFin(p)
  \/ AcceptData(p) \/ WriteFails(p) \/ RepeatAck(p) \/ RepeatFinAck(p)
  \/ AcceptLastAck(p) \/ ServerIgnores(p)

\* What the server does of its own, and what else its environment does to it.
ServerActs ==
  \/ ServerRuns \/ ServerTimesOut
  \/ \E from \in {"client", "other"} : ServerRejects(from)
  \/ ServerDeadline \/ ServerSignal

ServerNext ==
  /\ ServerActs \/ \E p \in toServer : ServerHandles(p)
  /\ UNCHANGED clientVars

Loss == Lose /\ UNCHANGED <<clientVars, serverVars>>

Next == ClientNext \/ ServerNext \/ Loss

Spec == Init /\ [][Next]_vars

-----------------------------------------------------------------------------
(* Fairness.  Code that can run does, a select returns when no packet comes, *)
(* and time passes.  The network may delay a packet but not for ever: when   *)
(* packets are in flight again and again, one is delivered unless Lose takes *)
(* it; and a DATA packet that is sent again and again comes through.         *)

\* The processes run, and their waits end.
ProcessFairness ==
  /\ WF_vars((ClientRuns \/ ClientTimesOut \/ TimerFires) /\ UNCHANGED serverVars)
  /\ WF_vars((ServerRuns \/ ServerTimesOut) /\ UNCHANGED clientVars)

\* A turn of the loop of handle_established does not take longer than
\* RETRANSMIT_INTERVAL_MS every time: the client does come to its select.
TurnsInTime == []<>(cState = "ESTABLISHED" => cPc = "select")

DeliverToServer(Packets) ==
  /\ \E p \in toServer : p \in Packets /\ ServerHandles(p)
  /\ UNCHANGED clientVars

DeliverToClient ==
  /\ \E p \in toClient : ClientHandles(p)
  /\ UNCHANGED serverVars

\* Seqs are the numbers the DATA packets of an instance can have.
NetworkFairness(Seqs) ==
  /\ SF_vars(DeliverToClient)
  /\ SF_vars(DeliverToServer(toServer))
  /\ \A seq \in Seqs : SF_vars(DeliverToServer({p \in toServer : p.seq_num = seq}))

\* TIMEOUT seconds of silence end.
WatchdogFairness ==
  /\ WF_vars(ClientDeadline /\ UNCHANGED serverVars)
  /\ WF_vars(ServerDeadline /\ UNCHANGED clientVars)

-----------------------------------------------------------------------------
(* Vocabulary of the properties                                            *)

\* The number of the first DATA packet, and of the FIN.
FirstSeq == cDraw + 1
FinSeq   == FirstSeq + Len(input)

\* Whether the client is inside the loop of handle_established.
Transferring ==
  cState = "ESTABLISHED" /\ cPc \in {"loop", "fill", "window", "select"}

ClientSucceeded == cPc = "exited" /\ cExit = EX_OK
ServerSucceeded == sPc = "exited" /\ sExit = EX_OK

\* A window so near to the end of the numbers that it counts as full although it
\* is empty: the client goes on waiting until TIMEOUT.
Stalled(w) == w.base + WINDOW_SIZE >= SeqSpace

\* The timer is set while a packet waits for its ACK, and only then, but for a
\* fast retransmission of nothing in a window that is stalled.
Timed(w) ==
  /\ w.timer = "off" => w.base = w.nextseqnum
  /\ w.base = w.nextseqnum => w.timer = "off" \/ Stalled(w)

-----------------------------------------------------------------------------
(* Safety                                                                  *)

\* Every variable has its type, in the network and in both processes.
TypeOK == NetTypeOK /\ ClientTypeOK /\ ServerTypeOK

\* The server writes the client's chunks in order, each once, whatever the
\* network loses, repeats and reorders (the acceptance test of
\* handle_established in server.c).
InOrderDelivery == IsPrefix(out, input)

\* A process that exits with EX_OK has transferred everything: the client
\* leaves TIME_WAIT, and the server LAST_ACK, only behind a FIN that closes
\* the whole stream.
HonestExit == ClientSucceeded \/ ServerSucceeded => out = input

\* Every packet the client still waits for is in the slot of its number, so
\* that a retransmission sends it and not one that has taken its place in the
\* cyclic buffer (window.c).
RingHoldsWindow ==
  Transferring =>
    \A seq \in InFlight(cWin) :
      LET slot == cWin.buffer[Index(seq)]
      IN  /\ slot.is_valid
          /\ slot.packet.flags = DATA
          /\ slot.packet.seq_num = seq
          /\ slot.packet.payload = input[seq - FirstSeq + 1]

\* The client frees a slot, and goes on to FIN, only when the server has
\* written the chunks it forgets: the ACKs are cumulative, and no ACK that is
\* late, repeated or of another phase passes for a newer one.
AckedIsWritten ==
  /\ Transferring => cWin.base <= FirstSeq + Len(out)
  /\ cState \in {"FIN_WAIT", "TIME_WAIT"} => out = input

\* The retransmission timer is set while a packet waits for its ACK, so that none
\* can be lost with nothing left to wake the client (handle_established), and
\* only then, but for a client stalled at the end of the numbers.
TimerTracksWindow == Transferring => Timed(cWin)

\* No two DATA packets carry different chunks under one number, even where the
\* numbers end: a late copy never passes for what a wrapped number would mean
\* (the sum in gbn_fill_and_send_window, window.c).
OneChunkPerNumber ==
  \A p, q \in toServer :
    p.flags = DATA /\ q.flags = DATA /\ p.seq_num = q.seq_num
      => p.payload = q.payload

\* The window never moves back, whatever ACK arrives (gbn_process_ack).
WindowAdvances ==
  [][Transferring /\ Transferring' => cWin'.base >= cWin.base]_vars

-----------------------------------------------------------------------------
(* Why it is safe: what every step relies on and keeps, in four parts.      *)

\* A packet that carries the chunk of its number.
CarriesItsChunk(p) ==
  /\ p.flags = DATA
  /\ p.seq_num \in FirstSeq .. FinSeq - 1
  /\ Inc(p.seq_num) = p.seq_num + 1
  /\ p.payload = input[p.seq_num - cDraw]

\* What the client may send, and what the server may.
IsRequest(p) ==
  /\ p.flags = SYN => p.seq_num = cDraw
  /\ p.flags = DATA => CarriesItsChunk(p)
  /\ p.flags = FIN => p.seq_num = FinSeq

\* What an answer says of what the server has written.
Tells(p, written) ==
  /\ p.flags = ACK => p.ack_num <= FirstSeq + Len(written)
  /\ p.flags = FINACK => written = input

IsReply(p) == Tells(p, out)

RequestsOK == \A p \in toServer : IsRequest(p)

RepliesOK == \A p \in toClient : IsReply(p)

\* Whether what is written is the first chunks of the stream.
IsPart(written) ==
  /\ Len(written) <= Len(input)
  /\ \A i \in 1 .. Len(written) : written[i] = input[i]

\* What the server has written, and what it waits for.
ServerOK ==
  /\ IsPart(out)
  /\ sState = "LISTEN" => out = << >>
  /\ sState = "HANDSHAKE" => out = << >> /\ sConn.ack_num = FirstSeq
  /\ sState = "ESTABLISHED" => sConn.ack_num = FirstSeq + Len(out)
  /\ sState = "LAST_ACK" => out = input
  /\ sState = "DONE" /\ sExit = EX_OK => out = input
  /\ sPc = "exited" => sState = "DONE"

\* What the client has sent, and what it knows of what the server has written.
ClientKnows(written) ==
  /\ cState \in {"CLOSED", "SYN_SENT"} => cRead = 0
  /\ cState = "SYN_SENT" => cConn.seq_num = cDraw
  /\ cState = "ESTABLISHED" => cConn.seq_num = FirstSeq
  /\ cState = "ESTABLISHED" /\ cPc = "step" => cRead = 0
  /\ cPc \in {"loop", "fill", "window"} => cState = "ESTABLISHED"
  /\ Transferring =>
       /\ cWin.nextseqnum = FirstSeq + cRead
       /\ cWin.base <= FirstSeq + Len(written)
       /\ cEof => cRead = Len(input)
       /\ \A i \in Slots :
            cWin.buffer[i].is_valid => CarriesItsChunk(cWin.buffer[i].packet)
  /\ cState = "FIN_WAIT" => cConn.seq_num = FinSeq
  /\ cState \in {"FIN_WAIT", "TIME_WAIT"} => written = input
  /\ cState = "DONE" /\ cExit = EX_OK => written = input
  /\ cPc = "exited" => cState = "DONE"

ClientOK == ClientKnows(out)

\* The inductive invariant of a session: the packets in flight and the two
\* processes agree on which number stands for which chunk.
SessionInv == TypeOK /\ RequestsOK /\ RepliesOK /\ ServerOK /\ ClientOK

\* A window that spans no more numbers than there are slots, each with its packet.
Ring(w) ==
  /\ w.base <= w.nextseqnum
  /\ w.nextseqnum <= w.base + WINDOW_SIZE
  /\ \A seq \in InFlight(w) :
       /\ w.buffer[Index(seq)].is_valid
       /\ w.buffer[Index(seq)].packet.seq_num = seq

\* Why the ring and the timer are right: the loop of handle_established keeps the
\* window such a ring, and waits only with a packet in flight, or stalled.
WindowOK ==
  Transferring =>
    /\ Ring(cWin)
    /\ Timed(cWin)
    /\ cPc = "window" => cEof \/ cWin.base < cWin.nextseqnum \/ Stalled(cWin)
    /\ cPc = "select" => cWin.base < cWin.nextseqnum \/ Stalled(cWin)

-----------------------------------------------------------------------------
(* The end of the stream, and who knows of it                              *)

\* The number after FIN, in a connection that is open.
AfterFin(conn_id, seq) ==
  conn_id # 0 /\ FinSeq \in SeqNum /\ seq = Inc(FinSeq)

\* The server has accepted FIN; the client has accepted FIN+ACK.
StreamClosed   == AfterFin(sConn.conn_id, sConn.ack_num)
CloseConfirmed == AfterFin(cConn.conn_id, cConn.seq_num)

\* The server leaves ESTABLISHED for LAST_ACK, and succeeds, only with the stream
\* closed, and answers FIN+ACK only then.
ServerKnowsEnd ==
  /\ sState = "LISTEN" => sConn.conn_id = 0
  /\ sState \in {"HANDSHAKE", "ESTABLISHED", "LAST_ACK"} => sConn.conn_id # 0
  /\ sState = "LAST_ACK" => StreamClosed
  /\ sState = "DONE" /\ sExit = EX_OK => StreamClosed
  /\ \A p \in toClient : p.flags = FINACK => StreamClosed

\* The client goes to TIME_WAIT, and succeeds, only with the end confirmed.
ClientKnowsEnd ==
  /\ cState \in {"CLOSED", "SYN_SENT"} => cConn.conn_id = 0
  /\ cState \in {"ESTABLISHED", "FIN_WAIT"} => cConn.conn_id # 0
  /\ cState = "TIME_WAIT" => CloseConfirmed
  /\ cState = "DONE" /\ cExit = EX_OK => CloseConfirmed

\* Success is reported on no way out of a session but those two.
EndIsKnown == ServerKnowsEnd /\ ClientKnowsEnd

\* What an end of the connection sends again is what the other end waits for, in
\* the handshake as in the closing: whichever of SYN, SYN+ACK, the ACK of it, FIN,
\* FIN+ACK and the last ACK was lost, its repetition bears the identifier and the
\* numbers that the handler of the peer's state asks for, the one exception being
\* FIN in HANDSHAKE (see ReliableDelivery).
RetriesFit ==
  /\ sState = "HANDSHAKE" /\ cState = "SYN_SENT" =>
       IsRepeatedSyn(Header(cConn, SYN)) /\ IsSynAck(Header(sConn, SYNACK))
  /\ sState = "HANDSHAKE" /\ cState = "ESTABLISHED" => AnswersSynAck(Header(cConn, ACK))
  /\ sState = "ESTABLISHED" /\ cState = "FIN_WAIT" => IsFin(Header(cConn, FIN))
  /\ sState = "LAST_ACK" /\ cState = "FIN_WAIT" =>
       /\ IsRepeatedFin(Header(cConn, FIN))
       /\ IsFinAck(Header(sConn, FINACK), Inc(cConn.seq_num))
  /\ sState = "LAST_ACK" /\ cState = "TIME_WAIT" =>
       /\ IsFinAck(Header(sConn, FINACK), cConn.seq_num)
       /\ IsLastAck(Header(cConn, ACK))

-----------------------------------------------------------------------------
(* Time                                                                    *)

\* A server whose TIMEOUT has passed without progress does not report success.
TimeoutIsFailure == sPc = "exited" /\ sExpired => sExit # EX_OK

-----------------------------------------------------------------------------
(* Liveness                                                                *)

\* The transfer succeeds: the client ends well, with everything delivered.
ReliableDelivery == <>(ClientSucceeded /\ out = input)

\* A stream that is not empty is delivered, in spite of losses and of any
\* order of arrival, by retransmission and by the implicit acceptance of the
\* handshake (handle_handshake in server.c).
DataDelivered == input # << >> => ReliableDelivery

\* Neither process hangs: whatever is lost, the watchdog ends them.
NoHang == <>[](cPc = "exited" /\ sPc = "exited")

-----------------------------------------------------------------------------
(* The transfer implements a reliable stream                               *)

Verdict(pc, code) ==
  IF pc # "exited" THEN "none" ELSE IF code = EX_OK THEN "success" ELSE "failure"

Stream ==
  INSTANCE ReliableStream WITH
    complete <- StreamClosed,
    told     <- CloseConfirmed,
    sender   <- Verdict(cPc, cExit),
    receiver <- Verdict(sPc, sExit)

\* The two processes and the network implement ReliableStream: the receiver
\* knows the end of the stream when it has accepted the FIN, the sender when
\* it has accepted the FIN+ACK.
ImplementsStream == Stream!Spec
=============================================================================
