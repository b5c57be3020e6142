-------------------------- MODULE IsolationProofs --------------------------
(***************************************************************************)
(* Several clients and several server processes at one address, in turn:   *)
(* no chunk of one session gets into another, and a client that succeeds   *)
(* has been served, if the clients draw different numbers.                 *)
(*                                                                         *)
(* What SessionProofs proves of the client of Transfer and its server      *)
(* holds of the rival too, which is that client under other names.         *)
(***************************************************************************)
EXTENDS Sessions, SessionProofs

RP ==
  INSTANCE SessionProofs WITH
    Inputs <- RivalInputs, ISN <- RivalISN,
    toServer <- rToServer, toClient <- rToClient,
    cState <- rState, cPc <- rPc, cConn <- rConn, cWin <- rWin, cEof <- rEof,
    cDup <- rDup, input <- rInput, cRead <- rRead, cAddr <- rAddr,
    cExpired <- rExpired, cStop <- rStop, cExit <- rExit, cDraw <- rDraw,
    sAddr <- SeenByRival(sAddr)

-----------------------------------------------------------------------------
(* The rival                                                               *)

\* The definitions that Sessions uses of the rival are those of SessionProofs.
LEMMA RivalIsAClient ==
  /\ Rival!ClientNext <=> RP!ClientNext
  /\ Rival!ServerActs <=> RP!ServerActs
  /\ \A p : Rival!ServerHandles(p) <=> RP!ServerHandles(p)
  /\ \A w : Rival!ClientSession(w) <=> RP!ClientSession(w)
  /\ \A w : Rival!ClientSession(w)' <=> RP!ClientSession(w)'
  /\ Rival!ClientSession(out)' <=> RP!ClientSession(out)'
  /\ Rival!Offered = RP!Offered /\ Rival!Offered' = RP!Offered'
  /\ Rival!Serves <=> RP!Serves
  /\ Rival!Serves' <=> RP!Serves'
  /\ Rival!PassesBy <=> RP!PassesBy
  /\ Rival!PassesBy' <=> RP!PassesBy'
  /\ Rival!NotYetTold <=> RP!NotYetTold
  /\ Rival!NotYetTold' <=> RP!NotYetTold'
  /\ Rival!ServerSession <=> RP!ServerSession
  /\ Rival!ServerSession' <=> RP!ServerSession'
  /\ Rival!NetTypeOK' <=> RP!NetTypeOK'
  /\ Rival!ClientInit <=> RP!ClientInit
<1> USE DEF
      Rival!ACK, RP!ACK, Rival!AcceptData, RP!AcceptData, Rival!AcceptFin, RP!AcceptFin,
      Rival!AcceptFinAck, RP!AcceptFinAck, Rival!AcceptHandshake, RP!AcceptHandshake,
      Rival!AcceptLastAck, RP!AcceptLastAck, Rival!AcceptSyn, RP!AcceptSyn,
      Rival!AcceptSynAck, RP!AcceptSynAck, Rival!AckInWindow, RP!AckInWindow,
      Rival!AckProgresses, RP!AckProgresses, Rival!AckRepeats, RP!AckRepeats, Rival!Acked,
      RP!Acked, Rival!AckedNew, RP!AckedNew, Rival!After, RP!After, Rival!AfterHandshake,
      RP!AfterHandshake, Rival!AnswersSynAck, RP!AnswersSynAck, Rival!AnswersTell,
      RP!AnswersTell, Rival!BearsIdentifier, RP!BearsIdentifier, Rival!CarriesItsChunk,
      RP!CarriesItsChunk, Rival!ClientBlocks, RP!ClientBlocks, Rival!ClientCloses,
      RP!ClientCloses, Rival!ClientDeadline, RP!ClientDeadline, Rival!ClientExits,
      RP!ClientExits, Rival!ClientExpires, RP!ClientExpires, Rival!ClientGoto,
      RP!ClientGoto, Rival!ClientHandles, RP!ClientHandles, Rival!ClientIgnores,
      RP!ClientIgnores, Rival!ClientInit, RP!ClientInit, Rival!ClientKnows, RP!ClientKnows,
      Rival!ClientNext, RP!ClientNext, Rival!ClientProgress, RP!ClientProgress,
      Rival!ClientQuit, RP!ClientQuit, Rival!ClientReceives, RP!ClientReceives,
      Rival!ClientRejects, RP!ClientRejects, Rival!ClientRuns, RP!ClientRuns,
      Rival!ClientSendThen, RP!ClientSendThen, Rival!ClientSendsSome, RP!ClientSendsSome,
      Rival!ClientSession, RP!ClientSession, Rival!ClientSignal, RP!ClientSignal,
      Rival!ClientState, RP!ClientState, Rival!ClientStep, RP!ClientStep, Rival!ClientStops,
      RP!ClientStops, Rival!ClientTimesOut, RP!ClientTimesOut, Rival!ClientTypeOK,
      RP!ClientTypeOK, Rival!ClientWaits, RP!ClientWaits, Rival!ConnectionState,
      RP!ConnectionState, Rival!ControlPackets, RP!ControlPackets, Rival!DATA, RP!DATA,
      Rival!DataPacket, RP!DataPacket, Rival!DataPackets, RP!DataPackets, Rival!Drained,
      RP!Drained, Rival!DupAckLimit, RP!DupAckLimit, Rival!EX_IOERR, RP!EX_IOERR,
      Rival!EX_OK, RP!EX_OK, Rival!EX_OSERR, RP!EX_OSERR, Rival!EX_PROTOCOL, RP!EX_PROTOCOL,
      Rival!EX_SOFTWARE, RP!EX_SOFTWARE, Rival!EmptySlot, RP!EmptySlot, Rival!ExitCode,
      RP!ExitCode, Rival!ExitCodes, RP!ExitCodes, Rival!FIN, RP!FIN, Rival!FINACK,
      RP!FINACK, Rival!Fill, RP!Fill, Rival!FillEnds, RP!FillEnds, Rival!FillFails,
      RP!FillFails, Rival!FinSeq, RP!FinSeq, Rival!FinWaitSends, RP!FinWaitSends,
      Rival!FinWaitTimeout, RP!FinWaitTimeout, Rival!FirstSeq, RP!FirstSeq,
      Rival!GBNSenderState, RP!GBNSenderState, Rival!Header, RP!Header, Rival!InFlight,
      RP!InFlight, Rival!Inc, RP!Inc, Rival!Index, RP!Index, Rival!IsAck, RP!IsAck,
      Rival!IsData, RP!IsData, Rival!IsExpected, RP!IsExpected, Rival!IsFin, RP!IsFin,
      Rival!IsFinAck, RP!IsFinAck, Rival!IsLastAck, RP!IsLastAck, Rival!IsPart, RP!IsPart,
      Rival!IsRepeatedFin, RP!IsRepeatedFin, Rival!IsRepeatedSyn, RP!IsRepeatedSyn,
      Rival!IsRequest, RP!IsRequest, Rival!IsSynAck, RP!IsSynAck, Rival!LastAckTimeout,
      RP!LastAckTimeout, Rival!Malformed, RP!Malformed, Rival!NetTypeOK, RP!NetTypeOK,
      Rival!NewWindow, RP!NewWindow, Rival!NextTurn, RP!NextTurn, Rival!NoConnection,
      RP!NoConnection, Rival!NotYetTold, RP!NotYetTold, Rival!OfSession, RP!OfSession,
      Rival!Offered, RP!Offered, Rival!Packet, RP!Packet, Rival!PassesBy, RP!PassesBy,
      Rival!ProgressCheck, RP!ProgressCheck, Rival!RepeatAck, RP!RepeatAck,
      Rival!RepeatFinAck, RP!RepeatFinAck, Rival!RepeatLastAck, RP!RepeatLastAck,
      Rival!RepeatSynAck, RP!RepeatSynAck, Rival!RequestsOK, RP!RequestsOK,
      Rival!Retransmit, RP!Retransmit, Rival!SYN, RP!SYN, Rival!SYNACK, RP!SYNACK,
      Rival!Sent, RP!Sent, Rival!SeqNum, RP!SeqNum, Rival!ServerActs, RP!ServerActs,
      Rival!ServerBlocks, RP!ServerBlocks, Rival!ServerDeadline, RP!ServerDeadline,
      Rival!ServerExits, RP!ServerExits, Rival!ServerExpires, RP!ServerExpires,
      Rival!ServerGoto, RP!ServerGoto, Rival!ServerHandles, RP!ServerHandles,
      Rival!ServerIgnores, RP!ServerIgnores, Rival!ServerProgress, RP!ServerProgress,
      Rival!ServerQuit, RP!ServerQuit, Rival!ServerReceives, RP!ServerReceives,
      Rival!ServerRejects, RP!ServerRejects, Rival!ServerRuns, RP!ServerRuns,
      Rival!ServerSendThen, RP!ServerSendThen, Rival!ServerSession, RP!ServerSession,
      Rival!ServerSignal, RP!ServerSignal, Rival!ServerState, RP!ServerState,
      Rival!ServerStops, RP!ServerStops, Rival!ServerTimeout, RP!ServerTimeout,
      Rival!ServerTimesOut, RP!ServerTimesOut, Rival!ServerWaits, RP!ServerWaits,
      Rival!Serves, RP!Serves, Rival!SessionTypeOK, RP!SessionTypeOK, Rival!SilenceCode,
      RP!SilenceCode, Rival!Slots, RP!Slots, Rival!SynSentTimeout, RP!SynSentTimeout,
      Rival!Tells, RP!Tells, Rival!TimeWaitTimeout, RP!TimeWaitTimeout, Rival!TimerAfterAck,
      RP!TimerAfterAck, Rival!TimerFires, RP!TimerFires, Rival!TransferBlocks,
      RP!TransferBlocks, Rival!TransferEnds, RP!TransferEnds, Rival!TransferExpires,
      RP!TransferExpires, Rival!TransferStarts, RP!TransferStarts, Rival!TransferTimeout,
      RP!TransferTimeout, Rival!TransferTurns, RP!TransferTurns, Rival!Transferring,
      RP!Transferring, Rival!Unacked, RP!Unacked, Rival!WindowFull, RP!WindowFull,
      Rival!WindowPacket, RP!WindowPacket, Rival!WriteFails, RP!WriteFails,
      Rival!clientVars, RP!clientVars, Rival!established, RP!established, Rival!gbn_fill,
      RP!gbn_fill, Rival!gbn_process_ack, RP!gbn_process_ack, Rival!netVars, RP!netVars,
      Rival!serverVars, RP!serverVars
<1> QED
  OBVIOUS


-----------------------------------------------------------------------------
(* What SessionProofs says of the rival                                    *)

\* The types of the server's variables name nothing of either client.
LEMMA SameSessionTypes ==
  /\ SessionTypeOK <=> RP!SessionTypeOK
  /\ SessionTypeOK' <=> RP!SessionTypeOK'
  /\ SeqNum = RP!SeqNum
BY DEF SessionTypeOK, RP!SessionTypeOK, ServerState, RP!ServerState, ConnectionState,
       RP!ConnectionState, SeqNum, RP!SeqNum, ExitCode, RP!ExitCode, EX_OK, RP!EX_OK,
       EX_SOFTWARE, RP!EX_SOFTWARE, EX_OSERR, RP!EX_OSERR, EX_IOERR, RP!EX_IOERR,
       EX_PROTOCOL, RP!EX_PROTOCOL

\* The rival's steps keep for it what the client's keep for the client.
LEMMA RivalStepKeeps ==
  ASSUME NEW w \in Seq(Chunk), Rival!ClientSession(w), Rival!ServerSession,
         Rival!NotYetTold, sDraw.conn_id # 0, \A p \in rToClient : p.conn_id # 0,
         Rival!ClientNext
  PROVE  /\ Rival!ClientSession(w)'
         /\ Rival!ServerSession' /\ Rival!NotYetTold'
         /\ Rival!Serves => Rival!Serves'
         /\ Rival!PassesBy => Rival!PassesBy'
         /\ Rival!Offered' \subseteq Rival!Offered
         /\ \/ rConn'.conn_id = rConn.conn_id
            \/ rConn.conn_id = 0 /\ \E p \in rToClient : rConn'.conn_id = p.conn_id
         /\ UNCHANGED RP!serverVars
         /\ rToClient' \subseteq rToClient
<1>1. /\ RP!ClientSession(w) /\ RP!ServerSession /\ RP!NotYetTold /\ RP!ClientNext
  BY RivalIsAClient
<1>2. /\ RP!ClientSession(w)'
      /\ RP!ServerSession' /\ RP!NotYetTold'
      /\ RP!Serves => RP!Serves'
      /\ RP!PassesBy => RP!PassesBy'
      /\ RP!Offered' \subseteq RP!Offered
      /\ \/ rConn'.conn_id = rConn.conn_id
         \/ rConn.conn_id = 0 /\ \E p \in rToClient : rConn'.conn_id = p.conn_id
      /\ UNCHANGED RP!serverVars
      /\ rToClient' \subseteq rToClient
  BY <1>1, RP!ClientStepKeeps, ChunkAssumption, SpaceAssumption, DrawAssumption,
     FaultAssumption, WindowAssumption, SessionsAssumption
  DEF FaultKinds, RP!FaultKinds
<1> QED
  BY <1>2, RivalIsAClient

\* The server's steps keep for the rival what they keep for the client.
LEMMA ServerStepKeepsRival ==
  ASSUME NEW v \in Seq(Chunk), Rival!ClientSession(v), SessionTypeOK,
         Rival!ServerSession, Rival!NotYetTold,
         sDraw.seq_num \in SeqNum, sDraw.conn_id \in Nat \ {0},
         Rival!Serves \/ Rival!PassesBy \/ sState \in {"LISTEN", "DONE"},
         rConn.conn_id = sDraw.conn_id => v = out,
         Rival!ServerActs \/ \E p \in rToServer : Rival!ServerHandles(p),
         UNCHANGED rival
  PROVE  /\ SessionTypeOK' /\ Rival!NetTypeOK'
         /\ rConn.conn_id = sDraw.conn_id => Rival!ClientSession(out)'
         /\ rConn.conn_id # sDraw.conn_id => Rival!ClientSession(v)'
         /\ Rival!ServerSession' /\ Rival!NotYetTold'
         /\ Rival!Serves => Rival!Serves' \/ sState' = "DONE"
         /\ Rival!PassesBy => Rival!PassesBy' \/ sState' = "DONE"
         /\ sState = "LISTEN" => Rival!Serves' \/ sState' \in {"LISTEN", "DONE"}
         /\ sState = "DONE" => sState' = "DONE"
         /\ Rival!Offered' \subseteq Rival!Offered \cup {sDraw.conn_id}
         /\ sState = "LISTEN" \/ Rival!Serves \/ Rival!Offered' \subseteq Rival!Offered
         /\ \A q \in rToClient' : q \in rToClient \/ q.conn_id = sDraw.conn_id
         /\ sDraw' = sDraw
         /\ out' = out \/ rConn.conn_id = sDraw.conn_id
         /\ \/ UNCHANGED <<sState, sConn>>
            \/ sState' = "DONE"
            \/ Rival!Serves' /\ (sState' = "HANDSHAKE" => sState = "LISTEN")
<1>1. /\ RP!ClientSession(v) /\ RP!SessionTypeOK /\ RP!ServerSession /\ RP!NotYetTold
      /\ sDraw.seq_num \in RP!SeqNum
      /\ RP!Serves \/ RP!PassesBy \/ sState \in {"LISTEN", "DONE"}
      /\ RP!ServerActs \/ \E p \in rToServer : RP!ServerHandles(p)
  BY RivalIsAClient, SameSessionTypes
<1>2. UNCHANGED RP!clientVars
  BY DEF rival, RP!clientVars, RP!established
<1>3. /\ RP!SessionTypeOK' /\ RP!NetTypeOK'
      /\ rConn.conn_id = sDraw.conn_id => RP!ClientSession(out)'
      /\ rConn.conn_id # sDraw.conn_id => RP!ClientSession(v)'
      /\ RP!ServerSession' /\ RP!NotYetTold'
      /\ RP!Serves => RP!Serves' \/ sState' = "DONE"
      /\ RP!PassesBy => RP!PassesBy' \/ sState' = "DONE"
      /\ sState = "LISTEN" => RP!Serves' \/ sState' \in {"LISTEN", "DONE"}
      /\ sState = "DONE" => sState' = "DONE"
      /\ RP!Offered' \subseteq RP!Offered \cup {sDraw.conn_id}
      /\ RP!Begins \/ RP!Offered' \subseteq RP!Offered
      /\ \A q \in rToClient' : q \in rToClient \/ q.conn_id = sDraw.conn_id
      /\ sDraw' = sDraw
      /\ out' = out \/ rConn.conn_id = sDraw.conn_id
      /\ \/ UNCHANGED <<sState, sConn>>
         \/ sState' = "DONE"
         \/ RP!Serves' /\ (sState' = "HANDSHAKE" => sState = "LISTEN")
  BY <1>1, <1>2, RP!ServerStepKeeps, ChunkAssumption, SpaceAssumption, DrawAssumption,
     FaultAssumption, WindowAssumption, SessionsAssumption
  DEF FaultKinds, RP!FaultKinds
<1>4. RP!Begins => sState = "LISTEN" \/ RP!Serves
  BY DEF RP!Begins
<1> QED
  BY <1>3, <1>4, RivalIsAClient, SameSessionTypes

\* A rival that does nothing keeps its part of the session, and its place.
LEMMA IdleRivalKeeps ==
  ASSUME NEW w, Rival!ClientSession(w), UNCHANGED rival, UNCHANGED rivalNet,
         mishaps' \in 0 .. MaxMishaps
  PROVE  Rival!ClientSession(w)' /\ Rival!Offered' = Rival!Offered
<1>1. UNCHANGED RP!clientVars /\ UNCHANGED <<rToServer, rToClient>>
  BY DEF rival, rivalNet, RP!clientVars, RP!established
<1>2. RP!ClientSession(w)
  BY RivalIsAClient
<1>3. RP!ClientSession(w)' /\ RP!Offered' = RP!Offered
  BY <1>1, <1>2, RP!IdleKeepsSession, ChunkAssumption, SpaceAssumption, DrawAssumption,
     FaultAssumption, WindowAssumption, SessionsAssumption
  DEF FaultKinds, RP!FaultKinds
<1> QED
  BY <1>3, RivalIsAClient

\* It keeps its place, too, as long as the server does nothing either.
LEMMA IdleRivalKeepsPlace ==
  ASSUME UNCHANGED <<rToClient, rConn, rDraw, rInput, sState, sConn, sDraw, out>>
  PROVE  /\ Rival!Serves' <=> Rival!Serves
         /\ Rival!PassesBy' <=> Rival!PassesBy
         /\ Rival!NotYetTold' <=> Rival!NotYetTold
         /\ Rival!ServerSession' <=> Rival!ServerSession
BY DEF Rival!Serves, Rival!PassesBy, Rival!NotYetTold, Rival!ServerSession,
       Rival!FirstSeq, Rival!Offered, Rival!SYNACK

\* The server is in a session under its own identifier, whoever asks.
LEMMA SameServerSession ==
  /\ ServerSession <=> Rival!ServerSession
  /\ ServerSession' <=> Rival!ServerSession'
BY DEF ServerSession, Rival!ServerSession

\* The server does not serve a client and pass by it.
LEMMA RivalServesOrPassesBy ==
  ASSUME sDraw.conn_id # 0
  PROVE  /\ ~(Rival!Serves /\ Rival!PassesBy)
         /\ sDraw' = sDraw => ~(Rival!Serves' /\ Rival!PassesBy')
BY DEF Rival!Serves, Rival!PassesBy, Rival!Offered

\* The rival starts its part of a session, with nothing written yet.
LEMMA RivalSessionStarts ==
  ASSUME rToServer = {}, rToClient = {}, mishaps = 0, Rival!ClientInit
  PROVE  Rival!ClientSession(<< >>) /\ Rival!Offered = {} /\ rConn.conn_id = 0
<1>1. RP!NetInit
  BY DEF RP!NetInit
<1>2. RP!ClientInit
  BY RivalIsAClient
<1>3. RP!ClientSession(<< >>) /\ RP!Offered = {} /\ rConn.conn_id = 0
  BY <1>1, <1>2, RP!ClientSessionStarts, ChunkAssumption, SpaceAssumption, DrawAssumption,
     FaultAssumption, WindowAssumption, SessionsAssumption
  DEF FaultKinds, RP!FaultKinds
<1> QED
  BY <1>3, RivalIsAClient

-----------------------------------------------------------------------------
(* What has been written, and for whom                                     *)

\* The numbers and identifiers that the steps rely on.
LEMMA SessionsNumbers ==
  ASSUME SessionsInv
  PROVE  /\ sDraw.seq_num \in SeqNum
         /\ sDraw.conn_id \in Nat \ {0}
         /\ Identifiers \subseteq Nat \ {0}
         /\ \A id : Written(id) \in Seq(Chunk)
         /\ \A id : id \notin Identifiers => Written(id) = << >>
         /\ \A p \in toClient \cup rToClient : p.conn_id # 0
<1> USE DEF SessionsInv, ServersTypeOK
<1>1. sDraw.seq_num \in SeqNum /\ sDraw.conn_id \in Nat \ {0}
  BY DrawAssumption, SpaceAssumption DEF SeqNum
<1>2. Identifiers \subseteq Nat \ {0}
  BY <1>1, DrawAssumption DEF Identifiers
<1>3. out \in Seq(Chunk) /\ << >> \in Seq(Chunk)
  BY DEF SessionTypeOK
<1>4. \A id \in DOMAIN earlier : earlier[id] \in Seq(Chunk)
  OBVIOUS
<1>5. \A id : Written(id) \in Seq(Chunk)
  BY <1>3, <1>4 DEF Written
<1>6. \A id : id \notin Identifiers => Written(id) = << >>
  BY DEF Written, Identifiers
<1>7. \A p \in toClient \cup rToClient : p.conn_id # 0
  BY <1>2 DEF OneOwner
<1> QED
  BY <1>1, <1>2, <1>5, <1>6, <1>7

\* The clients expect the server to start from different numbers.
LEMMA FirstNumbersDiffer ==
  ASSUME NumbersDiffer, NEW v, NEW w, ClientSession(v), Rival!ClientSession(w)
  PROVE  FirstSeq # Rival!FirstSeq
<1>1. cDraw \in Nat
  BY ClientNumbers DEF ClientSession, ClientTypeOK
<1>2. rDraw \in Nat
  BY SessionsAssumption DEF Rival!ClientSession, Rival!ClientTypeOK
<1> QED
  BY <1>1, <1>2 DEF NumbersDiffer, FirstSeq, Rival!FirstSeq

\* The client's part of its session after a step, in terms of what is written then.
LEMMA ClientSessionNext ==
  ASSUME NEW w, w = Written(cConn.conn_id)', ClientSession(w)'
  PROVE  ClientSession(Written(cConn.conn_id))'
BY DEF ClientSession, AnswersTell, Tells, IsPart, ClientKnows

\* And the rival's.
LEMMA RivalSessionNext ==
  ASSUME NEW w, w = Written(rConn.conn_id)', Rival!ClientSession(w)'
  PROVE  Rival!ClientSession(Written(rConn.conn_id))'
BY DEF Rival!ClientSession, Rival!AnswersTell, Rival!Tells, Rival!IsPart,
       Rival!ClientKnows

\* Nothing is written, and no server process started, unless the server acts.
LEMMA WrittenStays ==
  ASSUME UNCHANGED <<out, sDraw, earlier>>
  PROVE  /\ Identifiers' = Identifiers
         /\ \A id : Written(id)' = Written(id)
BY DEF Identifiers, Written

-----------------------------------------------------------------------------
(* The steps of the clients                                                *)

\* Whatever the client does.
LEMMA ClientStepsKeepInv ==
  ASSUME SessionsInv, ClientSteps
  PROVE  SessionsInv'
<1> USE DEF SessionsInv
<1>1. /\ ClientNext
      /\ UNCHANGED <<sState, sPc, sConn, out, sExpired, sStop, sExit, sDraw, earlier>>
      /\ UNCHANGED rivalNet /\ UNCHANGED rival
      /\ UNCHANGED <<rToClient, rConn, rDraw, rInput>>
  BY DEF ClientSteps, ClientNext, serverVars, rivalNet, rival
<1>2. PICK w : w = Written(cConn.conn_id)
  OBVIOUS
<1>3. PICK v : v = Written(rConn.conn_id)
  OBVIOUS
<1>4. /\ w \in Seq(Chunk) /\ ClientSession(w) /\ Rival!ClientSession(v)
      /\ sDraw.conn_id # 0
  BY <1>2, <1>3, SessionsNumbers
<1>5. /\ ClientSession(w)'
      /\ ServerSession' /\ NotYetTold'
      /\ Serves => Serves'
      /\ PassesBy => PassesBy'
      /\ Offered' \subseteq Offered
      /\ \/ cConn'.conn_id = cConn.conn_id
         \/ cConn.conn_id = 0 /\ \E p \in toClient : cConn'.conn_id = p.conn_id
      /\ toClient' \subseteq toClient
  BY <1>1, <1>4, SessionsNumbers, ClientStepKeeps DEF ServesOne
<1>6. /\ Identifiers' = Identifiers
      /\ \A id : Written(id)' = Written(id)
  BY <1>1, WrittenStays
<1>7. ServersTypeOK'
  BY <1>1 DEF ServersTypeOK, SessionTypeOK
<1>8. ClientSession(Written(cConn.conn_id))'
  <2>1. CASE cConn'.conn_id = cConn.conn_id
    BY <1>2, <1>5, <1>6, <2>1, ClientSessionNext
  <2>2. CASE cConn.conn_id = 0 /\ \E p \in toClient : cConn'.conn_id = p.conn_id
    <3>1. cConn'.conn_id # 0 /\ cConn'.conn_id \in Offered
      BY <1>5, <2>2, SessionsNumbers DEF Offered
    <3>2. cConn'.conn_id # rConn.conn_id /\ cConn'.conn_id # cConn.conn_id
      BY <2>2, <3>1 DEF OneOwner, Rival!Offered
    <3>3. Written(cConn'.conn_id) = << >>
      BY <3>2, SessionsNumbers DEF WrittenForOne
    <3>4. Written(cConn.conn_id) = << >>
      BY <2>2, SessionsNumbers
    <3> QED
      BY <1>2, <1>5, <1>6, <3>3, <3>4, ClientSessionNext
  <2> QED BY <1>5, <2>1, <2>2
<1>9. Rival!ClientSession(Written(rConn.conn_id))' /\ Rival!Offered' = Rival!Offered
  <2>1. mishaps' \in 0 .. MaxMishaps
    BY <1>5 DEF ClientSession, NetTypeOK
  <2>2. Rival!ClientSession(v)' /\ Rival!Offered' = Rival!Offered
    BY <1>1, <1>4, <2>1, IdleRivalKeeps
  <2> QED
    BY <1>1, <1>3, <1>6, <2>2, RivalSessionNext
<1>10. OneOwner'
  BY <1>1, <1>5, <1>6, <1>9 DEF OneOwner
<1>11. ServesOne'
  BY <1>1, <1>5, IdleRivalKeepsPlace DEF ServesOne
<1>12. WrittenForOne'
  BY <1>1, <1>5, <1>6, SessionsNumbers DEF WrittenForOne
<1> QED
  BY <1>7, <1>8, <1>9, <1>10, <1>11, <1>12

\* Whatever the rival does.
LEMMA RivalStepsKeepInv ==
  ASSUME SessionsInv, RivalSteps
  PROVE  SessionsInv'
<1> USE DEF SessionsInv
<1>1. Rival!ClientNext
  BY DEF RivalSteps
<1>2. PICK w : w = Written(rConn.conn_id)
  OBVIOUS
<1>3. PICK v : v = Written(cConn.conn_id)
  OBVIOUS
<1>4. /\ w \in Seq(Chunk) /\ Rival!ClientSession(w) /\ ClientSession(v)
      /\ sDraw.conn_id # 0
  BY <1>2, <1>3, SessionsNumbers
<1>5. /\ Rival!ClientSession(w)'
      /\ Rival!ServerSession' /\ Rival!NotYetTold'
      /\ Rival!Serves => Rival!Serves'
      /\ Rival!PassesBy => Rival!PassesBy'
      /\ Rival!Offered' \subseteq Rival!Offered
      /\ \/ rConn'.conn_id = rConn.conn_id
         \/ rConn.conn_id = 0 /\ \E p \in rToClient : rConn'.conn_id = p.conn_id
      /\ UNCHANGED RP!serverVars
      /\ rToClient' \subseteq rToClient
  BY <1>1, <1>4, SessionsNumbers, SameServerSession, RivalStepKeeps DEF ServesOne
<1>6. /\ UNCHANGED <<sState, sPc, sConn, out, sExpired, sStop, sExit, sDraw, earlier>>
      /\ UNCHANGED clientVars /\ UNCHANGED <<toServer, toClient>>
      /\ UNCHANGED <<cConn, cDraw, input>>
  BY <1>5 DEF RivalSteps, RP!serverVars, clientVars
<1>7. /\ Identifiers' = Identifiers
      /\ \A id : Written(id)' = Written(id)
  BY <1>6, WrittenStays
<1>8. ServersTypeOK'
  BY <1>6 DEF ServersTypeOK, SessionTypeOK
<1>9. Rival!ClientSession(Written(rConn.conn_id))'
  <2>1. CASE rConn'.conn_id = rConn.conn_id
    BY <1>2, <1>5, <1>7, <2>1, RivalSessionNext
  <2>2. CASE rConn.conn_id = 0 /\ \E p \in rToClient : rConn'.conn_id = p.conn_id
    <3>1. rConn'.conn_id # 0 /\ rConn'.conn_id \in Rival!Offered
      BY <1>5, <2>2, SessionsNumbers DEF Rival!Offered
    <3>2. rConn'.conn_id # rConn.conn_id /\ rConn'.conn_id # cConn.conn_id
      BY <2>2, <3>1 DEF OneOwner, Offered
    <3>3. Written(rConn'.conn_id) = << >>
      BY <3>2, SessionsNumbers DEF WrittenForOne
    <3>4. Written(rConn.conn_id) = << >>
      BY <2>2, SessionsNumbers
    <3> QED
      BY <1>2, <1>5, <1>7, <3>3, <3>4, RivalSessionNext
  <2> QED BY <1>5, <2>1, <2>2
<1>10. ClientSession(Written(cConn.conn_id))' /\ Offered' = Offered
  <2>1. mishaps' \in 0 .. MaxMishaps
    BY <1>5 DEF Rival!ClientSession, Rival!NetTypeOK
  <2>2. ClientSession(v)' /\ Offered' = Offered
    BY <1>4, <1>6, <2>1, IdleKeepsSession
  <2> QED
    BY <1>3, <1>6, <1>7, <2>2, ClientSessionNext
<1>11. OneOwner'
  BY <1>5, <1>6, <1>7, <1>10 DEF OneOwner
<1>12. ServesOne'
  BY <1>5, <1>6, IdleKeepsPlace, SameServerSession DEF ServesOne
<1>13. WrittenForOne'
  BY <1>5, <1>6, <1>7, SessionsNumbers DEF WrittenForOne
<1> QED
  BY <1>8, <1>9, <1>10, <1>11, <1>12, <1>13

-----------------------------------------------------------------------------
(* The steps of the server                                                 *)

\* Whatever the server does with the client, or on its own account.
LEMMA ServerStepsWithClientKeepInv ==
  ASSUME NumbersDiffer, SessionsInv, ServerStepsWithClient
  PROVE  SessionsInv'
<1> USE DEF SessionsInv
<1> DEFINE k == sDraw.conn_id
<1>1. /\ ServerActs \/ \E p \in toServer : ServerHandles(p)
      /\ UNCHANGED clientVars /\ UNCHANGED rivalNet /\ UNCHANGED rival
      /\ UNCHANGED <<earlier, cConn, cDraw, input, rToClient, rConn, rDraw, rInput>>
  BY DEF ServerStepsWithClient, clientVars, rivalNet, rival
<1>2. PICK v : v = Written(cConn.conn_id)
  OBVIOUS
<1>3. PICK w : w = Written(rConn.conn_id)
  OBVIOUS
<1>4. /\ v \in Seq(Chunk) /\ ClientSession(v) /\ Rival!ClientSession(w)
      /\ sDraw.seq_num \in SeqNum /\ k \in Nat \ {0}
      /\ cConn.conn_id = k => v = out
      /\ SessionTypeOK
  BY <1>2, <1>3, SessionsNumbers DEF Written, ServersTypeOK
<1>5. /\ SessionTypeOK' /\ NetTypeOK'
      /\ cConn.conn_id = k => ClientSession(out)'
      /\ cConn.conn_id # k => ClientSession(v)'
      /\ ServerSession' /\ NotYetTold'
      /\ Serves => Serves' \/ sState' = "DONE"
      /\ PassesBy => PassesBy' \/ sState' = "DONE"
      /\ sState = "LISTEN" => Serves' \/ sState' \in {"LISTEN", "DONE"}
      /\ sState = "DONE" => sState' = "DONE"
      /\ Offered' \subseteq Offered \cup {k}
      /\ sState = "LISTEN" \/ Serves \/ Offered' \subseteq Offered
      /\ \A q \in toClient' : q \in toClient \/ q.conn_id = k
      /\ sDraw' = sDraw
      /\ out' = out \/ cConn.conn_id = k
      /\ \/ UNCHANGED <<sState, sConn>>
         \/ sState' = "DONE"
         \/ Serves' /\ (sState' = "HANDSHAKE" => sState = "LISTEN")
  BY <1>1, <1>4, ServerStepKeeps DEF ServesOne, Begins
<1>6. /\ Identifiers' = Identifiers
      /\ Written(k)' = out'
      /\ \A id : id # k => Written(id)' = Written(id)
  BY <1>1, <1>5 DEF Identifiers, Written
<1>7. Rival!ClientSession(w)' /\ Rival!Offered' = Rival!Offered
  <2>1. mishaps' \in 0 .. MaxMishaps
    BY <1>5 DEF NetTypeOK
  <2> QED
    BY <1>1, <1>4, <2>1, IdleRivalKeeps
<1>8. ServersTypeOK'
  BY <1>1, <1>5 DEF ServersTypeOK
<1>9. ClientSession(Written(cConn.conn_id))'
  <2>1. CASE cConn.conn_id = k
    <3>1. PICK u : u = out'
      OBVIOUS
    <3>2. ClientSession(u)'
      BY <1>5, <2>1, <3>1 DEF ClientSession, AnswersTell, Tells, IsPart, ClientKnows
    <3>3. u = Written(cConn.conn_id)'
      BY <1>1, <1>5, <1>6, <2>1, <3>1
    <3> QED
      BY <3>2, <3>3, ClientSessionNext
  <2>2. CASE cConn.conn_id # k
    BY <1>1, <1>2, <1>5, <1>6, <2>2, ClientSessionNext
  <2> QED BY <2>1, <2>2
<1>10. cConn.conn_id = k => rConn.conn_id # k
  BY <1>4 DEF OneOwner, Offered, Rival!Offered
<1>11. Rival!ClientSession(Written(rConn.conn_id))'
  <2>1. Written(rConn.conn_id)' = w
    <3>1. rConn.conn_id = k => out' = out /\ w = out
      BY <1>3, <1>5, <1>10 DEF Written
    <3> QED
      BY <1>1, <1>3, <1>5, <1>6, <3>1
  <2> QED
    BY <1>7, <2>1, RivalSessionNext
<1>12. sState = "LISTEN" \/ Serves => k \notin Rival!Offered
  <2>1. CASE sState = "LISTEN"
    BY <1>4, <2>1 DEF ServesOne, Rival!NotYetTold, Rival!Offered
  <2>2. CASE Serves
    <3>1. ~PassesBy
      BY <1>4, <2>2, ServesOrPassesBy
    <3>2. sState \notin {"LISTEN", "DONE"}
      BY <2>2 DEF Serves
    <3> QED
      BY <2>2, <3>1, <3>2 DEF ServesOne, Rival!PassesBy
  <2> QED BY <2>1, <2>2
<1>13. OneOwner'
  <2>1. Offered' \cap Rival!Offered' = {}
    BY <1>5, <1>7, <1>12 DEF OneOwner
  <2>2. k \in Identifiers
    BY DEF Identifiers
  <2> QED
    BY <1>1, <1>5, <1>6, <2>1, <2>2 DEF OneOwner
<1>14. ServesOne'
  <2>1. Rival!NotYetTold'
    <3>1. /\ sState' = "LISTEN" => sState = "LISTEN"
          /\ sState' = "HANDSHAKE" => sState \in {"LISTEN", "HANDSHAKE"}
      BY <1>5 DEF Serves
    <3> QED
      BY <1>1, <1>5, <3>1 DEF ServesOne, Rival!NotYetTold
  <2>2. ASSUME Serves', k \notin Rival!Offered
        PROVE  Rival!PassesBy'
    <3>1. FirstSeq' = FirstSeq /\ Rival!FirstSeq' = Rival!FirstSeq
      BY <1>1 DEF FirstSeq, Rival!FirstSeq
    <3>2. FirstSeq # Rival!FirstSeq
      BY <1>4, FirstNumbersDiffer
    <3> QED
      BY <1>5, <1>7, <2>2, <3>1, <3>2 DEF Serves, Rival!PassesBy
  <2>3. CASE sState = "LISTEN"
    BY <1>5, <1>12, <2>1, <2>2, <2>3 DEF ServesOne
  <2>4. CASE sState = "DONE"
    BY <1>5, <2>1, <2>4 DEF ServesOne
  <2>5. CASE Serves /\ Rival!PassesBy
    BY <1>5, <1>12, <2>1, <2>2, <2>5 DEF ServesOne
  <2>6. CASE Rival!Serves /\ PassesBy
    <3>1. PassesBy' \/ sState' = "DONE"
      BY <1>5, <2>6
    <3>2. CASE sState' = "DONE"
      BY <1>5, <2>1, <3>2 DEF ServesOne
    <3>3. CASE PassesBy' /\ sState' # "DONE"
      <4>1. ~Serves'
        BY <1>4, <1>5, <3>3, ServesOrPassesBy
      <4>2. UNCHANGED <<sState, sConn>>
        BY <1>5, <3>3, <4>1
      <4>3. out' = out
        BY <1>4, <1>5, <2>6 DEF PassesBy, Offered
      <4>4. Rival!Serves'
        BY <1>1, <1>5, <2>6, <4>2, <4>3, IdleRivalKeepsPlace
      <4> QED
        BY <1>5, <2>1, <3>3, <4>4 DEF ServesOne
    <3> QED BY <3>1, <3>2, <3>3
  <2> QED
    BY <2>3, <2>4, <2>5, <2>6 DEF ServesOne
<1>15. WrittenForOne'
  BY <1>1, <1>5, <1>6 DEF WrittenForOne, Written
<1> QED
  BY <1>8, <1>9, <1>11, <1>13, <1>14, <1>15

\* Whatever the server does with the rival.
LEMMA ServerStepsWithRivalKeepInv ==
  ASSUME NumbersDiffer, SessionsInv, ServerStepsWithRival
  PROVE  SessionsInv'
<1> USE DEF SessionsInv
<1> DEFINE k == sDraw.conn_id
<1>1. /\ Rival!ServerActs \/ \E p \in rToServer : Rival!ServerHandles(p)
      /\ UNCHANGED clientVars /\ UNCHANGED <<toServer, toClient>> /\ UNCHANGED rival
      /\ UNCHANGED <<earlier, rConn, rDraw, rInput, toClient, cConn, cDraw, input>>
  BY DEF ServerStepsWithRival, clientVars, rival
<1>2. PICK v : v = Written(rConn.conn_id)
  OBVIOUS
<1>3. PICK w : w = Written(cConn.conn_id)
  OBVIOUS
<1>4. /\ v \in Seq(Chunk) /\ Rival!ClientSession(v) /\ ClientSession(w)
      /\ sDraw.seq_num \in SeqNum /\ k \in Nat \ {0}
      /\ rConn.conn_id = k => v = out
      /\ SessionTypeOK
  BY <1>2, <1>3, SessionsNumbers DEF Written, ServersTypeOK
<1>5. /\ SessionTypeOK' /\ Rival!NetTypeOK'
      /\ rConn.conn_id = k => Rival!ClientSession(out)'
      /\ rConn.conn_id # k => Rival!ClientSession(v)'
      /\ Rival!ServerSession' /\ Rival!NotYetTold'
      /\ Rival!Serves => Rival!Serves' \/ sState' = "DONE"
      /\ Rival!PassesBy => Rival!PassesBy' \/ sState' = "DONE"
      /\ sState = "LISTEN" => Rival!Serves' \/ sState' \in {"LISTEN", "DONE"}
      /\ sState = "DONE" => sState' = "DONE"
      /\ Rival!Offered' \subseteq Rival!Offered \cup {k}
      /\ sState = "LISTEN" \/ Rival!Serves \/ Rival!Offered' \subseteq Rival!Offered
      /\ \A q \in rToClient' : q \in rToClient \/ q.conn_id = k
      /\ sDraw' = sDraw
      /\ out' = out \/ rConn.conn_id = k
      /\ \/ UNCHANGED <<sState, sConn>>
         \/ sState' = "DONE"
         \/ Rival!Serves' /\ (sState' = "HANDSHAKE" => sState = "LISTEN")
  BY <1>1, <1>4, ServerStepKeepsRival, SameServerSession DEF ServesOne
<1>6. /\ Identifiers' = Identifiers
      /\ Written(k)' = out'
      /\ \A id : id # k => Written(id)' = Written(id)
  BY <1>1, <1>5 DEF Identifiers, Written
<1>7. ClientSession(w)' /\ Offered' = Offered
  <2>1. mishaps' \in 0 .. MaxMishaps
    BY <1>5 DEF Rival!NetTypeOK
  <2> QED
    BY <1>1, <1>4, <2>1, IdleKeepsSession
<1>8. ServersTypeOK'
  BY <1>1, <1>5 DEF ServersTypeOK
<1>9. Rival!ClientSession(Written(rConn.conn_id))'
  <2>1. CASE rConn.conn_id = k
    <3>1. PICK u : u = out'
      OBVIOUS
    <3>2. Rival!ClientSession(u)'
      BY <1>5, <2>1, <3>1
      DEF Rival!ClientSession, Rival!AnswersTell, Rival!Tells, Rival!IsPart,
          Rival!ClientKnows
    <3>3. u = Written(rConn.conn_id)'
      BY <1>1, <1>5, <1>6, <2>1, <3>1
    <3> QED
      BY <3>2, <3>3, RivalSessionNext
  <2>2. CASE rConn.conn_id # k
    BY <1>1, <1>2, <1>5, <1>6, <2>2, RivalSessionNext
  <2> QED BY <2>1, <2>2
<1>10. rConn.conn_id = k => cConn.conn_id # k
  BY <1>4 DEF OneOwner, Offered, Rival!Offered
<1>11. ClientSession(Written(cConn.conn_id))'
  <2>1. Written(cConn.conn_id)' = w
    <3>1. cConn.conn_id = k => out' = out /\ w = out
      BY <1>3, <1>5, <1>10 DEF Written
    <3> QED
      BY <1>1, <1>3, <1>5, <1>6, <3>1
  <2> QED
    BY <1>7, <2>1, ClientSessionNext
<1>12. sState = "LISTEN" \/ Rival!Serves => k \notin Offered
  <2>1. CASE sState = "LISTEN"
    BY <1>4, <2>1 DEF ServesOne, NotYetTold, Offered
  <2>2. CASE Rival!Serves
    <3>1. ~Rival!PassesBy
      BY <1>4, <2>2, RivalServesOrPassesBy
    <3>2. sState \notin {"LISTEN", "DONE"}
      BY <2>2 DEF Rival!Serves
    <3> QED
      BY <2>2, <3>1, <3>2 DEF ServesOne, PassesBy
  <2> QED BY <2>1, <2>2
<1>13. OneOwner'
  <2>1. Offered' \cap Rival!Offered' = {}
    BY <1>5, <1>7, <1>12 DEF OneOwner
  <2>2. k \in Identifiers
    BY DEF Identifiers
  <2> QED
    BY <1>1, <1>5, <1>6, <2>1, <2>2 DEF OneOwner
<1>14. ServesOne'
  <2>1. NotYetTold' /\ ServerSession'
    <3>1. /\ sState' = "LISTEN" => sState = "LISTEN"
          /\ sState' = "HANDSHAKE" => sState \in {"LISTEN", "HANDSHAKE"}
      BY <1>5 DEF Rival!Serves
    <3> QED
      BY <1>1, <1>5, <3>1, SameServerSession DEF ServesOne, NotYetTold
  <2>2. ASSUME Rival!Serves', k \notin Offered
        PROVE  PassesBy'
    <3>1. FirstSeq' = FirstSeq /\ Rival!FirstSeq' = Rival!FirstSeq
      BY <1>1 DEF FirstSeq, Rival!FirstSeq
    <3>2. FirstSeq # Rival!FirstSeq
      BY <1>4, FirstNumbersDiffer
    <3> QED
      BY <1>5, <1>7, <2>2, <3>1, <3>2 DEF Rival!Serves, PassesBy
  <2>3. CASE sState = "LISTEN"
    BY <1>5, <1>12, <2>1, <2>2, <2>3 DEF ServesOne
  <2>4. CASE sState = "DONE"
    BY <1>5, <2>1, <2>4 DEF ServesOne
  <2>5. CASE Rival!Serves /\ PassesBy
    BY <1>5, <1>12, <2>1, <2>2, <2>5 DEF ServesOne
  <2>6. CASE Serves /\ Rival!PassesBy
    <3>1. Rival!PassesBy' \/ sState' = "DONE"
      BY <1>5, <2>6
    <3>2. CASE sState' = "DONE"
      BY <1>5, <2>1, <3>2 DEF ServesOne
    <3>3. CASE Rival!PassesBy' /\ sState' # "DONE"
      <4>1. ~Rival!Serves'
        BY <1>4, <1>5, <3>3, RivalServesOrPassesBy
      <4>2. UNCHANGED <<sState, sConn>>
        BY <1>5, <3>3, <4>1
      <4>3. out' = out
        BY <1>4, <1>5, <2>6 DEF Rival!PassesBy, Rival!Offered
      <4>4. Serves'
        BY <1>1, <1>5, <2>6, <4>2, <4>3, IdleKeepsPlace
      <4> QED
        BY <1>5, <2>1, <3>3, <4>4 DEF ServesOne
    <3> QED BY <3>1, <3>2, <3>3
  <2> QED
    BY <2>3, <2>4, <2>5, <2>6 DEF ServesOne
<1>15. WrittenForOne'
  BY <1>1, <1>5, <1>6 DEF WrittenForOne, Written
<1> QED
  BY <1>8, <1>9, <1>11, <1>13, <1>14, <1>15

\* A server process that is started anew finds nobody in its debt: its identifier
\* is not out yet.
LEMMA ServerStartsAnewKeepsInv ==
  ASSUME SessionsInv, ServerStartsAnew
  PROVE  SessionsInv'
<1> USE DEF SessionsInv
<1>1. /\ UNCHANGED clientVars /\ UNCHANGED <<toServer, toClient>>
      /\ UNCHANGED rival /\ UNCHANGED rivalNet
      /\ UNCHANGED <<mishaps, cConn, rConn, rToClient>>
      /\ sState' = "LISTEN" /\ out' = << >>
      /\ sDraw'.conn_id \in ConnId \ Identifiers
  BY DEF ServerStartsAnew, ServerStarts, netVars, clientVars, rival, rivalNet
<1>2. earlier' = [id \in Identifiers |-> Written(id)]
  BY DEF ServerStartsAnew, ServerStarts
<1>3. /\ Identifiers' = Identifiers \cup {sDraw'.conn_id}
      /\ \A id : Written(id)' = Written(id)
  <2>1. Identifiers' = Identifiers \cup {sDraw'.conn_id}
    BY <1>2 DEF Identifiers
  <2>2. ASSUME NEW id PROVE Written(id)' = Written(id)
    <3>1. CASE id \in Identifiers
      BY <1>1, <1>2, <3>1 DEF Written
    <3>2. CASE id \notin Identifiers
      <4>1. Written(id) = << >>
        BY <3>2, SessionsNumbers
      <4>2. Written(id)' = << >>
        BY <1>1, <1>2, <3>2 DEF Written
      <4> QED BY <4>1, <4>2
    <3> QED BY <3>1, <3>2
  <2> QED BY <2>1, <2>2
<1>4. sDraw'.conn_id # 0
  BY <1>1, DrawAssumption
<1>5. PICK v : v = Written(cConn.conn_id)
  OBVIOUS
<1>6. PICK w : w = Written(rConn.conn_id)
  OBVIOUS
<1>7. mishaps' \in 0 .. MaxMishaps
  BY <1>1 DEF ClientSession, NetTypeOK
<1>8. ClientSession(v)' /\ Offered' = Offered
  BY <1>1, <1>5, <1>7, IdleKeepsSession
<1>9. Rival!ClientSession(w)' /\ Rival!Offered' = Rival!Offered
  BY <1>1, <1>6, <1>7, IdleRivalKeeps
<1>10. ClientSession(Written(cConn.conn_id))'
  BY <1>1, <1>3, <1>5, <1>8, ClientSessionNext
<1>11. Rival!ClientSession(Written(rConn.conn_id))'
  BY <1>1, <1>3, <1>6, <1>9, RivalSessionNext
<1>12. ServersTypeOK'
  <2>1. SessionTypeOK'
    <3>1. NoConnection \in ConnectionState
      BY Numbers DEF NoConnection, ConnectionState
    <3>2. << >> \in Seq(Chunk)
      OBVIOUS
    <3> QED
      BY <3>1, <3>2 DEF ServerStartsAnew, ServerStarts, SessionTypeOK, ServerState, ExitCode
  <2>2. sDraw' \in [seq_num : ISN, conn_id : ConnId]
    BY DEF ServerStartsAnew, ServerStarts
  <2>3. earlier' \in [DOMAIN earlier' -> Seq(Chunk)] /\ DOMAIN earlier' = Identifiers
    BY <1>2, SessionsNumbers
  <2>4. Identifiers \subseteq ConnId
    BY DEF Identifiers, ServersTypeOK
  <2> QED
    BY <1>1, <2>1, <2>2, <2>3, <2>4 DEF ServersTypeOK
<1>13. OneOwner'
  BY <1>1, <1>3, <1>8, <1>9 DEF OneOwner
<1>14. ServesOne'
  <2>1. ServerSession' /\ NotYetTold' /\ Rival!NotYetTold'
    BY <1>1, <1>4 DEF OneOwner, ServerSession, NotYetTold, Rival!NotYetTold
  <2> QED
    BY <1>1, <2>1 DEF ServesOne
<1>15. WrittenForOne'
  BY <1>1, <1>3, SessionsNumbers DEF WrittenForOne
<1> QED
  BY <1>10, <1>11, <1>12, <1>13, <1>14, <1>15

-----------------------------------------------------------------------------
(* The invariant, and what follows from it                                 *)

\* The sessions start with nobody served.
LEMMA InitSessions ==
  ASSUME SessionsInit
  PROVE  SessionsInv
<1> USE DEF SessionsInit
<1>1. ClientSession(<< >>) /\ Offered = {} /\ cConn.conn_id = 0
  BY ClientSessionStarts DEF Init
<1>2. Rival!ClientSession(<< >>) /\ Rival!Offered = {} /\ rConn.conn_id = 0
  BY RivalSessionStarts DEF Init, NetInit
<1>3. TypeOK
  BY InitTypes
<1>4. sState = "LISTEN" /\ out = << >> /\ toClient = {} /\ rToClient = {}
      /\ sDraw \in [seq_num : ISN, conn_id : ConnId]
      /\ DOMAIN earlier = {}
  BY DEF Init, NetInit, ServerInit
<1>5. sDraw.conn_id # 0
  BY <1>4, DrawAssumption
<1>6. \A id : Written(id) = << >>
  BY <1>4 DEF Written
<1>7. ServersTypeOK
  <2>1. SessionTypeOK
    BY <1>3 DEF TypeOK, ServerTypeOK
  <2>2. earlier \in [DOMAIN earlier -> Seq(Chunk)]
    BY <1>4
  <2> QED
    BY <1>4, <2>1, <2>2 DEF ServersTypeOK
<1>8. ClientSession(Written(cConn.conn_id))
  BY <1>1, <1>6
<1>9. Rival!ClientSession(Written(rConn.conn_id))
  BY <1>2, <1>6
<1>10. OneOwner /\ WrittenForOne
  BY <1>1, <1>2, <1>4, <1>6 DEF OneOwner, WrittenForOne
<1>11. ServesOne
  BY <1>1, <1>2, <1>4, <1>5 DEF ServesOne, ServerSession, NotYetTold, Rival!NotYetTold
<1> QED
  BY <1>7, <1>8, <1>9, <1>10, <1>11 DEF SessionsInv

\* The clients draw their numbers once.
LEMMA DrawsStay ==
  ASSUME [SessionsNext]_sessionVars
  PROVE  cDraw' = cDraw /\ rDraw' = rDraw
<1>1. CASE ClientSteps
  BY <1>1, ClientLeaves DEF ClientSteps, rival
<1>2. CASE RivalSteps
  <2>1. RP!ClientNext
    BY <1>2, RivalIsAClient DEF RivalSteps
  <2>2. rDraw' = rDraw
    BY <2>1, RP!ClientLeaves, ChunkAssumption, SpaceAssumption, DrawAssumption,
       FaultAssumption, WindowAssumption, SessionsAssumption
    DEF FaultKinds, RP!FaultKinds
  <2> QED BY <1>2, <2>2 DEF RivalSteps, clientVars
<1>3. CASE ServerStepsWithClient \/ ServerStepsWithRival \/ ServerStartsAnew
  BY <1>3
  DEF ServerStepsWithClient, ServerStepsWithRival, ServerStartsAnew, ServerStarts,
      clientVars, rival
<1>4. CASE UNCHANGED sessionVars
  BY <1>4 DEF sessionVars, vars, clientVars, rival
<1> QED
  BY <1>1, <1>2, <1>3, <1>4 DEF SessionsNext

\* Every step keeps every session apart from the others.
LEMMA NextSessions ==
  ASSUME NumbersDiffer, SessionsInv, [SessionsNext]_sessionVars
  PROVE  SessionsInv'
<1>1. CASE UNCHANGED sessionVars
  <2>1. /\ UNCHANGED clientVars /\ UNCHANGED <<toServer, toClient>>
        /\ UNCHANGED rival /\ UNCHANGED rivalNet
        /\ UNCHANGED <<mishaps, cConn, rConn, cDraw, rDraw, input, rInput, rToClient, earlier,
                       sState, sPc, sConn, out, sExpired, sStop, sExit, sDraw>>
    BY <1>1
    DEF sessionVars, vars, netVars, clientVars, serverVars, rival, rivalNet
  <2>2. PICK v : v = Written(cConn.conn_id)
    OBVIOUS
  <2>3. PICK w : w = Written(rConn.conn_id)
    OBVIOUS
  <2>4. ClientSession(v) /\ Rival!ClientSession(w) /\ mishaps' \in 0 .. MaxMishaps
    BY <2>1, <2>2, <2>3 DEF SessionsInv, ClientSession, NetTypeOK
  <2>5. /\ Identifiers' = Identifiers
        /\ \A id : Written(id)' = Written(id)
    BY <2>1, WrittenStays
  <2>6. ClientSession(v)' /\ Offered' = Offered
    BY <2>1, <2>4, IdleKeepsSession
  <2>7. Rival!ClientSession(w)' /\ Rival!Offered' = Rival!Offered
    BY <2>1, <2>4, IdleRivalKeeps
  <2>8. ClientSession(Written(cConn.conn_id))'
    BY <2>1, <2>2, <2>5, <2>6, ClientSessionNext
  <2>9. Rival!ClientSession(Written(rConn.conn_id))'
    BY <2>1, <2>3, <2>5, <2>7, RivalSessionNext
  <2>10. ServersTypeOK'
    BY <2>1 DEF SessionsInv, ServersTypeOK, SessionTypeOK
  <2>11. OneOwner' /\ WrittenForOne'
    BY <2>1, <2>5, <2>6, <2>7 DEF SessionsInv, OneOwner, WrittenForOne
  <2>12. ServesOne'
    BY <2>1, IdleKeepsPlace, IdleRivalKeepsPlace DEF SessionsInv, ServesOne
  <2> QED
    BY <2>8, <2>9, <2>10, <2>11, <2>12 DEF SessionsInv
<1> QED
  BY <1>1, ClientStepsKeepInv, RivalStepsKeepInv, ServerStepsWithClientKeepInv,
     ServerStepsWithRivalKeepInv, ServerStartsAnewKeepsInv DEF SessionsNext

\* Clients that draw different numbers are served in sessions of their own, each
\* with what its server process has written (conn_id in client.c and server.c).
THEOREM SessionsAreApart == SessionsSpec => [](NumbersDiffer => SessionsInv)
<1>1. SessionsInit => (NumbersDiffer => SessionsInv)
  BY InitSessions
<1>2. (NumbersDiffer => SessionsInv) /\ [SessionsNext]_sessionVars
        => (NumbersDiffer => SessionsInv)'
  BY DrawsStay, NextSessions DEF NumbersDiffer
<1> QED
  BY <1>1, <1>2, PTL DEF SessionsSpec

\* What a server process writes is part of one stream.
THEOREM OutputsAreOfOneSession == SessionsSpec => [](NumbersDiffer => OneSession)
<1>1. ASSUME SessionsInv PROVE OneSession
  <2> SUFFICES ASSUME NEW id \in Identifiers
               PROVE  \/ IsPrefix(Written(id), input)
                      \/ IsPrefix(Written(id), rInput)
    BY DEF OneSession, Outputs
  <2>1. PICK w : w = Written(id)
    OBVIOUS
  <2>2. w \in Seq(Chunk) /\ input \in Seq(Chunk) /\ rInput \in Seq(Chunk)
    <3>1. RP!ClientTypeOK
      BY <1>1, RivalIsAClient DEF SessionsInv, RP!ClientSession
    <3>2. rInput \in Seq(Chunk)
      BY <3>1, SessionsAssumption DEF RP!ClientTypeOK
    <3> QED
      BY <1>1, <2>1, <3>2, InputType, SessionsNumbers DEF SessionsInv, ClientSession
  <2>3. w = << >> \/ IsPart(w) \/ Rival!IsPart(w)
    BY <1>1, <2>1
    DEF SessionsInv, WrittenForOne, ClientSession, Rival!ClientSession
  <2>4. ASSUME NEW s \in Seq(Chunk), Len(w) <= Len(s), \A i \in 1 .. Len(w) : w[i] = s[i]
        PROVE  IsPrefix(w, s)
    <3>1. SubSeq(s, 1, Len(w)) = [i \in 1 .. Len(w) |-> s[i]]
      BY <2>2, <2>4
    <3>2. SubSeq(s, 1, Len(w)) = w
      BY <2>2, <2>4, <3>1
    <3> QED
      BY <2>2, <2>4, <3>2 DEF IsPrefix
  <2>5. w = << >> => IsPrefix(w, input)
    BY <2>2, <2>4
  <2> QED
    BY <2>1, <2>2, <2>3, <2>4, <2>5 DEF IsPart, Rival!IsPart
<1> QED
  BY <1>1, SessionsAreApart, PTL

\* A client that exits with EX_OK has had its stream written whole.
THEOREM SuccessIsServed == SessionsSpec => [](NumbersDiffer => EachIsServed)
<1>1. ASSUME SessionsInv PROVE EachIsServed
  <2>1. ASSUME ClientSucceeded PROVE input \in Outputs
    <3>1. /\ cState = "DONE" /\ cExit = EX_OK /\ cConn.conn_id # 0
          /\ Written(cConn.conn_id) = input
      BY <1>1, <2>1
      DEF SessionsInv, ClientSession, ClientKnows, BearsIdentifier, ClientSucceeded
    <3>2. cConn.conn_id \in Identifiers
      BY <1>1, <3>1 DEF SessionsInv, OneOwner
    <3> QED BY <3>1, <3>2 DEF Outputs
  <2>2. ASSUME RivalSucceeded PROVE rInput \in Outputs
    <3>1. /\ rState = "DONE" /\ rExit = EX_OK /\ rConn.conn_id # 0
          /\ Written(rConn.conn_id) = rInput
      BY <1>1, <2>2
      DEF SessionsInv, Rival!ClientSession, Rival!ClientKnows, Rival!BearsIdentifier,
          RivalSucceeded, EX_OK, Rival!EX_OK
    <3>2. rConn.conn_id \in Identifiers
      BY <1>1, <3>1 DEF SessionsInv, OneOwner
    <3> QED BY <3>1, <3>2 DEF Outputs
  <2> QED BY <2>1, <2>2 DEF EachIsServed
<1> QED
  BY <1>1, SessionsAreApart, PTL
=============================================================================
