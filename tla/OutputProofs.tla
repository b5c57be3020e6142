---------------------------- MODULE OutputProofs ----------------------------
(***************************************************************************)
(* What a server with an output file may say of it: EX_OK stands for a     *)
(* complete file, for every stream and every fault.                        *)
(***************************************************************************)
EXTENDS Output, SessionProofs

\* A stream that buffers its output is still the server of Transfer.
LEMMA OutputKeepsTransfer == OutputSpec => Spec
<1>1. OutputInit => Init
  BY DEF OutputInit
<1>2. [OutputNext]_outputVars => [Next]_vars
  <2> SUFFICES ASSUME [OutputNext]_outputVars PROVE [Next]_vars
    OBVIOUS
  <2>1. CASE Write /\ UNCHANGED clientVars
    BY <2>1 DEF Write, Next, ServerNext, ServerHandles
  <2>2. CASE Close /\ UNCHANGED clientVars
    BY <2>2 DEF Close, Next, ServerNext, ServerActs, ServerRuns
  <2>3. CASE Otherwise /\ UNCHANGED clientVars
    BY <2>3 DEF Otherwise, Next, ServerNext, ServerActs, ServerRuns, ServerHandles
  <2>4. CASE ClientNext \/ Loss
    BY <2>4 DEF Next
  <2>5. CASE UNCHANGED outputVars
    BY <2>5 DEF outputVars
  <2> QED BY <2>1, <2>2, <2>3, <2>4, <2>5 DEF OutputNext
<1> QED BY <1>1, <1>2, PTL DEF OutputSpec, Spec

\* Chunks leave the buffer only when they are in it, and none is left in it
\* where the server has succeeded.
BufferOK ==
  /\ written \in 0 .. Len(out)
  /\ ServerSucceeded => written = Len(out)

\* The exit code tells of the buffer (fclose in run_server).
LEMMA BufferIsKnown ==
  ASSUME OUTPUT = "file" PROVE OutputSpec => []BufferOK
<1>1. OutputInit => BufferOK
  BY DEF OutputInit, BufferOK, Init, ServerInit, ServerSucceeded
<1>2. ASSUME TypeOK, TypeOK', BufferOK, [OutputNext]_outputVars PROVE BufferOK'
  <2>1. out \in Seq(Chunk) /\ out' \in Seq(Chunk)
    BY <1>2 DEF TypeOK, ServerTypeOK, SessionTypeOK
  <2>2. Len(out) \in Nat /\ Len(out') \in Nat /\ written \in 0 .. Len(out)
    BY <1>2, <2>1 DEF BufferOK
  <2>3. CASE Write /\ UNCHANGED clientVars
    <3>1. PICK p \in toServer : AcceptData(p) \/ WriteFails(p)
      BY <2>3 DEF Write
    <3>2. Len(out') >= Len(out)
      BY <3>1, <2>1 DEF AcceptData, WriteFails
    <3>3. sPc' = "step"
      BY <3>1 DEF AcceptData, WriteFails, ServerSendThen, ServerGoto, ServerQuit
    <3> QED BY <2>2, <2>3, <3>2, <3>3 DEF Write, FlushSome, BufferOK, ServerSucceeded
  <2>4. CASE Close /\ UNCHANGED clientVars
    <3>1. out' = out
      BY <2>4 DEF Close, ServerExits
    <3>2. CASE Flush
      BY <2>2, <3>1, <3>2 DEF Flush, BufferOK
    <3>3. CASE FlushSome /\ sExit' \in {EX_IOERR, EX_OSERR}
      <4>1. sExit' # EX_OK
        BY <3>3 DEF EX_OK, EX_IOERR, EX_OSERR
      <4> QED BY <2>2, <3>1, <3>3, <4>1 DEF FlushSome, BufferOK, ServerSucceeded
    <3> QED BY <1>2, <2>4, <3>2, <3>3, OUTPUT = "file" DEF Close
  <2>5. CASE Otherwise /\ UNCHANGED clientVars
    <3>1. out' = out /\ written' = written
      BY <2>5 DEF Otherwise, ServerBlocks, ServerStops, ServerTimesOut, ServerTimeout,
        LastAckTimeout, ServerExpires, AcceptSyn, RepeatSynAck, AcceptHandshake,
        AcceptFin, RepeatAck, RepeatFinAck, AcceptLastAck, ServerIgnores,
        ServerRejects, ServerDeadline, ServerSignal
    <3>2. sPc' # "exited" \/ (sPc' = sPc /\ sExit' = sExit)
      <4>1. ASSUME NEW p \in toServer,
                   \/ AcceptSyn(p) \/ RepeatSynAck(p) \/ AcceptHandshake(p)
                   \/ AcceptFin(p) \/ RepeatAck(p) \/ RepeatFinAck(p)
                   \/ AcceptLastAck(p) \/ ServerIgnores(p)
            PROVE  sPc' = "step"
        <5>1. CASE AcceptSyn(p) \/ RepeatSynAck(p) \/ RepeatAck(p) \/ RepeatFinAck(p)
          BY <5>1 DEF AcceptSyn, RepeatSynAck, RepeatAck, RepeatFinAck,
            ServerSendThen, ServerGoto, ServerQuit
        <5>2. CASE AcceptHandshake(p)
          BY <5>2 DEF AcceptHandshake, ServerGoto
        <5>3. CASE AcceptFin(p)
          BY <5>3 DEF AcceptFin, ServerSendThen, ServerGoto, ServerQuit
        <5>4. CASE AcceptLastAck(p) \/ ServerIgnores(p)
          BY <5>4 DEF AcceptLastAck, ServerIgnores, ServerGoto
        <5> QED BY <4>1, <5>1, <5>2, <5>3, <5>4
      <4>2. CASE \E p \in toServer :
                   \/ AcceptSyn(p) \/ RepeatSynAck(p) \/ AcceptHandshake(p)
                   \/ AcceptFin(p) \/ RepeatAck(p) \/ RepeatFinAck(p)
                   \/ AcceptLastAck(p) \/ ServerIgnores(p)
        <5>1. sPc' = "step"
          BY <4>1, <4>2
        <5> QED BY <5>1
      <4>3. CASE ServerBlocks \/ ServerStops \/ ServerTimesOut
        BY <4>3 DEF ServerBlocks, ServerStops, ServerTimesOut, ServerTimeout,
          LastAckTimeout, ServerExpires, ServerGoto, ServerQuit
      <4>4. CASE \E from \in {"client", "other"} : ServerRejects(from)
        BY <4>4 DEF ServerRejects
      <4>5. CASE ServerDeadline
        BY <4>5 DEF ServerDeadline
      <4>6. CASE ServerSignal
        <5>1. CASE UNCHANGED <<sState, sPc, sExit>>
          BY <5>1
        <5>2. CASE sPc' = "step"
          BY <5>2
        <5> QED BY <4>6, <5>1, <5>2 DEF ServerSignal, ServerQuit
      <4> QED BY <2>5, <4>2, <4>3, <4>4, <4>5, <4>6 DEF Otherwise
    <3> QED BY <1>2, <2>2, <3>1, <3>2 DEF BufferOK, ServerSucceeded
  <2>6. CASE (ClientNext \/ Loss) /\ UNCHANGED written
    <3>1. UNCHANGED serverVars
      BY <2>6 DEF ClientNext, Loss
    <3> QED BY <1>2, <2>6, <3>1 DEF serverVars, BufferOK, ServerSucceeded
  <2>7. CASE UNCHANGED outputVars
    BY <1>2, <2>7 DEF outputVars, vars, serverVars, BufferOK, ServerSucceeded
  <2> QED BY <1>2, <2>3, <2>4, <2>5, <2>6, <2>7 DEF OutputNext
<1> QED BY <1>1, <1>2, OutputKeepsTransfer, TypeCorrect, PTL DEF OutputSpec

\* Where the server exits with EX_OK, its output file holds the whole input.
THEOREM FileIsWritten ==
  ASSUME OUTPUT = "file" PROVE OutputSpec => []OutputIsWritten
<1>1. ASSUME TypeOK, HonestExit, BufferOK PROVE OutputIsWritten
  <2>1. SUFFICES ASSUME ServerSucceeded PROVE SubSeq(out, 1, written) = input
    BY DEF OutputIsWritten
  <2>2. out = input /\ written = Len(out) /\ out \in Seq(Chunk)
    BY <1>1, <2>1 DEF HonestExit, BufferOK, TypeOK, ServerTypeOK, SessionTypeOK
  <2> QED BY <2>2
<1> QED
  BY <1>1, OutputKeepsTransfer, TypeCorrect, ExitsAreHonest, BufferIsKnown, PTL
=============================================================================
