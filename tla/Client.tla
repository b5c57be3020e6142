------------------------------- MODULE Client -------------------------------
(***************************************************************************)
(* The client process: run_client and the state handlers of client.c.      *)
(*                                                                         *)
(* A handler blocks in one place, the select of wait_for_packet, and time, *)
(* signals and packets reach it there.  Each handler is therefore two      *)
(* kinds of actions: what it does from the top of run_client's loop        *)
(* (cPc = "step") to its select (cPc = "select"), and what it does when    *)
(* the select returns.  handle_established also has a loop of its own:     *)
(*   "loop"    its while condition and the progress check,                 *)
(*   "fill"    gbn_fill_and_send_window, one packet per step, since fread  *)
(*             may block between two packets,                              *)
(*   "window"  from there to the select.                                   *)
(*                                                                         *)
(* srand(time(NULL)) runs before the loop: the number rand() will return   *)
(* is settled at the start, and cDraw is that number.                      *)
(***************************************************************************)
EXTENDS Window

CONSTANT Inputs   \* the input streams, as sequences of chunks

ASSUME InputsAssumption == Inputs \subseteq Seq(Chunk)

VARIABLES
  cState,     \* state of run_client
  cPc,        \* where the process is, see above
  cConn,      \* connection
  cWin,       \* gbn_state of handle_established
  cEof,       \* eof_reached of handle_established
  cDup,       \* last_ack and dup_ack_count of handle_established
  input,      \* what the input stream holds, never changed
  cRead,      \* how many chunks of it the client has read
  cAddr,      \* server_addr: whom the client sends to
  cExpired,   \* TIMEOUT seconds have passed since last_progress_ms
  cStop,      \* stop_requested
  cExit,      \* exit_code
  cDraw       \* what rand() % MODULER returns in handle_closed

established == <<cWin, cEof, cDup, cRead>>

clientVars == <<cState, cPc, cConn, cWin, cEof, cDup, input, cRead, cAddr,
                cExpired, cStop, cExit, cDraw>>

ClientState == {"CLOSED", "SYN_SENT", "ESTABLISHED", "FIN_WAIT", "TIME_WAIT", "DONE"}

\* The types of the variables.
ClientTypeOK ==
  /\ cState \in ClientState
  /\ cPc \in {"step", "loop", "fill", "window", "select", "exited"}
  /\ cConn \in ConnectionState
  /\ cWin \in GBNSenderState
  /\ cEof \in BOOLEAN
  /\ cDup \in [last : SeqNum, count : 0 .. 2]
  /\ input \in Inputs
  /\ cRead \in 0 .. Len(input)
  /\ cAddr \in {"server", "other"}
  /\ cExpired \in BOOLEAN
  /\ cStop \in BOOLEAN
  /\ cExit \in ExitCode
  /\ cDraw \in ISN

ClientInit ==
  /\ cState = "CLOSED"
  /\ cPc = "step"
  /\ cConn = NoConnection
  /\ cWin = NewWindow(0)
  /\ cEof = FALSE
  /\ cDup = [last |-> 0, count |-> 0]
  /\ input \in Inputs
  /\ cRead = 0
  /\ cAddr = "server"
  /\ cExpired = FALSE
  /\ cStop = FALSE
  /\ cExit = EX_OK
  /\ cDraw \in ISN

-----------------------------------------------------------------------------
(* What the handlers are made of.                                          *)

\* The top of run_client's loop, in a state, with no stop requested.
ClientStep(state) == cPc = "step" /\ cState = state /\ ~cStop

\* Blocked in the select of wait_for_packet, in a state.
ClientWaits(state) == cPc = "select" /\ cState = state

\* The handler returns the next state.
ClientGoto(state) == cState' = state /\ cPc' = "step" /\ UNCHANGED cExit

\* The handler sets exit_code and returns CLIENT_DONE.
ClientQuit(code) == cState' = "DONE" /\ cPc' = "step" /\ cExit' = code

\* send_packet, and the next state, unless sendto fails.
ClientSendThen(packet, addr, state) ==
  \/ /\ toServer' = Sent({packet}, addr, "server", toServer)
     /\ ClientGoto(state)
  \/ /\ "send" \in Faults
     /\ UNCHANGED toServer
     /\ ClientQuit(EX_OSERR)

\* What sendto takes of the packets of S, when failures are only logged.
ClientSendsSome(S) ==
  \E T \in (IF "send" \in Faults THEN SUBSET S ELSE {S}) :
    toServer' = Sent(T, cAddr, "server", toServer)

\* select and recv_packet return a packet of the server.
ClientReceives(p) ==
  /\ cPc = "select"
  /\ p \in toClient
  /\ toClient' = After(p, toClient)
  /\ cAddr' = "server"
  /\ UNCHANGED <<mishaps, input, cStop, cDraw>>

\* Mutant: handle_fin_wait without its progress checks.
ProgressCheckNotOfFin == cExpired /\ cState \in {"SYN_SENT", "ESTABLISHED"}

\* progress_timeout_reached, in the handlers that ask it.
ProgressCheck == cExpired /\ cState \in {"SYN_SENT", "ESTABLISHED", "FIN_WAIT"}

\* mark_progress
ClientProgress == cExpired' = FALSE

\* Where a handler that ignored a packet goes on.
NextTurn == cPc' = IF cState = "ESTABLISHED" THEN "loop" ELSE "step"

-----------------------------------------------------------------------------
(* handle_closed, handle_syn_sent                                          *)

ClientCloses ==
  /\ ClientStep("CLOSED")
  /\ cConn' = [seq_num |-> cDraw, ack_num |-> 0, conn_id |-> 0]
  /\ ClientSendThen(Header(cConn', SYN), cAddr, "SYN_SENT")
  /\ UNCHANGED <<toClient, mishaps, established, input, cAddr, cExpired, cStop, cDraw>>

\* The select of handle_syn_sent and of handle_time_wait.
ClientBlocks ==
  /\ ClientStep("SYN_SENT") \/ ClientStep("TIME_WAIT")
  /\ ~ProgressCheck
  /\ cPc' = "select"
  /\ UNCHANGED <<netVars, cState, cConn, established, input, cAddr, cExpired,
                 cStop, cExit, cDraw>>

SynSentTimeout ==
  /\ ClientWaits("SYN_SENT")
  /\ ~ProgressCheck
  /\ ClientSendThen(Header(cConn, SYN), cAddr, "SYN_SENT")
  /\ UNCHANGED <<toClient, mishaps, cConn, established, input, cAddr, cExpired,
                 cStop, cDraw>>

IsSynAck(p) ==
  /\ p.flags = SYNACK
  /\ p.conn_id # 0
  /\ p.ack_num = Inc(cConn.seq_num)

AcceptSynAck(p) ==
  /\ ClientWaits("SYN_SENT")
  /\ IsSynAck(p)
  /\ ClientReceives(p)
  /\ cConn' = [ seq_num |-> Inc(cConn.seq_num),
                ack_num |-> Inc(p.seq_num),
                conn_id |-> p.conn_id ]
  /\ ClientProgress
  /\ ClientSendThen(Header(cConn', ACK), "server", "ESTABLISHED")
  /\ UNCHANGED established

-----------------------------------------------------------------------------
(* handle_established                                                      *)

\* Mutant: the loop ends with the input, whatever waits for an ACK.
DrainedByReading == cEof

Drained == cEof /\ cWin.base = cWin.nextseqnum

TransferStarts ==
  /\ ClientStep("ESTABLISHED")
  /\ ~ProgressCheck
  /\ cPc' = "loop"
  /\ cWin' = NewWindow(cConn.seq_num)
  /\ cEof' = FALSE
  /\ cDup' = [last |-> 0, count |-> 0]
  /\ UNCHANGED <<netVars, cState, cConn, input, cRead, cAddr, cExpired, cStop,
                 cExit, cDraw>>

\* The while condition, or the test before the wait, ends the loop.
TransferEnds ==
  /\ cPc \in {"loop", "window"}
  /\ Drained
  /\ cConn' = [cConn EXCEPT !.seq_num = cWin.nextseqnum]
  /\ ClientGoto("FIN_WAIT")
  /\ UNCHANGED <<netVars, established, input, cAddr, cExpired, cStop, cDraw>>

TransferExpires ==
  /\ cPc = "loop"
  /\ ~Drained
  /\ ProgressCheck
  /\ ClientQuit(EX_PROTOCOL)
  /\ UNCHANGED <<netVars, cConn, established, input, cAddr, cExpired, cStop, cDraw>>

TransferTurns ==
  /\ cPc = "loop"
  /\ ~Drained
  /\ ~ProgressCheck
  /\ cPc' = IF cEof THEN "window" ELSE "fill"
  /\ UNCHANGED <<netVars, cState, cConn, established, input, cAddr, cExpired,
                 cStop, cExit, cDraw>>

\* read_chunk returns a chunk, which goes into the window and out.
Fill ==
  /\ cPc = "fill"
  /\ ~WindowFull(cWin)
  /\ cRead < Len(input)
  /\ cRead' = cRead + 1
  /\ LET packet == DataPacket(cWin, cConn, input[cRead + 1])
     IN  /\ cWin' = gbn_fill(cWin, packet)
         /\ ClientSendsSome({packet})
  /\ UNCHANGED <<toClient, mishaps, cState, cPc, cConn, cEof, cDup, input,
                 cAddr, cExpired, cStop, cExit, cDraw>>

\* The window is full, or read_chunk finds the end of the input.
FillEnds ==
  /\ cPc = "fill"
  /\ \/ WindowFull(cWin) /\ UNCHANGED cEof
     \/ ~WindowFull(cWin) /\ cRead = Len(input) /\ cEof' = TRUE
  /\ cPc' = "window"
  /\ UNCHANGED <<netVars, cState, cConn, cWin, cDup, input, cRead, cAddr,
                 cExpired, cStop, cExit, cDraw>>

\* read_chunk fails; fread interrupted by a signal is such a failure.
FillFails ==
  /\ cPc = "fill"
  /\ ~WindowFull(cWin)
  /\ "read" \in Faults
  /\ ClientQuit(EX_IOERR)
  /\ UNCHANGED <<netVars, cConn, established, input, cAddr, cExpired, cStop, cDraw>>

\* RETRANSMIT_INTERVAL_MS have passed: gbn_retransmit_window, then continue.
Retransmit ==
  /\ cPc = "window"
  /\ cWin.base # cWin.nextseqnum
  /\ cWin.timer = "due"
  /\ cPc' = "loop"
  /\ cWin' = [cWin EXCEPT !.timer = "running"]
  /\ ClientSendsSome(Unacked(cWin))
  /\ UNCHANGED <<toClient, mishaps, cState, cConn, cEof, cDup, input, cRead,
                 cAddr, cExpired, cStop, cExit, cDraw>>

\* The select of handle_established, for what is left of the interval, or for
\* 10 ms with nothing in flight.
TransferBlocks ==
  /\ cPc = "window"
  /\ ~Drained
  /\ cWin.base = cWin.nextseqnum \/ cWin.timer # "due"
  /\ cPc' = "select"
  /\ cWin' = [cWin EXCEPT !.timer =
                IF @ = "off" /\ cWin.base < cWin.nextseqnum THEN "running" ELSE @]
  /\ UNCHANGED <<netVars, cState, cConn, cEof, cDup, input, cRead, cAddr,
                 cExpired, cStop, cExit, cDraw>>

TransferTimeout ==
  /\ ClientWaits("ESTABLISHED")
  /\ cWin.base = cWin.nextseqnum \/ cWin.timer # "running"
  /\ cPc' = "loop"
  /\ UNCHANGED <<netVars, cState, cConn, established, input, cAddr, cExpired,
                 cStop, cExit, cDraw>>

IsAck(p) == p.flags = ACK /\ p.conn_id = cConn.conn_id

\* gbn_process_ack reports progress.
AckProgresses(p) ==
  /\ ClientWaits("ESTABLISHED")
  /\ IsAck(p)
  /\ AckedNew(cWin, p.ack_num)
  /\ ClientReceives(p)
  /\ cPc' = "loop"
  /\ LET w == gbn_process_ack(cWin, p.ack_num)
     IN  cWin' = [w EXCEPT !.timer = TimerAfterAck(w)]
  /\ cDup' = [last |-> p.ack_num, count |-> 0]
  /\ ClientProgress
  /\ UNCHANGED <<toServer, cState, cConn, cEof, cRead, cExit>>

\* Mutant: a fast retransmission takes one ACK more.
DupAckLimitLate == 4

\* How many ACKs in a row trigger a fast retransmission.
DupAckLimit == 3

\* gbn_process_ack reports none: an ACK that repeats the number of the last ones
\* may trigger a fast retransmission, any other is only counted.
AckRepeats(p) ==
  LET count == IF p.ack_num = cDup.last THEN cDup.count + 1 ELSE 1
      w     == gbn_process_ack(cWin, p.ack_num)
  IN  /\ ClientWaits("ESTABLISHED")
      /\ IsAck(p)
      /\ ~AckedNew(cWin, p.ack_num)
      /\ ClientReceives(p)
      /\ cPc' = "loop"
      /\ \/ /\ count # DupAckLimit
            /\ cWin' = w
            /\ cDup' = [last |-> p.ack_num, count |-> count]
            /\ UNCHANGED toServer
         \/ /\ count = DupAckLimit
            /\ ClientSendsSome(Unacked(w))
            /\ cWin' = [w EXCEPT !.timer = "running"]
            /\ cDup' = [last |-> p.ack_num, count |-> 0]
      /\ UNCHANGED <<cState, cConn, cEof, cRead, cExpired, cExit>>

-----------------------------------------------------------------------------
(* handle_fin_wait, handle_time_wait                                       *)

\* FIN goes out each time the handler is entered, then it waits.
FinWaitSends ==
  /\ ClientStep("FIN_WAIT")
  /\ ~ProgressCheck
  /\ \/ /\ toServer' = Sent({Header(cConn, FIN)}, cAddr, "server", toServer)
        /\ cPc' = "select"
        /\ UNCHANGED <<cState, cExit>>
     \/ /\ "send" \in Faults
        /\ UNCHANGED toServer
        /\ ClientQuit(EX_OSERR)
  /\ UNCHANGED <<toClient, mishaps, cConn, established, input, cAddr, cExpired,
                 cStop, cDraw>>

FinWaitTimeout ==
  /\ ClientWaits("FIN_WAIT")
  /\ ~ProgressCheck
  /\ ClientGoto("FIN_WAIT")
  /\ UNCHANGED <<netVars, cConn, established, input, cAddr, cExpired, cStop, cDraw>>

IsFinAck(p, ack) ==
  /\ p.flags = FINACK
  /\ p.conn_id = cConn.conn_id
  /\ p.ack_num = ack

AcceptFinAck(p) ==
  /\ ClientWaits("FIN_WAIT")
  /\ IsFinAck(p, Inc(cConn.seq_num))
  /\ ClientReceives(p)
  /\ cConn' = [cConn EXCEPT !.seq_num = Inc(@), !.ack_num = Inc(p.seq_num)]
  /\ ClientProgress
  /\ ClientSendThen(Header(cConn', ACK), "server", "TIME_WAIT")
  /\ UNCHANGED established

\* The server sends FIN+ACK again: it has not seen the final ACK.
RepeatLastAck(p) ==
  /\ ClientWaits("TIME_WAIT")
  /\ IsFinAck(p, cConn.seq_num)
  /\ ClientReceives(p)
  /\ \/ /\ toServer' = Sent({Header(cConn, ACK)}, "server", "server", toServer)
        /\ ClientProgress
        /\ ClientGoto("TIME_WAIT")
     \/ /\ "send" \in Faults
        /\ ClientQuit(EX_OSERR)
        /\ UNCHANGED <<toServer, cExpired>>
  /\ UNCHANGED <<cConn, established>>

TimeWaitTimeout ==
  /\ ClientWaits("TIME_WAIT")
  /\ ClientGoto("DONE")
  /\ UNCHANGED <<netVars, cConn, established, input, cAddr, cExpired, cStop, cDraw>>

-----------------------------------------------------------------------------
(* What every handler has in common                                        *)

\* The progress check at the top of a handler, and after a select that timed
\* out, ends the process.
ClientExpires ==
  /\ ProgressCheck
  /\ \/ cPc = "step" /\ ~cStop
     \/ cPc = "select" /\ cState # "ESTABLISHED"
  /\ ClientQuit(EX_PROTOCOL)
  /\ UNCHANGED <<netVars, cConn, established, input, cAddr, cExpired, cStop, cDraw>>

\* A packet that the handler of the state has no use for.
ClientIgnores(p) ==
  /\ ClientReceives(p)
  /\ ~(cState = "SYN_SENT" /\ IsSynAck(p))
  /\ ~(cState = "ESTABLISHED" /\ IsAck(p))
  /\ ~(cState = "FIN_WAIT" /\ IsFinAck(p, Inc(cConn.seq_num)))
  /\ ~(cState = "TIME_WAIT" /\ IsFinAck(p, cConn.seq_num))
  /\ NextTurn
  /\ UNCHANGED <<toServer, cState, cConn, established, cExpired, cExit>>

\* A datagram that recv_packet rejects, after recvfrom has stored its source.
ClientRejects(from) ==
  /\ cPc = "select"
  /\ Malformed(from, "server", toClient)
  /\ cAddr' = from
  /\ NextTurn
  /\ UNCHANGED <<cState, cConn, established, input, cExpired, cStop, cExit, cDraw>>

\* The test of stop_requested at the top of run_client's loop.
ClientStops ==
  /\ cPc = "step"
  /\ cState # "DONE"
  /\ cStop
  /\ ClientQuit(EX_SOFTWARE)
  /\ UNCHANGED <<netVars, cConn, established, input, cAddr, cExpired, cStop, cDraw>>

\* The loop is left: fclose, close, and the exit code.
ClientExits ==
  /\ cPc = "step"
  /\ cState = "DONE"
  /\ cPc' = "exited"
  /\ cExit' \in ExitCodes(cExit)
  /\ UNCHANGED <<netVars, cState, cConn, established, input, cAddr, cExpired,
                 cStop, cDraw>>

-----------------------------------------------------------------------------
(* Time and signals                                                        *)

TimerFires ==
  /\ cState = "ESTABLISHED"
  /\ cWin.timer = "running"
  /\ cWin' = [cWin EXCEPT !.timer = "due"]
  /\ UNCHANGED <<netVars, cState, cPc, cConn, cEof, cDup, input, cRead, cAddr,
                 cExpired, cStop, cExit, cDraw>>

ClientDeadline ==
  /\ "expire" \in Faults
  /\ cState # "DONE"
  /\ ~cExpired
  /\ cExpired' = TRUE
  /\ UNCHANGED <<netVars, cState, cPc, cConn, established, input, cAddr, cStop,
                 cExit, cDraw>>

\* handle_signal.  A signal during the select interrupts it, and the handler
\* gives up; one that arrives just before the select only sets the flag.
ClientSignal ==
  /\ "signal" \in Faults
  /\ cPc # "exited"
  /\ cStop' = TRUE
  /\ \/ /\ ~cStop
        /\ UNCHANGED <<cState, cPc, cExit>>
     \/ /\ cPc = "select"
        /\ ClientQuit(IF cState = "TIME_WAIT" THEN EX_OK ELSE EX_OSERR)
  /\ UNCHANGED <<netVars, cConn, established, input, cAddr, cExpired, cDraw>>
=============================================================================
