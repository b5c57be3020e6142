------------------------------- MODULE Server -------------------------------
(***************************************************************************)
(* The server process: run_server and the state handlers of server.c.      *)
(*                                                                         *)
(* As in the client, a handler blocks only in the select of                *)
(* wait_for_packet: its actions are the one from the top of the loop       *)
(* (sPc = "step") to the select (sPc = "select"), and those of what the    *)
(* select returns.                                                         *)
(***************************************************************************)
EXTENDS Network

VARIABLES
  sState,     \* state of run_server
  sPc,        \* "step", "select" or "exited"
  sConn,      \* connection; its ack_num is the number expected next
  out,        \* the chunks fwrite has taken, in the order of the calls
  sAddr,      \* client_addr: whom the server answers
  sExpired,   \* TIMEOUT seconds have passed since last_progress_ms
  sStop,      \* stop_requested
  sExit,      \* exit_code
  sDraw       \* what rand() returns in handle_listen, settled by srand

serverVars == <<sState, sPc, sConn, out, sAddr, sExpired, sStop, sExit, sDraw>>

ServerState == {"LISTEN", "HANDSHAKE", "ESTABLISHED", "LAST_ACK", "DONE"}

\* The types of the variables that the handlers compute.
SessionTypeOK ==
  /\ sState \in ServerState
  /\ sPc \in {"step", "select", "exited"}
  /\ sConn \in ConnectionState
  /\ out \in Seq(Chunk)
  /\ sExpired \in BOOLEAN
  /\ sStop \in BOOLEAN
  /\ sExit \in ExitCode

\* The types of all of them.
ServerTypeOK ==
  /\ SessionTypeOK
  /\ sAddr \in {"none", "client", "other"}
  /\ sDraw \in [seq_num : ISN, conn_id : ConnId]

ServerInit ==
  /\ sState = "LISTEN"
  /\ sPc = "step"
  /\ sConn = NoConnection
  /\ out = << >>
  /\ sAddr = "none"
  /\ sExpired = FALSE
  /\ sStop = FALSE
  /\ sExit = EX_OK
  /\ sDraw \in [seq_num : ISN, conn_id : ConnId]

-----------------------------------------------------------------------------
(* What the handlers are made of.                                          *)

\* Blocked in the select of wait_for_packet, in a state.
ServerWaits(state) == sPc = "select" /\ sState = state

\* The handler returns the next state.
ServerGoto(state) == sState' = state /\ sPc' = "step" /\ UNCHANGED sExit

\* The handler sets exit_code and returns SERVER_DONE.
ServerQuit(code) == sState' = "DONE" /\ sPc' = "step" /\ sExit' = code

\* send_packet, and the next state, unless sendto fails.
ServerSendThen(packet, addr, state) ==
  \/ /\ toClient' = Sent({packet}, addr, "client", toClient)
     /\ ServerGoto(state)
  \/ /\ "send" \in Faults
     /\ UNCHANGED toClient
     /\ ServerQuit(EX_OSERR)

\* select and recv_packet return a packet of the client.
ServerReceives(p) ==
  /\ sPc = "select"
  /\ p \in toServer
  /\ toServer' = After(p, toServer)
  /\ sAddr' = "client"
  /\ UNCHANGED <<mishaps, sStop, sDraw>>

\* mark_progress
ServerProgress == sExpired' = FALSE

\* Mutant: any session will do.
OfAnySession(p) == TRUE

\* Whether a packet carries the identifier of the session.
OfSession(p) == p.conn_id = sConn.conn_id

-----------------------------------------------------------------------------
(* handle_listen                                                           *)

AcceptSyn(p) ==
  /\ ServerWaits("LISTEN")
  /\ p.flags = SYN
  /\ ServerReceives(p)
  /\ sConn' = [ seq_num |-> sDraw.seq_num,
                ack_num |-> Inc(p.seq_num),
                conn_id |-> sDraw.conn_id ]
  /\ \/ /\ toClient' = Sent({Header(sConn', SYNACK)}, "client", "client", toClient)
        /\ ServerProgress
        /\ ServerGoto("HANDSHAKE")
     \/ /\ "send" \in Faults
        /\ ServerQuit(EX_OSERR)
        /\ UNCHANGED <<toClient, sExpired>>
  /\ UNCHANGED out

-----------------------------------------------------------------------------
(* handle_handshake                                                        *)

\* Mutant: any SYN gets the SYN+ACK of the session.
IsAnySyn(p) == p.flags = SYN

\* The client sends SYN again: it has not seen the SYN+ACK.
IsRepeatedSyn(p) == p.flags = SYN /\ Inc(p.seq_num) = sConn.ack_num

RepeatSynAck(p) ==
  /\ ServerWaits("HANDSHAKE")
  /\ IsRepeatedSyn(p)
  /\ ServerReceives(p)
  /\ ServerSendThen(Header(sConn, SYNACK), "client", "HANDSHAKE")
  /\ UNCHANGED <<sConn, out, sExpired>>

\* Mutant: DATA does not stand in for the last ACK of the handshake.
OnlyAckAnswersSynAck(p) ==
  /\ p.flags = ACK
  /\ OfSession(p)
  /\ p.ack_num = Inc(sConn.seq_num)
  /\ p.seq_num = sConn.ack_num

\* Whether an ACK or DATA packet is the one that answers the SYN+ACK.
AnswersSynAck(p) ==
  /\ p.flags \in {ACK, DATA}
  /\ OfSession(p)
  /\ p.ack_num = Inc(sConn.seq_num)
  /\ p.seq_num = sConn.ack_num

\* Mutant: the DATA that stands in for the ACK counts as received.
AfterHandshakeSkips(p) ==
  [sConn EXCEPT !.ack_num = IF p.flags = DATA THEN Inc(p.seq_num) ELSE p.seq_num]

\* The connection after the packet that ends the handshake.
AfterHandshake(p) == [sConn EXCEPT !.ack_num = p.seq_num]

\* The last ACK of the handshake, or the first DATA in its place: the latter
\* is neither written nor acknowledged, the client has to send it again.
AcceptHandshake(p) ==
  /\ ServerWaits("HANDSHAKE")
  /\ AnswersSynAck(p)
  /\ ServerReceives(p)
  /\ sConn' = AfterHandshake(p)
  /\ ServerProgress
  /\ ServerGoto("ESTABLISHED")
  /\ UNCHANGED <<toClient, out>>

-----------------------------------------------------------------------------
(* handle_established                                                      *)

IsFin(p) == p.flags = FIN /\ OfSession(p) /\ p.seq_num = sConn.ack_num

AcceptFin(p) ==
  /\ ServerWaits("ESTABLISHED")
  /\ IsFin(p)
  /\ ServerReceives(p)
  /\ sConn' = [sConn EXCEPT !.ack_num = Inc(p.seq_num)]
  /\ \/ /\ toClient' = Sent({Header(sConn', FINACK)}, "client", "client", toClient)
        /\ ServerProgress
        /\ ServerGoto("LAST_ACK")
     \/ /\ "send" \in Faults
        /\ ServerQuit(EX_OSERR)
        /\ UNCHANGED <<toClient, sExpired>>
  /\ UNCHANGED out

IsData(p) == p.flags = DATA /\ OfSession(p)

\* Mutant: a packet from ahead is taken as well.
IsExpectedOrLater(p) == p.seq_num >= sConn.ack_num

\* The packet that the server waits for.
IsExpected(p) == p.seq_num = sConn.ack_num

\* The chunk expected next is written, then acknowledged.
AcceptData(p) ==
  /\ ServerWaits("ESTABLISHED")
  /\ IsData(p)
  /\ IsExpected(p)
  /\ ServerReceives(p)
  /\ out' = Append(out, p.payload)
  /\ sConn' = [sConn EXCEPT !.ack_num = Inc(@)]
  /\ ServerProgress
  /\ ServerSendThen(Header(sConn', ACK), "client", "ESTABLISHED")

\* fwrite takes less than the chunk, of which out then shows nothing.
WriteFails(p) ==
  /\ "write" \in Faults
  /\ ServerWaits("ESTABLISHED")
  /\ IsData(p)
  /\ IsExpected(p)
  /\ ServerReceives(p)
  /\ ServerQuit(EX_IOERR)
  /\ UNCHANGED <<toClient, sConn, out, sExpired>>

\* Any other chunk is dropped, and acknowledged with the number expected.
RepeatAck(p) ==
  /\ ServerWaits("ESTABLISHED")
  /\ IsData(p)
  /\ ~IsExpected(p)
  /\ ServerReceives(p)
  /\ sExpired' = (sExpired /\ p.seq_num < sConn.ack_num)
  /\ ServerSendThen(Header(sConn, ACK), "client", "ESTABLISHED")
  /\ UNCHANGED <<sConn, out>>

-----------------------------------------------------------------------------
(* handle_last_ack                                                         *)

\* Mutant: a repeated FIN is looked for under the number that follows it.
IsFinAhead(p) == p.flags = FIN /\ OfSession(p) /\ p.seq_num = sConn.ack_num

\* The client sends FIN again: it has not seen the FIN+ACK.
IsRepeatedFin(p) == p.flags = FIN /\ OfSession(p) /\ Inc(p.seq_num) = sConn.ack_num

RepeatFinAck(p) ==
  /\ ServerWaits("LAST_ACK")
  /\ IsRepeatedFin(p)
  /\ ServerReceives(p)
  /\ ServerSendThen(Header(sConn, FINACK), "client", "LAST_ACK")
  /\ UNCHANGED <<sConn, out, sExpired>>

IsLastAck(p) ==
  /\ p.flags = ACK
  /\ OfSession(p)
  /\ p.ack_num = Inc(sConn.seq_num)
  /\ p.seq_num = sConn.ack_num

AcceptLastAck(p) ==
  /\ ServerWaits("LAST_ACK")
  /\ IsLastAck(p)
  /\ ServerReceives(p)
  /\ ServerProgress
  /\ ServerGoto("DONE")
  /\ UNCHANGED <<toClient, sConn, out>>

\* FIN+ACK is sent again after a silence; if that fails, all is well.
LastAckTimeout ==
  /\ ServerWaits("LAST_ACK")
  /\ ~sExpired
  /\ \/ /\ toClient' = Sent({Header(sConn, FINACK)}, sAddr, "client", toClient)
        /\ ServerGoto("LAST_ACK")
     \/ /\ "send" \in Faults
        /\ UNCHANGED toClient
        /\ ServerQuit(EX_OK)
  /\ UNCHANGED <<toServer, mishaps, sConn, out, sAddr, sExpired, sStop, sDraw>>

-----------------------------------------------------------------------------
(* What every handler has in common                                        *)

ServerBlocks ==
  /\ sPc = "step"
  /\ sState # "DONE"
  /\ ~sStop
  /\ ~sExpired
  /\ sPc' = "select"
  /\ UNCHANGED <<netVars, sState, sConn, out, sAddr, sExpired, sStop, sExit, sDraw>>

\* The select times out, and the handler returns its own state.
ServerTimeout ==
  /\ \E state \in {"LISTEN", "HANDSHAKE", "ESTABLISHED"} : ServerWaits(state)
  /\ ~sExpired
  /\ sPc' = "step"
  /\ UNCHANGED <<netVars, sState, sConn, out, sAddr, sExpired, sStop, sExit, sDraw>>

\* Mutant: every silence ends well.
SilenceCodeAlwaysOk == EX_OK

\* The exit code of a handler whose select timed out once too often.
SilenceCode == IF sState = "LAST_ACK" THEN EX_OK ELSE EX_PROTOCOL

\* The progress check at the top of a handler, and after a select that timed
\* out, ends the process.
ServerExpires ==
  /\ sExpired
  /\ \/ /\ sPc = "step"
        /\ sState # "DONE"
        /\ ~sStop
        /\ ServerQuit(EX_PROTOCOL)
     \/ /\ sPc = "select"
        /\ ServerQuit(SilenceCode)
  /\ UNCHANGED <<netVars, sConn, out, sAddr, sExpired, sStop, sDraw>>

\* A packet that the handler of the state has no use for.
ServerIgnores(p) ==
  /\ ServerReceives(p)
  /\ ~(sState = "LISTEN" /\ p.flags = SYN)
  /\ ~(sState = "HANDSHAKE" /\ (IsRepeatedSyn(p) \/ AnswersSynAck(p)))
  /\ ~(sState = "ESTABLISHED" /\ (IsFin(p) \/ IsData(p)))
  /\ ~(sState = "LAST_ACK" /\ (IsRepeatedFin(p) \/ IsLastAck(p)))
  /\ sPc' = "step"
  /\ UNCHANGED <<toClient, sState, sConn, out, sExpired, sExit>>

\* A datagram that recv_packet rejects, after recvfrom has stored its source.
ServerRejects(from) ==
  /\ sPc = "select"
  /\ Malformed(from, "client", toServer)
  /\ sAddr' = from
  /\ sPc' = "step"
  /\ UNCHANGED <<sState, sConn, out, sExpired, sStop, sExit, sDraw>>

\* The test of stop_requested at the top of run_server's loop.
ServerStops ==
  /\ sPc = "step"
  /\ sState # "DONE"
  /\ sStop
  /\ ServerQuit(EX_SOFTWARE)
  /\ UNCHANGED <<netVars, sConn, out, sAddr, sExpired, sStop, sDraw>>

\* The loop is left: fclose, close, and the exit code.
ServerExits ==
  /\ sPc = "step"
  /\ sState = "DONE"
  /\ sPc' = "exited"
  /\ sExit' \in ExitCodes(sExit)
  /\ UNCHANGED <<netVars, sState, sConn, out, sAddr, sExpired, sStop, sDraw>>

-----------------------------------------------------------------------------
(* Time and signals                                                        *)

ServerDeadline ==
  /\ "expire" \in Faults
  /\ sState # "DONE"
  /\ ~sExpired
  /\ sExpired' = TRUE
  /\ UNCHANGED <<netVars, sState, sPc, sConn, out, sAddr, sStop, sExit, sDraw>>

\* handle_signal.  A signal during the select interrupts it, and the handler
\* gives up; one that arrives just before the select only sets the flag.
ServerSignal ==
  /\ "signal" \in Faults
  /\ sPc # "exited"
  /\ sStop' = TRUE
  /\ \/ /\ ~sStop
        /\ UNCHANGED <<sState, sPc, sExit>>
     \/ /\ sPc = "select"
        /\ ServerQuit(IF sState = "LAST_ACK" THEN EX_OK ELSE EX_OSERR)
  /\ UNCHANGED <<netVars, sConn, out, sAddr, sExpired, sDraw>>
=============================================================================
