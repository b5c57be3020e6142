----------------------------- MODULE Ownership -----------------------------
(***************************************************************************)
(* Whose session a server process serves, when Transfer's client is not    *)
(* the only one and its server not the first: the identifier that a server *)
(* process draws in handle_listen and puts on the packets of its session   *)
(* (conn_id of protocol.h) tells whom they belong to.                      *)
(***************************************************************************)
EXTENDS Transfer

\* The identifiers that the client has accepted, or may still accept.
Offered ==
  ({cConn.conn_id} \cup {p.conn_id : p \in {q \in toClient : q.flags = SYNACK}}) \ {0}

\* What the client sends bears the identifier that it has accepted, and it
\* sends nothing but SYN before it has accepted one.
BearsIdentifier ==
  /\ \A p \in toServer :
       p.flags # SYN => p.conn_id = cConn.conn_id /\ cConn.conn_id # 0
  /\ Transferring =>
       \A i \in Slots :
         cWin.buffer[i].is_valid => cWin.buffer[i].packet.conn_id = cConn.conn_id
  /\ cState \in {"CLOSED", "SYN_SENT"} => cConn.conn_id = 0
  /\ cState \in {"ESTABLISHED", "FIN_WAIT", "TIME_WAIT"} => cConn.conn_id # 0
  /\ cState = "DONE" /\ cExit = EX_OK => cConn.conn_id # 0

\* An answer under an identifier that the client may accept is one to it, and
\* tells of what the server process of that identifier has written.
AnswersTell(written) ==
  \A p \in toClient :
    p.flags \in {ACK, FINACK} /\ p.conn_id \in Offered
      => p.conn_id = cConn.conn_id /\ Tells(p, written)

\* The client's part of a session in which written is what the server process of
\* its identifier has written.
ClientSession(written) ==
  /\ NetTypeOK /\ ClientTypeOK
  /\ RequestsOK
  /\ BearsIdentifier
  /\ AnswersTell(written)
  /\ IsPart(written)
  /\ ClientKnows(written)

\* The identifier of the server process is not out before it accepts a SYN, and
\* only on SYN+ACK before it is ESTABLISHED.
NotYetTold ==
  /\ sState = "LISTEN" =>
       /\ cConn.conn_id # sDraw.conn_id
       /\ \A p \in toClient : p.conn_id # sDraw.conn_id
  /\ sState = "HANDSHAKE" =>
       \A p \in toClient : p.conn_id = sDraw.conn_id => p.flags = SYNACK

\* The server process serves the client.
Serves ==
  /\ sState \in {"HANDSHAKE", "ESTABLISHED", "LAST_ACK"}
  /\ sState = "HANDSHAKE" => out = << >> /\ sConn.ack_num = FirstSeq
  /\ sState # "HANDSHAKE" => cConn.conn_id = sDraw.conn_id
  /\ sState = "ESTABLISHED" => sConn.ack_num = FirstSeq + Len(out)
  /\ sState = "LAST_ACK" => out = input

\* The server process serves somebody else, and the client can tell.
PassesBy ==
  /\ sState \in {"HANDSHAKE", "ESTABLISHED", "LAST_ACK"}
  /\ sDraw.conn_id \notin Offered
  /\ sState = "HANDSHAKE" => sConn.ack_num # FirstSeq

\* The server process is in a session, or in none, under its own identifier.
ServerSession ==
  /\ sState = "LISTEN" => out = << >>
  /\ sState \in {"HANDSHAKE", "ESTABLISHED", "LAST_ACK"} => sConn.conn_id = sDraw.conn_id
=============================================================================
