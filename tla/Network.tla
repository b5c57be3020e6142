------------------------------ MODULE Network ------------------------------
(***************************************************************************)
(* The UDP service as the two endpoints use it, and the packets they       *)
(* exchange (protocol.h, and the packet wrappers of utils.c).              *)
(*                                                                         *)
(* A direction of the network is the set of packets in flight in it.  Any  *)
(* packet of the set may be the next one to arrive, so packets are         *)
(* reordered and delayed without bound.  With "dup" in Faults a packet     *)
(* that arrives stays in flight and may arrive again; a packet that never  *)
(* arrives is a lost one, so that a network that duplicates also loses.    *)
(* Without "dup" an arriving packet leaves the network, and only the       *)
(* action Lose takes a packet away undelivered.                            *)
(***************************************************************************)
EXTENDS Integers, Sequences, FiniteSets

CONSTANTS
  Chunk,        \* the payloads: what one read_chunk call can return
  Nil,          \* the payload of a packet that carries none
  SeqSpace,     \* how many sequence numbers there are: 2^32 (uint32_t)
  ISN,          \* what rand() % MODULER can return: initial sequence numbers
  ConnId,       \* what rand() % 60000 + 1 can return: connection identifiers
  Faults,       \* what the environment of this instance may do
  MaxMishaps    \* bound on lost, corrupted and stray packets, taken together

FaultKinds ==
  { "dup",      \* the network delivers a packet more than once
    "loss",     \* the network drops a packet
    "corrupt",  \* a damaged copy of a packet arrives
    "stray",    \* an unrelated host's datagram arrives
    "expire",   \* TIMEOUT seconds pass without progress
    "signal",   \* SIGINT or SIGTERM is delivered
    "send",     \* sendto fails
    "read",     \* the input stream fails (an interrupted fread included)
    "write",    \* the output stream fails
    "close" }   \* fclose or close fails

ASSUME ChunkAssumption == Nil \notin Chunk
ASSUME SpaceAssumption == SeqSpace \in Nat \ {0}
ASSUME DrawAssumption ==
  /\ ISN \subseteq 0 .. SeqSpace - 2   \* MODULER is far below 2^32
  /\ ConnId \subseteq Nat \ {0}
ASSUME FaultAssumption == Faults \subseteq FaultKinds /\ MaxMishaps \in Nat

VARIABLES
  toServer,     \* packets in flight from the client to the server
  toClient,     \* packets in flight from the server to the client
  mishaps       \* lost, corrupted and stray packets so far

netVars == <<toServer, toClient, mishaps>>

-----------------------------------------------------------------------------
(* Sequence numbers, in the arithmetic of uint32_t.                        *)

SeqNum == 0 .. SeqSpace - 1

Inc(seq) == (seq + 1) % SeqSpace

-----------------------------------------------------------------------------
(* Packets.  The flags byte is the set of the flags that are up.  Length    *)
(* and checksum are not fields: a packet in flight is an intact one.        *)

SYN    == {"SYN"}
ACK    == {"ACK"}
FIN    == {"FIN"}
DATA   == {"DATA"}
SYNACK == {"SYN", "ACK"}
FINACK == {"FIN", "ACK"}

ControlPackets ==
  [ flags   : {SYN, ACK, FIN, SYNACK, FINACK},
    seq_num : SeqNum,
    ack_num : SeqNum,
    conn_id : Nat,
    payload : {Nil} ]

DataPackets ==
  [ flags   : {DATA},
    seq_num : SeqNum,
    ack_num : SeqNum,
    conn_id : Nat,
    payload : Chunk ]

Packet == ControlPackets \cup DataPackets

\* The exit codes of both programs (sysexits.h).
EX_OK       == "EX_OK"
EX_SOFTWARE == "EX_SOFTWARE"
EX_OSERR    == "EX_OSERR"
EX_IOERR    == "EX_IOERR"
EX_PROTOCOL == "EX_PROTOCOL"

ExitCode == {EX_OK, EX_SOFTWARE, EX_OSERR, EX_IOERR, EX_PROTOCOL}

ConnectionState == [ seq_num : SeqNum, ack_num : SeqNum, conn_id : Nat ]

NoConnection == [ seq_num |-> 0, ack_num |-> 0, conn_id |-> 0 ]

\* A packet with the numbers of a connection: fill_header of that connection.
Header(conn, flags) ==
  [ flags |-> flags, seq_num |-> conn.seq_num, ack_num |-> conn.ack_num,
    conn_id |-> conn.conn_id, payload |-> Nil ]

\* The exit code of a process that leaves its loop with exit_code = code: the
\* cleanup overwrites it when fclose or close fails.
ExitCodes(code) ==
  {code} \cup (IF "close" \in Faults THEN {EX_IOERR, EX_OSERR} ELSE {})

\* What is in flight in a direction after p arrived there.
After(p, inFlight) == IF "dup" \in Faults THEN inFlight ELSE inFlight \ {p}

\* What is in flight in a direction after the packets of S are sent to addr:
\* only what is sent to the endpoint of that direction travels in it.
Sent(S, addr, endpoint, inFlight) ==
  IF addr = endpoint THEN inFlight \cup S ELSE inFlight

-----------------------------------------------------------------------------

\* The types of the variables.
NetTypeOK ==
  /\ toServer \subseteq Packet
  /\ toClient \subseteq Packet
  /\ mishaps \in 0 .. MaxMishaps

NetInit ==
  /\ toServer = {}
  /\ toClient = {}
  /\ mishaps = 0

\* A packet is dropped.
Lose ==
  /\ "loss" \in Faults
  /\ mishaps < MaxMishaps
  /\ \/ \E p \in toServer : toServer' = toServer \ {p} /\ UNCHANGED toClient
     \/ \E p \in toClient : toClient' = toClient \ {p} /\ UNCHANGED toServer
  /\ mishaps' = mishaps + 1

\* A datagram that parse_packet rejects reaches an endpoint that was sent the
\* packets of inFlight: a damaged copy of one of them, sent by the endpoint's
\* peer, or a datagram of some other host.  from is its source address.
Malformed(from, peer, inFlight) ==
  /\ mishaps < MaxMishaps
  /\ \/ from = peer /\ "corrupt" \in Faults /\ inFlight # {}
     \/ from = "other" /\ "stray" \in Faults
  /\ mishaps' = mishaps + 1
  /\ UNCHANGED <<toServer, toClient>>
=============================================================================
