------------------------------ MODULE Sessions ------------------------------
(***************************************************************************)
(* One server address, two clients: the client of Transfer and a rival     *)
(* started for a stream of its own, at the same time, earlier or later,    *)
(* and a server that may be stopped and started anew.  Server processes    *)
(* serve one session each, so what README.md calls older and concurrent    *)
(* sessions is a client that talks to a server process which serves        *)
(* another one.                                                            *)
(*                                                                         *)
(* The rival runs the same code: it is Transfer with the rival's variables *)
(* and the rival's two directions of the network in the place of the       *)
(* client's.  The server is the same process in both, and answers whom     *)
(* client_addr points at.                                                  *)
(***************************************************************************)
EXTENDS Ownership

CONSTANTS
  RivalInputs,  \* the streams the rival may have to send
  RivalISN,     \* what the rival's rand() % MODULER can return
  MaxRestarts   \* bound on the server processes started after the first

\* No host but the two clients sends to the server here.
ASSUME SessionsAssumption ==
  /\ RivalInputs \subseteq Seq(Chunk)
  /\ RivalISN \subseteq 0 .. SeqSpace - 2
  /\ MaxRestarts \in Nat
  /\ Faults \cap {"stray", "corrupt"} = {}

VARIABLES
  rToServer, rToClient,     \* the network between the rival and the server
  rState, rPc, rConn, rWin, rEof, rDup, rInput, rRead, rAddr, rExpired, rStop,
  rExit, rDraw,             \* the rival
  earlier                   \* what each earlier server process has written, by
                            \* the identifier it drew

rivalNet == <<rToServer, rToClient>>

rival == <<rState, rPc, rConn, rWin, rEof, rDup, rInput, rRead, rAddr, rExpired,
           rStop, rExit, rDraw>>

sessionVars == <<vars, rivalNet, rival, earlier>>

\* The identifiers that server processes have drawn.
Identifiers == DOMAIN earlier \cup {sDraw.conn_id}

\* What the server process that drew an identifier has written.
Written(id) ==
  IF id = sDraw.conn_id THEN out
  ELSE IF id \in DOMAIN earlier THEN earlier[id]
  ELSE << >>

\* Whom the server answers, seen from the rival: it is "the client" there, and
\* the client is some other host.
SeenByRival(addr) ==
  CASE addr = "rival" -> "client"
    [] addr = "client" -> "other"
    [] OTHER -> addr

Rival ==
  INSTANCE Ownership WITH
    Inputs <- RivalInputs, ISN <- RivalISN,
    toServer <- rToServer, toClient <- rToClient,
    cState <- rState, cPc <- rPc, cConn <- rConn, cWin <- rWin, cEof <- rEof,
    cDup <- rDup, input <- rInput, cRead <- rRead, cAddr <- rAddr,
    cExpired <- rExpired, cStop <- rStop, cExit <- rExit, cDraw <- rDraw,
    sAddr <- SeenByRival(sAddr)

SessionsInit ==
  /\ Init
  /\ Rival!ClientInit
  /\ rToServer = {} /\ rToClient = {}
  /\ earlier = << >>

-----------------------------------------------------------------------------
(* The two clients and the network                                         *)

ClientSteps == ClientNext /\ UNCHANGED <<rivalNet, rival, earlier>>

RivalSteps ==
  /\ UNCHANGED sAddr
  /\ Rival!ClientNext
  /\ UNCHANGED <<toServer, toClient, clientVars, earlier>>

-----------------------------------------------------------------------------
(* The server: it receives from either, and answers the one that client_addr *)
(* points at, which every datagram sets (recvfrom in recv_packet, utils.c).  *)

\* A packet of the client arrives, or the server acts on its own account while
\* client_addr points at the client, at nobody, or at some other host.
ServerStepsWithClient ==
  /\ \/ \E p \in toServer : ServerHandles(p)
     \/ sAddr # "rival" /\ ServerActs
  /\ UNCHANGED <<clientVars, rivalNet, rival, earlier>>

\* A packet of the rival arrives, or client_addr points at the rival.
ServerStepsWithRival ==
  /\ sAddr' = "rival"
  /\ \/ \E p \in rToServer : Rival!ServerHandles(p)
     \/ sAddr = "rival" /\ Rival!ServerActs
  /\ UNCHANGED <<toServer, toClient, clientVars, rival, earlier>>

\* The server process has ended or is killed, and another one is started: it
\* creates the output anew, and draws.  What is in flight to the address of the old
\* process reaches the new one.
ServerStarts(draws) ==
  /\ Cardinality(DOMAIN earlier) < MaxRestarts
  /\ earlier' = [id \in Identifiers |-> Written(id)]
  /\ sState' = "LISTEN"
  /\ sPc' = "step"
  /\ sConn' = NoConnection
  /\ out' = << >>
  /\ sAddr' = "none"
  /\ sExpired' = FALSE
  /\ sStop' = FALSE
  /\ sExit' = EX_OK
  /\ sDraw' \in draws
  /\ UNCHANGED <<netVars, clientVars, rivalNet, rival>>

\* A start in another second: srand(time(NULL)) has another seed.  Left out are an
\* identifier that comes up twice by chance, one of 60000, and a start in the same
\* second, which always draws what the process before has drawn: ServerStarts({sDraw}).
ServerStartsAnew ==
  ServerStarts({ draw \in [seq_num : ISN, conn_id : ConnId] :
                   draw.conn_id \notin Identifiers })

SessionsNext ==
  \/ ClientSteps \/ RivalSteps
  \/ ServerStepsWithClient \/ ServerStepsWithRival
  \/ ServerStartsAnew

SessionsSpec == SessionsInit /\ [][SessionsNext]_sessionVars

-----------------------------------------------------------------------------
(* Safety                                                                  *)

RivalSucceeded == rPc = "exited" /\ rExit = EX_OK

\* What the server processes have written, each.
Outputs == { Written(id) : id \in Identifiers }

\* What a server process writes is part of one stream: no chunk of another
\* session, older or concurrent, gets into it (the conn_id of server.c).
OneSession ==
  \A written \in Outputs :
    IsPrefix(written, input) \/ IsPrefix(written, rInput)

\* A client that exits with EX_OK has had its stream written whole, by one
\* server process (run_client, by way of FIN_WAIT).
EachIsServed ==
  /\ ClientSucceeded => input \in Outputs
  /\ RivalSucceeded => rInput \in Outputs

-----------------------------------------------------------------------------
(* Why it is safe, when the two clients draw different numbers             *)

\* The types of the server's variables, and of what earlier ones have left.
ServersTypeOK ==
  /\ SessionTypeOK
  /\ sDraw \in [seq_num : ISN, conn_id : ConnId]
  /\ earlier \in [DOMAIN earlier -> Seq(Chunk)]
  /\ DOMAIN earlier \subseteq ConnId
  /\ sDraw.conn_id \notin DOMAIN earlier

\* An identifier belongs to one client, and only its server process gives it out.
OneOwner ==
  /\ Offered \cap Rival!Offered = {}
  /\ {cConn.conn_id, rConn.conn_id} \subseteq Identifiers \cup {0}
  /\ \A p \in toClient \cup rToClient : p.conn_id \in Identifiers

\* The server process serves one client, or none.
ServesOne ==
  /\ ServerSession
  /\ \/ sState \in {"LISTEN", "DONE"}
     \/ Serves /\ Rival!PassesBy
     \/ Rival!Serves /\ PassesBy
  /\ NotYetTold /\ Rival!NotYetTold

\* What is written at all is written for the client that has the identifier.
WrittenForOne ==
  \A id \in Identifiers : Written(id) # << >> => id \in {cConn.conn_id, rConn.conn_id}

\* The two clients start from different numbers, as they do unless srand(time(NULL))
\* in run_client gives both the same seed; see the run same_second.
NumbersDiffer == cDraw # rDraw

\* The inductive invariant of the sessions at one server address.
SessionsInv ==
  /\ ServersTypeOK
  /\ ClientSession(Written(cConn.conn_id))
  /\ Rival!ClientSession(Written(rConn.conn_id))
  /\ OneOwner
  /\ ServesOne
  /\ WrittenForOne
=============================================================================
