------------------------------ MODULE Startup ------------------------------
(***************************************************************************)
(* The program around the session: main, from the signal handlers to the   *)
(* exit code, with the setup of the socket, the stream and the clean-up of *)
(* run_client and run_server.  A session is here only the code it ends in. *)
(***************************************************************************)
EXTENDS Arguments, SequencesExt

CONSTANT Sessions   \* the exit codes a session may end in

EX_NOINPUT   == "EX_NOINPUT"
EX_NOHOST    == "EX_NOHOST"
EX_OSERR     == "EX_OSERR"
EX_CANTCREAT == "EX_CANTCREAT"
EX_IOERR     == "EX_IOERR"

VARIABLES
  stage,       \* how far main has come
  status,      \* what it has returned
  families,    \* the address families for which socket() gives a socket
  taken,       \* the addresses of result on which bind fails
  result,      \* the list of getaddrinfo, while it is allocated
  rider,       \* where in it the search for an address is
  sockets,     \* the addresses of the sockets that are open
  my_socket,   \* the address of the socket of the session
  file,        \* the stream: NULL, "std", or "file" while a file is open
  truncated,   \* whether an output file has been created or emptied
  session      \* exit_code, once the session is over

host == <<families, taken>>
rest == <<result, rider, sockets, my_socket, file, truncated, session>>

startVars == <<argVars, stage, status, host, rest>>

Wildcard == [ name : {"any"}, family : {"v4", "v6"} ]
Local    == [ name : {"host"}, family : {"v4", "v6"} ]

ASSUME NullAssumption == NULL \notin Wildcard \cup Local \cup Sessions

StartInit ==
  /\ ArgInit
  /\ stage = "handlers" /\ status = EX_OK
  /\ families = {} /\ taken = {}
  /\ result = << >> /\ rider = 0 /\ sockets = {} /\ my_socket = NULL
  /\ file = NULL /\ truncated = FALSE /\ session = NULL

\* The program ends: main returns, or exit is called.
Return(exit_code) == stage' = "exited" /\ status' = exit_code

GoOn(next) == stage' = next /\ UNCHANGED status

InstallHandlers ==
  /\ stage = "handlers"
  /\ GoOn("arguments") \/ Return(EX_OSERR)
  /\ UNCHANGED <<argVars, host, rest>>

ParseArguments ==
  /\ stage = "arguments"
  /\ ArgNext
  /\ CASE pc' = "exited"   -> Return(code')
       [] pc' = "accepted" -> GoOn("resolve")
       [] OTHER            -> UNCHANGED <<stage, status>>
  /\ UNCHANGED <<host, rest>>

-----------------------------------------------------------------------------
(* setup_client_socket, setup_server_socket                                *)

\* What getaddrinfo may answer: both wildcards, or what addresses the name has.
\* Which of them the host has, and has left, shows from here on.
Resolutions ==
  IF config.is_server /\ config.address \in {NULL, ""}
  THEN SetToSeqs(Wildcard)
  ELSE SetToAllKPermutations(Local) \ {<< >>}

Resolve ==
  /\ stage = "resolve"
  /\ \/ /\ result' \in Resolutions
        /\ rider' = 1
        /\ families' \in SUBSET {"v4", "v6"}
        /\ taken' \in SUBSET Range(result')
        /\ GoOn("setup")
     \/ Return(EX_NOHOST) /\ UNCHANGED <<host, result, rider>>
  /\ UNCHANGED <<argVars, sockets, my_socket, file, truncated, session>>

Searches == stage = "setup" /\ rider <= Len(result)

\* Mutant: a socket that cannot be bound stays open.
KeptOpen(address) == sockets \cup {address}

\* The sockets that are open when one that could not be bound is closed.
Closed(address) == sockets

\* socket() fails for this address, or bind does: the next one.
TryNext ==
  /\ Searches
  /\ \/ result[rider].family \notin families /\ UNCHANGED sockets
     \/ /\ config.is_server
        /\ result[rider].family \in families
        /\ result[rider] \in taken
        /\ sockets' = Closed(result[rider])
  /\ rider' = rider + 1
  /\ UNCHANGED <<argVars, stage, status, host, result, my_socket, file, truncated, session>>

\* The first address that works.
TakeAddress ==
  /\ Searches
  /\ result[rider].family \in families
  /\ config.is_server => result[rider] \notin taken
  /\ my_socket' = result[rider]
  /\ sockets' = sockets \cup {result[rider]}
  /\ result' = << >>
  /\ GoOn("open")
  /\ UNCHANGED <<argVars, host, rider, file, truncated, session>>

\* Mutant: run_server opens its output before it has a socket.
NoAddressLeftForOutput ==
  /\ stage = "setup" /\ rider > Len(result)
  /\ result' = << >>
  /\ truncated' = (config.is_server /\ config.output_file \notin {NULL, "-"})
  /\ Return(EX_OSERR)
  /\ UNCHANGED <<argVars, host, rider, sockets, my_socket, file, session>>

NoAddressLeft ==
  /\ stage = "setup" /\ rider > Len(result)
  /\ result' = << >>
  /\ Return(EX_OSERR)
  /\ UNCHANGED <<argVars, host, rider, sockets, my_socket, file, truncated, session>>

-----------------------------------------------------------------------------
(* The rest of run_client and run_server                                   *)

stream == IF config.is_server THEN config.output_file ELSE config.input_file

\* get_file_stream; fopen empties an output file that exists.
OpenStream ==
  /\ stage = "open"
  /\ \/ /\ stream \in {NULL, "-"}
        /\ file' = "std" /\ GoOn("session")
        /\ UNCHANGED <<sockets, truncated>>
     \/ /\ stream \notin {NULL, "-"}
        /\ file' = "file" /\ GoOn("session")
        /\ truncated' = config.is_server
        /\ UNCHANGED sockets
     \/ /\ stream \notin {NULL, "-"}
        /\ sockets' = sockets \ {my_socket}
        /\ Return(IF config.is_server THEN EX_CANTCREAT ELSE EX_NOINPUT)
        /\ UNCHANGED <<file, truncated>>
  /\ UNCHANGED <<argVars, host, result, rider, my_socket, session>>

\* The loop over the states.
RunSession ==
  /\ stage = "session"
  /\ session' \in Sessions
  /\ GoOn("cleanup")
  /\ UNCHANGED <<argVars, host, result, rider, sockets, my_socket, file, truncated>>

\* Mutant: the clean-up starts from a code of its own.
CloseCodesAnew == {EX_OK, EX_OSERR, EX_IOERR}

\* What exit_code may be after fclose and close.
CloseCodes == {session, EX_OSERR} \cup (IF file = "file" THEN {EX_IOERR} ELSE {})

CleanUp ==
  /\ stage = "cleanup"
  /\ file' = NULL
  /\ sockets' = sockets \ {my_socket}
  /\ \E exit_code \in CloseCodes : Return(exit_code)
  /\ UNCHANGED <<argVars, host, result, rider, my_socket, truncated, session>>

StartNext ==
  \/ InstallHandlers \/ ParseArguments
  \/ Resolve \/ TryNext \/ TakeAddress \/ NoAddressLeft
  \/ OpenStream \/ RunSession \/ CleanUp

StartSpec == StartInit /\ [][StartNext]_startVars

-----------------------------------------------------------------------------

\* However the program ends after its command line was accepted, it has closed its
\* sockets and its file and freed the list of addresses, and it never has more
\* than one socket open (the error paths of setup_server_socket and run_server).
NothingLeaks ==
  /\ stage = "exited" => sockets = {} /\ file = NULL /\ result = << >>
  /\ Cardinality(sockets) <= 1

\* An output file is emptied only for a server that has been told to, with a
\* command line that is right in every other part, and a socket; and a server that
\* ends before its session has not emptied it, whatever it ends of (run_server
\* opens the output last).
OutputIsSpared ==
  /\ truncated => /\ Usable /\ Given("s") # {} /\ LastOf("o") # "-"
                  /\ my_socket # NULL
  /\ stage = "exited" /\ session = NULL => ~truncated

\* EX_OK stands for a session that has ended well, or for help.
SuccessIsEarned ==
  stage = "exited" /\ status = EX_OK => session = EX_OK \/ Given("h") # {}
=============================================================================
