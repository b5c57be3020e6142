----------------------------- MODULE MCProgress -----------------------------
(***************************************************************************)
(* Transfer with a memory of the packets the server has received, to tell  *)
(* a new one from a duplicate.                                             *)
(***************************************************************************)
EXTENDS MCTransfer

VARIABLES
  seen,     \* every packet the server has received
  again     \* whether the last step was the arrival of one of them

historyVars == <<vars, seen, again>>

HistoryInit == Init /\ seen = {} /\ again = FALSE

\* The server receives a packet, which is remembered.
Remember ==
  /\ \E p \in toServer :
       /\ ServerHandles(p)
       /\ again' = (p \in seen)
       /\ seen' = seen \cup {p}
  /\ UNCHANGED clientVars

HistoryNext ==
  \/ Remember
  \/ /\ ClientNext \/ Loss \/ (ServerActs /\ UNCHANGED clientVars)
     /\ again' = FALSE
     /\ UNCHANGED seen

HistorySpec == HistoryInit /\ [][HistoryNext]_historyVars

\* Only a new packet counts as progress of a transfer: a packet that arrives
\* again and gives the server nothing to write leaves its watchdog running
\* (handle_established in server.c).
DuplicateIsNoProgress ==
  [][ /\ again'
      /\ sState = "ESTABLISHED" /\ sState' = "ESTABLISHED"
      /\ out' = out
      => (sExpired => sExpired') ]_historyVars
=============================================================================
