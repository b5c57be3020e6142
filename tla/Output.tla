------------------------------- MODULE Output -------------------------------
(***************************************************************************)
(* The output stream of the server.  fwrite takes a chunk when it is in    *)
(* the buffer of the stream; it is written out when the buffer fills up,   *)
(* and when the stream is closed: by fclose at the end of run_server, or,  *)
(* for stdout, by the C library once main has returned its exit code.      *)
(***************************************************************************)
EXTENDS Transfer

CONSTANT OUTPUT   \* what get_file_stream has returned: "file" or "stdout"

ASSUME OutputAssumption == OUTPUT \in {"file", "stdout"}

VARIABLE written   \* how many of the chunks of out have left the buffer

outputVars == <<vars, written>>

\* The buffer is written out, all of it or some.
Flush     == written' = Len(out')
FlushSome == written' \in written .. Len(out')

\* fwrite, in handle_established; where it comes to write the buffer out and
\* that fails, it takes less than the chunk (WriteFails).
Write ==
  /\ \E p \in toServer : AcceptData(p) \/ WriteFails(p)
  /\ FlushSome

\* Mutant: what fclose returns is not looked at.
CloseUnchecked ==
  /\ ServerExits
  /\ \/ Flush
     \/ "close" \in Faults /\ FlushSome

\* run_server ends.  Where fclose cannot write the rest of a file, the exit code
\* says so; stdout is written out after run_server has returned the exit code.
Close ==
  /\ ServerExits
  /\ \/ Flush
     \/ /\ "close" \in Faults
        /\ FlushSome
        /\ OUTPUT = "file" => sExit' \in {EX_IOERR, EX_OSERR}

\* Everything else the server does leaves the stream alone.
Otherwise ==
  /\ \/ ServerBlocks \/ ServerStops \/ ServerTimesOut
     \/ \E p \in toServer :
          \/ AcceptSyn(p) \/ RepeatSynAck(p) \/ AcceptHandshake(p) \/ AcceptFin(p)
          \/ RepeatAck(p) \/ RepeatFinAck(p) \/ AcceptLastAck(p) \/ ServerIgnores(p)
     \/ \E from \in {"client", "other"} : ServerRejects(from)
     \/ ServerDeadline \/ ServerSignal
  /\ UNCHANGED written

OutputInit == Init /\ written = 0

OutputNext ==
  \/ (Write \/ Close \/ Otherwise) /\ UNCHANGED clientVars
  \/ (ClientNext \/ Loss) /\ UNCHANGED written

OutputSpec == OutputInit /\ [][OutputNext]_outputVars

-----------------------------------------------------------------------------

\* Where the server exits with EX_OK, the whole input has left its buffer: no
\* chunk it has acknowledged was lost on its way out unnoticed (fwrite in
\* handle_established, fclose in run_server).
OutputIsWritten == ServerSucceeded => SubSeq(out, 1, written) = input
=============================================================================
