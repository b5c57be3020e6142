--------------------------- MODULE ReliableStream ---------------------------
(***************************************************************************)
(* What a transfer promises, with no network, no window and no handshake:  *)
(* the receiver is given the sender's chunks one by one, in order; it      *)
(* learns that the stream has ended only when it has all of it; the sender *)
(* learns that only after the receiver; and a process that reports success *)
(* knows it.  Either may fail at any time.                                 *)
(***************************************************************************)
EXTENDS Integers, Sequences

CONSTANT Inputs   \* the streams there may be to transfer

VARIABLES
  input,      \* the stream to transfer
  out,        \* what the receiver has been given
  complete,   \* the receiver knows the stream has ended
  told,       \* the sender knows the receiver has all of it
  sender,     \* the verdict of the sender: "none", "success", "failure"
  receiver    \* the verdict of the receiver

vars == <<input, out, complete, told, sender, receiver>>

Init ==
  /\ input \in Inputs
  /\ out = << >>
  /\ complete = FALSE
  /\ told = FALSE
  /\ sender = "none"
  /\ receiver = "none"

Deliver ==
  /\ receiver = "none"
  /\ ~complete
  /\ Len(out) < Len(input)
  /\ out' = Append(out, input[Len(out) + 1])
  /\ UNCHANGED <<input, complete, told, sender, receiver>>

Complete ==
  /\ receiver = "none"
  /\ out = input
  /\ complete' = TRUE
  /\ UNCHANGED <<input, out, told, sender, receiver>>

Tell ==
  /\ sender = "none"
  /\ complete
  /\ told' = TRUE
  /\ UNCHANGED <<input, out, complete, sender, receiver>>

SenderEnds ==
  /\ sender = "none"
  /\ \/ sender' = "success" /\ told
     \/ sender' = "failure"
  /\ UNCHANGED <<input, out, complete, told, receiver>>

ReceiverEnds ==
  /\ receiver = "none"
  /\ \/ receiver' = "success" /\ complete
     \/ receiver' = "failure"
  /\ UNCHANGED <<input, out, complete, told, sender>>

Next == Deliver \/ Complete \/ Tell \/ SenderEnds \/ ReceiverEnds

Spec == Init /\ [][Next]_vars
=============================================================================
