------------------------------- MODULE Window -------------------------------
(***************************************************************************)
(* The sender's Go-Back-N window: window.c, on the GBNSenderState of        *)
(* window.h.                                                               *)
(*                                                                         *)
(* window_timer_ms is abstracted to what the code asks of it: "off" is 0,   *)
(* "due" is a time at least RETRANSMIT_INTERVAL_MS ago, "running" any      *)
(* other time.                                                             *)
(*                                                                         *)
(* base + WINDOW_SIZE wraps before nextseqnum does, and a window whose sum  *)
(* has wrapped counts as full.                                              *)
(***************************************************************************)
EXTENDS Network

CONSTANT WINDOW_SIZE

ASSUME WindowAssumption == WINDOW_SIZE \in Nat \ {0}

Slots == 0 .. WINDOW_SIZE - 1

Index(seq) == seq % WINDOW_SIZE

\* A slot of the cyclic buffer: a packet, and whether it waits for its ACK.
WindowPacket == [ packet : DataPackets, is_valid : BOOLEAN ]

EmptySlot == [ packet |-> Header(NoConnection, {}), is_valid |-> FALSE ]

GBNSenderState ==
  [ base       : SeqNum,
    nextseqnum : SeqNum,
    buffer     : [Slots -> WindowPacket \cup {EmptySlot}],
    timer      : {"off", "running", "due"} ]

\* The state handle_established starts from.
NewWindow(seq) ==
  [ base |-> seq, nextseqnum |-> seq, timer |-> "off",
    buffer |-> [i \in Slots |-> EmptySlot] ]

InFlight(w) == w.base .. w.nextseqnum - 1

\* Mutant: the loop of gbn_fill_and_send_window runs one turn too many.
WindowFullLate(w) == w.nextseqnum > (w.base + WINDOW_SIZE) % SeqSpace

\* Mutant: the distance is compared, and numbers go round.
WindowFullByDistance(w) == (w.nextseqnum - w.base) % SeqSpace >= WINDOW_SIZE

WindowFull(w) == w.nextseqnum >= (w.base + WINDOW_SIZE) % SeqSpace

-----------------------------------------------------------------------------

\* Mutant: nextseqnum moves on before the header is built.
DataPacketNext(w, conn, chunk) ==
  [ flags |-> DATA, seq_num |-> Inc(w.nextseqnum), ack_num |-> conn.ack_num,
    conn_id |-> conn.conn_id, payload |-> chunk ]

\* The DATA packet gbn_fill_and_send_window builds for a chunk.
DataPacket(w, conn, chunk) ==
  [ flags |-> DATA, seq_num |-> w.nextseqnum, ack_num |-> conn.ack_num,
    conn_id |-> conn.conn_id, payload |-> chunk ]

\* One turn of the loop of gbn_fill_and_send_window, once it has read a chunk.
gbn_fill(w, p) ==
  [ base       |-> w.base,
    nextseqnum |-> Inc(w.nextseqnum),
    buffer     |-> [w.buffer EXCEPT
                      ![Index(w.nextseqnum)] = [packet |-> p, is_valid |-> TRUE]],
    timer      |-> IF w.base = w.nextseqnum THEN "running" ELSE w.timer ]

\* Mutant: gbn_process_ack without its lower bound.
AckInWindowAnyOld(w, ack) == ack <= w.nextseqnum

\* Whether gbn_process_ack moves the window.
AckInWindow(w, ack) == w.base < ack /\ ack <= w.nextseqnum

\* A slot whose packet no longer waits for its ACK.
Acked(slot) == [packet |-> slot.packet, is_valid |-> FALSE]

\* The window after gbn_process_ack, which ignores an ACK out of the window.
gbn_process_ack(w, ack) ==
  IF ~AckInWindow(w, ack) THEN w ELSE
  [w EXCEPT
     !.base   = ack,
     !.buffer = [i \in Slots |->
                   IF \E seq \in w.base .. ack - 1 : Index(seq) = i
                   THEN Acked(w.buffer[i])
                   ELSE w.buffer[i]]]

\* Whether gbn_process_ack reports progress: it freed a slot that was waiting.
AckedNew(w, ack) ==
  /\ AckInWindow(w, ack)
  /\ \E seq \in w.base .. ack - 1 : w.buffer[Index(seq)].is_valid

\* Mutant: every ACK that makes progress stops the timer.
TimerStopsAfterAck(w) == "off"

\* The timer after an ACK that made progress: stopped if nothing is in flight,
\* else started anew.
TimerAfterAck(w) == IF w.base = w.nextseqnum THEN "off" ELSE "running"

\* The packets gbn_retransmit_window sends, in the order of their numbers.
Unacked(w) ==
  { w.buffer[Index(seq)].packet :
      seq \in {s \in InFlight(w) : w.buffer[Index(s)].is_valid} }
=============================================================================
