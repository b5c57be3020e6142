---------------------------- MODULE WindowProofs ----------------------------
(***************************************************************************)
(* The sender's window of Transfer: its cyclic buffer holds what it may    *)
(* have to send again, its timer is set when it must be, and it never      *)
(* moves back.  For every choice of the constants.                         *)
(***************************************************************************)
EXTENDS SessionProofs

USE DEF netVars, established

-----------------------------------------------------------------------------
(* The operators of the window                                             *)

\* Division with remainder.
LEMMA DivisionWithRest ==
  ASSUME NEW n \in Int, NEW d \in Int, d > 0
  PROVE  n % d = n - d * (n \div d)
OBVIOUS

\* Numbers less than a divisor apart have different remainders.
LEMMA RestsDiffer ==
  ASSUME NEW s \in Int, NEW t \in Int, NEW d \in Int, d > 0, s < t, t < s + d
  PROVE  s % d # t % d
<1> DEFINE m == s \div d
           n == t \div d
<1>1. s % d = s - d * m /\ t % d = t - d * n
  BY DivisionWithRest
<1>2. m \in Int /\ n \in Int
  OBVIOUS
<1> HIDE DEF m, n
<1>3. SUFFICES ASSUME s % d = t % d
               PROVE  FALSE
  OBVIOUS
<1>4. t - s = d * (n - m)
  BY <1>1, <1>2, <1>3
<1>5. CASE n - m <= 0
  BY <1>2, <1>4, <1>5
<1>6. CASE n - m >= 1
  BY <1>2, <1>4, <1>6
<1> QED
  BY <1>2, <1>5, <1>6

\* Numbers less than a window apart have slots of their own.
LEMMA SlotsDiffer ==
  ASSUME NEW s \in Nat, NEW t \in Nat, s < t, t < s + WINDOW_SIZE
  PROVE  Index(s) # Index(t)
BY WindowAssumption, RestsDiffer DEF Index

\* A rest is not more than what it is left of.
LEMMA RestIsLess ==
  ASSUME NEW n \in Nat, NEW d \in Nat \ {0}
  PROVE  n % d <= n
<1>1. CASE n < d
  BY <1>1
<1>2. CASE n >= d
  <2>1. n % d \in 0 .. d - 1
    OBVIOUS
  <2> QED BY <1>2, <2>1
<1> QED BY <1>1, <1>2

\* The numbers of a window are natural.
LEMMA WindowNumbers ==
  ASSUME NEW w \in GBNSenderState
  PROVE  /\ w.base \in Nat /\ w.nextseqnum \in Nat
         /\ w.base + WINDOW_SIZE \in Nat /\ WINDOW_SIZE \in Nat /\ WINDOW_SIZE > 0
<1>1. w.base \in Nat /\ w.nextseqnum \in Nat
  BY Numbers DEF GBNSenderState
<1> QED BY <1>1, WindowAssumption

\* A window that is not full spans less than it may, wherever the sum wraps.
LEMMA RoomInWindow ==
  ASSUME NEW w \in GBNSenderState, ~WindowFull(w)
  PROVE  w.nextseqnum < w.base + WINDOW_SIZE
<1>1. (w.base + WINDOW_SIZE) % SeqSpace <= w.base + WINDOW_SIZE
  BY WindowNumbers, RestIsLess, SpaceAssumption
<1>2. (w.base + WINDOW_SIZE) % SeqSpace \in Nat
  BY WindowNumbers, SpaceAssumption
<1> QED BY <1>1, <1>2, WindowNumbers DEF WindowFull

\* A full window has a packet in flight, or is stalled.
LEMMA FullOrStalled ==
  ASSUME NEW w \in GBNSenderState, WindowFull(w), ~Stalled(w)
  PROVE  w.base < w.nextseqnum
<1>1. (w.base + WINDOW_SIZE) % SeqSpace = w.base + WINDOW_SIZE
  BY WindowNumbers, SpaceAssumption DEF Stalled
<1> QED BY <1>1, WindowNumbers DEF WindowFull

\* A window that is not full takes the next packet.
LEMMA RingTakesNext ==
  ASSUME NEW w \in GBNSenderState, NEW p, Ring(w), ~WindowFull(w),
         p.seq_num = w.nextseqnum
  PROVE  Ring(gbn_fill(w, p))
<1> DEFINE n == w.nextseqnum
           filled == gbn_fill(w, p)
<1>1. /\ w.base \in Nat /\ n \in Nat /\ WINDOW_SIZE \in Nat
      /\ w.base <= n /\ n < w.base + WINDOW_SIZE
  BY WindowNumbers, RoomInWindow DEF Ring
<1>2. filled.base = w.base /\ filled.nextseqnum = n + 1
  BY RoomIsBelowTheEnd DEF gbn_fill
<1>3. filled.buffer[Index(n)] = [packet |-> p, is_valid |-> TRUE]
  BY <1>1, IndexIsSlot DEF gbn_fill, GBNSenderState
<1>4. ASSUME NEW seq \in InFlight(w)
      PROVE  filled.buffer[Index(seq)] = w.buffer[Index(seq)]
  <2>1. seq \in Nat /\ seq < n /\ n < seq + WINDOW_SIZE
    BY <1>1 DEF InFlight
  <2>2. Index(seq) # Index(n) /\ Index(seq) \in Slots
    BY <1>1, <2>1, SlotsDiffer, IndexIsSlot
  <2> QED
    BY <2>2 DEF gbn_fill, GBNSenderState
<1>5. \A seq \in InFlight(filled) : seq = n \/ seq \in InFlight(w)
  BY <1>1, <1>2 DEF InFlight
<1> HIDE DEF filled
<1>6. ASSUME NEW seq \in InFlight(filled)
      PROVE  /\ filled.buffer[Index(seq)].is_valid
             /\ filled.buffer[Index(seq)].packet.seq_num = seq
  <2>1. CASE seq = n
    BY <1>3, <2>1
  <2>2. CASE seq \in InFlight(w)
    BY <1>4, <2>2 DEF Ring
  <2> QED
    BY <1>5, <2>1, <2>2
<1>7. filled.base <= filled.nextseqnum /\ filled.nextseqnum <= filled.base + WINDOW_SIZE
  BY <1>1, <1>2
<1>8. Ring(filled)
  BY <1>6, <1>7 DEF Ring
<1> QED
  BY <1>8 DEF filled

\* An ACK frees slots of the numbers it acknowledges, and of no other.
LEMMA RingAcked ==
  ASSUME NEW w \in GBNSenderState, NEW ack \in SeqNum, Ring(w)
  PROVE  Ring(gbn_process_ack(w, ack))
<1> DEFINE left == gbn_process_ack(w, ack)
<1>1. CASE ~AckInWindow(w, ack)
  BY <1>1 DEF gbn_process_ack
<1>2. CASE AckInWindow(w, ack)
  <2>1. /\ w.base \in Nat /\ w.nextseqnum \in Nat /\ WINDOW_SIZE \in Nat
        /\ ack \in Nat /\ w.base < ack /\ ack <= w.nextseqnum
        /\ w.nextseqnum <= w.base + WINDOW_SIZE
    BY <1>2, WindowNumbers, Numbers DEF Ring, AckInWindow
  <2>2. left.base = ack /\ left.nextseqnum = w.nextseqnum
    BY <1>2 DEF gbn_process_ack, GBNSenderState
  <2>3. ASSUME NEW seq \in ack .. w.nextseqnum - 1
        PROVE  left.buffer[Index(seq)] = w.buffer[Index(seq)]
    <3>1. seq \in Nat /\ Index(seq) \in Slots
      BY <2>1, IndexIsSlot
    <3>2. ASSUME NEW gone \in w.base .. ack - 1
          PROVE  Index(gone) # Index(seq)
      <4>1. gone \in Nat /\ gone < seq /\ seq < gone + WINDOW_SIZE
        BY <2>1, <3>1
      <4> QED
        BY <3>1, <4>1, SlotsDiffer
    <3> QED
      BY <1>2, <3>1, <3>2 DEF gbn_process_ack, GBNSenderState
  <2>4. \A seq \in ack .. w.nextseqnum - 1 : seq \in InFlight(w)
    BY <2>1 DEF InFlight
  <2>5. \A seq \in ack .. w.nextseqnum - 1 :
          left.buffer[Index(seq)].is_valid /\ left.buffer[Index(seq)].packet.seq_num = seq
    BY <2>3, <2>4 DEF Ring
  <2>6. InFlight(left) = ack .. w.nextseqnum - 1
    BY <2>2 DEF InFlight
  <2> HIDE DEF left
  <2>7. left.base <= left.nextseqnum /\ left.nextseqnum <= left.base + WINDOW_SIZE
    BY <2>1, <2>2
  <2>8. Ring(left)
    BY <2>5, <2>6, <2>7 DEF Ring
  <2> QED
    BY <2>8 DEF left
<1> QED
  BY <1>1, <1>2

\* An ACK that reports no progress leaves the window as it is: one that would
\* move it frees the slot of its base.
LEMMA NoProgressNoChange ==
  ASSUME NEW w \in GBNSenderState, NEW ack \in SeqNum, Ring(w), ~AckedNew(w, ack)
  PROVE  gbn_process_ack(w, ack) = w
<1>1. SUFFICES ASSUME AckInWindow(w, ack)
               PROVE  FALSE
  BY DEF gbn_process_ack
<1>2. /\ w.base \in Nat /\ w.nextseqnum \in Nat /\ ack \in Nat
      /\ w.base < ack /\ ack <= w.nextseqnum
  BY <1>1, WindowNumbers, Numbers DEF AckInWindow
<1>3. w.base \in InFlight(w) /\ w.base \in w.base .. ack - 1
  BY <1>2 DEF InFlight
<1>4. w.buffer[Index(w.base)].is_valid
  BY <1>3 DEF Ring
<1> QED
  BY <1>1, <1>3, <1>4 DEF AckedNew

\* The timer is no part of the ring.
LEMMA RingIgnoresTimer ==
  ASSUME NEW v, NEW w, v.base = w.base, v.nextseqnum = w.nextseqnum,
         v.buffer = w.buffer, Ring(w)
  PROVE  Ring(v)
BY DEF Ring, InFlight

-----------------------------------------------------------------------------
(* The steps                                                               *)

\* The steps that leave the loop of handle_established, or stay out of it.
LEMMA OutOfTheLoop ==
  ASSUME \/ ClientCloses \/ ClientBlocks \/ TransferEnds \/ TransferExpires
         \/ FillFails \/ FinWaitSends \/ ClientStops \/ ClientExits
         \/ SynSentTimeout \/ FinWaitTimeout \/ TimeWaitTimeout \/ ClientExpires
         \/ \E p \in toClient :
              AcceptSynAck(p) \/ AcceptFinAck(p) \/ RepeatLastAck(p)
  PROVE  ~Transferring'
BY DEF Transferring, ClientCloses, ClientBlocks, TransferEnds, TransferExpires,
       FillFails, FinWaitSends, ClientStops, ClientExits, SynSentTimeout,
       FinWaitTimeout, TimeWaitTimeout, ClientExpires, AcceptSynAck, AcceptFinAck,
       RepeatLastAck, ClientStep, ClientWaits, ClientGoto, ClientQuit, ClientSendThen

\* The client's steps keep the window right, and never move its base back.
LEMMA ClientKeepsWindow ==
  ASSUME SessionInv, WindowOK, ClientNext
  PROVE  /\ WindowOK'
         /\ Transferring /\ Transferring' => cWin'.base >= cWin.base
<1> DEFINE Forward == Transferring /\ Transferring' => cWin'.base >= cWin.base
<1>1. /\ cWin \in GBNSenderState /\ cWin.base \in Nat /\ cWin.nextseqnum \in Nat
      /\ WINDOW_SIZE \in Nat \ {0}
  <2>1. cWin \in GBNSenderState
    BY DEF SessionInv, TypeOK, ClientTypeOK
  <2> QED BY <2>1, WindowNumbers
<1>2. Transferring => Ring(cWin) /\ Timed(cWin)
  BY DEF WindowOK
<1>3. CASE ~Transferring'
  BY <1>3 DEF WindowOK
<1>4. ASSUME Transferring, cWin' = cWin, cPc' \notin {"window", "select"}
      PROVE  WindowOK' /\ Forward
  BY <1>1, <1>4 DEF WindowOK, Ring, Timed, Stalled, Transferring, InFlight
<1>5. CASE TransferStarts
  <2>1. cWin' = NewWindow(cConn.seq_num) /\ cPc' = "loop" /\ ~Transferring
    BY <1>5 DEF TransferStarts, ClientStep, Transferring
  <2>2. /\ cConn.seq_num \in Nat /\ cWin'.base = cConn.seq_num
        /\ cWin'.nextseqnum = cConn.seq_num /\ cWin'.timer = "off"
    BY <2>1, SessionNumbers DEF NewWindow, SessionInv
  <2>3. InFlight(cWin)' = {}
    BY <2>2 DEF InFlight
  <2> QED
    BY <1>1, <2>1, <2>2, <2>3 DEF WindowOK, Ring, Timed
<1>6. CASE TransferTurns
  <2>1. Transferring /\ UNCHANGED cWin /\ UNCHANGED cEof /\ cPc' # "select"
        /\ (cPc' = "window" => cEof)
    BY <1>6 DEF TransferTurns, Transferring, SessionInv, ClientOK, ClientKnows
  <2> QED
    BY <1>1, <2>1 DEF WindowOK, Ring, Timed, Stalled, InFlight
<1>7. CASE Fill
  <2>1. Transferring /\ ~WindowFull(cWin) /\ cPc' = "fill"
    BY <1>7 DEF Fill, Transferring, SessionInv, ClientOK, ClientKnows
  <2>2. PICK p : cWin' = gbn_fill(cWin, p) /\ p.seq_num = cWin.nextseqnum
    BY <1>7 DEF Fill, DataPacket
  <2>3. Ring(cWin') /\ Timed(cWin')
    <3>1. Ring(cWin')
      BY <1>1, <1>2, <2>1, <2>2, RingTakesNext
    <3>2. Timed(cWin')
      BY <1>1, <1>2, <2>1, <2>2, RoomIsBelowTheEnd DEF gbn_fill, Ring, Timed
    <3> QED
      BY <3>1, <3>2
  <2>4. cWin'.base = cWin.base
    BY <2>2 DEF gbn_fill
  <2> QED
    BY <1>1, <2>1, <2>3, <2>4 DEF WindowOK, Ring, Timed, Stalled, InFlight
<1>8. CASE FillEnds
  <2>1. /\ Transferring /\ UNCHANGED cWin /\ cPc' = "window"
        /\ WindowFull(cWin) \/ cEof'
    BY <1>8 DEF FillEnds, Transferring, SessionInv, ClientOK, ClientKnows
  <2>2. WindowFull(cWin) => cWin.base < cWin.nextseqnum \/ Stalled(cWin)
    BY <1>1, FullOrStalled
  <2> QED
    BY <1>1, <2>1, <2>2 DEF WindowOK, Ring, Timed, Stalled, InFlight
<1>9. ASSUME Transferring, cPc' = cPc \/ cPc' = "loop", UNCHANGED cEof,
             cWin.base < cWin.nextseqnum \/ Stalled(cWin),
             NEW t, t # "off", cWin' = [cWin EXCEPT !.timer = t]
      PROVE  WindowOK' /\ Forward
  <2>1. /\ cWin'.base = cWin.base /\ cWin'.nextseqnum = cWin.nextseqnum
        /\ cWin'.buffer = cWin.buffer /\ cWin'.timer = t
    BY <1>1, <1>9 DEF GBNSenderState
  <2>2. Ring(cWin')
    BY <1>2, <1>9, <2>1, RingIgnoresTimer
  <2> QED
    BY <1>1, <1>9, <2>1, <2>2 DEF WindowOK, Ring, Timed, Stalled, InFlight
<1>10. CASE Retransmit
  <2>1. Transferring /\ cWin.base # cWin.nextseqnum
    BY <1>10 DEF Retransmit, Transferring, SessionInv, ClientOK, ClientKnows
  <2>2. cWin.base < cWin.nextseqnum
    BY <1>1, <1>2, <2>1 DEF Ring
  <2> QED
    BY <1>9, <1>10, <2>1, <2>2 DEF Retransmit
<1>11. CASE TransferBlocks
  <2>1. Transferring /\ cPc = "window" /\ ~Drained /\ cPc' = "select" /\ UNCHANGED cEof
    BY <1>11 DEF TransferBlocks, Transferring, SessionInv, ClientOK, ClientKnows
  <2>2. cWin.base < cWin.nextseqnum \/ Stalled(cWin)
    BY <1>1, <1>2, <2>1 DEF WindowOK, Drained, Ring
  <2>3. cWin.base < cWin.nextseqnum => cWin.timer # "off"
    BY <1>1, <1>2, <2>1 DEF Timed
  <2>4. cWin' = cWin
    BY <1>1, <1>11, <2>3 DEF TransferBlocks, GBNSenderState
  <2> QED
    BY <1>1, <2>1, <2>2, <2>4 DEF WindowOK, Ring, Timed, Stalled, Transferring, InFlight
<1>12. CASE TransferTimeout
  BY <1>4, <1>12 DEF TransferTimeout, ClientWaits, Transferring
<1>13. CASE \E p \in toClient : AckProgresses(p)
  <2>1. PICK p \in toClient : AckProgresses(p)
    BY <1>13
  <2> DEFINE w == gbn_process_ack(cWin, p.ack_num)
  <2>2. /\ Transferring /\ cPc' = "loop" /\ UNCHANGED cEof
        /\ AckInWindow(cWin, p.ack_num)
        /\ cWin' = [w EXCEPT !.timer = TimerAfterAck(w)]
    BY <2>1 DEF AckProgresses, AckedNew, ClientWaits, Transferring
  <2>3. p.ack_num \in SeqNum /\ p.ack_num \in Nat
    BY PacketNumbers DEF SessionInv, TypeOK, NetTypeOK
  <2>4. w \in GBNSenderState /\ Ring(w)
    BY <1>1, <1>2, <2>2, <2>3, ProcessAckType, RingAcked
  <2>5. w.base = p.ack_num /\ cWin.base < p.ack_num
    BY <1>1, <2>2 DEF gbn_process_ack, AckInWindow, GBNSenderState
  <2> HIDE DEF w
  <2>6. /\ cWin'.base = w.base /\ cWin'.nextseqnum = w.nextseqnum
        /\ cWin'.buffer = w.buffer /\ cWin'.timer = TimerAfterAck(w)
    BY <2>2, <2>4 DEF GBNSenderState
  <2>7. Ring(cWin')
    BY <2>4, <2>6, RingIgnoresTimer
  <2>8. Timed(cWin')
    BY <2>6 DEF TimerAfterAck, Timed
  <2> QED
    BY <1>1, <2>2, <2>3, <2>5, <2>6, <2>7, <2>8 DEF WindowOK, Ring, Timed, Stalled, InFlight
<1>14. CASE \E p \in toClient : AckRepeats(p)
  <2>1. PICK p \in toClient : AckRepeats(p)
    BY <1>14
  <2>2. /\ Transferring /\ cPc = "select" /\ cPc' = "loop" /\ UNCHANGED cEof
        /\ ~AckedNew(cWin, p.ack_num)
    BY <2>1 DEF AckRepeats, ClientWaits, Transferring
  <2>3. p.ack_num \in SeqNum /\ p.ack_num \in Nat
    BY PacketNumbers DEF SessionInv, TypeOK, NetTypeOK
  <2>4. gbn_process_ack(cWin, p.ack_num) = cWin
    BY <1>1, <1>2, <2>2, <2>3, NoProgressNoChange
  <2>5. cWin' = cWin \/ cWin' = [cWin EXCEPT !.timer = "running"]
    BY <2>1, <2>4 DEF AckRepeats
  <2>6. cWin.base < cWin.nextseqnum \/ Stalled(cWin)
    BY <2>2 DEF WindowOK
  <2> QED
    BY <1>4, <1>9, <2>2, <2>5, <2>6
<1>15. CASE \E p \in toClient : ClientIgnores(p)
  BY <1>3, <1>4, <1>15 DEF ClientIgnores, ClientReceives, NextTurn, Transferring
<1>16. CASE \E from \in {"server", "other"} : ClientRejects(from)
  BY <1>3, <1>4, <1>16 DEF ClientRejects, NextTurn, Transferring
<1>17. CASE TimerFires
  <2>1. CASE Transferring
    <3>1. cWin.base < cWin.nextseqnum \/ Stalled(cWin)
      BY <1>1, <1>2, <1>17, <2>1 DEF TimerFires, Ring, Timed
    <3> QED
      BY <1>9, <1>17, <2>1, <3>1 DEF TimerFires
  <2>2. CASE ~Transferring
    BY <1>3, <1>17, <2>2 DEF TimerFires, Transferring
  <2> QED
    BY <2>1, <2>2
<1>18. CASE ClientDeadline \/ ClientSignal
  <2>1. ~Transferring' \/ UNCHANGED <<cState, cPc, cWin, cEof>>
    BY <1>18 DEF ClientDeadline, ClientSignal, ClientQuit, Transferring
  <2> QED
    BY <1>1, <1>3, <2>1 DEF WindowOK, Ring, Timed, Stalled, Transferring, InFlight
<1> QED
  BY <1>3, <1>5, <1>6, <1>7, <1>8, <1>10, <1>11, <1>12, <1>13, <1>14, <1>15, <1>16,
     <1>17, <1>18, OutOfTheLoop
  DEF ClientNext, ClientRuns, ClientTimesOut, ClientHandles

\* Every step of the program keeps the window right.
LEMMA NextWindow ==
  ASSUME SessionInv, WindowOK, [Next]_vars
  PROVE  /\ WindowOK'
         /\ Transferring /\ Transferring' => cWin'.base >= cWin.base
<1>1. CASE ClientNext
  BY <1>1, ClientKeepsWindow
<1>2. CASE UNCHANGED clientVars
  <2>1. cWin.base \in Nat
    BY SessionNumbers DEF SessionInv
  <2> QED
    BY <1>2, <2>1 DEF clientVars, WindowOK, Ring, Transferring, InFlight
<1> QED
  BY <1>1, <1>2 DEF Next, ServerNext, Loss, vars

\* The window is right throughout (window.c, and the loop of handle_established
\* in client.c).
THEOREM WindowCorrect == Spec => [](SessionInv /\ WindowOK)
<1>1. Init => SessionInv /\ WindowOK
  BY InitSession DEF Init, ClientInit, WindowOK, Transferring
<1>2. SessionInv /\ WindowOK /\ [Next]_vars => (SessionInv /\ WindowOK)'
  BY NextSession, NextWindow
<1> QED
  BY <1>1, <1>2, PTL DEF Spec

-----------------------------------------------------------------------------
(* What follows                                                            *)

\* Every packet the client still waits for is in the slot of its number: what
\* gbn_retransmit_window sends is never a packet that took its place.
THEOREM RingAlwaysHoldsWindow == Spec => []RingHoldsWindow
<1>1. ASSUME SessionInv, WindowOK, Transferring, NEW seq \in InFlight(cWin)
      PROVE  LET slot == cWin.buffer[Index(seq)]
             IN  /\ slot.is_valid
                 /\ slot.packet.flags = DATA
                 /\ slot.packet.seq_num = seq
                 /\ slot.packet.payload = input[seq - FirstSeq + 1]
  <2> DEFINE slot == cWin.buffer[Index(seq)]
  <2>1. seq \in Nat /\ cDraw \in Nat /\ FirstSeq = cDraw + 1
    BY <1>1, SessionNumbers DEF SessionInv, InFlight
  <2>2. Index(seq) \in Slots
    BY <2>1, IndexIsSlot
  <2>3. slot.is_valid /\ slot.packet.seq_num = seq
    BY <1>1 DEF WindowOK, Ring
  <2>4. CarriesItsChunk(slot.packet)
    BY <1>1, <2>2, <2>3 DEF SessionInv, ClientOK, ClientKnows
  <2>5. seq - FirstSeq + 1 = seq - cDraw
    BY <2>1
  <2> QED
    BY <2>3, <2>4, <2>5 DEF CarriesItsChunk
<1>2. SessionInv /\ WindowOK => RingHoldsWindow
  BY <1>1 DEF RingHoldsWindow
<1> QED
  BY <1>2, WindowCorrect, PTL

\* The retransmission timer is set while a packet waits for its ACK, and only then
\* but at the end of the numbers (the branches of handle_established on
\* window_timer_ms).
THEOREM TimerAlwaysTracksWindow == Spec => []TimerTracksWindow
<1>1. WindowOK => TimerTracksWindow
  BY DEF WindowOK, TimerTracksWindow
<1> QED
  BY <1>1, WindowCorrect, PTL

\* The window never moves back, whatever ACK arrives (gbn_process_ack).
THEOREM WindowNeverRetreats == Spec => WindowAdvances
<1>1. SessionInv /\ WindowOK /\ [Next]_vars
      => [Transferring /\ Transferring' => cWin'.base >= cWin.base]_vars
  BY NextWindow
<1> QED
  BY <1>1, WindowCorrect, PTL DEF Spec, WindowAdvances
=============================================================================
