----------------------------- MODULE MCDatagram -----------------------------
(* Instances of Datagram for TLC: few packets, bytes of few values.        *)
EXTENDS Datagram

Payloads == UNION { [1 .. n -> {0, 1, BYTE - 1}] : n \in 0 .. 2 } \cup {<<1, 0, 2>>}

SomePackets ==
  [ seq_num : {0, WORD + 1}, ack_num : {0, WORD * WORD - 1},
    conn_id : {1, WORD - 1}, flags : {1, BYTE - 1}, payload : Payloads ]

SomeTails == { <<0>>, <<0, 0>>, <<BYTE - 1, BYTE - 1>>, <<0, 0, 0, 0>> }

=============================================================================
