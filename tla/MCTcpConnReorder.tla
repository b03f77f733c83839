-------------------------- MODULE MCTcpConnReorder --------------------------
(* Handshake, two segments one way and one back, and a close or a reset;   *)
(* either end may be the one that opens, and either initial sequence number*)
(* may be the larger.                                                      *)
EXTENDS TcpConnReorder

Pkt(dir, seq, ack, len, flags) ==
  [dir |-> dir, seq |-> seq % SeqRange, ack |-> ack % SeqRange, len |-> len, flags |-> flags]

(* c opens with number x, its peer answers with number y. *)
Handshake(c, x, y) ==
  << Pkt(c, x, 0, 0, {"syn"}),
     Pkt(Other(c), y, x + 1, 0, {"syn", "ack"}),
     Pkt(c, x + 1, y + 1, 0, {"ack"}) >>

Exchange(c, x, y) ==
  << Pkt(c, x + 1, y + 1, 1, {"ack"}),
     Pkt(c, x + 2, y + 1, 2, {"ack"}),
     Pkt(Other(c), y + 1, x + 4, 1, {"ack"}) >>

Close(c, x, y) ==
  << Pkt(c, x + 4, y + 2, 0, {"ack", "fin"}),
     Pkt(Other(c), y + 2, x + 5, 0, {"ack", "fin"}),
     Pkt(c, x + 5, y + 3, 0, {"ack"}) >>

Reset(c, x, y) == << Pkt(c, x + 1, y + 1, 0, {"ack", "rst"}) >>

NumberPairs == {<<1, 9>>, <<9, 1>>}

Dialogues ==
  {Handshake(c, n[1], n[2]) \o Exchange(c, n[1], n[2]) \o Close(c, n[1], n[2]) :
     c \in Directions, n \in NumberPairs}
  \cup {Handshake(c, n[1], n[2]) \o Reset(c, n[1], n[2]) : c \in Directions, n \in NumberPairs}

ASSUME DialoguesConform == \A conv \in Dialogues : Conforms(conv)

(* The opening side's numbers pass 2^32 in the middle of the exchange. *)
Wrapping ==
  {Handshake(c, SeqRange - 2, 4) \o Exchange(c, SeqRange - 2, 4) : c \in Directions}
=============================================================================
