-------------------------- MODULE MCTcpConnection --------------------------
(* Connections that end in every way two ends that follow the protocol may *)
(* end them.                                                               *)
EXTENDS TcpConnection

Pkt(dir, seq, ack, len, flags) ==
  [dir |-> dir, seq |-> seq, ack |-> ack, len |-> len, flags |-> flags]

(* c opens with number x, its peer s answers with number y. *)
Handshake(c, x, y) ==
  << Pkt(c, x, 0, 0, {"syn"}),
     Pkt(Other(c), y, x + 1, 0, {"syn", "ack"}),
     Pkt(c, x + 1, y + 1, 0, {"ack"}) >>

(* Both open at once. *)
SimultaneousOpen(c, x, y) ==
  << Pkt(c, x, 0, 0, {"syn"}),
     Pkt(Other(c), y, 0, 0, {"syn"}),
     Pkt(c, x, y + 1, 0, {"syn", "ack"}),
     Pkt(Other(c), y, x + 1, 0, {"syn", "ack"}) >>

Data(d, seq, ack) == Pkt(d, seq, ack, 1, {"ack"})
Fin(d, seq, ack)  == Pkt(d, seq, ack, 0, {"fin", "ack"})
Ack(d, seq, ack)  == Pkt(d, seq, ack, 0, {"ack"})
Rst(d, seq, ack)  == Pkt(d, seq, ack, 0, {"rst", "ack"})

(* The rest of a conversation, d's next number being m and its peer's n. *)
Close(d, m, n) ==
  << Data(d, m, n), Fin(d, m + 1, n), Fin(Other(d), n, m + 2), Ack(d, m + 2, n + 1) >>

(* The peer acknowledges d's FIN and still has something to say. *)
HalfClose(d, m, n) ==
  << Fin(d, m, n), Ack(Other(d), n, m + 1), Data(Other(d), n, m + 1), Ack(d, m + 1, n + 1),
     Fin(Other(d), n + 1, m + 1), Ack(d, m + 1, n + 2) >>

SimultaneousClose(d, m, n) ==
  << Fin(d, m, n), Fin(Other(d), n, m), Ack(d, m + 1, n + 1), Ack(Other(d), n + 1, m + 1) >>

CloseByReset(d, m, n) ==
  << Data(d, m, n), Fin(d, m + 1, n), Rst(Other(d), n, m + 2) >>

(* The peer aborts after the close, which by then has been recorded. *)
CloseThenReset(d, m, n) == Append(Close(d, m, n), Rst(Other(d), n + 1, m + 2))

Endings(c, x, y) ==
  LET s == Other(c) IN
  {Close(c, x + 1, y + 1), Close(s, y + 1, x + 1), HalfClose(c, x + 1, y + 1),
   HalfClose(s, y + 1, x + 1), SimultaneousClose(c, x + 1, y + 1), CloseByReset(c, x + 1, y + 1),
   CloseThenReset(c, x + 1, y + 1)}

Usual ==
  UNION {{Handshake(c, n[1], n[2]) \o ending : ending \in Endings(c, n[1], n[2])} :
           c \in Directions, n \in {<<1, 7>>, <<7, 1>>}}

ASSUME UsualConform ==
  \A conv \in Usual :
    Conforms(conv) /\ FinApart(conv) /\ FinLast(conv) /\ Flagged(conv) /\ Finishes(conv)

Dialogues == Usual \cup {SimultaneousOpen("B2S", 1, 7) \o Close("B2S", 2, 8)}
=============================================================================
