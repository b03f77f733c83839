---------------------------- MODULE MCPktCapture ----------------------------
(* Four machines: one card with two rings and queues of one packet, and    *)
(* with one ring and queues of two; two cards that take turns at two       *)
(* receivers, with two packets each in all; and batches to two receivers.  *)
EXTENDS PktCapture

Config(cards, rings, receivers, size, policy, batch, last) ==
  [cards |-> cards, rings |-> rings, receivers |-> receivers,
   size |-> size, policy |-> policy, batch |-> batch, last |-> last]

Ever == 2 * NumSlots  \* round and round

Machines ==
  {Config(1, 2, 2, 2, "ip", FALSE, Ever), Config(1, 1, 2, 3, "ip", FALSE, Ever),
   Config(2, 1, 2, 2, "rr", FALSE, 2), Config(1, 1, 2, 5, "ip-port", TRUE, Ever)}
=============================================================================
