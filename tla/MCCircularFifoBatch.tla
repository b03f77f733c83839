------------------------ MODULE MCCircularFifoBatch ------------------------
(* Batches of up to RingSlots packets through a queue that is larger than  *)
(* two rings (MCCircularFifoBatch.cfg), or smaller than one ring needs     *)
(* (MCCircularFifoSpace.cfg).                                              *)
EXTENDS CircularFifoBatch
=============================================================================
