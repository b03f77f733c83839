--------------------------- MODULE MCCircularFifo ---------------------------
(* A queue of four elements, three of them usable, and two kinds of item:  *)
(* the cursors wrap, the queue fills and empties, and an item in the wrong *)
(* place shows.                                                            *)
EXTENDS CircularFifo
=============================================================================
