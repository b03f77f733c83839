---- MODULE MCIpv4Monitor ----
EXTENDS Ipv4Monitor

CONSTANTS p1, p2

F(off, len, mf) == [off |-> off, len |-> len, mf |-> mf]

(* Of p1 two copies went different ways and were cut differently; of p2    *)
(* only one fragment is captured.                                          *)
MCFrags ==
  (p1 :> {F(0, 1, TRUE), F(1, 1, TRUE), F(2, 1, TRUE), F(3, 1, FALSE), F(0, 2, TRUE), F(1, 2, TRUE)}
   @@ p2 :> {F(0, 1, TRUE), F(1, 1, FALSE)})

MCMaxIn == (p1 :> 4 @@ p2 :> 1)

ASSUME FragsAre == LastEnds
====
