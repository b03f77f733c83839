---------------------------- MODULE BoundedFifo ----------------------------
(***************************************************************************)
(* What CircularFifo promises to its one producer and its one consumer: a  *)
(* first-in first-out queue of at most Capacity items.  The producer holds *)
(* an offer, which is appended whole or refused; the consumer takes items  *)
(* from the front and is handed exactly what was appended.                 *)
(***************************************************************************)
EXTENDS Naturals, Sequences

CONSTANTS
  Items,
  Capacity,
  Spurious   \* may an offer be refused although it would fit?

VARIABLES
  queue,   \* appended and not yet taken, oldest first
  offer,   \* what the producer wants to append; empty between two offers
  taken    \* what the consumer took last

vars == <<queue, offer, taken>>

Init ==
  /\ queue = <<>>
  /\ offer = <<>>
  /\ taken = <<>>

Fits == Len(queue) + Len(offer) <= Capacity

Offer ==
  /\ offer = <<>>
  /\ offer' \in Seq(Items)
  /\ UNCHANGED <<queue, taken>>

Put ==
  /\ Fits
  /\ queue' = queue \o offer
  /\ offer' = <<>>
  /\ UNCHANGED taken

Refuse ==
  /\ Spurious \/ ~ Fits
  /\ offer' = <<>>
  /\ UNCHANGED <<queue, taken>>

Take ==
  /\ \E n \in 1 .. Len(queue) :
       /\ taken' = SubSeq(queue, 1, n)
       /\ queue' = SubSeq(queue, n + 1, Len(queue))
  /\ UNCHANGED offer

Next == Offer \/ Put \/ Refuse \/ Take

Spec == Init /\ [][Next]_vars

=============================================================================
