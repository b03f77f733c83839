-------------------------- MODULE CircularFifoBatch --------------------------
(***************************************************************************)
(* CircularFifo<T> used in batches, as batch-dispatch-packet = yes has it: *)
(* PktReceiver::ReceivePktBatch writes, PktReceiver::BatchThreadProc reads *)
(* everything there is.  Each load and store of a cursor and each access to*)
(* an element is a step.                                                   *)
(*                                                                         *)
(* An item stands for a packet in a slot of the network card's ring.  The  *)
(* slot is in use from the dispatch until BatchThreadProc reports the      *)
(* packet as processed, so no more than RingSlots items are outstanding.   *)
(***************************************************************************)
EXTENDS FifoIndex, Sequences

CONSTANTS
  Items,
  NoItem,
  RingSlots   \* packets the rings of one card can hold at a time

ASSUME NoItemAssumption == NoItem \notin Items
ASSUME RingSlotsAssumption == RingSlots \in Nat \ {0}

VARIABLES
  tail, head, element,
  outstanding, \* packets whose ring slot was not given back yet
  offer,       \* the packets of ReceivePktBatch's call, <<>> between calls
  ppc,         \* the producer's next step
  ptail, phead,\* cur_tail and cur_head (current_tail) in its call
  copied,      \* how many packets were copied into their elements
  cpc,         \* the consumer's next step
  chead,       \* cur_head (current_head) in its call
  batch,       \* pkt_container: the elements it was given
  held,        \* the packets it processed out of them
  taken        \* the batch it finished with last

pvars == <<tail, offer, ppc, ptail, phead, copied>>
cvars == <<head, cpc, chead, batch, held, taken>>
vars  == <<pvars, cvars, element, outstanding>>

Init ==
  /\ tail = 0 /\ head = 0
  /\ element = [i \in Indices |-> NoItem]
  /\ outstanding = 0
  /\ offer = <<>> /\ ppc = "idle" /\ ptail = 0 /\ phead = 0 /\ copied = 0
  /\ cpc = "empty_head" /\ chead = 0
  /\ batch = <<>> /\ held = <<>> /\ taken = <<>>

-----------------------------------------------------------------------------
(* The producer. *)

(* The capture thread has found packets in free slots for this receiver.   *)
Offer ==
  /\ ppc = "idle"
  /\ \E n \in 1 .. (RingSlots - outstanding) :
       /\ offer' \in [1 .. n -> Items]
       /\ outstanding' = outstanding + n
  /\ ppc' = "space_tail"
  /\ UNCHANGED <<tail, ptail, phead, copied, cvars, element>>

(* HasEnoughSpace loads both cursors, and then calls IsFull, which loads   *)
(* them again.                                                             *)
SpaceTail ==
  /\ ppc = "space_tail"
  /\ ptail' = tail
  /\ ppc' = "space_head"
  /\ UNCHANGED <<tail, offer, phead, copied, cvars, element, outstanding>>

SpaceHead ==
  /\ ppc = "space_head"
  /\ phead' = head
  /\ ppc' = "full_tail"
  /\ UNCHANGED <<tail, offer, ptail, copied, cvars, element, outstanding>>

(* Mutant: the ring slots of a refused batch are not given back. *)
RefuseSilently ==
  /\ offer' = <<>>
  /\ UNCHANGED outstanding
  /\ ppc' = "idle"

(* No space: ReceivePktBatch reports each packet as processed and returns. *)
Refuse ==
  /\ offer' = <<>>
  /\ outstanding' = outstanding - Len(offer)
  /\ ppc' = "idle"

(* IsFull's load of tail_, and its load of head_ with the verdict of       *)
(* HasEnoughSpace, which compares the values loaded before.                *)
IsFullTail ==
  /\ ppc = "full_tail"
  /\ ppc' = "full_head"
  /\ UNCHANGED <<tail, offer, ptail, phead, copied, cvars, element, outstanding>>

IsFullHead ==
  /\ ppc = "full_head"
  /\ \/ /\ FullAt(tail, head) \/ ~ SpaceAt(ptail, phead, Len(offer))
        /\ Refuse
     \/ /\ ~ FullAt(tail, head) /\ SpaceAt(ptail, phead, Len(offer))
        /\ ppc' = "get_tail"
        /\ UNCHANGED <<offer, outstanding>>
  /\ UNCHANGED <<tail, ptail, phead, copied, cvars, element>>

GetMultiWritableItems ==
  /\ ppc = "get_tail"
  /\ ptail' = tail
  /\ copied' = 0
  /\ ppc' = "write"
  /\ UNCHANGED <<tail, offer, phead, cvars, element, outstanding>>

(* One memcpy of ReceivePktBatch's loop. *)
WriteItem ==
  /\ ppc = "write"
  /\ element' = [element EXCEPT ![IncrementN(ptail, copied)] = offer[copied + 1]]
  /\ copied' = copied + 1
  /\ ppc' = IF copied + 1 = Len(offer) THEN "finish_load" ELSE "write"
  /\ UNCHANGED <<tail, offer, ptail, phead, cvars, outstanding>>

FinishedWriteLoad ==
  /\ ppc = "finish_load"
  /\ ptail' = tail
  /\ ppc' = "finish_store"
  /\ UNCHANGED <<tail, offer, phead, copied, cvars, element, outstanding>>

(* Mutant: one element is published whatever the number written. *)
FinishedWriteOne ==
  /\ ppc = "finish_store"
  /\ tail' = Increment(ptail)
  /\ offer' = <<>>
  /\ ppc' = "idle"
  /\ UNCHANGED <<ptail, phead, copied, cvars, element, outstanding>>

FinishedWriteMulti ==
  /\ ppc = "finish_store"
  /\ tail' = IncrementN(ptail, Len(offer))
  /\ offer' = <<>>
  /\ ppc' = "idle"
  /\ UNCHANGED <<ptail, phead, copied, cvars, element, outstanding>>

Producer ==
  \/ SpaceTail \/ SpaceHead \/ IsFullTail \/ IsFullHead
  \/ GetMultiWritableItems \/ WriteItem
  \/ FinishedWriteLoad \/ FinishedWriteMulti

-----------------------------------------------------------------------------
(* The consumer. *)

IsEmptyHead ==
  /\ cpc = "empty_head"
  /\ chead' = head
  /\ cpc' = "empty_tail"
  /\ UNCHANGED <<pvars, head, batch, held, taken, element, outstanding>>

IsEmptyTail ==
  /\ cpc = "empty_tail"
  /\ cpc' = IF EmptyAt(chead, tail) THEN "empty_head" ELSE "get_head"
  /\ UNCHANGED <<pvars, head, chead, batch, held, taken, element, outstanding>>

GetHead ==
  /\ cpc = "get_head"
  /\ chead' = head
  /\ cpc' = "get_tail"
  /\ UNCHANGED <<pvars, head, batch, held, taken, element, outstanding>>

(* The elements from cur_head up to the tail_ it loads now. *)
GetMultiReadableItems ==
  /\ cpc = "get_tail"
  /\ batch' = [i \in 1 .. ReadableAt(chead, tail) |-> IncrementN(chead, i - 1)]
  /\ held' = <<>>
  /\ cpc' = "use"
  /\ UNCHANGED <<pvars, head, chead, taken, element, outstanding>>

(* One turn of BatchThreadProc's loop: the packet is processed and its ring*)
(* slot is free again, before the queue's element is.                      *)
ReadItem ==
  /\ cpc = "use"
  /\ held' = Append(held, element[batch[Len(held) + 1]])
  /\ outstanding' = outstanding - 1
  /\ cpc' = IF Len(held) + 1 = Len(batch) THEN "finish_load" ELSE "use"
  /\ UNCHANGED <<pvars, head, chead, batch, taken, element>>

FinishedReadLoad ==
  /\ cpc = "finish_load"
  /\ chead' = head
  /\ cpc' = "finish_store"
  /\ UNCHANGED <<pvars, head, batch, held, taken, element, outstanding>>

(* Mutant: one element is released whatever the number read. *)
FinishedReadOne ==
  /\ cpc = "finish_store"
  /\ head' = Increment(chead)
  /\ taken' = held
  /\ batch' = <<>> /\ held' = <<>>
  /\ cpc' = "empty_head"
  /\ UNCHANGED <<pvars, chead, element, outstanding>>

FinishedReadMulti ==
  /\ cpc = "finish_store"
  /\ head' = IncrementN(chead, Len(batch))
  /\ taken' = held
  /\ batch' = <<>> /\ held' = <<>>
  /\ cpc' = "empty_head"
  /\ UNCHANGED <<pvars, chead, element, outstanding>>

Consumer ==
  \/ IsEmptyHead \/ IsEmptyTail \/ GetHead \/ GetMultiReadableItems
  \/ ReadItem \/ FinishedReadLoad \/ FinishedReadMulti

-----------------------------------------------------------------------------

Next == Offer \/ Producer \/ Consumer

Spec == Init /\ [][Next]_vars

FairSpec == Spec /\ WF_vars(Producer) /\ WF_vars(Consumer)

-----------------------------------------------------------------------------
(* Properties. *)

TypeOK ==
  /\ {tail, head, ptail, phead, chead} \subseteq Indices
  /\ element \in [Indices -> Items \cup {NoItem}]
  /\ outstanding \in 0 .. RingSlots
  /\ Len(offer) \in 0 .. RingSlots
  /\ copied \in 0 .. RingSlots
  /\ \A i \in 1 .. Len(batch) : batch[i] \in Indices
  /\ Len(held) <= Len(batch)

(* HasEnoughSpace answers what its comment says, "is there enough space to *)
(* store the given number of elements" (circular_fifo.hpp:78): once it has *)
(* let a batch through, the batch fits beside what the consumer has not    *)
(* handed back, up to the store to tail_ and whatever the consumer does    *)
(* meanwhile.  Otherwise unread packets are overwritten, or the cursors    *)
(* meet and a full queue reads as an empty one; their ring slots are lost. *)
EnoughSpace ==
  ppc \in {"get_tail", "write", "finish_load", "finish_store"} =>
    Used(head, tail) + Len(offer) <= Size - 1

Content == [i \in 1 .. Used(head, tail) |-> element[Nth(head, i - 1)]]

Abstract == INSTANCE BoundedFifo WITH
  Items <- Items \cup {NoItem}, Capacity <- Size - 1, Spurious <- TRUE, queue <- Content

(* With a queue that can hold two rings' worth of packets, one the consumer*)
(* has processed but not handed back and one dispatched since, batches come*)
(* out once, in order and unchanged: a batch that would not fit is never   *)
(* attempted.  Offers that would fit are refused all the same.             *)
IsLossyFifo == Abstract!Spec

(* A ring whose slots are all in use gets some back: every batch is        *)
(* processed or refused, whichever way the guard errs.                     *)
SlotsComeBack == outstanding = RingSlots ~> outstanding < RingSlots

=============================================================================
