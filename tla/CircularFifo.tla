---------------------------- MODULE CircularFifo ----------------------------
(***************************************************************************)
(* CircularFifo<T> used one item at a time by one producer thread          *)
(* (PktReceiver::ReceivePkt, in a capture thread) and one consumer thread  *)
(* (PktReceiver::OneByOneThreadProc).  tail_ and head_ are sequentially    *)
(* consistent atomics, so every load and every store of a cursor is a step *)
(* of its own, and so is every access to an element, which is not atomic.  *)
(***************************************************************************)
EXTENDS FifoIndex, Sequences

CONSTANTS
  Items,
  NoItem     \* the content of an element nothing was written to

ASSUME NoItemAssumption == NoItem \notin Items

VARIABLES
  tail,      \* tail_, stored by the producer only
  head,      \* head_, stored by the consumer only
  element,   \* element_array_
  offer,     \* <<item>> while ReceivePkt runs, <<>> between its calls
  ppc,       \* the producer's next step
  preg,      \* current_tail in the producer's call
  cpc,       \* the consumer's next step
  creg,      \* current_head in the consumer's call
  held,      \* what the consumer read from the element it was given
  taken      \* <<item>> the consumer finished with last, <<>> at first

pvars == <<tail, offer, ppc, preg>>
cvars == <<head, cpc, creg, held, taken>>
vars  == <<pvars, cvars, element>>

ProducerSteps == {"idle", "full_tail", "full_head", "get_tail", "write",
                  "finish_load", "finish_store"}
ConsumerSteps == {"empty_head", "empty_tail", "get_head", "use",
                  "finish_load", "finish_store"}

Init ==
  /\ tail = 0 /\ head = 0
  /\ element = [i \in Indices |-> NoItem]
  /\ offer = <<>> /\ ppc = "idle" /\ preg = 0
  /\ held = NoItem /\ taken = <<>> /\ cpc = "empty_head" /\ creg = 0

-----------------------------------------------------------------------------
(* The producer. *)

(* A packet is dispatched to this queue: ReceivePkt is called. *)
Offer ==
  /\ ppc = "idle"
  /\ \E x \in Items : offer' = <<x>>
  /\ ppc' = "full_tail"
  /\ UNCHANGED <<tail, preg, cvars, element>>

(* GetWritableItem calls IsFull, which loads tail_ ... *)
IsFullTail ==
  /\ ppc = "full_tail"
  /\ preg' = tail
  /\ ppc' = "full_head"
  /\ UNCHANGED <<tail, offer, cvars, element>>

(* ... and then head_.  Full: ReceivePkt drops the packet and returns. *)
IsFullHead ==
  /\ ppc = "full_head"
  /\ IF FullAt(preg, head)
       THEN offer' = <<>> /\ ppc' = "idle"
       ELSE offer' = offer /\ ppc' = "get_tail"
  /\ UNCHANGED <<tail, preg, cvars, element>>

(* Mutant: the element is published before the packet is copied into it. *)
GetWritablePublished ==
  /\ ppc = "get_tail"
  /\ preg' = tail
  /\ tail' = Increment(tail)
  /\ ppc' = "write"
  /\ UNCHANGED <<offer, cvars, element>>

GetWritableItem ==
  /\ ppc = "get_tail"
  /\ preg' = tail
  /\ ppc' = "write"
  /\ UNCHANGED <<tail, offer, cvars, element>>

(* ReceivePkt's memcpy into the element it was given. *)
WriteItem ==
  /\ ppc = "write"
  /\ element' = [element EXCEPT ![preg] = offer[1]]
  /\ ppc' = "finish_load"
  /\ UNCHANGED <<tail, offer, preg, cvars>>

FinishedWriteLoad ==
  /\ ppc = "finish_load"
  /\ preg' = tail
  /\ ppc' = "finish_store"
  /\ UNCHANGED <<tail, offer, cvars, element>>

FinishedWrite ==
  /\ ppc = "finish_store"
  /\ tail' = Increment(preg)
  /\ offer' = <<>>
  /\ ppc' = "idle"
  /\ UNCHANGED <<preg, cvars, element>>

Producer ==
  \/ IsFullTail \/ IsFullHead \/ GetWritableItem
  \/ WriteItem \/ FinishedWriteLoad \/ FinishedWrite

-----------------------------------------------------------------------------
(* The consumer, which polls for ever. *)

(* GetReadableItem calls IsEmpty, which loads head_ ... *)
IsEmptyHead ==
  /\ cpc = "empty_head"
  /\ creg' = head
  /\ cpc' = "empty_tail"
  /\ UNCHANGED <<pvars, head, held, taken, element>>

(* ... and then tail_. *)
IsEmptyTail ==
  /\ cpc = "empty_tail"
  /\ cpc' = IF EmptyAt(creg, tail) THEN "empty_head" ELSE "get_head"
  /\ UNCHANGED <<pvars, head, creg, held, taken, element>>

GetReadableItem ==
  /\ cpc = "get_head"
  /\ creg' = head
  /\ cpc' = "use"
  /\ UNCHANGED <<pvars, head, held, taken, element>>

(* OneByOneThreadProc reads the element: the packet it processes and whose *)
(* slot it reports as processed.                                           *)
ReadItem ==
  /\ cpc = "use"
  /\ held' = element[creg]
  /\ cpc' = "finish_load"
  /\ UNCHANGED <<pvars, head, creg, taken, element>>

FinishedReadLoad ==
  /\ cpc = "finish_load"
  /\ creg' = head
  /\ cpc' = "finish_store"
  /\ UNCHANGED <<pvars, head, held, taken, element>>

(* Mutant: the element is never released. *)
FinishedReadKept ==
  /\ cpc = "finish_store"
  /\ head' = creg
  /\ taken' = <<held>>
  /\ cpc' = "empty_head"
  /\ UNCHANGED <<pvars, creg, held, element>>

FinishedRead ==
  /\ cpc = "finish_store"
  /\ head' = Increment(creg)
  /\ taken' = <<held>>
  /\ cpc' = "empty_head"
  /\ UNCHANGED <<pvars, creg, held, element>>

Consumer ==
  \/ IsEmptyHead \/ IsEmptyTail \/ GetReadableItem
  \/ ReadItem \/ FinishedReadLoad \/ FinishedRead

-----------------------------------------------------------------------------

Next == Offer \/ Producer \/ Consumer

Spec == Init /\ [][Next]_vars

(* Both threads loop until the program stops, so each keeps taking steps;  *)
(* nothing obliges the network to send a packet, so Offer is not fair.     *)
FairSpec == Spec /\ WF_vars(Producer) /\ WF_vars(Consumer)

-----------------------------------------------------------------------------
(* Properties. *)

TypeOK ==
  /\ tail \in Indices /\ head \in Indices
  /\ preg \in Indices /\ creg \in Indices
  /\ element \in [Indices -> Items \cup {NoItem}]
  /\ ppc \in ProducerSteps /\ cpc \in ConsumerSteps
  /\ held \in Items \cup {NoItem}
  /\ ppc = "idle" <=> offer = <<>>
  /\ ppc # "idle" => \E x \in Items : offer = <<x>>
  /\ taken = <<>> \/ \E x \in Items \cup {NoItem} : taken = <<x>>

(* The two threads share the elements without a lock: while one of them    *)
(* may touch an element (the producer copies a packet into it, the consumer*)
(* processes the packet in it) the other has no business in that element.  *)
(* The cursors alone must keep them apart.                                 *)
Exclusive ==
  ppc = "write" /\ cpc \in {"use", "finish_load", "finish_store"} => preg # creg

(* Why: what a thread loaded of its own cursor, and what it found out about *)
(* the other's, still holds when it acts on it, because the other cursor   *)
(* only ever moves away from it.  This conjunction is inductive.           *)
Inv ==
  /\ TypeOK
  /\ ppc \in {"full_head", "write", "finish_store"} => preg = tail
  /\ ppc \in {"get_tail", "write", "finish_load", "finish_store"} =>
       ~ FullAt(tail, head)
  /\ ppc \in {"finish_load", "finish_store"} => offer = <<element[tail]>>
  /\ cpc \in {"empty_tail", "use", "finish_load", "finish_store"} => creg = head
  /\ cpc \in {"get_head", "use", "finish_load", "finish_store"} =>
       ~ EmptyAt(head, tail)
  /\ cpc \in {"finish_load", "finish_store"} => held = element[head]

(* The published, unread elements, oldest first. *)
Content == [i \in 1 .. Used(head, tail) |-> element[Nth(head, i - 1)]]

Abstract == INSTANCE BoundedFifo WITH
  Items <- Items \cup {NoItem}, Capacity <- Size - 1, Spurious <- FALSE, queue <- Content

(* The queue is a bounded FIFO: what ReceivePkt puts in comes out once, in *)
(* order and unchanged, a packet is dropped only when Size - 1 are waiting *)
(* (circular_fifo-inl.hpp, one element stays free to tell full from empty).*)
IsBoundedFifo == Abstract!Spec

(* A packet that waits at the front is eventually taken.  The consumer     *)
(* never blocks on the producer, so its own steps suffice.                 *)
EventuallyTaken == \A i \in Indices : (head = i /\ tail # i) ~> head # i

=============================================================================
