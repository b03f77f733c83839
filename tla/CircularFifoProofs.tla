------------------------- MODULE CircularFifoProofs -------------------------
(***************************************************************************)
(* Proofs about CircularFifo for a queue of any size and any items.        *)
(***************************************************************************)
EXTENDS CircularFifo, SequenceTheorems, TLAPS

(* The size the constructor settles on is positive. *)
LEMMA SizePositive == Size \in Nat /\ Size > 0
BY FifoSizeAssumption DEF Size

(* Increment steps to the next index and wraps after the last. *)
LEMMA IncrementIs ==
  ASSUME NEW i \in Indices
  PROVE  /\ Increment(i) = IF i + 1 = Size THEN 0 ELSE i + 1
         /\ Increment(i) \in Indices
BY SizePositive DEF Increment, Indices

(* Two cursors one step apart stay distinct: Increment is one to one. *)
LEMMA IncrementInjective ==
  ASSUME NEW i \in Indices, NEW j \in Indices, Increment(i) = Increment(j)
  PROVE  i = j
BY IncrementIs, SizePositive DEF Indices

-----------------------------------------------------------------------------

LEMMA InitInv == Init => Inv
BY SizePositive DEF Init, Inv, TypeOK, Indices, ProducerSteps, ConsumerSteps

(* The producer's steps disturb what it knows of tail and what the element *)
(* behind tail holds; the consumer's view survives because tail only moves *)
(* to a place that is not head.                                            *)
LEMMA ProducerInv ==
  ASSUME Inv, Offer \/ Producer
  PROVE  Inv'
<1> USE DEF Inv, ProducerSteps, FullAt, EmptyAt
<1>1. CASE Offer
  BY <1>1 DEF Offer, TypeOK, cvars
<1>2. CASE IsFullTail
  BY <1>2 DEF IsFullTail, TypeOK, cvars
<1>3. CASE IsFullHead
  BY <1>3 DEF IsFullHead, TypeOK, cvars
<1>4. CASE GetWritableItem
  BY <1>4 DEF GetWritableItem, TypeOK, cvars
<1>5. CASE WriteItem
  <2>1. TypeOK'
    BY <1>5 DEF WriteItem, TypeOK, cvars
  <2>2. offer' = <<element'[tail']>>
    BY <1>5 DEF WriteItem, TypeOK, cvars
  <2>3. cpc \in {"finish_load", "finish_store"} => held' = element'[head']
    BY <1>5 DEF WriteItem, TypeOK, cvars
  <2> QED
    BY <1>5, <2>1, <2>2, <2>3 DEF WriteItem, cvars
<1>6. CASE FinishedWriteLoad
  BY <1>6 DEF FinishedWriteLoad, TypeOK, cvars
<1>7. CASE FinishedWrite
  <2>1. tail' \in Indices /\ tail' # head
    BY <1>7, IncrementIs DEF FinishedWrite, TypeOK
  <2> QED
    BY <1>7, <2>1 DEF FinishedWrite, TypeOK, cvars
<1> QED
  BY <1>1, <1>2, <1>3, <1>4, <1>5, <1>6, <1>7 DEF Producer

(* The consumer's steps move head, from an element that was published,     *)
(* never onto the successor of tail.                                       *)
LEMMA ConsumerInv ==
  ASSUME Inv, Consumer
  PROVE  Inv'
<1> USE DEF Inv, ConsumerSteps, FullAt, EmptyAt
<1>1. CASE IsEmptyHead
  BY <1>1 DEF IsEmptyHead, TypeOK, pvars
<1>2. CASE IsEmptyTail
  BY <1>2 DEF IsEmptyTail, TypeOK, pvars
<1>3. CASE GetReadableItem
  BY <1>3 DEF GetReadableItem, TypeOK, pvars
<1>4. CASE ReadItem
  BY <1>4 DEF ReadItem, TypeOK, pvars
<1>5. CASE FinishedReadLoad
  BY <1>5 DEF FinishedReadLoad, TypeOK, pvars
<1>6. CASE FinishedRead
  <2>1. head' = Increment(head) /\ head' \in Indices
    BY <1>6, IncrementIs DEF FinishedRead, TypeOK
  <2>2. Increment(tail) # Increment(head)
    BY <1>6, IncrementInjective DEF FinishedRead, TypeOK
  <2>3. TypeOK'
    BY <1>6, <2>1 DEF FinishedRead, TypeOK, pvars
  <2> QED
    BY <1>6, <2>1, <2>2, <2>3 DEF FinishedRead, pvars
<1> QED
  BY <1>1, <1>2, <1>3, <1>4, <1>5, <1>6 DEF Consumer

LEMMA NextInv == Inv /\ [Next]_vars => Inv'
<1> SUFFICES ASSUME Inv, [Next]_vars PROVE Inv'
  OBVIOUS
<1>1. CASE UNCHANGED vars
  BY <1>1 DEF Inv, TypeOK, vars, pvars, cvars
<1>2. CASE Offer \/ Producer
  BY <1>2, ProducerInv
<1>3. CASE Consumer
  BY <1>3, ConsumerInv
<1> QED
  BY <1>1, <1>2, <1>3 DEF Next

(* Every state of the queue, of whatever size, satisfies the inductive     *)
(* invariant.                                                              *)
THEOREM Invariance == Spec => []Inv
BY InitInv, NextInv, PTL DEF Spec

(* Type correctness of the queue for every size and every set of items.    *)
THEOREM TypeCorrect == Spec => []TypeOK
<1>1. Inv => TypeOK
  BY DEF Inv
<1> QED
  BY Invariance, <1>1, PTL

(* The producer never copies a packet into the element the consumer is     *)
(* processing, although neither takes a lock.                              *)
THEOREM MutualExclusion == Spec => []Exclusive
<1>1. Inv => Exclusive
  BY DEF Inv, Exclusive, EmptyAt
<1> QED
  BY Invariance, <1>1, PTL

-----------------------------------------------------------------------------
(* Refinement: each step on the cursors and the elements is a step of the  *)
(* abstract queue or leaves it alone.                                      *)

(* Between the cursors lie between 0 and Size - 1 elements, and Nth names  *)
(* a slot for each.                                                        *)
LEMMA UsedIs ==
  ASSUME NEW h \in Indices, NEW t \in Indices
  PROVE  /\ Used(h, t) \in 0 .. Size - 1
         /\ \A i \in 1 .. Used(h, t) : Nth(h, i - 1) \in Indices \ {t}
BY SizePositive DEF Used, Nth, Indices

(* Publishing one element makes the range one longer at its end.           *)
LEMMA UsedAfterWrite ==
  ASSUME NEW h \in Indices, NEW t \in Indices, ~ FullAt(t, h)
  PROVE  /\ Used(h, Increment(t)) = Used(h, t) + 1
         /\ Used(h, t) + 1 <= Size - 1
         /\ Nth(h, Used(h, t)) = t
BY SizePositive, IncrementIs DEF Used, Nth, Indices, FullAt

(* Releasing the first element makes it one shorter and shifts the rest.   *)
LEMMA UsedAfterRead ==
  ASSUME NEW h \in Indices, NEW t \in Indices, ~ EmptyAt(h, t)
  PROVE  /\ Used(h, t) = Used(Increment(h), t) + 1
         /\ Nth(h, 0) = h
         /\ \A i \in 0 .. Used(h, t) - 2 : Nth(Increment(h), i) = Nth(h, i + 1)
BY SizePositive, IncrementIs DEF Used, Nth, Indices, EmptyAt

(* A queue that looks full holds Size - 1 elements. *)
LEMMA UsedWhenFull ==
  ASSUME NEW h \in Indices, NEW t \in Indices, FullAt(t, h)
  PROVE  Used(h, t) = Size - 1
BY SizePositive, IncrementIs DEF Used, Indices, FullAt

(* The content is a sequence of items as long as the range it comes from.  *)
LEMMA ContentIs ==
  ASSUME TypeOK
  PROVE  /\ Content \in Seq(Items \cup {NoItem})
         /\ Len(Content) = Used(head, tail)
         /\ Used(head, tail) \in 0 .. Size - 1
         /\ \A i \in 1 .. Used(head, tail) : Content[i] = element[Nth(head, i - 1)]
<1>1. Used(head, tail) \in 0 .. Size - 1
  BY UsedIs DEF TypeOK
<1>2. Used(head, tail) \in Nat /\ Size \in Nat /\ Used(head, tail) <= Size - 1
  BY <1>1, SizePositive
<1>3. \A i \in 1 .. Used(head, tail) : element[Nth(head, i - 1)] \in Items \cup {NoItem}
  BY <1>2, UsedIs DEF TypeOK
<1>4. Content \in [1 .. Used(head, tail) -> Items \cup {NoItem}]
  BY <1>3 DEF Content
<1> QED
  BY <1>1, <1>2, <1>4 DEF Content

LEMMA InitRefines == Init => Abstract!Init
BY SizePositive DEF Init, Abstract!Init, Content, Used

(* A store to tail appends the offered item. *)
LEMMA WriteRefines ==
  ASSUME Inv, FinishedWrite
  PROVE  Abstract!Put
<1> DEFINE n == Used(head, tail)
<1>1. TypeOK /\ tail' = Increment(tail) /\ head' = head /\ element' = element
      /\ offer = <<element[tail]>> /\ ~ FullAt(tail, head)
  BY DEF Inv, FinishedWrite, cvars
<1>2. TypeOK'
  BY ProducerInv DEF Producer, Inv
<1>3. n \in Nat /\ Size \in Nat /\ Used(head', tail') = n + 1 /\ n + 1 <= Size - 1
      /\ Nth(head, n) = tail
  BY <1>1, UsedAfterWrite, UsedIs, SizePositive DEF TypeOK
<1>4. Len(Content) = n /\ Content \in Seq(Items \cup {NoItem})
      /\ \A i \in 1 .. n : Content[i] = element[Nth(head, i - 1)]
  BY <1>1, ContentIs
<1>5. element[tail] \in Items \cup {NoItem}
  BY <1>1 DEF TypeOK
<1>6. Content' = Append(Content, element[tail])
  <2>1. Content' = [i \in 1 .. n + 1 |-> element[Nth(head, i - 1)]]
    BY <1>1, <1>3 DEF Content
  <2>2. \A i \in 1 .. n + 1 :
          element[Nth(head, i - 1)] = IF i = n + 1 THEN element[tail] ELSE Content[i]
    BY <1>3, <1>4
  <2> QED
    BY <1>3, <1>4, <1>5, <2>1, <2>2
<1>7. Append(Content, element[tail]) = Content \o <<element[tail]>>
  BY <1>4, <1>5, AppendIsConcat
<1>8. Len(offer) = 1
  BY <1>1
<1>9. offer' = <<>> /\ taken' = taken
  BY DEF FinishedWrite, cvars
<1> QED
  BY <1>1, <1>3, <1>4, <1>6, <1>7, <1>8, <1>9 DEF Abstract!Put, Abstract!Fits

LEMMA FirstOfSeq ==
  ASSUME NEW S, NEW s \in Seq(S), Len(s) > 0
  PROVE  SubSeq(s, 1, 1) = <<s[1]>>
<1>1. SubSeq(s, 1, 1) = SubSeq(s, 1, 0) \o <<s[1]>>
  BY SubSeqRecursiveSecond
<1>2. SubSeq(s, 1, 0) = <<>> /\ <<s[1]>> \in Seq(S)
  BY SubSeqEmpty
<1> QED
  BY <1>1, <1>2, ConcatEmptySeq

(* A store to head takes the first item, the one the consumer has read. *)
LEMMA ReadRefines ==
  ASSUME Inv, FinishedRead
  PROVE  Abstract!Take
<1> DEFINE n == Used(head, tail)
<1>1. TypeOK /\ head' = Increment(head) /\ tail' = tail /\ element' = element
      /\ taken' = <<element[head]>> /\ ~ EmptyAt(head, tail) /\ offer' = offer
  BY DEF Inv, FinishedRead, pvars
<1>2. TypeOK'
  BY ConsumerInv DEF Consumer, Inv
<1>3. /\ n \in Nat \ {0}
      /\ Used(head', tail') = n - 1
      /\ Nth(head, 0) = head
      /\ \A i \in 0 .. n - 2 : Nth(Increment(head), i) = Nth(head, i + 1)
  <2>1. head \in Indices /\ tail \in Indices /\ head' \in Indices
    BY <1>1, <1>2 DEF TypeOK
  <2>2. Used(head', tail) \in Nat /\ n = Used(Increment(head), tail) + 1
    BY <1>1, <2>1, UsedAfterRead, UsedIs, SizePositive
  <2> QED
    BY <1>1, <2>1, <2>2, UsedAfterRead
<1>4. /\ Content \in Seq(Items \cup {NoItem}) /\ Len(Content) = n
      /\ \A i \in 1 .. n : Content[i] = element[Nth(head, i - 1)]
  BY <1>1, ContentIs
<1>5. SubSeq(Content, 1, 1) = <<element[head]>>
  <2>1. Content[1] = element[head]
    BY <1>3, <1>4
  <2>2. SubSeq(Content, 1, 1) = <<Content[1]>>
    BY <1>3, <1>4, FirstOfSeq
  <2> QED
    BY <2>1, <2>2
<1>6. Content' = SubSeq(Content, 1 + 1, Len(Content))
  <2>1. Content' = [i \in 1 .. n - 1 |-> element[Nth(Increment(head), i - 1)]]
    BY <1>1, <1>3 DEF Content
  <2>2. \A i \in 1 .. n - 1 : element[Nth(Increment(head), i - 1)] = Content[i + 1]
    BY <1>3, <1>4
  <2>3. SubSeq(Content, 1 + 1, n) = [i \in 1 .. n - 1 |-> Content[i + 1]]
    BY <1>3, <1>4
  <2> QED
    BY <1>4, <2>1, <2>2, <2>3
<1>7. /\ taken' = SubSeq(Content, 1, 1)
      /\ Content' = SubSeq(Content, 1 + 1, Len(Content))
  BY <1>1, <1>5, <1>6, Zenon
<1>8. 1 \in 1 .. Len(Content)
  BY <1>3, <1>4
<1>9. \E m \in 1 .. Len(Content) :
        taken' = SubSeq(Content, 1, m) /\ Content' = SubSeq(Content, m + 1, Len(Content))
  BY <1>7, <1>8, Zenon
<1> QED
  BY <1>1, <1>9 DEF Abstract!Take

(* The producer fills the element behind the published ones: no one sees   *)
(* it yet.                                                                 *)
LEMMA WriteItemHidden ==
  ASSUME Inv, WriteItem
  PROVE  UNCHANGED Abstract!vars
<1>1. /\ TypeOK /\ preg = tail /\ UNCHANGED <<head, tail, offer, taken>>
      /\ element' = [element EXCEPT ![preg] = offer[1]]
  BY DEF Inv, WriteItem, cvars
<1>2. \A i \in 1 .. Used(head, tail) :
        Nth(head, i - 1) \in Indices \ {tail}
  BY <1>1, UsedIs DEF TypeOK
<1>3. \A i \in 1 .. Used(head, tail) :
        element'[Nth(head, i - 1)] = element[Nth(head, i - 1)]
  BY <1>1, <1>2 DEF TypeOK
<1>4. Content' = [i \in 1 .. Used(head, tail) |-> element'[Nth(head, i - 1)]]
  BY <1>1 DEF Content
<1>5. Content' = Content
  BY <1>3, <1>4 DEF Content
<1> QED
  BY <1>1, <1>5 DEF Abstract!vars

(* A refusal is one of an offer that does not fit: what IsFull finds of    *)
(* head is true at that moment, and tail is the producer's own.            *)
LEMMA RefuseRefines ==
  ASSUME Inv, IsFullHead
  PROVE  Abstract!Refuse \/ UNCHANGED Abstract!vars
<1>1. /\ TypeOK /\ preg = tail
      /\ UNCHANGED <<head, tail, element, taken>>
  BY DEF Inv, IsFullHead, cvars
<1>2. Content' = Content
  BY <1>1 DEF Content
<1>3. CASE FullAt(preg, head)
  <2>1. Len(Content) = Size - 1
    BY <1>1, <1>3, UsedWhenFull, ContentIs DEF TypeOK
  <2>2. Len(offer) = 1
    BY DEF Inv, TypeOK, IsFullHead
  <2>3. ~ Abstract!Fits
    BY <2>1, <2>2, SizePositive DEF Abstract!Fits
  <2> QED
    BY <1>1, <1>2, <1>3, <2>3 DEF Abstract!Refuse, IsFullHead
<1>4. CASE ~ FullAt(preg, head)
  BY <1>1, <1>2, <1>4 DEF Abstract!vars, IsFullHead
<1> QED
  BY <1>3, <1>4

LEMMA OfferRefines ==
  ASSUME Inv, Offer
  PROVE  Abstract!Offer
<1>1. offer = <<>> /\ UNCHANGED <<head, tail, element, taken>>
  BY DEF Inv, TypeOK, Offer, cvars
<1>2. Content' = Content
  BY <1>1 DEF Content
<1>3. offer' \in Seq(Items \cup {NoItem})
  BY DEF Offer
<1> QED
  BY <1>1, <1>2, <1>3 DEF Abstract!Offer

LEMMA StepRefines ==
  ASSUME Inv, [Next]_vars
  PROVE  [Abstract!Next]_(Abstract!vars)
<1>1. CASE Offer
  BY <1>1, OfferRefines DEF Abstract!Next
<1>2. CASE IsFullHead
  BY <1>2, RefuseRefines DEF Abstract!Next
<1>3. CASE WriteItem
  BY <1>3, WriteItemHidden
<1>4. CASE FinishedWrite
  BY <1>4, WriteRefines DEF Abstract!Next
<1>5. CASE FinishedRead
  BY <1>5, ReadRefines DEF Abstract!Next
<1>6. CASE UNCHANGED <<head, tail, element, offer, taken>>
  BY <1>6 DEF Abstract!vars, Content
<1>7. CASE IsFullTail \/ GetWritableItem \/ FinishedWriteLoad
  BY <1>6, <1>7 DEF IsFullTail, GetWritableItem, FinishedWriteLoad, cvars
<1>8. CASE IsEmptyHead \/ IsEmptyTail \/ GetReadableItem \/ ReadItem
             \/ FinishedReadLoad
  BY <1>6, <1>8
  DEF IsEmptyHead, IsEmptyTail, GetReadableItem, ReadItem, FinishedReadLoad, pvars
<1>9. CASE UNCHANGED vars
  BY <1>6, <1>9 DEF vars, pvars, cvars
<1> QED
  BY <1>1, <1>2, <1>3, <1>4, <1>5, <1>7, <1>8, <1>9 DEF Next, Producer, Consumer

(* CircularFifo is a bounded FIFO of Size - 1 items, for every size: what  *)
(* is put in comes out once, in order and unchanged, and an item is        *)
(* refused only when the queue is full.                                    *)
THEOREM Refinement == Spec => IsBoundedFifo
BY InitRefines, StepRefines, Invariance, PTL DEF Spec, IsBoundedFifo, Abstract!Spec
=============================================================================
