---------------------- MODULE CircularFifoBatchProofs ----------------------
(***************************************************************************)
(* Proofs about CircularFifoBatch for a queue of any size that can hold two*)
(* loads of the card's rings, any items and any number of ring slots.      *)
(***************************************************************************)
EXTENDS CircularFifoBatch, SequenceTheorems, TLAPS

(* What PktCapture assumes of a queue that is used in batches. *)
Large == Size > 2 * RingSlots

-----------------------------------------------------------------------------
(* The inductive invariant.  EnoughSpace compares the cursors with an offer*)
(* and knows nothing of why the offer is small enough; Accounts does: it   *)
(* says where every ring slot that is in use is.                           *)

Types ==
  /\ tail \in Indices /\ head \in Indices
  /\ ptail \in Indices /\ phead \in Indices /\ chead \in Indices
  /\ element \in [Indices -> Items \cup {NoItem}]
  /\ outstanding \in 0 .. RingSlots
  /\ offer \in Seq(Items)
  /\ batch \in Seq(Indices)
  /\ held \in Seq(Items \cup {NoItem})
  /\ taken \in Seq(Items \cup {NoItem})
  /\ copied \in 0 .. RingSlots
  /\ ppc \in {"idle", "space_tail", "space_head", "full_tail", "full_head",
              "get_tail", "write", "finish_load", "finish_store"}
  /\ cpc \in {"empty_head", "empty_tail", "get_head", "get_tail", "use",
              "finish_load", "finish_store"}

(* A ring slot in use belongs to a packet offered, or queued and not yet   *)
(* processed; a batch is no larger than the rings.                         *)
Accounts ==
  /\ Large
  /\ outstanding + Len(held) = Len(offer) + Used(head, tail)
  /\ Len(held) <= Len(batch)
  /\ Len(batch) <= Used(head, tail)
  /\ Len(batch) <= RingSlots

(* What the producer knows at each of its steps. *)
Writing ==
  /\ ppc = "idle" <=> offer = <<>>
  /\ ppc \in {"write", "finish_store"} => ptail = tail
  /\ ppc = "write" => copied < Len(offer)
  /\ ppc \in {"finish_load", "finish_store"} => copied = Len(offer)
  /\ ppc \in {"write", "finish_load", "finish_store"} =>
       \A i \in 1 .. copied : element[IncrementN(tail, i - 1)] = offer[i]

(* What the consumer knows at each of its steps. *)
Reading ==
  /\ cpc \in {"empty_tail", "get_tail", "finish_store"} => chead = head
  /\ cpc \in {"get_head", "get_tail"} => head # tail
  /\ cpc \notin {"use", "finish_load", "finish_store"} => batch = <<>>
  /\ cpc = "use" => Len(held) < Len(batch)
  /\ cpc \in {"finish_load", "finish_store"} => Len(batch) > 0 /\ Len(held) = Len(batch)
  /\ \A i \in 1 .. Len(batch) : batch[i] = Nth(head, i - 1)
  /\ \A i \in 1 .. Len(held) : held[i] = element[Nth(head, i - 1)]

Inv == Types /\ Accounts /\ Writing /\ Reading

-----------------------------------------------------------------------------
(* Walking round the ring.                                                 *)

LEMMA SizePositive == Size \in Nat /\ Size > 0 /\ RingSlots \in Nat
BY FifoSizeAssumption, RingSlotsAssumption DEF Size

(* n steps on from an index, for less than a whole round. *)
LEMMA IncrementNIs ==
  ASSUME NEW i \in Indices, NEW n \in 0 .. Size - 1
  PROVE  /\ IncrementN(i, n) = Nth(i, n)
         /\ Nth(i, n) = IF i + n < Size THEN i + n ELSE i + n - Size
         /\ Nth(i, n) \in Indices
BY SizePositive DEF IncrementN, Nth, Indices

(* Indices fewer steps away than a whole round are different ones. *)
LEMMA NthInjective ==
  ASSUME NEW i \in Indices, NEW m \in 0 .. Size - 1, NEW n \in 0 .. Size - 1,
         Nth(i, m) = Nth(i, n)
  PROVE  m = n
BY SizePositive DEF Nth, Indices

LEMMA UsedIs ==
  ASSUME NEW h \in Indices, NEW t \in Indices
  PROVE  /\ Used(h, t) \in 0 .. Size - 1
         /\ Used(h, t) = 0 <=> h = t
         /\ h # t => ReadableAt(h, t) = Used(h, t)
BY SizePositive DEF Used, ReadableAt, Indices

(* tail stands behind the elements in use, and moves on by what is added.  *)
LEMMA UsedAfterWrite ==
  ASSUME NEW h \in Indices, NEW t \in Indices, NEW n \in Nat,
         Used(h, t) + n <= Size - 1
  PROVE  /\ IncrementN(t, n) \in Indices
         /\ Used(h, IncrementN(t, n)) = Used(h, t) + n
         /\ \A i \in 0 .. n : IncrementN(t, i) = Nth(h, Used(h, t) + i)
<1>1. Used(h, t) \in Nat /\ n \in 0 .. Size - 1
  BY UsedIs, SizePositive
<1>2. /\ IncrementN(t, n) \in Indices
      /\ IncrementN(t, n) = IF t + n < Size THEN t + n ELSE t + n - Size
  BY <1>1, IncrementNIs
<1>3. Used(h, IncrementN(t, n)) = Used(h, t) + n
  BY <1>1, <1>2, SizePositive DEF Used, Indices
<1>4. ASSUME NEW i \in 0 .. n PROVE IncrementN(t, i) = Nth(h, Used(h, t) + i)
  <2>1. i \in 0 .. Size - 1
    BY <1>1, SizePositive
  <2>2. IncrementN(t, i) = IF t + i < Size THEN t + i ELSE t + i - Size
    BY <2>1, IncrementNIs
  <2> QED
    BY <1>1, <2>1, <2>2, SizePositive DEF Used, Nth, Indices
<1> QED
  BY <1>2, <1>3, <1>4

(* head moves on by what is released; the rest keeps its order.            *)
LEMMA UsedAfterRead ==
  ASSUME NEW h \in Indices, NEW t \in Indices, NEW n \in Nat, n <= Used(h, t)
  PROVE  /\ IncrementN(h, n) \in Indices
         /\ Used(IncrementN(h, n), t) = Used(h, t) - n
         /\ \A i \in 0 .. Used(h, t) - n - 1 : Nth(IncrementN(h, n), i) = Nth(h, n + i)
<1>1. Used(h, t) \in 0 .. Size - 1 /\ n \in 0 .. Size - 1
  BY UsedIs, SizePositive
<1>2. /\ IncrementN(h, n) \in Indices
      /\ IncrementN(h, n) = IF h + n < Size THEN h + n ELSE h + n - Size
  BY <1>1, IncrementNIs
<1>3. Used(IncrementN(h, n), t) = Used(h, t) - n
  BY <1>1, <1>2, SizePositive DEF Used, Indices
<1>4. ASSUME NEW i \in 0 .. Used(h, t) - n - 1
      PROVE  Nth(IncrementN(h, n), i) = Nth(h, n + i)
  BY <1>1, <1>2, SizePositive DEF Used, Nth, Indices
<1> QED
  BY <1>2, <1>3, <1>4

LEMMA Bounds ==
  ASSUME Types
  PROVE  /\ Used(head, tail) \in Nat /\ Used(head, tail) <= Size - 1
         /\ Len(offer) \in Nat /\ Len(held) \in Nat /\ Len(batch) \in Nat
         /\ outstanding \in Nat /\ outstanding <= RingSlots
<1>1. Used(head, tail) \in 0 .. Size - 1
  BY UsedIs DEF Types
<1> QED
  BY <1>1, SizePositive DEF Types

(* The element a packet is written to lies behind those in use.            *)
LEMMA WritesBehind ==
  ASSUME Types, Accounts
  PROVE  /\ Used(head, tail) + Len(offer) <= Size - 1
         /\ \A i \in 1 .. Len(offer) : IncrementN(tail, i - 1) \in Indices
         /\ \A i \in 1 .. Len(offer), j \in 1 .. Used(head, tail) :
              IncrementN(tail, i - 1) # Nth(head, j - 1)
         /\ \A i, j \in 1 .. Len(offer) :
              IncrementN(tail, i - 1) = IncrementN(tail, j - 1) => i = j
<1> DEFINE u == Used(head, tail)
           n == Len(offer)
<1>1. /\ u \in Nat /\ u <= Size - 1 /\ n \in Nat
      /\ head \in Indices /\ tail \in Indices
  BY Bounds DEF Types
<1>2. u + n <= Size - 1
  BY Bounds, SizePositive DEF Accounts, Large
<1> HIDE DEF n
<1>3. \A i \in 1 .. n : IncrementN(tail, i - 1) = Nth(head, u + (i - 1))
  BY <1>1, <1>2, UsedAfterWrite, SizePositive
<1>4. \A i \in 1 .. n : u + (i - 1) \in 0 .. Size - 1
  BY <1>1, <1>2, SizePositive
<1>5. \A i \in 1 .. n : IncrementN(tail, i - 1) \in Indices
  BY <1>1, <1>3, <1>4, IncrementNIs
<1>6. ASSUME NEW i \in 1 .. n, NEW j \in 1 .. u
      PROVE  IncrementN(tail, i - 1) # Nth(head, j - 1)
  <2>1. j - 1 \in 0 .. Size - 1 /\ j - 1 # u + (i - 1)
    BY <1>1, SizePositive
  <2>2. u + (i - 1) \in 0 .. Size - 1 /\ IncrementN(tail, i - 1) = Nth(head, u + (i - 1))
    BY <1>3, <1>4
  <2> HIDE DEF u
  <2> QED
    BY <1>1, <2>1, <2>2, NthInjective
<1>7. ASSUME NEW i \in 1 .. n, NEW j \in 1 .. n, IncrementN(tail, i - 1) = IncrementN(tail, j - 1)
      PROVE  i = j
  <2>1. u + (i - 1) \in 0 .. Size - 1 /\ u + (j - 1) \in 0 .. Size - 1
    BY <1>4
  <2>2. Nth(head, u + (i - 1)) = Nth(head, u + (j - 1))
    BY <1>3, <1>7
  <2>3. u + (i - 1) = u + (j - 1)
    BY <1>1, <2>1, <2>2, NthInjective
  <2> QED
    BY <1>1, <2>3
<1> QED
  BY <1>2, <1>5, <1>6, <1>7 DEF n

-----------------------------------------------------------------------------

LEMMA InitInv == Large /\ Init => Inv
<1> SUFFICES ASSUME Large, Init PROVE Inv
  OBVIOUS
<1> USE SizePositive DEF Init
<1>1. Used(head, tail) = 0
  BY DEF Used
<1>2. Types
  BY DEF Types, Indices
<1>3. Accounts
  BY <1>1 DEF Accounts
<1>4. Writing /\ Reading
  BY DEF Writing, Reading
<1> QED
  BY <1>2, <1>3, <1>4 DEF Inv

(* The producer's steps up to the store to tail, other than the writing of *)
(* an element, take up ring slots or give them back.                       *)
LEMMA OfferInv ==
  ASSUME Inv, Offer
  PROVE  Inv'
<1>1. PICK n \in 1 .. (RingSlots - outstanding) :
        offer' \in [1 .. n -> Items] /\ outstanding' = outstanding + n
  BY DEF Offer
<1>2. /\ ppc = "idle" /\ ppc' = "space_tail"
      /\ UNCHANGED <<tail, head, ptail, phead, chead, copied, cpc, batch, held, taken, element>>
  BY DEF Offer, cvars
<1>3. /\ offer' \in Seq(Items) /\ Len(offer') = n /\ offer = <<>> /\ Len(offer) = 0
      /\ outstanding \in 0 .. RingSlots /\ RingSlots \in Nat /\ outstanding' \in 0 .. RingSlots
  BY <1>1, <1>2, SizePositive DEF Inv, Types, Writing
<1>4. Types'
  BY <1>2, <1>3 DEF Inv, Types
<1>5. Accounts'
  <2>1. Len(held) \in Nat /\ Used(head, tail) \in Nat /\ Used(head, tail)' = Used(head, tail)
    BY <1>2, UsedIs, SizePositive DEF Inv, Types
  <2> QED
    BY <1>1, <1>2, <1>3, <2>1 DEF Inv, Accounts, Large
<1>6. Writing'
  BY <1>1, <1>2, <1>3 DEF Inv, Writing
<1>7. Reading'
  BY <1>2 DEF Inv, Reading
<1> QED
  BY <1>4, <1>5, <1>6, <1>7 DEF Inv

LEMMA RefuseInv ==
  ASSUME Inv, IsFullHead, Refuse
  PROVE  Inv'
<1>1. /\ offer' = <<>> /\ ppc' = "idle" /\ outstanding' = outstanding - Len(offer)
      /\ UNCHANGED <<tail, head, ptail, phead, chead, copied, cpc, batch, held, taken, element>>
  BY DEF IsFullHead, Refuse, cvars
<1>2. Used(head, tail)' = Used(head, tail)
  BY <1>1 DEF Used
<1>3. Accounts'
  BY <1>1, <1>2, Bounds DEF Inv, Accounts, Large
<1>4. outstanding' \in 0 .. RingSlots
  BY <1>1, Bounds, SizePositive DEF Inv, Accounts
<1>5. Types'
  BY <1>1, <1>4 DEF Inv, Types
<1>6. Writing' /\ Reading'
  BY <1>1 DEF Inv, Writing, Reading
<1> QED
  BY <1>3, <1>5, <1>6 DEF Inv

(* Steps that load cursors or look at what was loaded. *)
LEMMA ProducerLoadInv ==
  ASSUME Inv,
         \/ SpaceTail \/ SpaceHead \/ IsFullTail \/ (IsFullHead /\ ppc' = "get_tail")
         \/ GetMultiWritableItems \/ FinishedWriteLoad
  PROVE  Inv'
<1>1. /\ UNCHANGED <<tail, head, chead, offer, outstanding, cpc, batch, held, taken, element>>
      /\ ppc # "idle" /\ ppc' # "idle"
      /\ ptail' \in {tail, ptail} /\ phead' \in {head, phead}
  BY DEF SpaceTail, SpaceHead, IsFullTail, IsFullHead, Refuse, GetMultiWritableItems,
         FinishedWriteLoad, cvars
<1>2. /\ ppc' \in {"space_head", "full_tail", "full_head", "get_tail", "write", "finish_store"}
      /\ ppc' \in {"write", "finish_store"} => ptail' = tail
      /\ copied' = IF ppc' = "write" THEN 0 ELSE copied
      /\ ppc' = "finish_store" => ppc = "finish_load"
  BY DEF SpaceTail, SpaceHead, IsFullTail, IsFullHead, Refuse, GetMultiWritableItems,
         FinishedWriteLoad
<1>3. Types'
  BY <1>1, <1>2, SizePositive DEF Inv, Types
<1>4. Accounts' /\ Reading'
  BY <1>1 DEF Inv, Accounts, Reading, Used, Large
<1>5. Writing'
  <2>1. offer # <<>> /\ Len(offer) > 0
    BY <1>1 DEF Inv, Types, Writing
  <2> QED
    BY <1>1, <1>2, <2>1 DEF Inv, Writing
<1> QED
  BY <1>3, <1>4, <1>5 DEF Inv

(* A packet is written behind those in use: neither they nor the packets   *)
(* written before it change.                                               *)
LEMMA WriteItemInv ==
  ASSUME Inv, WriteItem
  PROVE  Inv'
<1> DEFINE c == copied + 1
<1>1. /\ ppc = "write" /\ ptail = tail /\ copied' = c
      /\ element' = [element EXCEPT ![IncrementN(tail, c - 1)] = offer[c]]
      /\ ppc' = IF c = Len(offer) THEN "finish_load" ELSE "write"
      /\ UNCHANGED <<tail, head, ptail, phead, chead, offer, outstanding, cpc, batch, held, taken>>
  BY DEF Inv, Types, Writing, WriteItem, cvars
<1>2. c \in 1 .. Len(offer) /\ copied \in Nat /\ Len(offer) \in Nat /\ offer[c] \in Items
  BY <1>1 DEF Inv, Types, Writing
<1>3. /\ Used(head, tail) + Len(offer) <= Size - 1
      /\ Used(head, tail) \in 0 .. Size - 1
      /\ IncrementN(tail, c - 1) \in Indices
  BY <1>2, WritesBehind, UsedIs DEF Inv, Types
<1>4. /\ Len(held) \in Nat /\ Len(batch) \in Nat
      /\ Len(offer) <= RingSlots
  BY <1>2, <1>3, SizePositive DEF Inv, Types, Accounts
<1> HIDE DEF c
<1>5. element' \in [Indices -> Items \cup {NoItem}]
  BY <1>1, <1>2, <1>3 DEF Inv, Types
<1>6. Types'
  <2>1. copied' \in 0 .. RingSlots
    BY <1>1, <1>2, <1>4, SizePositive
  <2> QED
    BY <1>1, <1>5, <2>1 DEF Inv, Types
<1>7. Accounts'
  BY <1>1 DEF Inv, Accounts, Used, Large
<1>8. Writing'
  <2>1. \A i \in 1 .. c : element'[IncrementN(tail, i - 1)] = offer[i]
    <3> TAKE i \in 1 .. c
    <3>1. i \in 1 .. Len(offer) /\ (i # c => i \in 1 .. copied)
      BY <1>2 DEF c
    <3>2. IncrementN(tail, i - 1) \in Indices
      BY <3>1, WritesBehind DEF Inv
    <3>3. i # c => IncrementN(tail, i - 1) # IncrementN(tail, c - 1)
      BY <1>2, <3>1, WritesBehind DEF Inv
    <3>4. i # c => element[IncrementN(tail, i - 1)] = offer[i]
      BY <1>1, <3>1 DEF Inv, Writing
    <3> QED
      BY <1>1, <3>2, <3>3, <3>4 DEF Inv, Types
  <2>2. c # Len(offer) => c < Len(offer)
    BY <1>2
  <2> QED
    BY <1>1, <2>1, <2>2 DEF Inv, Writing
<1>9. Reading'
  <2>1. \A i \in 1 .. Len(held) : element'[Nth(head, i - 1)] = element[Nth(head, i - 1)]
    <3> TAKE i \in 1 .. Len(held)
    <3>1. i \in 1 .. Used(head, tail) /\ i - 1 \in 0 .. Size - 1
      BY <1>3, <1>4, SizePositive DEF Inv, Accounts
    <3>2. Nth(head, i - 1) \in Indices /\ Nth(head, i - 1) # IncrementN(tail, c - 1)
      BY <1>2, <3>1, WritesBehind, IncrementNIs DEF Inv, Types
    <3> QED
      BY <1>1, <3>2 DEF Inv, Types
  <2> QED
    BY <1>1, <2>1 DEF Inv, Reading
<1> QED
  BY <1>6, <1>7, <1>8, <1>9 DEF Inv

(* The store to tail turns the offered packets into used elements.         *)
LEMMA FinishedWriteInv ==
  ASSUME Inv, FinishedWriteMulti
  PROVE  Inv'
<1>1. /\ ppc = "finish_store" /\ ptail = tail /\ ppc' = "idle" /\ offer' = <<>>
      /\ tail' = IncrementN(tail, Len(offer))
      /\ UNCHANGED <<head, ptail, phead, chead, copied, outstanding, cpc, batch, held, taken, element>>
  BY DEF Inv, Writing, FinishedWriteMulti, cvars
<1>2. /\ Len(offer) \in Nat /\ Len(offer) > 0 /\ Len(held) \in Nat /\ Len(batch) \in Nat
      /\ Used(head, tail) \in Nat /\ outstanding \in Nat /\ head \in Indices
  BY <1>1, UsedIs, SizePositive, SMTT(30) DEF Inv, Types, Writing
<1>3. /\ tail' \in Indices
      /\ Used(head, tail)' = Used(head, tail) + Len(offer)
  BY <1>1, <1>2, WritesBehind, UsedAfterWrite DEF Inv, Types
<1>4. Types'
  BY <1>1, <1>3 DEF Inv, Types
<1>5. Accounts'
  BY <1>1, <1>2, <1>3 DEF Inv, Accounts, Large
<1>6. Writing'
  BY <1>1 DEF Inv, Writing
<1>7. head' # tail'
  BY <1>1, <1>2, <1>3, UsedIs
<1>8. Reading'
  BY <1>1, <1>7 DEF Inv, Reading
<1> QED
  BY <1>4, <1>5, <1>6, <1>8 DEF Inv

(* The consumer's steps that load a cursor. *)
LEMMA ConsumerLoadInv ==
  ASSUME Inv, IsEmptyHead \/ IsEmptyTail \/ GetHead \/ FinishedReadLoad
  PROVE  Inv'
<1>1. /\ UNCHANGED <<tail, head, ptail, phead, offer, outstanding, copied, ppc,
                     batch, held, taken, element>>
      /\ chead' \in {head, chead}
  BY DEF IsEmptyHead, IsEmptyTail, GetHead, FinishedReadLoad, pvars
<1>2. /\ cpc' \in {"empty_head", "empty_tail", "get_head", "get_tail", "finish_store"}
      /\ cpc' \in {"empty_tail", "get_tail", "finish_store"} => chead' = head
      /\ cpc' = "finish_store" <=> cpc = "finish_load"
      /\ cpc \notin {"use", "finish_store"}
  BY DEF IsEmptyHead, IsEmptyTail, GetHead, FinishedReadLoad
<1>3. Types'
  BY <1>1, <1>2 DEF Inv, Types
<1>4. Accounts' /\ Writing'
  BY <1>1 DEF Inv, Accounts, Writing, Used, Large
<1>5. cpc' \in {"get_head", "get_tail"} => head # tail
  BY DEF IsEmptyHead, IsEmptyTail, GetHead, FinishedReadLoad, EmptyAt, Inv, Reading
<1>6. Reading'
  BY <1>1, <1>2, <1>5 DEF Inv, Reading
<1> QED
  BY <1>3, <1>4, <1>6 DEF Inv

(* The batch is everything in use, and so no more than the rings hold.     *)
LEMMA GetReadableInv ==
  ASSUME Inv, GetMultiReadableItems
  PROVE  Inv'
<1> DEFINE n == Used(head, tail)
<1>1. /\ cpc = "get_tail" /\ chead = head /\ head # tail
      /\ cpc' = "use" /\ held' = <<>> /\ batch = <<>>
      /\ UNCHANGED <<tail, head, ptail, phead, chead, offer, outstanding, copied, ppc,
                     taken, element>>
  BY DEF Inv, Reading, GetMultiReadableItems, pvars
<1>2. /\ n \in 0 .. Size - 1 /\ n > 0 /\ n \in Nat
      /\ batch' = [i \in 1 .. n |-> IncrementN(head, i - 1)]
  <2>1. n \in 0 .. Size - 1 /\ n # 0 /\ ReadableAt(chead, tail) = n
    BY <1>1, UsedIs DEF Inv, Types
  <2> QED
    BY <1>1, <2>1, SizePositive DEF GetMultiReadableItems
<1> HIDE DEF n
<1>3. \A i \in 1 .. n : IncrementN(head, i - 1) = Nth(head, i - 1)
                        /\ Nth(head, i - 1) \in Indices
  <2> TAKE i \in 1 .. n
  <2>1. i - 1 \in 0 .. Size - 1
    BY <1>2, SizePositive
  <2> QED
    BY <2>1, IncrementNIs DEF Inv, Types
<1>4. batch' \in Seq(Indices) /\ Len(batch') = n
  BY <1>2, <1>3
<1>5. Types'
  BY <1>1, <1>4 DEF Inv, Types
<1>6. Len(held) = 0 /\ n <= RingSlots
  BY <1>1, Bounds, SizePositive DEF Inv, Accounts, n
<1>7. Accounts'
  BY <1>1, <1>2, <1>4, <1>6, Bounds DEF Inv, Accounts, Used, Large, n
<1>8. Writing'
  BY <1>1 DEF Inv, Writing
<1>9. Reading'
  BY <1>1, <1>2, <1>3, <1>4 DEF Reading
<1> QED
  BY <1>5, <1>7, <1>8, <1>9 DEF Inv

(* A packet is processed: its ring slot is free, its element is not yet.   *)
LEMMA ReadItemInv ==
  ASSUME Inv, ReadItem
  PROVE  Inv'
<1> DEFINE n == Len(held) + 1
<1>1. /\ cpc = "use" /\ cpc' = IF n = Len(batch) THEN "finish_load" ELSE "use"
      /\ held' = Append(held, element[batch[n]])
      /\ outstanding' = outstanding - 1
      /\ UNCHANGED <<tail, head, ptail, phead, chead, offer, copied, ppc, batch, taken, element>>
  BY DEF ReadItem, pvars
<1>2. Len(held) < Len(batch)
  BY <1>1 DEF Inv, Reading
<1>3. /\ n \in 1 .. Len(batch) /\ batch[n] = Nth(head, n - 1) /\ batch[n] \in Indices
      /\ Len(held) \in Nat /\ Len(batch) \in Nat
  BY <1>2, Bounds DEF Inv, Types, Reading
<1>4. element[batch[n]] \in Items \cup {NoItem}
  BY <1>3 DEF Inv, Types
<1> HIDE DEF n
<1>5. /\ held' \in Seq(Items \cup {NoItem}) /\ Len(held') = n
      /\ \A i \in 1 .. n : held'[i] = IF i = n THEN element[batch[n]] ELSE held[i]
  BY <1>1, <1>4 DEF n, Inv, Types
<1>6. outstanding >= 1
  BY <1>2, Bounds DEF Inv, Accounts
<1>7. outstanding' \in 0 .. RingSlots
  BY <1>1, <1>6, SizePositive DEF Inv, Types
<1>8. Types'
  BY <1>1, <1>5, <1>7 DEF Inv, Types
<1>9. Accounts'
  <2>1. n <= Len(batch)
    BY <1>3
  <2> QED
    BY <1>1, <1>5, <2>1, Bounds DEF Inv, Accounts, Used, Large, n
<1>10. Writing'
  BY <1>1 DEF Inv, Writing
<1>11. Reading'
  <2>1. \A i \in 1 .. n : held'[i] = element[Nth(head, i - 1)]
    <3> TAKE i \in 1 .. n
    <3>1. i # n => i \in 1 .. Len(held)
      BY <1>3 DEF n
    <3> QED
      BY <1>3, <1>5, <3>1 DEF Inv, Reading
  <2>2. n # Len(batch) => n < Len(batch)
    BY <1>3
  <2>3. Len(batch) > 0
    BY <1>3
  <2> QED
    BY <1>1, <1>5, <2>1, <2>2, <2>3 DEF Inv, Reading
<1> QED
  BY <1>8, <1>9, <1>10, <1>11 DEF Inv

(* The store to head releases the elements of the batch, all processed.    *)
LEMMA FinishedReadInv ==
  ASSUME Inv, FinishedReadMulti
  PROVE  Inv'
<1>1. /\ cpc = "finish_store" /\ chead = head /\ cpc' = "empty_head"
      /\ head' = IncrementN(head, Len(batch))
      /\ taken' = held /\ batch' = <<>> /\ held' = <<>>
      /\ Len(held) = Len(batch)
      /\ UNCHANGED <<tail, ptail, phead, chead, offer, outstanding, copied, ppc, element>>
  BY DEF Inv, Reading, FinishedReadMulti, pvars
<1>2. Len(batch) <= Used(head, tail) /\ Len(batch) \in Nat
  BY Bounds DEF Inv, Accounts
<1>3. /\ head' \in Indices
      /\ Used(head, tail)' = Used(head, tail) - Len(batch)
  BY <1>1, <1>2, UsedAfterRead DEF Inv, Types
<1>4. Types'
  BY <1>1, <1>3 DEF Inv, Types
<1>5. Len(held') = 0 /\ Len(batch') = 0
  BY <1>1
<1>6. Accounts'
  BY <1>1, <1>2, <1>3, <1>5, Bounds, SizePositive DEF Inv, Accounts, Large
<1>7. Writing'
  BY <1>1 DEF Inv, Writing
<1>8. Reading'
  BY <1>1, <1>5 DEF Reading
<1> QED
  BY <1>4, <1>6, <1>7, <1>8 DEF Inv

LEMMA NextInv == Inv /\ [Next]_vars => Inv'
<1> SUFFICES ASSUME Inv, [Next]_vars PROVE Inv'
  OBVIOUS
<1>1. CASE UNCHANGED vars
  BY <1>1 DEF vars, pvars, cvars, Inv, Types, Accounts, Writing, Reading, Large
<1>2. CASE Offer
  BY <1>2, OfferInv
<1>3. CASE IsFullHead
  <2>1. Refuse \/ ppc' = "get_tail"
    BY <1>3 DEF IsFullHead
  <2> QED
    BY <1>3, <2>1, RefuseInv, ProducerLoadInv
<1>4. CASE SpaceTail \/ SpaceHead \/ IsFullTail \/ GetMultiWritableItems \/ FinishedWriteLoad
  BY <1>4, ProducerLoadInv
<1>5. CASE WriteItem
  BY <1>5, WriteItemInv
<1>6. CASE FinishedWriteMulti
  BY <1>6, FinishedWriteInv
<1>7. CASE IsEmptyHead \/ IsEmptyTail \/ GetHead \/ FinishedReadLoad
  BY <1>7, ConsumerLoadInv
<1>8. CASE GetMultiReadableItems
  BY <1>8, GetReadableInv
<1>9. CASE ReadItem
  BY <1>9, ReadItemInv
<1>10. CASE FinishedReadMulti
  BY <1>10, FinishedReadInv
<1> QED
  BY <1>1, <1>2, <1>3, <1>4, <1>5, <1>6, <1>7, <1>8, <1>9, <1>10
  DEF Next, Producer, Consumer

(* Every state of a queue that holds two loads of the rings satisfies the  *)
(* inductive invariant.                                                    *)
THEOREM Invariance == Large => (Spec => []Inv)
BY InitInv, NextInv, PTL DEF Spec

(* Type correctness, the bounds on offers and batches included.            *)
THEOREM TypeCorrect == Large => (Spec => []TypeOK)
<1>1. Inv => TypeOK
  <2> SUFFICES ASSUME Inv PROVE TypeOK
    OBVIOUS
  <2>1. Len(offer) \in 0 .. RingSlots /\ Len(held) <= Len(batch)
    BY Bounds, SizePositive DEF Inv, Accounts
  <2> QED
    BY <2>1 DEF Inv, Types, TypeOK
<1> QED
  BY Invariance, <1>1, PTL

(* HasEnoughSpace is never wrong to let a batch through when the queue can *)
(* hold what the rings hold twice, although it compares the wrong number:  *)
(* what is offered and what is in use are then never too much together.    *)
THEOREM SpaceSuffices == Large => (Spec => []EnoughSpace)
<1>1. Inv => EnoughSpace
  BY WritesBehind DEF Inv, EnoughSpace
<1> QED
  BY Invariance, <1>1, PTL

-----------------------------------------------------------------------------
(* Refinement: the elements between the cursors, oldest first, are the     *)
(* abstract queue.                                                         *)

LEMMA ContentIs ==
  ASSUME Types
  PROVE  /\ Content \in Seq(Items \cup {NoItem})
         /\ Len(Content) = Used(head, tail)
         /\ \A i \in 1 .. Used(head, tail) : Content[i] = element[Nth(head, i - 1)]
<1>1. \A i \in 1 .. Used(head, tail) :
        Nth(head, i - 1) \in Indices /\ element[Nth(head, i - 1)] \in Items \cup {NoItem}
  <2> TAKE i \in 1 .. Used(head, tail)
  <2>1. i - 1 \in 0 .. Size - 1
    BY Bounds, SizePositive
  <2> QED
    BY <2>1, IncrementNIs DEF Types
<1>2. Content \in [1 .. Used(head, tail) -> Items \cup {NoItem}]
  BY <1>1 DEF Content
<1> QED
  BY <1>2, Bounds DEF Content

LEMMA InitRefines == Init => Abstract!Init
BY SizePositive DEF Init, Abstract!Init, Content, Used

LEMMA ConcatIs ==
  ASSUME NEW S, NEW r \in Seq(S), NEW s \in Seq(S)
  PROVE  r \o s = [i \in 1 .. Len(r) + Len(s) |-> IF i <= Len(r) THEN r[i] ELSE s[i - Len(r)]]
<1> DEFINE t == [i \in 1 .. Len(r) + Len(s) |-> IF i <= Len(r) THEN r[i] ELSE s[i - Len(r)]]
<1>1. \A i \in 1 .. Len(r) + Len(s) : (IF i <= Len(r) THEN r[i] ELSE s[i - Len(r)]) \in S
  OBVIOUS
<1>2. t \in Seq(S) /\ Len(t) = Len(r) + Len(s)
  BY <1>1
<1>3. \A i \in 1 .. Len(t) : t[i] = (r \o s)[i]
  BY <1>2, ConcatProperties
<1>4. r \o s \in Seq(S) /\ Len(r \o s) = Len(t)
  BY <1>2, ConcatProperties
<1> HIDE DEF t
<1>5. r \o s = t
  BY <1>2, <1>3, <1>4, SeqEqual
<1> QED
  BY <1>5 DEF t

(* The store to tail appends the whole batch. *)
LEMMA WriteRefines ==
  ASSUME Inv, FinishedWriteMulti
  PROVE  Abstract!Put
<1> DEFINE u == Used(head, tail)
           n == Len(offer)
           Q == Items \cup {NoItem}
<1>1. /\ tail' = IncrementN(tail, n) /\ head' = head /\ element' = element
      /\ offer' = <<>> /\ taken' = taken
      /\ \A i \in 1 .. n : element[IncrementN(tail, i - 1)] = offer[i]
  BY DEF Inv, Writing, FinishedWriteMulti, cvars
<1>2. /\ u \in Nat /\ n \in Nat /\ offer \in Seq(Q) /\ Types /\ u + n <= Size - 1
      /\ head \in Indices /\ tail \in Indices
  BY Bounds, WritesBehind DEF Inv, Types
<1>3. /\ Content \in Seq(Q) /\ Len(Content) = u
      /\ \A i \in 1 .. u : Content[i] = element[Nth(head, i - 1)]
  BY <1>2, ContentIs
<1> HIDE DEF u, n, Q
<1>4. /\ Used(head', tail') = u + n
      /\ \A i \in 0 .. n : IncrementN(tail, i) = Nth(head, u + i)
  BY <1>1, <1>2, UsedAfterWrite DEF u
<1>5. Content' = [i \in 1 .. u + n |-> element[Nth(head, i - 1)]]
  BY <1>1, <1>4 DEF Content
<1>6. \A i \in 1 .. u + n :
        element[Nth(head, i - 1)] = IF i <= u THEN Content[i] ELSE offer[i - u]
  <2> TAKE i \in 1 .. u + n
  <2>1. CASE i <= u
    BY <1>2, <1>3, <2>1
  <2>2. CASE i > u
    <3>1. i - u \in 1 .. n /\ i - u - 1 \in 0 .. n /\ u + (i - u - 1) = i - 1
      BY <1>2, <2>2
    <3>2. IncrementN(tail, i - u - 1) = Nth(head, i - 1)
      BY <1>4, <3>1
    <3>3. element[IncrementN(tail, i - u - 1)] = offer[i - u]
      BY <1>1, <3>1
    <3> QED
      BY <1>2, <2>2, <3>2, <3>3
  <2> QED
    BY <1>2, <2>1, <2>2
<1>7. Content \o offer =
        [i \in 1 .. u + n |-> IF i <= u THEN Content[i] ELSE offer[i - u]]
  <2>1. Content \o offer = [i \in 1 .. Len(Content) + Len(offer) |->
          IF i <= Len(Content) THEN Content[i] ELSE offer[i - Len(Content)]]
    BY <1>2, <1>3, ConcatIs, Zenon
  <2>2. Len(Content) = u /\ Len(offer) = n
    BY <1>3 DEF n
  <2> QED
    BY <2>1, <2>2, Zenon
<1>8. Content' = Content \o offer
  BY <1>5, <1>6, <1>7
<1> QED
  BY <1>1, <1>2, <1>3, <1>8 DEF Abstract!Put, Abstract!Fits, n

(* The store to head takes the packets the consumer has processed.         *)
LEMMA ReadRefines ==
  ASSUME Inv, FinishedReadMulti
  PROVE  Abstract!Take
<1> DEFINE u == Used(head, tail)
           n == Len(batch)
           Q == Items \cup {NoItem}
<1>1. /\ head' = IncrementN(head, n) /\ tail' = tail /\ element' = element
      /\ offer' = offer /\ taken' = held /\ Len(held) = n /\ n > 0
      /\ \A i \in 1 .. n : held[i] = element[Nth(head, i - 1)]
  BY DEF Inv, Reading, FinishedReadMulti, pvars
<1>2. /\ u \in Nat /\ n \in Nat /\ n <= u /\ held \in Seq(Q) /\ Types
      /\ head \in Indices /\ tail \in Indices
  BY Bounds DEF Inv, Types, Accounts
<1>3. /\ Content \in Seq(Q) /\ Len(Content) = u
      /\ \A i \in 1 .. u : Content[i] = element[Nth(head, i - 1)]
  BY <1>2, ContentIs
<1> HIDE DEF u, n, Q
<1>4. /\ Used(head', tail') = u - n
      /\ \A i \in 0 .. u - n - 1 : Nth(head', i) = Nth(head, n + i)
  BY <1>1, <1>2, UsedAfterRead DEF u
<1>5. taken' = SubSeq(Content, 1, n)
  <2>1. SubSeq(Content, 1, n) = [i \in 1 .. n |-> Content[i]]
    BY <1>2, <1>3
  <2>2. held = [i \in 1 .. n |-> held[i]]
    BY <1>1, <1>2
  <2>3. \A i \in 1 .. n : held[i] = Content[i]
    BY <1>1, <1>2, <1>3
  <2> QED
    BY <1>1, <2>1, <2>2, <2>3
<1>6. Content' = SubSeq(Content, n + 1, Len(Content))
  <2>1. SubSeq(Content, n + 1, u) = [i \in 1 .. u - n |-> Content[i + n]]
    BY <1>2, <1>3
  <2>2. Content' = [i \in 1 .. u - n |-> element[Nth(head', i - 1)]]
    BY <1>1, <1>4 DEF Content
  <2>3. \A i \in 1 .. u - n : element[Nth(head', i - 1)] = Content[i + n]
    <3> TAKE i \in 1 .. u - n
    <3>1. i - 1 \in 0 .. u - n - 1 /\ i + n \in 1 .. u /\ n + (i - 1) = (i + n) - 1
      BY <1>2
    <3>2. Nth(head', i - 1) = Nth(head, (i + n) - 1)
      BY <1>4, <3>1
    <3> QED
      BY <1>3, <3>1, <3>2
  <2> QED
    BY <1>3, <2>1, <2>2, <2>3
<1>7. n \in 1 .. Len(Content)
  BY <1>1, <1>2, <1>3
<1> QED
  BY <1>1, <1>5, <1>6, <1>7 DEF Abstract!Take

(* A packet is written where the consumer does not look yet.               *)
LEMMA WriteItemHidden ==
  ASSUME Inv, WriteItem
  PROVE  UNCHANGED Abstract!vars
<1> DEFINE c == copied + 1
<1>1. /\ c \in 1 .. Len(offer)
      /\ element' = [element EXCEPT ![IncrementN(tail, c - 1)] = offer[c]]
      /\ UNCHANGED <<tail, head, offer, taken>>
  BY DEF Inv, Types, Writing, WriteItem, cvars
<1> HIDE DEF c
<1>2. \A i \in 1 .. Used(head, tail) : element'[Nth(head, i - 1)] = element[Nth(head, i - 1)]
  <2> TAKE i \in 1 .. Used(head, tail)
  <2>1. i - 1 \in 0 .. Size - 1
    BY Bounds, SizePositive DEF Inv
  <2>2. Nth(head, i - 1) \in Indices /\ Nth(head, i - 1) # IncrementN(tail, c - 1)
    BY <1>1, <2>1, WritesBehind, IncrementNIs DEF Inv, Types
  <2> QED
    BY <1>1, <2>2 DEF Inv, Types
<1>3. Content' = [i \in 1 .. Used(head, tail) |-> element'[Nth(head, i - 1)]]
  BY <1>1 DEF Content
<1>4. Content' = Content
  BY <1>2, <1>3 DEF Content
<1> QED
  BY <1>1, <1>4 DEF Abstract!vars

LEMMA OfferRefines ==
  ASSUME Inv, Offer
  PROVE  Abstract!Offer
<1>1. offer = <<>> /\ UNCHANGED <<head, tail, element, taken>>
  BY DEF Inv, Writing, Offer, cvars
<1>2. offer' \in Seq(Items \cup {NoItem})
  <2>1. PICK n \in 1 .. (RingSlots - outstanding) : offer' \in [1 .. n -> Items]
    BY DEF Offer
  <2>2. n \in Nat
    BY Bounds, SizePositive DEF Inv
  <2> QED
    BY <2>1, <2>2
<1>3. Content' = Content
  BY <1>1 DEF Content
<1> QED
  BY <1>1, <1>2, <1>3 DEF Abstract!Offer

LEMMA StepRefines ==
  ASSUME Inv, [Next]_vars
  PROVE  [Abstract!Next]_(Abstract!vars)
<1>1. CASE UNCHANGED <<head, tail, element, offer, taken>>
  BY <1>1 DEF Abstract!vars, Content
<1>2. CASE Offer
  BY <1>2, OfferRefines DEF Abstract!Next
<1>3. CASE IsFullHead
  <2>1. UNCHANGED <<head, tail, element, taken>> /\ (offer' = offer \/ offer' = <<>>)
    BY <1>3 DEF IsFullHead, Refuse, cvars
  <2>2. Content' = Content
    BY <2>1 DEF Content
  <2>3. Abstract!Refuse \/ UNCHANGED Abstract!vars
    BY <2>1, <2>2 DEF Abstract!Refuse, Abstract!vars
  <2> QED
    BY <2>3 DEF Abstract!Next
<1>4. CASE WriteItem
  BY <1>4, WriteItemHidden
<1>5. CASE FinishedWriteMulti
  BY <1>5, WriteRefines DEF Abstract!Next
<1>6. CASE FinishedReadMulti
  BY <1>6, ReadRefines DEF Abstract!Next
<1>7. CASE SpaceTail \/ SpaceHead \/ IsFullTail \/ GetMultiWritableItems \/ FinishedWriteLoad
  BY <1>1, <1>7
  DEF SpaceTail, SpaceHead, IsFullTail, GetMultiWritableItems, FinishedWriteLoad, cvars
<1>8. CASE IsEmptyHead \/ IsEmptyTail \/ GetHead \/ GetMultiReadableItems \/ ReadItem
             \/ FinishedReadLoad
  BY <1>1, <1>8
  DEF IsEmptyHead, IsEmptyTail, GetHead, GetMultiReadableItems, ReadItem,
      FinishedReadLoad, pvars
<1>9. CASE UNCHANGED vars
  BY <1>1, <1>9 DEF vars, pvars, cvars
<1> QED
  BY <1>2, <1>3, <1>4, <1>5, <1>6, <1>7, <1>8, <1>9 DEF Next, Producer, Consumer

(* Used in batches, a queue that can hold two loads of the rings is a FIFO *)
(* that may refuse a batch: this is what PktCapture takes it for.          *)
THEOREM Refinement == Large => (Spec => IsLossyFifo)
BY InitRefines, StepRefines, Invariance, PTL DEF Spec, IsLossyFifo, Abstract!Spec

=============================================================================
