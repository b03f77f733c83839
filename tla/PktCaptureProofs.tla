--------------------------- MODULE PktCaptureProofs ---------------------------
(***************************************************************************)
(* Proofs about PktCapture for rings of any number of slots and for any    *)
(* machine: cards, rings, receivers, sizes of queues, policies.            *)
(***************************************************************************)
EXTENDS PktCapture, FiniteSetTheorems, SequenceTheorems, TLAPS

-----------------------------------------------------------------------------
(* The inductive invariant.  NoReuse speaks of the ring's cursors and of   *)
(* queues; between them stand the two indices of the capture thread, the   *)
(* place it has reached in its round, and the flags.                       *)

Places ==
  [pc : {"poll", "ring", "slot", "dispatch", "turn", "store", "batch", "refresh", "scan",
         "stopped"},
   ring : Rings, cur : Slots, left : Nat, pkts : Seq(Slots), to : Receivers]

Turns == [pc : {"look", "process", "finish"}, fifo : Cards, got : Nat, done : Nat]

Types ==
  /\ conf \in Configs
  /\ ring \in [Cards -> [Rings -> [cur : Slots, tail : Slots]]]
  /\ flag \in [Cards -> [Rings -> [Slots -> BOOLEAN]]]
  /\ proc \in [Cards -> [Rings -> Slots \cup {Unset}]]
  /\ read \in [Cards -> [Rings -> Slots \cup {Unset}]]
  /\ capture \in [Cards -> Places]
  /\ current \in Receivers
  /\ fifo \in [Receivers -> [Cards -> Seq(Packets)]]
  /\ receive \in [Receivers -> Turns]

(* How far a slot, read_index and the kernel's tail are from proc_index.   *)
Pos(c, k, s) == SlotCount(proc[c][k], s)
Captured(c, k) == SlotCount(proc[c][k], read[c][k])
Published(c, k) == SlotCount(proc[c][k], ring[c][k].tail)

(* The two indices: unset, or the ring's cursor and an index not beyond    *)
(* what the kernel has published.                                          *)
Indexed(c, k) ==
  IF proc[c][k] = Unset THEN read[c][k] = Unset
  ELSE /\ read[c][k] # Unset
       /\ ring[c][k].cur = proc[c][k]
       /\ Captured(c, k) <= Published(c, k)

(* Where the capture thread has got to in its round.  A slot it has not    *)
(* captured is the one at read_index; the flags of slots it has scanned    *)
(* are down.                                                               *)
Walks(c) ==
  LET me == capture[c]
      k  == me.ring
  IN
  /\ me.pc \in {"slot", "dispatch", "turn", "store", "batch", "refresh", "scan"} =>
       proc[c][k] # Unset
  /\ me.pc \in {"slot", "dispatch", "turn", "store"} =>
       /\ Pos(c, k, me.cur) + me.left = Published(c, k)
       /\ Pos(c, k, me.cur) <= Captured(c, k)
  /\ me.pc = "dispatch" => me.left > 0 /\ me.cur = read[c][k] /\ flag[c][k][me.cur]
  /\ me.pc = "scan" =>
       /\ Pos(c, k, me.cur) + me.left = Captured(c, k)
       /\ \A s \in Slots : Pos(c, k, s) < Pos(c, k, me.cur) => ~ flag[c][k][s]
  /\ me.pc \in {"poll", "ring", "dispatch", "turn", "store", "stopped"} \/ ~ conf.batch =>
       me.pkts = <<>>
  /\ me.pc \notin {"batch", "store"} => me.to = 0

(* A packet that waits in a queue was captured, and its flag is up.        *)
Placed(c, r) ==
  \A i \in Pending(r, c) :
    LET p == fifo[r][c][i] IN
    /\ proc[c][p.ring] # Unset
    /\ Pos(c, p.ring, p.slot) < Captured(c, p.ring)
    /\ flag[c][p.ring][p.slot]

(* Packets that wait were queued once, and those of a ring in its order.   *)
Apart(c) ==
  \A r, q \in Receivers : \A i \in Pending(r, c), j \in Pending(q, c) :
    fifo[r][c][i] = fifo[q][c][j] => r = q /\ i = j

Ordered(c, r) ==
  \A i, j \in Pending(r, c) :
    LET p == fifo[r][c][i]
        q == fifo[r][c][j]
    IN i < j /\ p.ring = q.ring => Pos(c, p.ring, p.slot) < Pos(c, q.ring, q.slot)

(* The same of the packets in pkt_container_: they are in no queue, and    *)
(* behind what the receivers whose turn is still to come have in theirs.   *)
Batched(c) ==
  LET me == capture[c]
      k  == me.ring
  IN
  /\ \A i \in DOMAIN me.pkts :
       /\ Pos(c, k, me.pkts[i]) < Captured(c, k)
       /\ flag[c][k][me.pkts[i]]
  /\ \A i, j \in DOMAIN me.pkts : i < j => Pos(c, k, me.pkts[i]) < Pos(c, k, me.pkts[j])
  /\ \A r \in Receivers : \A i \in Pending(r, c), j \in DOMAIN me.pkts :
       LET p == fifo[r][c][i] IN
       p.ring = k =>
         /\ p.slot # me.pkts[j]
         /\ me.pc \in {"slot", "batch"} /\ r >= me.to =>
              Pos(c, k, p.slot) < Pos(c, k, me.pkts[j])

(* How far a processing thread is in what it was given. *)
Serves(r) ==
  LET me == receive[r] IN
  /\ me.pc = "look" => me.done = 0
  /\ me.pc = "process" => me.done < me.got /\ me.got <= Len(fifo[r][me.fifo])
  /\ me.pc = "finish" => me.done = me.got /\ me.got <= Len(fifo[r][me.fifo])

CardInv(c) ==
  /\ \A k \in Rings : Indexed(c, k)
  /\ Walks(c)
  /\ \A r \in Receivers : Placed(c, r) /\ Ordered(c, r)
  /\ Apart(c)
  /\ Batched(c)

Inv ==
  /\ Types
  /\ \A c \in Cards : CardInv(c)
  /\ \A r \in Receivers : Serves(r)
-----------------------------------------------------------------------------
(* Distances round a ring.                                                 *)

LEMMA SlotsAre ==
  /\ NumSlots \in Nat /\ NumSlots > 1
  /\ Slots = 0 .. NumSlots - 1
  /\ Unset \notin Slots
BY CaptureAssumption DEF Slots, Unset

LEMMA CountIs ==
  ASSUME NEW a \in Slots, NEW b \in Slots
  PROVE  /\ SlotCount(a, b) \in Nat
         /\ SlotCount(a, b) < NumSlots
         /\ SlotCount(a, a) = 0
BY SlotsAre DEF SlotCount

LEMMA CountInjective ==
  ASSUME NEW a \in Slots, NEW b \in Slots, NEW d \in Slots, SlotCount(a, b) = SlotCount(a, d)
  PROVE  b = d
BY SlotsAre DEF SlotCount

LEMMA InRangeIs ==
  ASSUME NEW a \in Slots, NEW b \in Slots, NEW s \in Slots
  PROVE  InRange(s, a, b) <=> SlotCount(a, s) < SlotCount(a, b)
BY SlotsAre DEF SlotCount, InRange

LEMMA AddCount ==
  ASSUME NEW a \in Slots, NEW b \in Slots, NEW m \in Nat, SlotCount(a, b) + m < NumSlots
  PROVE  /\ (b + m) % NumSlots \in Slots
         /\ SlotCount(a, (b + m) % NumSlots) = SlotCount(a, b) + m
<1>1. b \in Nat /\ b < NumSlots /\ a \in Nat /\ a < NumSlots /\ m < NumSlots /\ NumSlots \in Nat
  BY SlotsAre, CountIs
<1>2. (b + m) % NumSlots = IF b + m < NumSlots THEN b + m ELSE b + m - NumSlots
  BY <1>1
<1> QED
  BY <1>1, <1>2, SlotsAre DEF SlotCount

LEMMA NextCount ==
  ASSUME NEW a \in Slots, NEW s \in Slots
  PROVE  /\ NextSlot(s) \in Slots
         /\ SlotCount(a, s) + 1 < NumSlots => SlotCount(a, NextSlot(s)) = SlotCount(a, s) + 1
<1>1. NextSlot(s) = IF s + 1 < NumSlots THEN s + 1 ELSE 0
  BY SlotsAre DEF NextSlot
<1> QED
  BY <1>1, SlotsAre DEF SlotCount

(* Distances from a slot further on. *)
LEMMA ShiftCount ==
  ASSUME NEW a \in Slots, NEW b \in Slots, NEW s \in Slots, SlotCount(a, b) <= SlotCount(a, s)
  PROVE  SlotCount(b, s) = SlotCount(a, s) - SlotCount(a, b)
BY SlotsAre DEF SlotCount

-----------------------------------------------------------------------------

LEMMA ConfIs ==
  ASSUME conf \in Configs
  PROVE  /\ conf.cards \in Nat \ {0} /\ conf.rings \in Nat \ {0}
         /\ conf.receivers \in Nat \ {0} /\ conf.size \in Nat \ {0}
         /\ conf.batch \in BOOLEAN
         /\ 0 \in Cards /\ 0 \in Rings /\ 0 \in Receivers
BY CaptureAssumption DEF Cards, Rings, Receivers

LEMMA IdleIs ==
  ASSUME conf \in Configs, NEW k \in Rings
  PROVE  /\ Idle \in Places
         /\ [Idle EXCEPT !.pc = "ring", !.ring = k] \in Places
<1>1. 0 \in Rings /\ 0 \in Receivers /\ 0 \in Slots /\ <<>> \in Seq(Slots)
  BY ConfIs, SlotsAre
<1> QED
  BY <1>1 DEF Idle, Places

LEMMA InitInv == Init => Inv
<1> SUFFICES ASSUME Init PROVE Inv
  OBVIOUS
<1>1. conf \in Configs /\ 0 \in Slots /\ 0 \in Cards /\ 0 \in Rings /\ 0 \in Receivers
  BY ConfIs, SlotsAre DEF Init
<1>2. Idle \in Places
  BY <1>1, IdleIs
<1>3. Types
  <2>1. ring \in [Cards -> [Rings -> [cur : Slots, tail : Slots]]]
    BY <1>1 DEF Init
  <2>2. flag \in [Cards -> [Rings -> [Slots -> BOOLEAN]]]
    BY DEF Init
  <2>3. proc \in [Cards -> [Rings -> Slots \cup {Unset}]] /\ read \in [Cards -> [Rings -> Slots \cup {Unset}]]
    BY DEF Init
  <2>4. capture \in [Cards -> Places]
    BY <1>2 DEF Init
  <2>5. fifo \in [Receivers -> [Cards -> Seq(Packets)]]
    BY DEF Init
  <2>6. receive \in [Receivers -> Turns]
    BY <1>1 DEF Init, Turns
  <2>7. current \in Receivers
    BY <1>1 DEF Init
  <2> QED
    BY <1>1, <2>1, <2>2, <2>3, <2>4, <2>5, <2>6, <2>7 DEF Types
<1>4. ASSUME NEW c \in Cards PROVE CardInv(c)
  <2>1. /\ capture[c] = Idle
        /\ \A k \in Rings : proc[c][k] = Unset /\ read[c][k] = Unset
        /\ \A r \in Receivers : fifo[r][c] = <<>> /\ receive[r].done = 0
    BY DEF Init
  <2>2. \A r \in Receivers : Pending(r, c) = {}
    BY <2>1 DEF Pending
  <2>3. \A k \in Rings : Indexed(c, k)
    BY <2>1 DEF Indexed
  <2>4. Walks(c)
    BY <2>1 DEF Walks, Idle
  <2>5. \A r \in Receivers : Placed(c, r) /\ Ordered(c, r)
    BY <2>2 DEF Placed, Ordered
  <2>6. Apart(c)
    BY <2>2 DEF Apart
  <2>7. Batched(c)
    BY <2>1, <2>2 DEF Batched, Idle
  <2> QED
    BY <2>3, <2>4, <2>5, <2>6, <2>7 DEF CardInv
<1>5. \A r \in Receivers : Serves(r)
  BY DEF Init, Serves
<1> QED
  BY <1>3, <1>4, <1>5 DEF Inv

-----------------------------------------------------------------------------
(* What a step leaves alone.                                               *)

LEMMA SameCard ==
  ASSUME Inv, NEW c \in Cards,
         conf' = conf, ring'[c] = ring[c], flag'[c] = flag[c], proc'[c] = proc[c],
         read'[c] = read[c], capture'[c] = capture[c],
         \A r \in Receivers : fifo'[r][c] = fifo[r][c] /\ Pending(r, c)' = Pending(r, c)
  PROVE  CardInv(c)'
<1>1. CardInv(c) /\ Receivers' = Receivers /\ Rings' = Rings /\ Slots' = Slots
  BY DEF Inv, Receivers, Rings
<1>2. \A k \in Rings : Indexed(c, k)'
  BY <1>1 DEF CardInv, Indexed, Captured, Published
<1>3. Walks(c)'
  BY <1>1 DEF CardInv, Walks, Captured, Published, Pos
<1>4. ASSUME NEW r \in Receivers PROVE Placed(c, r)' /\ Ordered(c, r)'
  <2>1. Placed(c, r) /\ Ordered(c, r) /\ fifo'[r][c] = fifo[r][c] /\ Pending(r, c)' = Pending(r, c)
    BY <1>1 DEF CardInv
  <2>2. Placed(c, r)'
    BY <2>1 DEF Placed, Pos, Captured
  <2>3. Ordered(c, r)'
    BY <2>1 DEF Ordered, Pos
  <2> QED
    BY <2>2, <2>3
<1>5. Apart(c)'
  BY <1>1 DEF CardInv, Apart
<1>6. Batched(c)'
  BY <1>1 DEF CardInv, Batched, Pos, Captured
<1> QED
  BY <1>1, <1>2, <1>3, <1>4, <1>5, <1>6 DEF CardInv

LEMMA SameServes ==
  ASSUME Inv, NEW r \in Receivers, receive'[r] = receive[r],
         Len(fifo'[r][receive[r].fifo]) >= Len(fifo[r][receive[r].fifo]),
         Len(fifo'[r][receive[r].fifo]) \in Nat
  PROVE  Serves(r)'
BY DEF Inv, Serves, Types, Turns

LEMMA CaptureIs ==
  ASSUME Types, NEW c \in Cards, NEW place \in Places, Goto(c, place), conf' = conf
  PROVE  /\ capture' \in [Cards' -> Places']
         /\ capture'[c] = place
         /\ \A d \in Cards : d # c => capture'[d] = capture[d]
<1>1. Cards' = Cards /\ Places' = Places
  BY DEF Cards, Places, Rings, Receivers
<1> QED
  BY <1>1 DEF Types, Goto

(* A step of a capture thread that touches nothing but its own place, and  *)
(* perhaps the turn.                                                       *)
LEMMA OnlyCapture ==
  ASSUME Inv, NEW c \in Cards, NEW place \in Places, Goto(c, place),
         UNCHANGED <<conf, ring, flag, proc, read, fifo, receive>>,
         current' = current \/ current' \in Receivers',
         Walks(c)', Batched(c)'
  PROVE  Inv'
<1>1. /\ capture' \in [Cards' -> Places'] /\ capture'[c] = place
      /\ \A d \in Cards : d # c => capture'[d] = capture[d]
  BY CaptureIs DEF Inv
<1>2. /\ Cards' = Cards /\ Receivers' = Receivers /\ Rings' = Rings /\ Packets' = Packets
      /\ Turns' = Turns
      /\ \A d \in Cards, r \in Receivers : Pending(r, d)' = Pending(r, d)
  BY DEF Cards, Receivers, Rings, Packets, Pending, Turns
<1>3. Types'
  BY <1>1, <1>2 DEF Inv, Types
<1>4. ASSUME NEW d \in Cards, d # c PROVE CardInv(d)'
  BY <1>1, <1>2, <1>4, SameCard
<1>5. CardInv(c)'
  <2>1. CardInv(c)
    BY DEF Inv
  <2>2. \A k \in Rings : Indexed(c, k)'
    BY <2>1 DEF CardInv, Indexed, Captured, Published
  <2>3. \A r \in Receivers : Placed(c, r)' /\ Ordered(c, r)'
    BY <2>1, <1>2 DEF CardInv, Placed, Ordered, Pos, Captured
  <2>4. Apart(c)'
    BY <2>1, <1>2 DEF CardInv, Apart
  <2> QED
    BY <1>2, <2>2, <2>3, <2>4 DEF CardInv
<1>6. \A r \in Receivers : Serves(r)'
  BY DEF Inv, Serves
<1> QED
  BY <1>2, <1>3, <1>4, <1>5, <1>6 DEF Inv

(* An empty pkt_container_ satisfies Batched; one that is kept does unless *)
(* more is said of it.                                                     *)
LEMMA BatchedEmpty ==
  ASSUME NEW c, capture'[c].pkts = <<>>
  PROVE  Batched(c)'
BY DEF Batched

LEMMA BatchedKept ==
  ASSUME Inv, NEW c \in Cards,
         UNCHANGED <<conf, flag, proc, read, fifo, receive>>,
         capture'[c].pkts = capture[c].pkts, capture'[c].ring = capture[c].ring,
         capture'[c].to = capture[c].to,
         capture'[c].pc \in {"slot", "batch"} => capture[c].pc \in {"slot", "batch"}
  PROVE  Batched(c)'
<1>1. Batched(c) /\ Receivers' = Receivers
      /\ \A r \in Receivers : Pending(r, c)' = Pending(r, c)
  BY DEF Inv, CardInv, Receivers, Pending
<1> QED
  BY <1>1 DEF Batched, Pos, Captured

(* What is known of a place. *)
LEMMA PlaceIs ==
  ASSUME Inv, NEW c \in Cards
  PROVE  LET me == capture[c]
             k  == capture[c].ring
         IN
         /\ me \in Places
         /\ k \in Rings /\ me.cur \in Slots /\ me.left \in Nat /\ me.pkts \in Seq(Slots)
         /\ me.to \in Receivers
         /\ ring[c][k].cur \in Slots /\ ring[c][k].tail \in Slots
         /\ proc[c][k] \in Slots \cup {Unset} /\ read[c][k] \in Slots \cup {Unset}
         /\ Indexed(c, k) /\ Walks(c) /\ Batched(c)
<1>1. capture[c] \in Places /\ CardInv(c)
  BY DEF Inv, Types
<1>2. capture[c].ring \in Rings
  BY <1>1 DEF Places
<1> QED
  BY <1>1, <1>2 DEF Places, CardInv, Inv, Types

LEMMA IndexedIs ==
  ASSUME Inv, NEW c \in Cards, NEW k \in Rings, proc[c][k] # Unset
  PROVE  /\ proc[c][k] \in Slots /\ read[c][k] \in Slots
         /\ ring[c][k].cur = proc[c][k] /\ ring[c][k].tail \in Slots
         /\ Captured(c, k) \in Nat /\ Published(c, k) \in Nat
         /\ Captured(c, k) <= Published(c, k) /\ Published(c, k) < NumSlots
<1>1. /\ proc[c][k] \in Slots /\ read[c][k] \in Slots
      /\ ring[c][k].cur = proc[c][k] /\ ring[c][k].tail \in Slots
      /\ Captured(c, k) <= Published(c, k)
  BY DEF Inv, Types, CardInv, Indexed
<1>2. /\ Captured(c, k) \in Nat /\ Published(c, k) \in Nat /\ Published(c, k) < NumSlots
  BY <1>1, CountIs DEF Captured, Published
<1> QED
  BY <1>1, <1>2

-----------------------------------------------------------------------------
(* Steps of the capture thread that change nothing but its place.          *)

LEMMA PollErrorInv ==
  ASSUME Inv, NEW c \in Cards, PollError(c)
  PROVE  Inv'
<1> DEFINE place == [capture[c] EXCEPT !.pc = "stopped"]
<1>1. /\ Goto(c, place) /\ UNCHANGED <<conf, ring, flag, proc, read, current, fifo, receive>>
      /\ capture[c].pc = "poll"
  BY DEF PollError, At
<1>2. place \in Places /\ place.pc = "stopped" /\ place.pkts = capture[c].pkts /\ place.to = capture[c].to
  BY PlaceIs DEF Places
<1> HIDE DEF place
<1>3. capture'[c] = place
  BY <1>1, <1>2, CaptureIs DEF Inv
<1>4. capture[c].pkts = <<>> /\ capture[c].to = 0
  BY <1>1, PlaceIs DEF Walks
<1>5. Walks(c)' /\ Batched(c)'
  BY <1>2, <1>3, <1>4, BatchedEmpty DEF Walks
<1> QED
  BY <1>1, <1>2, <1>5, OnlyCapture

LEMMA SkipSlotInv ==
  ASSUME Inv, NEW c \in Cards, SkipSlot(c)
  PROVE  Inv'
<1> DEFINE me == capture[c]
           k == me.ring
           place == [me EXCEPT !.cur = NextSlot(@), !.left = @ - 1]
<1>1. /\ Goto(c, place) /\ UNCHANGED <<conf, ring, flag, proc, read, current, fifo, receive>>
      /\ me.pc = "slot" /\ me.left > 0 /\ InRange(me.cur, proc[c][k], read[c][k])
  BY DEF SkipSlot, At
<1>2. /\ me \in Places /\ k \in Rings /\ me.cur \in Slots /\ me.left \in Nat
      /\ proc[c][k] # Unset
      /\ Pos(c, k, me.cur) + me.left = Published(c, k)
      /\ ~ conf.batch => me.pkts = <<>>
      /\ me.to = 0
  BY <1>1, PlaceIs DEF Walks
<1>3. /\ proc[c][k] \in Slots /\ read[c][k] \in Slots
      /\ Captured(c, k) \in Nat /\ Published(c, k) \in Nat /\ Published(c, k) < NumSlots
  BY <1>2, IndexedIs
<1>4. /\ Pos(c, k, me.cur) < Captured(c, k) /\ Pos(c, k, me.cur) \in Nat
      /\ Pos(c, k, me.cur) + 1 < NumSlots
  BY <1>1, <1>2, <1>3, InRangeIs, CountIs, SlotsAre DEF Pos, Captured
<1>5. /\ NextSlot(me.cur) \in Slots
      /\ Pos(c, k, NextSlot(me.cur)) = Pos(c, k, me.cur) + 1
  BY <1>2, <1>3, <1>4, NextCount DEF Pos
<1>6. /\ place \in Places /\ place.pc = "slot" /\ place.ring = k /\ place.cur = NextSlot(me.cur)
      /\ place.left = me.left - 1 /\ place.pkts = me.pkts /\ place.to = me.to
  <2>1. me.left - 1 \in Nat
    BY <1>1, <1>2
  <2> HIDE DEF me
  <2> QED
    BY <1>1, <1>2, <1>5, <2>1 DEF Places
<1> HIDE DEF place
<1>7. capture'[c] = place
  BY <1>1, <1>6, CaptureIs DEF Inv
<1>8. Walks(c)'
  <2>1. /\ Pos(c, k, place.cur) + place.left = Published(c, k)
        /\ Pos(c, k, place.cur) <= Captured(c, k)
    BY <1>1, <1>2, <1>3, <1>4, <1>5, <1>6
  <2> QED
    BY <1>1, <1>2, <1>6, <1>7, <2>1 DEF Walks, Pos, Published, Captured
<1>9. Batched(c)'
  BY <1>1, <1>6, <1>7, BatchedKept
<1> QED
  BY <1>1, <1>6, <1>8, <1>9, OnlyCapture

(* The turn is loaded, and what comes after it kept to be stored. *)
LEMMA LoadTurnInv ==
  ASSUME Inv, NEW c \in Cards, LoadTurn(c)
  PROVE  Inv'
<1> DEFINE me == capture[c]
           place == [me EXCEPT !.pc = "store", !.to = (current + 1) % conf.receivers]
<1>1. /\ Goto(c, place) /\ UNCHANGED <<conf, ring, flag, proc, read, current, fifo, receive>>
      /\ me.pc = "turn"
  BY DEF LoadTurn, At
<1>2. me \in Places /\ me.pkts = <<>>
  BY <1>1, PlaceIs DEF Walks
<1>3. (current + 1) % conf.receivers \in Receivers
  BY ConfIs DEF Inv, Types, Receivers
<1>4. /\ place \in Places /\ place.pc = "store" /\ place.ring = me.ring /\ place.cur = me.cur
      /\ place.left = me.left /\ place.pkts = <<>>
  BY <1>2, <1>3 DEF Places
<1> HIDE DEF place
<1>5. capture'[c] = place
  BY <1>1, <1>4, CaptureIs DEF Inv
<1>6. Walks(c)'
  BY <1>1, <1>4, <1>5, PlaceIs DEF Walks, Pos, Published, Captured
<1> QED
  BY <1>1, <1>4, <1>5, <1>6, BatchedEmpty, OnlyCapture

(* Whatever the other threads stored meanwhile, what this one stores is a  *)
(* receiver.                                                               *)
LEMMA StoreTurnInv ==
  ASSUME Inv, NEW c \in Cards, StoreTurn(c)
  PROVE  Inv'
<1> DEFINE me == capture[c]
           place == [me EXCEPT !.pc = "slot", !.to = 0]
<1>1. /\ Goto(c, place) /\ UNCHANGED <<conf, ring, flag, proc, read, fifo, receive>>
      /\ me.pc = "store" /\ current' = me.to
  BY DEF StoreTurn, At
<1>2. me \in Places /\ me.pkts = <<>> /\ me.to \in Receivers
  BY <1>1, PlaceIs DEF Walks
<1>3. 0 \in Receivers
  BY ConfIs DEF Inv, Types, Receivers
<1>4. /\ place \in Places /\ place.pc = "slot" /\ place.ring = me.ring /\ place.cur = me.cur
      /\ place.left = me.left /\ place.pkts = <<>> /\ place.to = 0
  BY <1>2, <1>3 DEF Places
<1> HIDE DEF place
<1>5. capture'[c] = place
  BY <1>1, <1>4, CaptureIs DEF Inv
<1>6. Walks(c)'
  BY <1>1, <1>4, <1>5, PlaceIs DEF Walks, Pos, Published, Captured
<1>7. current' \in Receivers'
  BY <1>1, <1>2 DEF Receivers
<1> QED
  BY <1>1, <1>4, <1>5, <1>6, <1>7, BatchedEmpty, OnlyCapture

LEMMA SlotsSeenInv ==
  ASSUME Inv, NEW c \in Cards, SlotsSeen(c)
  PROVE  Inv'
<1> DEFINE me == capture[c]
           k == me.ring
<1>1. /\ UNCHANGED <<conf, ring, flag, proc, read, current, fifo, receive>>
      /\ me.pc = "slot"
  BY DEF SlotsSeen, At
<1>2. PICK pc \in {"batch", "refresh"} :
        Goto(c, [me EXCEPT !.pc = pc, !.to = 0]) /\ (pc = "batch" => conf.batch)
  <2>1. me \in Places /\ me.to = 0
    BY <1>1, PlaceIs DEF Walks
  <2>2. [me EXCEPT !.pc = "refresh"] = [me EXCEPT !.pc = "refresh", !.to = 0]
    BY <2>1 DEF Places
  <2> QED
    BY <2>2 DEF SlotsSeen
<1> DEFINE place == [me EXCEPT !.pc = pc, !.to = 0]
<1>3. /\ me \in Places /\ k \in Rings /\ proc[c][k] # Unset /\ me.to = 0
      /\ ~ conf.batch => me.pkts = <<>>
  BY <1>1, PlaceIs DEF Walks
<1>4. place \in Places /\ place.pc = pc /\ place.ring = k /\ place.pkts = me.pkts /\ place.to = 0
  BY <1>3, ConfIs DEF Places, Inv, Types
<1> HIDE DEF place
<1>5. capture'[c] = place
  BY <1>1, <1>2, <1>4, CaptureIs DEF Inv, place
<1>6. Walks(c)'
  BY <1>1, <1>3, <1>4, <1>5 DEF Walks
<1>7. Batched(c)'
  BY <1>1, <1>3, <1>4, <1>5, BatchedKept
<1> QED
  BY <1>1, <1>2, <1>4, <1>6, <1>7, OnlyCapture DEF place

(* On to the next ring: from a place that says nothing, or one that has    *)
(* nothing more to do with the ring.                                       *)
LEMMA NextRingIs ==
  ASSUME Inv, NEW c \in Cards, NextRing(c, capture[c].ring)
  PROVE  \E place \in Places :
           /\ Goto(c, place)
           /\ place.pc \in {"poll", "ring"} /\ place.pkts = <<>> /\ place.to = 0
<1> DEFINE k == capture[c].ring
<1>1. k \in Rings /\ conf \in Configs
  BY PlaceIs DEF Inv, Types
<1>2. CASE k + 1 = conf.rings
  <2>1. Goto(c, Idle) /\ Idle \in Places
    BY <1>1, <1>2, IdleIs DEF NextRing
  <2> QED
    BY <2>1 DEF Idle
<1>3. CASE k + 1 # conf.rings
  <2> DEFINE place == [Idle EXCEPT !.pc = "ring", !.ring = k + 1]
  <2>1. k + 1 \in Rings
    BY <1>1, <1>3, ConfIs DEF Rings
  <2>2. Goto(c, place) /\ place \in Places
    BY <1>1, <1>3, <2>1, IdleIs DEF NextRing
  <2>3. place.pc = "ring" /\ place.pkts = <<>> /\ place.to = 0
    BY DEF Idle
  <2> QED
    BY <2>2, <2>3
<1> QED
  BY <1>2, <1>3

LEMMA NextRingInv ==
  ASSUME Inv, NEW c \in Cards, NextRing(c, capture[c].ring),
         UNCHANGED <<conf, ring, flag, proc, read, current, fifo, receive>>
  PROVE  Inv'
<1>1. PICK place \in Places :
        /\ Goto(c, place)
        /\ place.pc \in {"poll", "ring"} /\ place.pkts = <<>> /\ place.to = 0
  BY NextRingIs
<1>2. capture'[c] = place
  BY <1>1, CaptureIs DEF Inv
<1>3. Walks(c)' /\ Batched(c)'
  BY <1>1, <1>2, BatchedEmpty DEF Walks
<1> QED
  BY <1>1, <1>3, OnlyCapture

LEMMA RefreshInv ==
  ASSUME Inv, NEW c \in Cards, Refresh(c)
  PROVE  Inv'
<1> DEFINE me == capture[c]
           k == me.ring
           place == [me EXCEPT !.pc = "scan", !.cur = proc[c][k],
                       !.left = SlotCount(proc[c][k], read[c][k])]
<1>1. /\ UNCHANGED <<conf, ring, flag, proc, read, current, fifo, receive>>
      /\ me.pc = "refresh"
      /\ NextRing(c, k) \/ Goto(c, place)
  BY DEF Refresh, At
<1>2. CASE NextRing(c, k)
  BY <1>1, <1>2, NextRingInv
<1>3. CASE Goto(c, place)
  <2>1. /\ me \in Places /\ k \in Rings /\ proc[c][k] # Unset /\ me.to = 0
        /\ ~ conf.batch => me.pkts = <<>>
    BY <1>1, PlaceIs DEF Walks
  <2>2. /\ proc[c][k] \in Slots /\ read[c][k] \in Slots /\ Captured(c, k) \in Nat
    BY <2>1, IndexedIs
  <2>3. place \in Places /\ place.pc = "scan" /\ place.ring = k /\ place.cur = proc[c][k]
        /\ place.left = Captured(c, k) /\ place.pkts = me.pkts /\ place.to = me.to
    BY <2>1, <2>2 DEF Places, Captured
  <2> HIDE DEF place
  <2>4. capture'[c] = place
    BY <1>3, <1>1, <2>3, CaptureIs DEF Inv
  <2>5. Pos(c, k, place.cur) = 0 /\ \A s \in Slots : Pos(c, k, s) \in Nat
    BY <2>2, <2>3, CountIs DEF Pos
  <2>6. Walks(c)'
    <3>1. Pos(c, k, place.cur) + place.left = Captured(c, k)
      BY <2>2, <2>3, <2>5
    <3>2. \A s \in Slots : ~ (Pos(c, k, s) < Pos(c, k, place.cur))
      BY <2>5
    <3> QED
      BY <1>1, <2>1, <2>3, <2>4, <3>1, <3>2 DEF Walks, Pos, Captured
  <2>7. Batched(c)'
    BY <1>1, <2>3, <2>4, BatchedKept
  <2> QED
    BY <1>1, <1>3, <2>3, <2>6, <2>7, OnlyCapture
<1> QED
  BY <1>1, <1>2, <1>3

(* The slot stepped over has its flag down, as those before it have.       *)
LEMMA ScanSlotInv ==
  ASSUME Inv, NEW c \in Cards, ScanSlot(c)
  PROVE  Inv'
<1> DEFINE me == capture[c]
           k == me.ring
           place == [me EXCEPT !.cur = NextSlot(@), !.left = @ - 1]
<1>1. /\ Goto(c, place) /\ UNCHANGED <<conf, ring, flag, proc, read, current, fifo, receive>>
      /\ me.pc = "scan" /\ me.left > 0 /\ ~ flag[c][k][me.cur]
  BY DEF ScanSlot, At
<1>2. /\ me \in Places /\ k \in Rings /\ me.cur \in Slots /\ me.left \in Nat
      /\ proc[c][k] # Unset
      /\ Pos(c, k, me.cur) + me.left = Captured(c, k)
      /\ \A s \in Slots : Pos(c, k, s) < Pos(c, k, me.cur) => ~ flag[c][k][s]
      /\ ~ conf.batch => me.pkts = <<>>
      /\ me.to = 0
  BY <1>1, PlaceIs DEF Walks
<1>3. /\ proc[c][k] \in Slots
      /\ Captured(c, k) \in Nat /\ Captured(c, k) < NumSlots
  BY <1>2, IndexedIs, SlotsAre
<1>4. \A s \in Slots : Pos(c, k, s) \in Nat /\ (Pos(c, k, s) = Pos(c, k, me.cur) => s = me.cur)
  BY <1>2, <1>3, CountIs, CountInjective DEF Pos
<1>5. /\ NextSlot(me.cur) \in Slots
      /\ Pos(c, k, NextSlot(me.cur)) = Pos(c, k, me.cur) + 1
  <2>1. Pos(c, k, me.cur) + 1 < NumSlots
    BY <1>1, <1>2, <1>3, <1>4, SlotsAre
  <2> QED
    BY <1>2, <1>3, <2>1, NextCount DEF Pos
<1>6. /\ place \in Places /\ place.pc = "scan" /\ place.ring = k /\ place.cur = NextSlot(me.cur)
      /\ place.left = me.left - 1 /\ place.pkts = me.pkts /\ place.to = me.to
  <2>1. me.left - 1 \in Nat
    BY <1>1, <1>2
  <2> HIDE DEF me
  <2> QED
    BY <1>1, <1>2, <1>5, <2>1 DEF Places
<1> HIDE DEF place
<1>7. capture'[c] = place
  BY <1>1, <1>6, CaptureIs DEF Inv
<1>8. Walks(c)'
  <2>1. Pos(c, k, place.cur) + place.left = Captured(c, k)
    BY <1>1, <1>2, <1>4, <1>5, <1>6
  <2>2. \A s \in Slots : Pos(c, k, s) < Pos(c, k, place.cur) => ~ flag[c][k][s]
    <3> TAKE s \in Slots
    <3>1. Pos(c, k, s) < Pos(c, k, place.cur) =>
            Pos(c, k, s) < Pos(c, k, me.cur) \/ Pos(c, k, s) = Pos(c, k, me.cur)
      BY <1>2, <1>4, <1>5, <1>6
    <3> QED
      BY <1>1, <1>2, <1>4, <3>1
  <2> QED
    BY <1>1, <1>2, <1>6, <1>7, <2>1, <2>2 DEF Walks, Pos, Captured
<1>9. Batched(c)'
  BY <1>1, <1>6, <1>7, BatchedKept
<1> QED
  BY <1>1, <1>6, <1>8, <1>9, OnlyCapture

-----------------------------------------------------------------------------
(* Steps of the capture thread that change the ring or the indices.        *)

LEMMA PendingIs ==
  ASSUME Inv, NEW c \in Cards, NEW r \in Receivers, NEW i \in Pending(r, c)
  PROVE  LET p == fifo[r][c][i] IN
         /\ i \in Nat /\ i >= 1 /\ i <= Len(fifo[r][c])
         /\ p \in Packets /\ p.ring \in Rings /\ p.slot \in Slots
         /\ p = [ring |-> p.ring, slot |-> p.slot]
         /\ proc[c][p.ring] \in Slots
         /\ Pos(c, p.ring, p.slot) \in Nat /\ Captured(c, p.ring) \in Nat
         /\ Pos(c, p.ring, p.slot) < Captured(c, p.ring)
         /\ flag[c][p.ring][p.slot]
<1>1. fifo[r][c] \in Seq(Packets) /\ receive[r] \in Turns /\ Placed(c, r)
  BY DEF Inv, Types, CardInv
<1>2. i \in Nat /\ i >= 1 /\ i <= Len(fifo[r][c])
  BY <1>1 DEF Pending, Turns
<1>3. fifo[r][c][i] \in Packets
  BY <1>1, <1>2
<1>4. fifo[r][c][i].ring \in Rings /\ fifo[r][c][i].slot \in Slots
      /\ fifo[r][c][i] = [ring |-> fifo[r][c][i].ring, slot |-> fifo[r][c][i].slot]
  BY <1>3 DEF Packets
<1>5. /\ proc[c][fifo[r][c][i].ring] # Unset
      /\ Pos(c, fifo[r][c][i].ring, fifo[r][c][i].slot) < Captured(c, fifo[r][c][i].ring)
      /\ flag[c][fifo[r][c][i].ring][fifo[r][c][i].slot]
  BY <1>1 DEF Placed
<1>6. proc[c][fifo[r][c][i].ring] \in Slots /\ Captured(c, fifo[r][c][i].ring) \in Nat
  BY <1>4, <1>5, IndexedIs
<1>7. Pos(c, fifo[r][c][i].ring, fifo[r][c][i].slot) \in Nat
  BY <1>4, <1>6, CountIs DEF Pos
<1> QED
  BY <1>2, <1>3, <1>4, <1>5, <1>6, <1>7

(* A step of card c's capture thread leaves the other cards alone.         *)
LEMMA CardStep ==
  ASSUME Inv, NEW c \in Cards, UNCHANGED <<conf, receive>>,
         \A d \in Cards : d # c =>
           /\ ring'[d] = ring[d] /\ flag'[d] = flag[d] /\ proc'[d] = proc[d]
           /\ read'[d] = read[d] /\ capture'[d] = capture[d],
         \A r \in Receivers, d \in Cards :
           /\ d # c => fifo'[r][d] = fifo[r][d]
           /\ Len(fifo'[r][d]) \in Nat /\ Len(fifo'[r][d]) >= Len(fifo[r][d]),
         Types', CardInv(c)'
  PROVE  Inv'
<1>1. Cards' = Cards /\ Receivers' = Receivers
  BY DEF Cards, Receivers
<1>2. ASSUME NEW d \in Cards, d # c PROVE CardInv(d)'
  <2>1. \A r \in Receivers : Pending(r, d)' = Pending(r, d)
    BY <1>2 DEF Pending
  <2> QED
    BY <1>2, <2>1, SameCard
<1>3. ASSUME NEW r \in Receivers PROVE Serves(r)'
  <2>1. receive[r].fifo \in Cards /\ receive'[r] = receive[r]
    BY DEF Inv, Types, Turns
  <2> QED
    BY <2>1, SameServes
<1> QED
  BY <1>1, <1>2, <1>3 DEF Inv

(* The kernel publishes more slots: tail moves away from the indices.      *)
LEMMA PollInv ==
  ASSUME Inv, NEW c \in Cards, Poll(c)
  PROVE  Inv'
<1> DEFINE place == [capture[c] EXCEPT !.pc = "ring", !.ring = 0]
<1>1. PICK more \in [Rings -> Slots] :
        /\ \A k \in Rings : SlotCount(ring[c][k].cur, ring[c][k].tail) + more[k] < NumSlots
        /\ ring' = [ring EXCEPT ![c] = [k \in Rings |->
             [cur |-> ring[c][k].cur, tail |-> (ring[c][k].tail + more[k]) % NumSlots]]]
  BY DEF Poll
<1>2. /\ capture[c].pc = "poll" /\ Goto(c, place)
      /\ UNCHANGED <<conf, flag, proc, read, current, fifo, receive>>
  BY DEF Poll, At
<1>3. /\ place \in Places /\ place.pc = "ring" /\ place.pkts = <<>> /\ place.to = 0
  <2>1. capture[c] \in Places /\ capture[c].pkts = <<>> /\ capture[c].to = 0 /\ 0 \in Rings
    BY <1>2, PlaceIs, ConfIs DEF Walks, Inv, Types
  <2> QED
    BY <2>1 DEF Places
<1> HIDE DEF place
<1>4. /\ capture' \in [Cards' -> Places'] /\ capture'[c] = place
      /\ \A d \in Cards : d # c => capture'[d] = capture[d]
  BY <1>2, <1>3, CaptureIs DEF Inv
<1>5. /\ Cards' = Cards /\ Rings' = Rings /\ Receivers' = Receivers /\ Packets' = Packets
      /\ Turns' = Turns
      /\ \A d \in Cards, r \in Receivers : Pending(r, d)' = Pending(r, d)
  BY <1>2 DEF Cards, Rings, Receivers, Packets, Turns, Pending
<1>6. ASSUME NEW k \in Rings
      PROVE  /\ ring[c][k].cur \in Slots /\ ring[c][k].tail \in Slots
             /\ ring'[c][k] = [cur |-> ring[c][k].cur, tail |-> (ring[c][k].tail + more[k]) % NumSlots]
             /\ ring'[c][k].cur = ring[c][k].cur
             /\ ring'[c][k].tail \in Slots
             /\ SlotCount(ring[c][k].cur, ring[c][k].tail)
                  <= SlotCount(ring[c][k].cur, ring'[c][k].tail)
  <2>1. /\ ring[c][k] \in [cur : Slots, tail : Slots]
        /\ ring'[c][k] = [cur |-> ring[c][k].cur, tail |-> (ring[c][k].tail + more[k]) % NumSlots]
    <3>1. ring \in [Cards -> [Rings -> [cur : Slots, tail : Slots]]]
      BY DEF Inv, Types
    <3>2. ring'[c] = [h \in Rings |-> [cur |-> ring[c][h].cur, tail |-> (ring[c][h].tail + more[h]) % NumSlots]]
      BY <1>1, <3>1, Zenon
    <3> QED
      BY <3>1, <3>2, Zenon
  <2>2. more[k] \in Nat
    BY <1>1, SlotsAre
  <2>3. /\ (ring[c][k].tail + more[k]) % NumSlots \in Slots
        /\ SlotCount(ring[c][k].cur, (ring[c][k].tail + more[k]) % NumSlots)
             = SlotCount(ring[c][k].cur, ring[c][k].tail) + more[k]
    BY <1>1, <2>1, <2>2, AddCount
  <2>4. SlotCount(ring[c][k].cur, ring[c][k].tail) \in Nat
    BY <2>1, CountIs
  <2> QED
    BY <2>1, <2>2, <2>3, <2>4
<1>7. ring' \in [Cards' -> [Rings' -> [cur : Slots, tail : Slots]]]
  <2> DEFINE Cursors == [cur : Slots, tail : Slots]
  <2>1. ring \in [Cards -> [Rings -> Cursors]]
    BY DEF Inv, Types
  <2>2. ASSUME NEW k \in Rings PROVE ring'[c][k] \in Cursors
    <3>1. ring[c][k] \in Cursors /\ ring'[c][k].tail \in Slots
          /\ ring'[c][k] = [cur |-> ring[c][k].cur, tail |-> (ring[c][k].tail + more[k]) % NumSlots]
      BY <1>6, <2>1
    <3>2. (ring[c][k].tail + more[k]) % NumSlots \in Slots
      BY <3>1
    <3> QED
      BY <3>1, <3>2
  <2>3. /\ DOMAIN ring'[c] = Rings /\ ring'[c] = [k \in Rings |-> ring'[c][k]]
        /\ DOMAIN ring' = Cards /\ ring' = [d \in Cards |-> ring'[d]]
        /\ \A d \in Cards : d # c => ring'[d] = ring[d]
    <3> DEFINE new == [k \in Rings |-> [cur |-> ring[c][k].cur, tail |-> (ring[c][k].tail + more[k]) % NumSlots]]
    <3>1. ring' = [ring EXCEPT ![c] = new]
      BY <1>1, <2>1, Zenon
    <3>2. DOMAIN new = Rings /\ new = [k \in Rings |-> new[k]]
      BY Zenon
    <3> HIDE DEF new, Cursors
    <3> QED
      BY <2>1, <3>1, <3>2
  <2> HIDE DEF Cursors
  <2>4. ring'[c] \in [Rings -> Cursors]
    BY <2>2, <2>3
  <2>5. ring' \in [Cards -> [Rings -> Cursors]]
    BY <2>1, <2>3, <2>4
  <2> QED
    BY <1>5, <2>5 DEF Cursors
<1>8. Types'
  BY <1>2, <1>4, <1>5, <1>7 DEF Inv, Types
<1>9. CardInv(c)'
  <2>1. CardInv(c)
    BY DEF Inv
  <2>2. ASSUME NEW k \in Rings PROVE Indexed(c, k)'
    <3>1. CASE proc[c][k] = Unset
      BY <1>2, <2>1, <3>1 DEF CardInv, Indexed
    <3>2. CASE proc[c][k] # Unset
      <4>1. /\ ring'[c][k].cur = proc[c][k] /\ read[c][k] # Unset
            /\ Captured(c, k) \in Nat /\ Published(c, k) \in Nat
            /\ Captured(c, k) <= Published(c, k)
        BY <1>6, <2>1, <3>2, IndexedIs DEF CardInv, Indexed
      <4>2. /\ Captured(c, k)' = Captured(c, k)
            /\ Published(c, k) <= Published(c, k)'
        BY <1>2, <1>6, <3>2, IndexedIs DEF Captured, Published
      <4>3. Published(c, k)' \in Nat
        BY <1>2, <1>6, <3>2, IndexedIs, CountIs DEF Published
      <4> QED
        BY <1>2, <3>2, <4>1, <4>2, <4>3 DEF Indexed
    <3> QED
      BY <3>1, <3>2
  <2>3. Walks(c)' /\ Batched(c)'
    BY <1>3, <1>4, BatchedEmpty DEF Walks
  <2>4. ASSUME NEW r \in Receivers PROVE Placed(c, r)' /\ Ordered(c, r)'
    <3>1. Placed(c, r) /\ Ordered(c, r) /\ Pending(r, c)' = Pending(r, c)
      BY <1>5, <2>1 DEF CardInv
    <3>2. Placed(c, r)'
      BY <1>2, <3>1 DEF Placed, Pos, Captured
    <3>3. Ordered(c, r)'
      BY <1>2, <3>1 DEF Ordered, Pos
    <3> QED
      BY <3>2, <3>3
  <2>5. Apart(c)'
    BY <1>2, <1>5, <2>1 DEF CardInv, Apart
  <2> QED
    BY <1>5, <2>2, <2>3, <2>4, <2>5 DEF CardInv
<1>10. \A d \in Cards : d # c => ring'[d] = ring[d]
  BY <1>1 DEF Inv, Types
<1>11. \A r \in Receivers, d \in Cards : Len(fifo[r][d]) \in Nat
  BY DEF Inv, Types
<1> QED
  BY <1>2, <1>4, <1>8, <1>9, <1>10, <1>11, CardStep

(* At the first visit to a ring the indices are set, where no packet can   *)
(* be waiting yet.                                                         *)
LEMMA VisitRingInv ==
  ASSUME Inv, NEW c \in Cards, VisitRing(c)
  PROVE  Inv'
<1>1. capture[c].pc = "ring" /\ UNCHANGED <<conf, ring, flag, current, fifo, receive>>
  BY DEF VisitRing, At
<1>2. PICK me \in Places, k \in Rings, rx \in [cur : Slots, tail : Slots] :
        /\ me = capture[c] /\ k = me.ring /\ rx = ring[c][k]
        /\ rx.cur \in Slots /\ rx.tail \in Slots /\ me.to = 0 /\ me.pkts = <<>>
  <2>1. capture[c] \in Places /\ capture[c].ring \in Rings
        /\ capture[c].to = 0 /\ capture[c].pkts = <<>>
    BY <1>1, PlaceIs DEF Walks
  <2>2. ring[c][capture[c].ring] \in [cur : Slots, tail : Slots]
    BY <2>1 DEF Inv, Types
  <2> QED
    BY <2>1, <2>2
<1> DEFINE place == [me EXCEPT !.pc = "slot", !.cur = rx.cur,
                       !.left = SlotCount(rx.cur, rx.tail), !.pkts = <<>>]
<1>3. SlotCount(rx.cur, rx.tail) \in Nat /\ SlotCount(rx.cur, rx.cur) = 0
      /\ \A s \in Slots : SlotCount(rx.cur, s) \in Nat
  BY <1>2, CountIs
<1>4. /\ place \in Places /\ place.pc = "slot" /\ place.ring = k /\ place.cur = rx.cur
      /\ place.left = SlotCount(rx.cur, rx.tail) /\ place.pkts = <<>> /\ place.to = 0
  <2>1. <<>> \in Seq(Slots)
    OBVIOUS
  <2> QED
    BY <1>2, <1>3, <2>1 DEF Places
<1>5. CASE NextRing(c, k) /\ UNCHANGED <<proc, read>>
  BY <1>1, <1>2, <1>5, NextRingInv
<1> HIDE DEF place
<1>6. CASE Goto(c, place) /\ proc[c][k] # Unset /\ UNCHANGED <<proc, read>>
  <2>1. capture'[c] = place
    BY <1>1, <1>4, <1>6, CaptureIs DEF Inv
  <2>2. Walks(c)' /\ Batched(c)'
    <3>1. rx.cur = proc[c][k] /\ Captured(c, k) \in Nat
      BY <1>2, <1>6, IndexedIs
    <3>2. Pos(c, k, place.cur) = 0 /\ place.left = Published(c, k) /\ Published(c, k) \in Nat
      BY <1>2, <1>3, <1>4, <3>1 DEF Pos, Published
    <3>3. Pos(c, k, place.cur) + place.left = Published(c, k)
          /\ Pos(c, k, place.cur) <= Captured(c, k)
      BY <3>1, <3>2
    <3> QED
      BY <1>1, <1>4, <1>6, <2>1, <3>3, BatchedEmpty DEF Walks, Pos, Published, Captured
  <2> QED
    BY <1>1, <1>4, <1>6, <2>2, OnlyCapture
<1>7. CASE /\ Goto(c, place) /\ proc[c][k] = Unset
           /\ proc' = [proc EXCEPT ![c][k] = rx.cur]
           /\ read' = [read EXCEPT ![c][k] = rx.cur]
  <2>1. /\ capture' \in [Cards' -> Places'] /\ capture'[c] = place
        /\ \A d \in Cards : d # c => capture'[d] = capture[d]
    BY <1>1, <1>4, <1>7, CaptureIs DEF Inv
  <2>2. /\ Cards' = Cards /\ Rings' = Rings /\ Receivers' = Receivers /\ Packets' = Packets
        /\ Turns' = Turns
        /\ \A d \in Cards, r \in Receivers : Pending(r, d)' = Pending(r, d)
    BY <1>1 DEF Cards, Rings, Receivers, Packets, Turns, Pending
  <2>3. /\ proc' \in [Cards -> [Rings -> Slots \cup {Unset}]]
        /\ read' \in [Cards -> [Rings -> Slots \cup {Unset}]]
        /\ proc'[c][k] = rx.cur /\ read'[c][k] = rx.cur
        /\ \A h \in Rings : h # k => proc'[c][h] = proc[c][h] /\ read'[c][h] = read[c][h]
        /\ \A d \in Cards : d # c => proc'[d] = proc[d] /\ read'[d] = read[d]
    BY <1>2, <1>7 DEF Inv, Types
  <2>4. Types'
    BY <1>1, <2>1, <2>2, <2>3 DEF Inv, Types
  <2>5. \A r \in Receivers : \A i \in Pending(r, c) :
          fifo[r][c][i].ring \in Rings /\ fifo[r][c][i].ring # k
    <3> TAKE r \in Receivers
    <3> TAKE i \in Pending(r, c)
    <3>1. fifo[r][c][i].ring \in Rings /\ proc[c][fifo[r][c][i].ring] \in Slots
      BY PendingIs
    <3> QED
      BY <1>7, <3>1, SlotsAre
  <2>6. CardInv(c)
    BY DEF Inv
  <2>7. ASSUME NEW h \in Rings PROVE Indexed(c, h)'
    <3>1. CASE h # k
      BY <1>1, <2>3, <2>6, <3>1 DEF CardInv, Indexed, Captured, Published
    <3>2. CASE h = k
      <4>1. Captured(c, k)' = 0 /\ Published(c, k)' = SlotCount(rx.cur, rx.tail)
        BY <1>1, <1>2, <1>3, <2>3 DEF Captured, Published
      <4> QED
        BY <1>1, <1>2, <1>3, <2>3, <3>2, <4>1, SlotsAre DEF Indexed
    <3> QED
      BY <3>1, <3>2
  <2>8. Walks(c)'
    <3>1. /\ Pos(c, k, place.cur)' = 0 /\ Published(c, k)' = place.left /\ Captured(c, k)' = 0
          /\ place.left \in Nat
      BY <1>1, <1>2, <1>3, <1>4, <2>3 DEF Pos, Captured, Published
    <3>2. proc'[c][k] # Unset
      BY <1>2, <2>3, SlotsAre
    <3> QED
      BY <1>4, <2>1, <3>1, <3>2 DEF Walks
  <2>9. Batched(c)'
    BY <1>4, <2>1, BatchedEmpty
  <2>10. ASSUME NEW r \in Receivers PROVE Placed(c, r)' /\ Ordered(c, r)'
    <3>1. \A i \in Pending(r, c) :
            LET h == fifo[r][c][i].ring IN proc'[c][h] = proc[c][h] /\ read'[c][h] = read[c][h]
      BY <2>3, <2>5
    <3>2. Placed(c, r) /\ Ordered(c, r)
      BY <2>6 DEF CardInv
    <3>3. Placed(c, r)'
      <4>1. ASSUME NEW i \in Pending(r, c), NEW h, h = fifo[r][c][i].ring
            PROVE  /\ proc'[c][h] # Unset
                   /\ SlotCount(proc'[c][h], fifo[r][c][i].slot) < SlotCount(proc'[c][h], read'[c][h])
                   /\ flag[c][h][fifo[r][c][i].slot]
        BY <3>1, <3>2, <4>1 DEF Placed, Pos, Captured
      <4> QED
        BY <1>1, <2>2, <4>1 DEF Placed, Pos, Captured
    <3>4. Ordered(c, r)'
      BY <1>1, <2>2, <3>1, <3>2 DEF Ordered, Pos
    <3> QED
      BY <3>3, <3>4
  <2>11. Apart(c)'
    BY <1>1, <2>2, <2>6 DEF CardInv, Apart
  <2>12. CardInv(c)'
    BY <2>2, <2>7, <2>8, <2>9, <2>10, <2>11 DEF CardInv
  <2>13. \A r \in Receivers, d \in Cards : Len(fifo[r][d]) \in Nat
    BY DEF Inv, Types
  <2> QED
    BY <1>1, <2>1, <2>3, <2>4, <2>12, <2>13, CardStep
<1> QED
  BY <1>2, <1>5, <1>6, <1>7 DEF VisitRing, place


-----------------------------------------------------------------------------
(* Capturing and dispatching packets.                                      *)

(* The slot the capture thread is at is the one at read_index.             *)
NewSlot(c) ==
  LET me == capture[c] IN
  /\ me.pc \in {"slot", "dispatch"} /\ me.left > 0
  /\ me.cur = read[c][me.ring]

LEMMA NewSlotIs ==
  ASSUME Inv, NEW c \in Cards, NewSlot(c)
  PROVE  LET me == capture[c]
             k  == capture[c].ring
         IN
         /\ me.to = 0 /\ proc[c][k] # Unset /\ proc[c][k] \in Slots
         /\ Pos(c, k, me.cur) = Captured(c, k)
         /\ Captured(c, k) \in Nat /\ Captured(c, k) < Published(c, k)
         /\ Pos(c, k, me.cur) + me.left = Published(c, k)
         /\ NextSlot(me.cur) \in Slots
         /\ Pos(c, k, NextSlot(me.cur)) = Captured(c, k) + 1
<1> DEFINE me == capture[c]
           k == me.ring
<1>1. /\ k \in Rings /\ me.cur \in Slots /\ me.left \in Nat /\ me.left > 0
      /\ me.cur = read[c][k] /\ me.to = 0 /\ proc[c][k] # Unset
      /\ Pos(c, k, me.cur) + me.left = Published(c, k)
  BY PlaceIs DEF NewSlot, Walks
<1>2. /\ proc[c][k] \in Slots /\ Captured(c, k) \in Nat
      /\ Published(c, k) \in Nat /\ Published(c, k) < NumSlots
  BY <1>1, IndexedIs
<1>3. Pos(c, k, me.cur) = Captured(c, k)
  BY <1>1 DEF Pos, Captured
<1>4. Captured(c, k) < Published(c, k) /\ Captured(c, k) + 1 < NumSlots
  BY <1>1, <1>2, <1>3, SlotsAre
<1>5. /\ NextSlot(me.cur) \in Slots
      /\ Pos(c, k, NextSlot(me.cur)) = Captured(c, k) + 1
  BY <1>1, <1>2, <1>3, <1>4, NextCount DEF Pos
<1> QED
  BY <1>1, <1>2, <1>3, <1>4, <1>5

(* read_index moves past it. *)
Advance(c) ==
  /\ UNCHANGED <<conf, ring, proc>>
  /\ read' = [read EXCEPT ![c][capture[c].ring] = NextSlot(capture[c].cur)]

LEMMA AdvanceIs ==
  ASSUME Inv, NEW c \in Cards, NewSlot(c), Advance(c)
  PROVE  /\ read' \in [Cards -> [Rings -> Slots \cup {Unset}]]
         /\ \A d \in Cards : d # c => read'[d] = read[d]
         /\ \A h \in Rings : Indexed(c, h)'
         /\ \A h \in Rings : Captured(c, h)' =
              IF h = capture[c].ring THEN Captured(c, h) + 1 ELSE Captured(c, h)
<1>1. PICK me \in Places, k \in Rings : me = capture[c] /\ k = me.ring
  BY PlaceIs
<1>2. /\ proc[c][k] # Unset /\ proc[c][k] \in Slots
      /\ Captured(c, k) \in Nat /\ Captured(c, k) < Published(c, k)
      /\ NextSlot(me.cur) \in Slots /\ NextSlot(me.cur) # Unset
      /\ Pos(c, k, NextSlot(me.cur)) = Captured(c, k) + 1
      /\ Published(c, k) \in Nat
  BY <1>1, NewSlotIs, IndexedIs, SlotsAre
<1>3. /\ read' \in [Cards -> [Rings -> Slots \cup {Unset}]]
      /\ \A d \in Cards : d # c => read'[d] = read[d]
      /\ read'[c][k] = NextSlot(me.cur)
      /\ \A h \in Rings : h # k => read'[c][h] = read[c][h]
  BY <1>1, <1>2 DEF Advance, Inv, Types
<1>4. Captured(c, k)' = Captured(c, k) + 1 /\ Published(c, k)' = Published(c, k)
  BY <1>2, <1>3 DEF Captured, Pos, Published, Advance
<1>5. \A h \in Rings : h # k => Captured(c, h)' = Captured(c, h)
  BY <1>3 DEF Captured, Advance
<1>6. ASSUME NEW h \in Rings PROVE Indexed(c, h)'
  <2>1. Indexed(c, h) /\ Indexed(c, k)
    BY DEF Inv, CardInv
  <2>2. CASE h # k
    BY <1>3, <1>5, <2>1, <2>2 DEF Indexed, Advance, Published
  <2>3. CASE h = k
    BY <1>2, <1>3, <1>4, <2>1, <2>3 DEF Indexed, Advance
  <2> QED
    BY <2>2, <2>3
<1> QED
  BY <1>1, <1>3, <1>4, <1>5, <1>6

(* The queues stay as they are, and the flags of what waits in them up.    *)
LEMMA SameQueues ==
  ASSUME Inv, NEW c \in Cards, UNCHANGED <<conf, proc, fifo, receive>>,
         \A h \in Rings : proc[c][h] # Unset =>
           Captured(c, h)' \in Nat /\ Captured(c, h) <= Captured(c, h)',
         \A r \in Receivers : \A i \in Pending(r, c) :
           flag'[c][fifo[r][c][i].ring][fifo[r][c][i].slot]
  PROVE  /\ \A r \in Receivers : Pending(r, c)' = Pending(r, c)
         /\ \A r \in Receivers' : Placed(c, r)' /\ Ordered(c, r)'
         /\ Apart(c)'
<1>1. CardInv(c) /\ Receivers' = Receivers
      /\ \A r \in Receivers : Pending(r, c)' = Pending(r, c)
  BY DEF Inv, Receivers, Pending
<1>2. ASSUME NEW r \in Receivers PROVE Placed(c, r)'
  <2>1. ASSUME NEW i \in Pending(r, c)
        PROVE  /\ proc[c][fifo[r][c][i].ring] # Unset
               /\ Pos(c, fifo[r][c][i].ring, fifo[r][c][i].slot)
                    < Captured(c, fifo[r][c][i].ring)'
    <3>1. PICK p \in Packets :
            /\ p = fifo[r][c][i] /\ p.ring \in Rings /\ proc[c][p.ring] # Unset
            /\ Pos(c, p.ring, p.slot) \in Nat /\ Captured(c, p.ring) \in Nat
            /\ Pos(c, p.ring, p.slot) < Captured(c, p.ring)
      <4>1. /\ fifo[r][c][i] \in Packets /\ fifo[r][c][i].ring \in Rings
            /\ proc[c][fifo[r][c][i].ring] \in Slots
            /\ Pos(c, fifo[r][c][i].ring, fifo[r][c][i].slot) \in Nat
            /\ Captured(c, fifo[r][c][i].ring) \in Nat
            /\ Pos(c, fifo[r][c][i].ring, fifo[r][c][i].slot) < Captured(c, fifo[r][c][i].ring)
        BY PendingIs
      <4> QED
        BY <4>1, SlotsAre
    <3>2. Captured(c, p.ring)' \in Nat /\ Captured(c, p.ring) <= Captured(c, p.ring)'
      BY <3>1
    <3> QED
      BY <3>1, <3>2
  <2> QED
    BY <1>1, <2>1 DEF Placed, Pos
<1>3. \A r \in Receivers : Ordered(c, r)'
  BY <1>1 DEF CardInv, Ordered, Pos
<1>4. Apart(c)'
  BY <1>1 DEF CardInv, Apart
<1> QED
  BY <1>1, <1>2, <1>3, <1>4

(* A flag goes up or down. *)
RaiseFlag(c, k, s) == flag' = [flag EXCEPT ![c][k][s] = TRUE]

LEMMA FlagRaised ==
  ASSUME Inv, NEW c \in Cards, NEW k \in Rings, NEW s \in Slots,
         RaiseFlag(c, k, s)
  PROVE  /\ flag' \in [Cards -> [Rings -> [Slots -> BOOLEAN]]]
         /\ \A d \in Cards : d # c => flag'[d] = flag[d]
         /\ flag'[c][k][s]
         /\ \A h \in Rings, t \in Slots : flag[c][h][t] => flag'[c][h][t]
         /\ \A h \in Rings, t \in Slots :
              h # k \/ t # s => flag'[c][h][t] = flag[c][h][t]
<1>1. flag \in [Cards -> [Rings -> [Slots -> BOOLEAN]]]
  BY DEF Inv, Types
<1>2. flag'[c] = [flag[c] EXCEPT ![k][s] = TRUE] /\ \A d \in Cards : d # c => flag'[d] = flag[d]
  BY <1>1 DEF RaiseFlag
<1>3. flag[c] \in [Rings -> [Slots -> BOOLEAN]]
  BY <1>1
<1>4. flag'[c][k] = [flag[c][k] EXCEPT ![s] = TRUE]
      /\ \A h \in Rings : h # k => flag'[c][h] = flag[c][h]
  BY <1>2, <1>3
<1>5. flag[c][k] \in [Slots -> BOOLEAN]
  BY <1>3
<1>6. flag'[c][k] \in [Slots -> BOOLEAN] /\ flag'[c][k][s]
      /\ \A t \in Slots : t # s => flag'[c][k][t] = flag[c][k][t]
  BY <1>4, <1>5
<1>7. flag'[c] \in [Rings -> [Slots -> BOOLEAN]]
  BY <1>2, <1>3, <1>4, <1>6
<1>8. flag' \in [Cards -> [Rings -> [Slots -> BOOLEAN]]]
  BY <1>1, <1>2, <1>7 DEF RaiseFlag
<1>9. \A h \in Rings, t \in Slots : h # k \/ t # s => flag'[c][h][t] = flag[c][h][t]
  BY <1>4, <1>6, Zenon
<1>10. \A h \in Rings, t \in Slots : flag[c][h][t] => flag'[c][h][t]
  BY <1>6, <1>9, Zenon
<1> QED
  BY <1>2, <1>6, <1>8, <1>9, <1>10

LowerFlag(c, k, s) == flag' = [flag EXCEPT ![c][k][s] = FALSE]

LEMMA FlagLowered ==
  ASSUME Inv, NEW c \in Cards, NEW k \in Rings, NEW s \in Slots,
         LowerFlag(c, k, s)
  PROVE  /\ flag' \in [Cards -> [Rings -> [Slots -> BOOLEAN]]]
         /\ \A d \in Cards : d # c => flag'[d] = flag[d]
         /\ ~ flag'[c][k][s]
         /\ \A h \in Rings, t \in Slots :
              h # k \/ t # s => flag'[c][h][t] = flag[c][h][t]
<1>1. flag \in [Cards -> [Rings -> [Slots -> BOOLEAN]]]
  BY DEF Inv, Types
<1>2. flag'[c] = [flag[c] EXCEPT ![k][s] = FALSE] /\ \A d \in Cards : d # c => flag'[d] = flag[d]
  BY <1>1 DEF LowerFlag
<1>3. flag[c] \in [Rings -> [Slots -> BOOLEAN]]
  BY <1>1
<1>4. flag'[c][k] = [flag[c][k] EXCEPT ![s] = FALSE]
      /\ \A h \in Rings : h # k => flag'[c][h] = flag[c][h]
  BY <1>2, <1>3
<1>5. flag[c][k] \in [Slots -> BOOLEAN]
  BY <1>3
<1>6. flag'[c][k] \in [Slots -> BOOLEAN] /\ ~ flag'[c][k][s]
      /\ \A t \in Slots : t # s => flag'[c][k][t] = flag[c][k][t]
  BY <1>4, <1>5
<1>7. flag'[c] \in [Rings -> [Slots -> BOOLEAN]]
  BY <1>2, <1>3, <1>4, <1>6
<1>8. flag' \in [Cards -> [Rings -> [Slots -> BOOLEAN]]]
  BY <1>1, <1>2, <1>7 DEF LowerFlag
<1>9. \A h \in Rings, t \in Slots : h # k \/ t # s => flag'[c][h][t] = flag[c][h][t]
  BY <1>4, <1>6, Zenon
<1> QED
  BY <1>2, <1>6, <1>8, <1>9

LEMMA MarkSlotInv ==
  ASSUME Inv, NEW c \in Cards, MarkSlot(c)
  PROVE  Inv'
<1>1. PICK me \in Places, k \in Rings :
        /\ me = capture[c] /\ k = me.ring /\ me.pc = "slot" /\ me.left > 0
        /\ me.cur \in Slots /\ me.left \in Nat /\ me.pkts \in Seq(Slots)
        /\ ~ InRange(me.cur, proc[c][k], read[c][k])
        /\ RaiseFlag(c, k, me.cur)
        /\ UNCHANGED <<conf, ring, proc, current, fifo, receive>>
  BY PlaceIs DEF MarkSlot, At, RaiseFlag
<1>2. NewSlot(c)
  <2>1. /\ proc[c][k] # Unset
        /\ Pos(c, k, me.cur) <= Captured(c, k)
    BY <1>1, PlaceIs DEF Walks
  <2>2. proc[c][k] \in Slots /\ read[c][k] \in Slots
    BY <1>1, <2>1, IndexedIs
  <2>3. ~ (Pos(c, k, me.cur) < Captured(c, k))
    BY <1>1, <2>2, InRangeIs DEF Pos, Captured
  <2>4. Pos(c, k, me.cur) = Captured(c, k)
    BY <1>1, <2>1, <2>2, <2>3, CountIs DEF Pos, Captured
  <2> QED
    BY <1>1, <2>2, <2>4, CountInjective DEF NewSlot, Pos, Captured
<1>3. /\ me.to = 0 /\ proc[c][k] # Unset /\ proc[c][k] \in Slots
      /\ Pos(c, k, me.cur) = Captured(c, k)
      /\ Captured(c, k) \in Nat /\ Captured(c, k) < Published(c, k)
      /\ Pos(c, k, me.cur) + me.left = Published(c, k)
      /\ NextSlot(me.cur) \in Slots
      /\ Pos(c, k, NextSlot(me.cur)) = Captured(c, k) + 1
      /\ Published(c, k) \in Nat
  BY <1>1, <1>2, NewSlotIs, IndexedIs
<1>4. /\ flag' \in [Cards -> [Rings -> [Slots -> BOOLEAN]]]
      /\ \A d \in Cards : d # c => flag'[d] = flag[d]
      /\ flag'[c][k][me.cur]
      /\ \A h \in Rings, t \in Slots : flag[c][h][t] => flag'[c][h][t]
  BY <1>1, FlagRaised
<1>5. /\ Cards' = Cards /\ Rings' = Rings /\ Receivers' = Receivers /\ Packets' = Packets
      /\ Turns' = Turns
  BY <1>1 DEF Cards, Rings, Receivers, Packets, Turns
<1>6. \A r \in Receivers : \A i \in Pending(r, c) :
        /\ fifo[r][c][i].ring \in Rings /\ fifo[r][c][i].slot \in Slots
        /\ flag'[c][fifo[r][c][i].ring][fifo[r][c][i].slot]
        /\ Pos(c, fifo[r][c][i].ring, fifo[r][c][i].slot) \in Nat
        /\ Pos(c, fifo[r][c][i].ring, fifo[r][c][i].slot) < Captured(c, fifo[r][c][i].ring)
  <2> TAKE r \in Receivers
  <2> TAKE i \in Pending(r, c)
  <2>1. /\ fifo[r][c][i].ring \in Rings /\ fifo[r][c][i].slot \in Slots
        /\ flag[c][fifo[r][c][i].ring][fifo[r][c][i].slot]
        /\ Pos(c, fifo[r][c][i].ring, fifo[r][c][i].slot) \in Nat
        /\ Pos(c, fifo[r][c][i].ring, fifo[r][c][i].slot) < Captured(c, fifo[r][c][i].ring)
    BY PendingIs
  <2>2. flag'[c][fifo[r][c][i].ring][fifo[r][c][i].slot]
    BY <1>4, <2>1, Zenon
  <2> QED
    BY <2>1, <2>2
<1>7. \A r \in Receivers, d \in Cards : Len(fifo[r][d]) \in Nat
  BY DEF Inv, Types
<1>8. CASE /\ ~ conf.batch /\ Goto(c, [me EXCEPT !.pc = "dispatch"]) /\ UNCHANGED read
  <2> DEFINE place == [me EXCEPT !.pc = "dispatch"]
  <2>1. /\ place \in Places /\ place.pc = "dispatch" /\ place.ring = k /\ place.cur = me.cur
        /\ place.left = me.left /\ place.pkts = <<>> /\ place.to = 0
    <3>1. me.pkts = <<>>
      BY <1>1, <1>8, PlaceIs DEF Walks
    <3> QED
      BY <1>1, <1>3, <3>1 DEF Places
  <2>2. Goto(c, place)
    BY <1>8
  <2> HIDE DEF place
  <2>3. /\ capture' \in [Cards' -> Places'] /\ capture'[c] = place
        /\ \A d \in Cards : d # c => capture'[d] = capture[d]
    BY <1>1, <2>1, <2>2, CaptureIs DEF Inv
  <2>4. Types'
    BY <1>1, <1>4, <1>5, <1>8, <2>3 DEF Inv, Types
  <2>5. CardInv(c)'
    <3>1. \A h \in Rings : Indexed(c, h)'
      BY <1>1, <1>8 DEF Inv, CardInv, Indexed, Captured, Published
    <3>2. \A h \in Rings : Captured(c, h)' = Captured(c, h)
      BY <1>1, <1>8 DEF Captured
    <3>3. \A h \in Rings : proc[c][h] # Unset =>
            Captured(c, h)' \in Nat /\ Captured(c, h) <= Captured(c, h)'
      BY <3>2, IndexedIs
    <3>4. /\ \A r \in Receivers' : Placed(c, r)' /\ Ordered(c, r)'
          /\ Apart(c)'
      BY <1>1, <1>6, <3>3, SameQueues
    <3>5. Walks(c)'
      <4>1. Pos(c, k, place.cur) <= Captured(c, k)
        BY <1>3, <2>1
      <4>2. place.cur = read[c][k]
        BY <1>1, <1>2, <2>1 DEF NewSlot
      <4> QED
        BY <1>1, <1>3, <1>4, <1>8, <2>1, <2>3, <4>1, <4>2 DEF Walks, Pos, Captured, Published
    <3>6. Batched(c)'
      BY <2>1, <2>3, BatchedEmpty
    <3> QED
      BY <1>5, <3>1, <3>4, <3>5, <3>6 DEF CardInv
  <2> QED
    BY <1>1, <1>4, <1>7, <1>8, <2>3, <2>4, <2>5, CardStep
<1>9. CASE /\ conf.batch /\ read' = [read EXCEPT ![c][k] = NextSlot(me.cur)]
           /\ Goto(c, [me EXCEPT !.cur = NextSlot(@), !.left = @ - 1, !.pkts = Append(@, me.cur)])
  <2> DEFINE place == [me EXCEPT !.cur = NextSlot(@), !.left = @ - 1, !.pkts = Append(@, me.cur)]
  <2>1. /\ place \in Places /\ place.pc = "slot" /\ place.ring = k /\ place.cur = NextSlot(me.cur)
        /\ place.left = me.left - 1 /\ place.pkts = Append(me.pkts, me.cur) /\ place.to = 0
    <3>1. me.left - 1 \in Nat /\ Append(me.pkts, me.cur) \in Seq(Slots)
      BY <1>1
    <3> QED
      BY <1>1, <1>3, <3>1 DEF Places
  <2>2. Goto(c, place)
    BY <1>9
  <2> HIDE DEF place
  <2>3. /\ capture' \in [Cards' -> Places'] /\ capture'[c] = place
        /\ \A d \in Cards : d # c => capture'[d] = capture[d]
    BY <1>1, <2>1, <2>2, CaptureIs DEF Inv
  <2>4. /\ read' \in [Cards -> [Rings -> Slots \cup {Unset}]]
        /\ \A d \in Cards : d # c => read'[d] = read[d]
        /\ \A h \in Rings : Indexed(c, h)'
        /\ \A h \in Rings : Captured(c, h)' = IF h = k THEN Captured(c, h) + 1 ELSE Captured(c, h)
    BY <1>1, <1>2, <1>9, AdvanceIs DEF Advance
  <2>5. Types'
    BY <1>1, <1>4, <1>5, <2>3, <2>4 DEF Inv, Types
  <2>6. CardInv(c)'
    <3>1. \A h \in Rings : proc[c][h] # Unset =>
            Captured(c, h)' \in Nat /\ Captured(c, h) <= Captured(c, h)'
      BY <2>4, IndexedIs
    <3>2. /\ \A r \in Receivers : Pending(r, c)' = Pending(r, c)
          /\ \A r \in Receivers' : Placed(c, r)' /\ Ordered(c, r)'
          /\ Apart(c)'
      BY <1>1, <1>6, <3>1, SameQueues
    <3>3. Walks(c)'
      <4>1. /\ Pos(c, k, place.cur) + place.left = Published(c, k)
            /\ Pos(c, k, place.cur) <= Captured(c, k)'
        <5>1. Captured(c, k)' = Captured(c, k) + 1
          BY <1>1, <2>4
        <5> QED
          BY <1>1, <1>3, <2>1, <5>1
      <4> QED
        BY <1>1, <1>3, <1>9, <2>1, <2>3, <4>1 DEF Walks, Pos, Published
    <3>4. Batched(c)'
      <4>1. Batched(c)
        BY <1>1, PlaceIs
      <4>2. PICK old \in Seq(Slots), new \in Seq(Slots), n \in Nat :
              /\ old = me.pkts /\ new = place.pkts /\ new = Append(old, me.cur) /\ n = Len(old)
              /\ DOMAIN old = 1 .. n /\ DOMAIN new = 1 .. n + 1
              /\ \A i \in 1 .. n : new[i] = old[i] /\ old[i] \in Slots
              /\ new[n + 1] = me.cur
        <5> DEFINE o == me.pkts
                   w == Append(o, me.cur)
        <5>1. o \in Seq(Slots) /\ me.cur \in Slots /\ place.pkts = w
          BY <1>1, <2>1
        <5> HIDE DEF o
        <5>2. /\ w \in Seq(Slots) /\ Len(o) \in Nat /\ DOMAIN o = 1 .. Len(o)
              /\ DOMAIN w = 1 .. Len(o) + 1
              /\ \A i \in 1 .. Len(o) : w[i] = o[i] /\ o[i] \in Slots
              /\ w[Len(o) + 1] = me.cur
          BY <5>1
        <5> HIDE DEF w
        <5>3. o = me.pkts /\ place.pkts = w /\ w = Append(o, me.cur)
          BY <5>1 DEF o, w
        <5> QED
          BY <5>1, <5>2, <5>3
      <4>3. \A i \in 1 .. n :
              /\ Pos(c, k, old[i]) \in Nat /\ Pos(c, k, old[i]) < Captured(c, k)
              /\ flag[c][k][old[i]]
        BY <1>1, <1>3, <4>1, <4>2, CountIs DEF Batched, Pos
      <4>4. ASSUME NEW i \in 1 .. n + 1
            PROVE  /\ Pos(c, k, new[i]) < Captured(c, k)'
                   /\ flag'[c][k][new[i]]
        <5>1. Captured(c, k)' = Captured(c, k) + 1
          BY <2>4
        <5>2. CASE i = n + 1
          BY <1>3, <1>4, <4>2, <5>1, <5>2
        <5>3. CASE i # n + 1
          <6>1. i \in 1 .. n
            BY <5>3
          <6> QED
            <7>1. new[i] = old[i] /\ old[i] \in Slots /\ flag[c][k][old[i]]
                  /\ Pos(c, k, old[i]) \in Nat /\ Pos(c, k, old[i]) < Captured(c, k)
              BY <4>2, <4>3, <6>1
            <7>2. flag'[c][k][old[i]]
              BY <1>4, <7>1
            <7> QED
              BY <1>3, <5>1, <7>1, <7>2
        <5> QED
          BY <5>2, <5>3
      <4>5. ASSUME NEW i \in 1 .. n + 1, NEW j \in 1 .. n + 1, i < j
            PROVE  Pos(c, k, new[i]) < Pos(c, k, new[j])
        <5>1. i \in 1 .. n
          BY <4>5
        <5>2. CASE j = n + 1
          BY <1>3, <4>2, <4>3, <5>1, <5>2
        <5>3. CASE j # n + 1
          <6>1. j \in 1 .. n
            BY <5>3
          <6>2. Pos(c, k, old[i]) < Pos(c, k, old[j])
            BY <1>1, <4>1, <4>2, <4>5, <5>1, <6>1 DEF Batched
          <6> QED
            BY <4>2, <5>1, <6>1, <6>2
        <5> QED
          BY <5>2, <5>3
      <4>6. ASSUME NEW r \in Receivers, NEW i \in Pending(r, c), NEW j \in 1 .. n + 1,
                   fifo[r][c][i].ring = k
            PROVE  /\ fifo[r][c][i].slot # new[j]
                   /\ Pos(c, k, fifo[r][c][i].slot) < Pos(c, k, new[j])
        <5>1. CASE j # n + 1
          <6>1. j \in 1 .. n /\ r >= 0
            BY <5>1 DEF Receivers
          <6>2. /\ fifo[r][c][i].slot # old[j]
                /\ Pos(c, k, fifo[r][c][i].slot) < Pos(c, k, old[j])
            BY <1>1, <1>3, <4>1, <4>2, <4>6, <6>1 DEF Batched
          <6> QED
            BY <4>2, <6>1, <6>2
        <5>2. CASE j = n + 1
          <6>1. Pos(c, k, fifo[r][c][i].slot) < Pos(c, k, me.cur)
                /\ Pos(c, k, fifo[r][c][i].slot) \in Nat
            BY <1>3, <1>6, <4>6
          <6> QED
            BY <1>3, <4>2, <5>2, <6>1
        <5> QED
          BY <5>1, <5>2
      <4>7. /\ \A s : Pos(c, k, s) = SlotCount(proc'[c][k], s)
            /\ capture'[c].pkts = new /\ capture'[c].ring = k
        BY <1>1, <2>1, <2>3, <4>2 DEF Pos
      <4>8. \A i \in DOMAIN capture'[c].pkts :
              /\ SlotCount(proc'[c][k], capture'[c].pkts[i]) < Captured(c, k)'
              /\ flag'[c][k][capture'[c].pkts[i]]
        BY <4>2, <4>4, <4>7
      <4>9. \A i, j \in DOMAIN capture'[c].pkts :
              i < j => SlotCount(proc'[c][k], capture'[c].pkts[i])
                         < SlotCount(proc'[c][k], capture'[c].pkts[j])
        BY <4>2, <4>5, <4>7
      <4>10. \A r \in Receivers : \A i \in Pending(r, c)', j \in DOMAIN capture'[c].pkts :
               fifo'[r][c][i].ring = k =>
                 /\ fifo'[r][c][i].slot # capture'[c].pkts[j]
                 /\ SlotCount(proc'[c][k], fifo'[r][c][i].slot)
                      < SlotCount(proc'[c][k], capture'[c].pkts[j])
        BY <1>1, <3>2, <4>2, <4>6, <4>7
      <4> QED
        BY <1>5, <4>7, <4>8, <4>9, <4>10 DEF Batched, Pos
    <3> QED
      BY <1>5, <2>4, <3>2, <3>3, <3>4 DEF CardInv
  <2> QED
    BY <1>1, <1>4, <1>7, <2>3, <2>4, <2>5, <2>6, CardStep
<1>10. conf.batch \in BOOLEAN
  BY ConfIs DEF Inv, Types
<1> QED
  BY <1>1, <1>8, <1>9, <1>10 DEF MarkSlot

(* A queue gains packets of the ring in order, none of which waits anywhere*)
(* and which are behind those of the ring that wait in it.                 *)
Behind(c, k, r, q, n) ==
  /\ \A i \in n + 1 .. Len(q) :
       /\ q[i].ring = k /\ flag[c][k][q[i].slot]
       /\ Pos(c, k, q[i].slot) < Captured(c, k)'
       /\ \A o \in Receivers : \A j \in Pending(o, c) :
            fifo[o][c][j].ring = k =>
              /\ fifo[o][c][j].slot # q[i].slot
              /\ o = r => Pos(c, k, fifo[o][c][j].slot) < Pos(c, k, q[i].slot)
  /\ \A i, j \in n + 1 .. Len(q) : i < j => Pos(c, k, q[i].slot) < Pos(c, k, q[j].slot)

OnlyThese(c, r, q, n) ==
  \A o \in Receivers : \A i \in Pending(o, c)' :
    \/ i \in Pending(o, c) /\ fifo'[o][c][i] = fifo[o][c][i]
    \/ o = r /\ i \in n + 1 .. Len(q) /\ fifo'[o][c][i] = q[i]

AllThese(c, r, q, n) ==
  /\ \A o \in Receivers : \A i \in Pending(o, c) :
       i \in Pending(o, c)' /\ fifo'[o][c][i] = fifo[o][c][i]
  /\ \A i \in n + 1 .. Len(q) : i \in Pending(r, c)' /\ fifo'[r][c][i] = q[i]

(* Nothing that waits is lost when a queue grows. *)
LEMMA QueueGrows ==
  ASSUME Inv, NEW c \in Cards, NEW r \in Receivers, NEW q \in Seq(Packets), NEW n \in Nat,
         UNCHANGED receive,
         fifo' = [fifo EXCEPT ![r][c] = q],
         n = Len(fifo[r][c]), n <= Len(q),
         \A i \in 1 .. n : q[i] = fifo[r][c][i]
  PROVE  AllThese(c, r, q, n)
<1>1. PICK m \in Nat : m = Len(q) /\ n <= m
  BY DEF Inv, Types
<1>2. /\ \A o \in Receivers, d \in Cards : o # r \/ d # c => fifo'[o][d] = fifo[o][d]
      /\ fifo'[r][c] = q
  BY DEF Inv, Types
<1>3. /\ receive[r].done \in Nat
      /\ receive[r].fifo = c => receive[r].done <= n
  <2>1. receive[r] \in Turns /\ Serves(r)
    BY DEF Inv, Types
  <2>2. receive[r].done \in Nat /\ receive[r].got \in Nat /\ receive[r].pc \in {"look", "process", "finish"}
    BY <2>1 DEF Turns
  <2> QED
    BY <2>1, <2>2 DEF Serves
<1>4. ASSUME NEW o \in Receivers, NEW i \in Pending(o, c)
      PROVE  i \in Pending(o, c)' /\ fifo'[o][c][i] = fifo[o][c][i]
  <2>1. CASE o # r
    BY <1>2, <1>4, <2>1 DEF Pending
  <2>2. CASE o = r
    <3>1. i \in (1 + IF receive[r].fifo = c THEN receive[r].done ELSE 0) .. n
      BY <1>4, <2>2 DEF Pending
    <3>2. i \in (1 + IF receive[r].fifo = c THEN receive[r].done ELSE 0) .. m /\ i \in 1 .. n
      BY <1>1, <1>3, <3>1
    <3> QED
      BY <1>1, <1>2, <2>2, <3>2 DEF Pending
  <2> QED
    BY <2>1, <2>2
<1>5. ASSUME NEW i \in n + 1 .. m PROVE i \in Pending(r, c)' /\ fifo'[r][c][i] = q[i]
  <2>1. i \in (1 + IF receive[r].fifo = c THEN receive[r].done ELSE 0) .. m
    BY <1>1, <1>3
  <2> QED
    BY <1>1, <1>2, <2>1 DEF Pending
<1> QED
  BY <1>1, <1>4, <1>5 DEF AllThese

LEMMA Received ==
  ASSUME Inv, NEW c \in Cards, NEW k \in Rings, NEW r \in Receivers, NEW q \in Seq(Packets), NEW n \in Nat,
         UNCHANGED <<conf, proc, flag, receive>>,
         fifo' = [fifo EXCEPT ![r][c] = q],
         n = Len(fifo[r][c]), n <= Len(q),
         \A i \in 1 .. n : q[i] = fifo[r][c][i],
         proc[c][k] \in Slots,
         \A h \in Rings : proc[c][h] # Unset =>
           Captured(c, h)' \in Nat /\ Captured(c, h) <= Captured(c, h)',
         Behind(c, k, r, q, n)
  PROVE  /\ fifo' \in [Receivers -> [Cards -> Seq(Packets)]]
         /\ \A o \in Receivers, d \in Cards : o # r \/ d # c => fifo'[o][d] = fifo[o][d]
         /\ fifo'[r][c] = q
         /\ \A o \in Receivers, d \in Cards :
              Len(fifo'[o][d]) \in Nat /\ Len(fifo'[o][d]) >= Len(fifo[o][d])
         /\ OnlyThese(c, r, q, n)
         /\ \A o \in Receivers' : Placed(c, o)' /\ Ordered(c, o)'
         /\ Apart(c)'
<1>1. PICK old \in Seq(Packets), m \in Nat :
        old = fifo[r][c] /\ n = Len(old) /\ m = Len(q) /\ n <= m
  <2>1. fifo[r][c] \in Seq(Packets)
    BY DEF Inv, Types
  <2>2. Len(fifo[r][c]) \in Nat /\ Len(q) \in Nat
    BY <2>1
  <2> QED
    BY <2>1, <2>2
<1>13. /\ \A i \in n + 1 .. m :
           /\ q[i].ring = k /\ flag[c][k][q[i].slot]
           /\ Pos(c, k, q[i].slot) < Captured(c, k)'
           /\ \A o \in Receivers : \A j \in Pending(o, c) :
                fifo[o][c][j].ring = k =>
                  /\ fifo[o][c][j].slot # q[i].slot
                  /\ o = r => Pos(c, k, fifo[o][c][j].slot) < Pos(c, k, q[i].slot)
      /\ \A i, j \in n + 1 .. m : i < j => Pos(c, k, q[i].slot) < Pos(c, k, q[j].slot)
  BY <1>1 DEF Behind
<1>2. /\ fifo' \in [Receivers -> [Cards -> Seq(Packets)]]
      /\ \A o \in Receivers, d \in Cards : o # r \/ d # c => fifo'[o][d] = fifo[o][d]
      /\ fifo'[r][c] = q
  BY DEF Inv, Types
<1>3. \A o \in Receivers, d \in Cards :
        Len(fifo'[o][d]) \in Nat /\ Len(fifo'[o][d]) >= Len(fifo[o][d])
  BY <1>1, <1>2 DEF Inv, Types
<1>4. Receivers' = Receivers /\ CardInv(c)
  BY DEF Receivers, Inv
<1>5. ASSUME NEW o \in Receivers, NEW i \in Pending(o, c)'
      PROVE  \/ i \in Pending(o, c) /\ fifo'[o][c][i] = fifo[o][c][i]
             \/ o = r /\ i \in n + 1 .. m /\ fifo'[o][c][i] = q[i]
  <2>1. CASE o # r
    BY <1>2, <2>1 DEF Pending
  <2>2. CASE o = r
    <3>1. receive[r].done \in Nat
      BY DEF Inv, Types, Turns
    <3>2. i \in Nat /\ i >= 1 /\ i <= m
          /\ i >= 1 + IF receive[r].fifo = c THEN receive[r].done ELSE 0
      BY <1>1, <1>2, <2>2, <3>1 DEF Pending
    <3>3. CASE i <= n
      BY <1>1, <1>2, <2>2, <3>1, <3>2, <3>3 DEF Pending
    <3>4. CASE ~ (i <= n)
      BY <1>1, <1>2, <2>2, <3>2, <3>4
    <3> QED
      BY <3>3, <3>4
  <2> QED
    BY <2>1, <2>2
<1>6. \A i \in n + 1 .. m : q[i] \in Packets /\ q[i].slot \in Slots /\ q[i].ring = k
        /\ q[i] = [ring |-> k, slot |-> q[i].slot]
        /\ Pos(c, k, q[i].slot) \in Nat
  <2> TAKE i \in n + 1 .. m
  <2>1. i \in 1 .. Len(q)
    BY <1>1
  <2>2. q[i] \in Packets /\ q[i].ring = k
    BY <1>1, <1>13, <2>1
  <2> QED
    BY <2>2, CountIs DEF Packets, Pos
<1>7. ASSUME NEW o \in Receivers PROVE Placed(c, o)'
  <2>1. ASSUME NEW i \in Pending(o, c)', NEW p \in Packets, p = fifo'[o][c][i]
        PROVE  /\ proc[c][p.ring] # Unset
               /\ Pos(c, p.ring, p.slot) < Captured(c, p.ring)'
               /\ flag[c][p.ring][p.slot]
    <3>1. CASE i \in Pending(o, c) /\ p = fifo[o][c][i]
      <4>1. /\ p.ring \in Rings /\ proc[c][p.ring] \in Slots
            /\ Pos(c, p.ring, p.slot) \in Nat /\ Captured(c, p.ring) \in Nat
            /\ Pos(c, p.ring, p.slot) < Captured(c, p.ring)
            /\ flag[c][p.ring][p.slot]
        BY <3>1, PendingIs
      <4>2. proc[c][p.ring] # Unset
        BY <4>1, SlotsAre
      <4>3. Captured(c, p.ring)' \in Nat /\ Captured(c, p.ring) <= Captured(c, p.ring)'
        BY <4>1, <4>2
      <4> QED
        BY <4>1, <4>2, <4>3
    <3>2. CASE i \in n + 1 .. m /\ p = q[i]
      BY <1>1, <1>13, <3>2, SlotsAre
    <3> QED
      BY <1>5, <2>1, <3>1, <3>2
  <2>2. \A i \in Pending(o, c)' : fifo'[o][c][i] \in Packets
    <3> TAKE i \in Pending(o, c)'
    <3>1. CASE i \in Pending(o, c) /\ fifo'[o][c][i] = fifo[o][c][i]
      BY <3>1, PendingIs
    <3>2. CASE i \in n + 1 .. m /\ fifo'[o][c][i] = q[i]
      BY <1>6, <3>2
    <3> QED
      BY <1>5, <3>1, <3>2
  <2> QED
    BY <2>1, <2>2 DEF Placed, Pos
<1>8. ASSUME NEW o \in Receivers PROVE Ordered(c, o)'
  <2>1. ASSUME NEW i \in Pending(o, c)', NEW j \in Pending(o, c)', i < j,
               fifo'[o][c][i].ring = fifo'[o][c][j].ring
        PROVE  Pos(c, fifo[o][c][i].ring, fifo[o][c][i].slot)'
                 < Pos(c, fifo[o][c][j].ring, fifo[o][c][j].slot)'
    <3>1. CASE i \in Pending(o, c) /\ j \in Pending(o, c)
               /\ fifo'[o][c][i] = fifo[o][c][i] /\ fifo'[o][c][j] = fifo[o][c][j]
      BY <1>4, <2>1, <3>1 DEF CardInv, Ordered, Pos
    <3>2. CASE o = r /\ i \in Pending(o, c) /\ j \in n + 1 .. m
               /\ fifo'[o][c][i] = fifo[o][c][i] /\ fifo'[o][c][j] = q[j]
      <4>1. q[j].ring = k /\ fifo[o][c][i].ring = k
        BY <1>13, <2>1, <3>2
      <4>2. Pos(c, k, fifo[o][c][i].slot) < Pos(c, k, q[j].slot)
        BY <1>13, <3>2, <4>1
      <4> QED
        BY <3>2, <4>1, <4>2 DEF Pos
    <3>3. CASE o = r /\ i \in n + 1 .. m /\ j \in Pending(o, c)
               /\ fifo'[o][c][i] = q[i] /\ fifo'[o][c][j] = fifo[o][c][j]
      <4>1. j \in Nat /\ j <= n
        <5>1. j \in Nat /\ j <= Len(fifo[o][c])
          BY <3>3, PendingIs
        <5> QED
          BY <1>1, <3>3, <5>1
      <4> QED
        BY <1>1, <2>1, <3>3, <4>1
    <3>4. CASE i \in n + 1 .. m /\ j \in n + 1 .. m
               /\ fifo'[o][c][i] = q[i] /\ fifo'[o][c][j] = q[j]
      BY <1>1, <1>13, <1>6, <2>1, <3>4 DEF Pos
    <3> QED
      BY <1>5, <3>1, <3>2, <3>3, <3>4
  <2> QED
    BY <2>1 DEF Ordered, Pos
<1>9. Apart(c)'
  <2>1. ASSUME NEW o \in Receivers, NEW p \in Receivers,
               NEW i \in Pending(o, c)', NEW j \in Pending(p, c)',
               fifo'[o][c][i] = fifo'[p][c][j]
        PROVE  o = p /\ i = j
    <3>1. CASE i \in Pending(o, c) /\ j \in Pending(p, c)
               /\ fifo'[o][c][i] = fifo[o][c][i] /\ fifo'[p][c][j] = fifo[p][c][j]
      BY <1>4, <2>1, <3>1 DEF CardInv, Apart
    <3>2. CASE i \in Pending(o, c) /\ j \in n + 1 .. m
               /\ fifo'[o][c][i] = fifo[o][c][i] /\ fifo'[p][c][j] = q[j]
      BY <1>1, <1>13, <1>6, <2>1, <3>2
    <3>3. CASE i \in n + 1 .. m /\ j \in Pending(p, c)
               /\ fifo'[o][c][i] = q[i] /\ fifo'[p][c][j] = fifo[p][c][j]
      BY <1>1, <1>13, <1>6, <2>1, <3>3
    <3>4. CASE o = r /\ p = r /\ i \in n + 1 .. m /\ j \in n + 1 .. m
               /\ fifo'[o][c][i] = q[i] /\ fifo'[p][c][j] = q[j]
      <4>1. Pos(c, k, q[i].slot) = Pos(c, k, q[j].slot) /\ Pos(c, k, q[i].slot) \in Nat
        BY <1>6, <2>1, <3>4
      <4>2. ~ (i < j) /\ ~ (j < i)
        BY <1>1, <1>13, <3>4, <4>1
      <4> QED
        BY <3>4, <4>2
    <3> QED
      BY <1>5, <3>1, <3>2, <3>3, <3>4
  <2> QED
    BY <1>4, <2>1 DEF Apart
<1>10. OnlyThese(c, r, q, n)
  BY <1>1, <1>5 DEF OnlyThese
<1> QED
  BY <1>2, <1>3, <1>4, <1>7, <1>8, <1>9, <1>10

LEMMA DispatchPktInv ==
  ASSUME Inv, NEW c \in Cards, DispatchPkt(c)
  PROVE  Inv'
<1>1. PICK me \in Places, k \in Rings :
        /\ me = capture[c] /\ k = me.ring /\ me.pc = "dispatch"
        /\ me.cur \in Slots /\ me.left \in Nat
        /\ UNCHANGED <<conf, ring, proc, receive>>
        /\ read' = [read EXCEPT ![c][k] = NextSlot(me.cur)]
        /\ \E pc \in {"slot", "turn"} :
             Goto(c, [me EXCEPT !.pc = pc, !.cur = NextSlot(@), !.left = @ - 1])
  BY PlaceIs DEF DispatchPkt, At
<1>2. /\ me.left > 0 /\ me.cur = read[c][k] /\ flag[c][k][me.cur] /\ me.pkts = <<>>
      /\ NewSlot(c)
  BY <1>1, PlaceIs DEF Walks, NewSlot
<1>3. /\ me.to = 0 /\ proc[c][k] # Unset /\ proc[c][k] \in Slots
      /\ Pos(c, k, me.cur) = Captured(c, k)
      /\ Captured(c, k) \in Nat /\ Captured(c, k) < Published(c, k)
      /\ Pos(c, k, me.cur) + me.left = Published(c, k)
      /\ NextSlot(me.cur) \in Slots
      /\ Pos(c, k, NextSlot(me.cur)) = Captured(c, k) + 1
      /\ Published(c, k) \in Nat
  BY <1>1, <1>2, NewSlotIs, IndexedIs
<1>4. /\ Cards' = Cards /\ Rings' = Rings /\ Receivers' = Receivers /\ Packets' = Packets
      /\ Turns' = Turns
  BY <1>1 DEF Cards, Rings, Receivers, Packets, Turns
<1>5. PICK r \in Receivers :
        ReceivePkt(r, c, [ring |-> k, slot |-> me.cur]) /\ current' \in Receivers
  <2>1. current \in Receivers
    BY DEF Inv, Types
  <2> QED
    BY <1>1, <2>1 DEF DispatchPkt
<1>15. PICK pc \in {"slot", "turn"} :
         Goto(c, [me EXCEPT !.pc = pc, !.cur = NextSlot(@), !.left = @ - 1])
  BY <1>1
<1> DEFINE place == [me EXCEPT !.pc = pc, !.cur = NextSlot(@), !.left = @ - 1]
<1>6. /\ place \in Places /\ place.pc \in {"slot", "turn"} /\ place.ring = k
      /\ place.cur = NextSlot(me.cur)
      /\ place.left = me.left - 1 /\ place.pkts = <<>> /\ place.to = 0
  <2>1. me.left - 1 \in Nat
    BY <1>1, <1>2
  <2> QED
    BY <1>1, <1>2, <1>3, <2>1 DEF Places
<1>7. Goto(c, place)
  BY <1>15
<1> HIDE DEF place
<1>8. /\ capture' \in [Cards' -> Places'] /\ capture'[c] = place
      /\ \A d \in Cards : d # c => capture'[d] = capture[d]
  BY <1>1, <1>6, <1>7, CaptureIs DEF Inv
<1>9. /\ read' \in [Cards -> [Rings -> Slots \cup {Unset}]]
      /\ \A d \in Cards : d # c => read'[d] = read[d]
      /\ \A h \in Rings : Indexed(c, h)'
      /\ \A h \in Rings : Captured(c, h)' = IF h = k THEN Captured(c, h) + 1 ELSE Captured(c, h)
  BY <1>1, <1>2, AdvanceIs DEF Advance
<1>10. \A h \in Rings : proc[c][h] # Unset =>
         Captured(c, h)' \in Nat /\ Captured(c, h) <= Captured(c, h)'
  BY <1>9, IndexedIs
<1>11. Walks(c)' /\ Batched(c)'
  <2>1. Captured(c, k)' = Captured(c, k) + 1
    BY <1>9
  <2>2. /\ Pos(c, k, place.cur) + place.left = Published(c, k)
        /\ Pos(c, k, place.cur) <= Captured(c, k)'
    BY <1>1, <1>3, <1>6, <2>1
  <2> QED
    BY <1>1, <1>3, <1>6, <1>8, <2>2, BatchedEmpty DEF Walks, Pos, Published
(* What waits on the ring was captured earlier. *)
<1>12. ASSUME NEW o \in Receivers, NEW i \in Pending(o, c), fifo[o][c][i].ring = k
       PROVE  /\ fifo[o][c][i].slot # me.cur
              /\ Pos(c, k, fifo[o][c][i].slot) < Pos(c, k, me.cur)
  <2>1. Pos(c, k, fifo[o][c][i].slot) < Captured(c, k)
        /\ Pos(c, k, fifo[o][c][i].slot) \in Nat
    BY <1>12, PendingIs
  <2> QED
    BY <1>3, <2>1
<1>13. CASE flag' = [flag EXCEPT ![c][k][me.cur] = FALSE] /\ UNCHANGED fifo
  <2>0. LowerFlag(c, k, me.cur)
    BY <1>13 DEF LowerFlag
  <2>1. /\ flag' \in [Cards -> [Rings -> [Slots -> BOOLEAN]]]
        /\ \A d \in Cards : d # c => flag'[d] = flag[d]
        /\ \A h \in Rings, t \in Slots :
             h # k \/ t # me.cur => flag'[c][h][t] = flag[c][h][t]
    <3>1. me.cur \in Slots
      BY <1>1
    <3>2. flag' \in [Cards -> [Rings -> [Slots -> BOOLEAN]]]
      BY <2>0, <3>1, FlagLowered
    <3>3. \A d \in Cards : d # c => flag'[d] = flag[d]
      BY <2>0, <3>1, FlagLowered
    <3>4. ASSUME NEW h \in Rings, NEW t \in Slots, h # k \/ t # me.cur
          PROVE  flag'[c][h][t] = flag[c][h][t]
      BY <2>0, <3>1, <3>4, FlagLowered
    <3> QED
      BY <3>2, <3>3, <3>4
  <2>2. ASSUME NEW o \in Receivers, NEW i \in Pending(o, c)
        PROVE  flag'[c][fifo[o][c][i].ring][fifo[o][c][i].slot]
    <3>1. /\ fifo[o][c][i].ring \in Rings /\ fifo[o][c][i].slot \in Slots
          /\ flag[c][fifo[o][c][i].ring][fifo[o][c][i].slot]
      BY PendingIs
    <3>2. fifo[o][c][i].ring # k \/ fifo[o][c][i].slot # me.cur
      BY <1>12
    <3> QED
      BY <2>1, <3>1, <3>2, Zenon
  <2>3. /\ \A o \in Receivers' : Placed(c, o)' /\ Ordered(c, o)'
        /\ Apart(c)'
    BY <1>1, <1>10, <1>13, <2>2, SameQueues
  <2>4. Types'
    BY <1>1, <1>4, <1>5, <1>8, <1>9, <1>13, <2>1 DEF Inv, Types
  <2>5. CardInv(c)'
    BY <1>4, <1>9, <1>11, <2>3 DEF CardInv
  <2>6. \A o \in Receivers, d \in Cards : Len(fifo[o][d]) \in Nat
    BY DEF Inv, Types
  <2> QED
    BY <1>1, <1>8, <1>9, <1>13, <2>1, <2>4, <2>5, <2>6, CardStep
<1>14. CASE /\ fifo' = [fifo EXCEPT ![r][c] = Append(@, [ring |-> k, slot |-> me.cur])]
            /\ UNCHANGED flag
  <2>1. PICK old \in Seq(Packets), p \in Packets, n \in Nat :
          /\ old = fifo[r][c] /\ p = [ring |-> k, slot |-> me.cur] /\ n = Len(old)
    <3>1. fifo[r][c] \in Seq(Packets)
      BY DEF Inv, Types
    <3>2. [ring |-> k, slot |-> me.cur] \in Packets
      BY <1>1 DEF Packets
    <3>3. Len(fifo[r][c]) \in Nat
      BY <3>1
    <3> QED
      BY <3>1, <3>2, <3>3
  <2>2. PICK q \in Seq(Packets) :
          /\ q = Append(old, p) /\ Len(q) = n + 1 /\ q[n + 1] = p
          /\ \A i \in 1 .. n : q[i] = old[i]
    <3> DEFINE w == Append(old, p)
    <3>1. w \in Seq(Packets) /\ Len(w) = n + 1 /\ w[n + 1] = p /\ \A i \in 1 .. n : w[i] = old[i]
      BY <2>1
    <3>2. w = Append(old, p)
      OBVIOUS
    <3> HIDE DEF w
    <3> QED
      BY <3>1, <3>2
  <2>3. fifo' = [fifo EXCEPT ![r][c] = q]
    BY <1>14, <2>1, <2>2 DEF Inv, Types
  <2>4. p.ring = k /\ p.slot = me.cur /\ n + 1 .. n + 1 = {n + 1}
    BY <2>1
  <2>5. \A i \in n + 1 .. Len(q) :
          /\ q[i].ring = k /\ flag[c][k][q[i].slot]
          /\ Pos(c, k, q[i].slot) < Captured(c, k)'
          /\ \A o \in Receivers : \A j \in Pending(o, c) :
               fifo[o][c][j].ring = k =>
                 /\ fifo[o][c][j].slot # q[i].slot
                 /\ o = r => Pos(c, k, fifo[o][c][j].slot) < Pos(c, k, q[i].slot)
    <3>1. \A i \in n + 1 .. Len(q) : q[i].ring = k /\ q[i].slot = me.cur
      BY <2>2, <2>4
    <3>2. Pos(c, k, me.cur) < Captured(c, k)'
      <4>1. Captured(c, k)' = Captured(c, k) + 1
        BY <1>9
      <4> QED
        BY <1>3, <4>1
    <3> QED
      BY <1>2, <1>12, <3>1, <3>2
  <2>6. \A i, j \in n + 1 .. Len(q) : i < j => Pos(c, k, q[i].slot) < Pos(c, k, q[j].slot)
    BY <2>2, <2>4
  <2>7. /\ fifo' \in [Receivers -> [Cards -> Seq(Packets)]]
        /\ \A o \in Receivers, d \in Cards : o # r \/ d # c => fifo'[o][d] = fifo[o][d]
        /\ \A o \in Receivers, d \in Cards :
             Len(fifo'[o][d]) \in Nat /\ Len(fifo'[o][d]) >= Len(fifo[o][d])
        /\ \A o \in Receivers' : Placed(c, o)' /\ Ordered(c, o)'
        /\ Apart(c)'
    <3>0. Behind(c, k, r, q, n)
      BY <2>5, <2>6 DEF Behind
    <3>1. UNCHANGED <<conf, proc, flag, receive>> /\ n = Len(fifo[r][c]) /\ n <= Len(q)
          /\ \A i \in 1 .. n : q[i] = fifo[r][c][i]
      BY <1>1, <1>14, <2>1, <2>2
    <3>2. fifo' \in [Receivers -> [Cards -> Seq(Packets)]]
      BY <2>3 DEF Inv, Types
    <3>3. \A o \in Receivers, d \in Cards : o # r \/ d # c => fifo'[o][d] = fifo[o][d]
      BY <1>3, <1>10, <2>3, <3>0, <3>1, Received
    <3>4. \A o \in Receivers, d \in Cards :
            Len(fifo'[o][d]) \in Nat /\ Len(fifo'[o][d]) >= Len(fifo[o][d])
      BY <1>3, <1>10, <2>3, <3>0, <3>1, Received
    <3>5. /\ \A o \in Receivers' : Placed(c, o)' /\ Ordered(c, o)'
          /\ Apart(c)'
      BY <1>3, <1>10, <2>3, <3>0, <3>1, Received
    <3> QED
      BY <3>2, <3>3, <3>4, <3>5
  <2>8. Types'
    BY <1>1, <1>4, <1>5, <1>8, <1>9, <1>14, <2>7 DEF Inv, Types
  <2>9. CardInv(c)'
    BY <1>4, <1>9, <1>11, <2>7 DEF CardInv
  <2> QED
    BY <1>1, <1>8, <1>9, <1>14, <2>7, <2>8, <2>9, CardStep
<1> QED
  BY <1>5, <1>13, <1>14 DEF ReceivePkt

-----------------------------------------------------------------------------
(* A batch.                                                                *)

Picked(pkts, which) == [j \in DOMAIN which |-> pkts[which[j]]]

LEMMA PickedIs ==
  ASSUME NEW pkts \in Seq(Slots), NEW which \in Selections(Len(pkts))
  PROVE  \E n, m \in Nat, slots \in Seq(Slots) :
           /\ n = Len(pkts) /\ m <= n /\ DOMAIN which = 1 .. m
           /\ slots = Picked(pkts, which) /\ Len(slots) = m
           /\ \A j \in 1 .. m : which[j] \in 1 .. n /\ slots[j] = pkts[which[j]] /\ slots[j] \in Slots
           /\ \A i, j \in 1 .. m : i < j => which[i] < which[j]
<1> DEFINE n == Len(pkts)
<1>1. n \in Nat /\ \A i \in 1 .. n : pkts[i] \in Slots
  OBVIOUS
<1>2. PICK m \in 0 .. n : which \in [1 .. m -> 1 .. n]
  BY DEF Selections
<1>3. \A i, j \in 1 .. m : i < j => which[i] < which[j]
  BY <1>2 DEF Selections
<1>4. Picked(pkts, which) \in [1 .. m -> Slots]
  BY <1>1, <1>2 DEF Picked
<1>5. m \in Nat /\ m <= n
  BY <1>1, <1>2
<1> DEFINE slots == Picked(pkts, which)
<1>6. slots \in Seq(Slots) /\ Len(slots) = m /\ DOMAIN which = 1 .. m
  BY <1>2, <1>4, <1>5
<1>7. \A j \in 1 .. m : which[j] \in 1 .. n /\ slots[j] = pkts[which[j]] /\ slots[j] \in Slots
  BY <1>2, <1>4 DEF Picked
<1>8. slots = Picked(pkts, which) /\ n = Len(pkts)
  OBVIOUS
<1> HIDE DEF slots, n
<1> QED
  BY <1>1, <1>3, <1>5, <1>6, <1>7, <1>8

LEMMA InTail ==
  ASSUME NEW j \in Nat, NEW l \in Nat, NEW m \in Nat, j >= 1, j <= m
  PROVE  j + l \in l + 1 .. l + m /\ (j + l) - l = j
OBVIOUS

AsDealt(c, pkts, mine) ==
  \A o \in Receivers : \A i \in Pending(o, c)' :
    \/ i \in Pending(o, c) /\ fifo'[o][c][i] = fifo[o][c][i]
    \/ o = capture[c].to /\ \E j \in DOMAIN mine : fifo'[o][c][i].slot = pkts[mine[j]]

AllDealt(c, r, k, pkts, mine) ==
  /\ \A o \in Receivers : \A i \in Pending(o, c) :
       i \in Pending(o, c)' /\ fifo'[o][c][i] = fifo[o][c][i]
  /\ \A h \in Rings, s \in Slots : flag'[c][h][s] => flag[c][h][s]
  /\ \A j \in DOMAIN mine : flag'[c][k][pkts[mine[j]]] =>
       \E i \in Pending(r, c)' : fifo'[r][c][i] = [ring |-> k, slot |-> pkts[mine[j]]]

Spared(c, k, pkts, mine) ==
  \A i \in 1 .. Len(pkts) : flag'[c][k][pkts[i]] \/ \E j \in DOMAIN mine : mine[j] = i

(* What the receiver whose turn it is makes of the packets dealt to it.    *)
LEMMA DealtIs ==
  ASSUME Inv, NEW c \in Cards, NEW me \in Places, NEW k \in Rings, me = capture[c], k = me.ring,
         me.pc = "batch", NEW pkts \in Seq(Slots), pkts = me.pkts,
         NEW mine \in Selections(Len(pkts)),
         UNCHANGED <<conf, proc, read, receive>>,
         IF mine = <<>> THEN UNCHANGED <<fifo, flag>>
                        ELSE ReceivePktBatch(me.to, c, k, Picked(pkts, mine))
  PROVE  /\ fifo' \in [Receivers -> [Cards -> Seq(Packets)]]
         /\ flag' \in [Cards -> [Rings -> [Slots -> BOOLEAN]]]
         /\ \A o \in Receivers, d \in Cards :
              /\ d # c => fifo'[o][d] = fifo[o][d]
              /\ Len(fifo'[o][d]) \in Nat /\ Len(fifo'[o][d]) >= Len(fifo[o][d])
         /\ \A d \in Cards : d # c => flag'[d] = flag[d]
         /\ Spared(c, k, pkts, mine)
         /\ AsDealt(c, pkts, mine)
         /\ AllDealt(c, me.to, k, pkts, mine)
         /\ \A o \in Receivers' : Placed(c, o)' /\ Ordered(c, o)'
         /\ Apart(c)'
<1>1. PICK n \in Nat, m \in Nat, slots \in Seq(Slots) :
        /\ n = Len(pkts) /\ m <= n /\ DOMAIN mine = 1 .. m
        /\ slots = Picked(pkts, mine) /\ Len(slots) = m
        /\ \A j \in 1 .. m : mine[j] \in 1 .. n /\ slots[j] = pkts[mine[j]] /\ slots[j] \in Slots
        /\ \A i, j \in 1 .. m : i < j => mine[i] < mine[j]
  BY PickedIs
<1>2. /\ me.to \in Receivers /\ Batched(c) /\ proc[c][k] # Unset
  BY PlaceIs DEF Walks
<1>3. proc[c][k] \in Slots /\ Captured(c, k) \in Nat
  BY <1>2, IndexedIs
<1>4. \A i \in 1 .. n :
        /\ pkts[i] \in Slots /\ Pos(c, k, pkts[i]) \in Nat
        /\ Pos(c, k, pkts[i]) < Captured(c, k)
        /\ flag[c][k][pkts[i]]
  <2> TAKE i \in 1 .. n
  <2>1. i \in DOMAIN pkts /\ pkts[i] \in Slots
    BY <1>1
  <2>2. Pos(c, k, pkts[i]) < Captured(c, k) /\ flag[c][k][pkts[i]]
    BY <1>2, <2>1 DEF Batched
  <2>3. Pos(c, k, pkts[i]) \in Nat
    BY <1>3, <2>1, CountIs DEF Pos
  <2> QED
    BY <2>1, <2>2, <2>3
<1>5. \A i, j \in 1 .. n : i < j => Pos(c, k, pkts[i]) < Pos(c, k, pkts[j])
  BY <1>1, <1>2 DEF Batched
<1>6. ASSUME NEW o \in Receivers, NEW i \in Pending(o, c), NEW j \in 1 .. n,
             fifo[o][c][i].ring = k
      PROVE  /\ fifo[o][c][i].slot # pkts[j]
             /\ o = me.to => Pos(c, k, fifo[o][c][i].slot) < Pos(c, k, pkts[j])
  <2>1. j \in DOMAIN pkts /\ (o = me.to => o >= me.to)
    BY <1>1, <1>2 DEF Receivers
  <2> QED
    BY <1>2, <1>6, <2>1 DEF Batched
<1>7. \A h \in Rings : proc[c][h] # Unset =>
        Captured(c, h)' \in Nat /\ Captured(c, h) <= Captured(c, h)'
  <2>1. \A h \in Rings : Captured(c, h)' = Captured(c, h)
    BY DEF Captured
  <2> QED
    BY <2>1, IndexedIs
<1>8. \A o \in Receivers, d \in Cards : Len(fifo[o][d]) \in Nat
  BY DEF Inv, Types
<1>9. CASE mine = <<>> /\ UNCHANGED <<fifo, flag>>
  <2>1. \A o \in Receivers : \A i \in Pending(o, c) :
          flag'[c][fifo[o][c][i].ring][fifo[o][c][i].slot]
    BY <1>9, PendingIs
  <2>2. /\ \A o \in Receivers : Pending(o, c)' = Pending(o, c)
        /\ \A o \in Receivers' : Placed(c, o)' /\ Ordered(c, o)'
        /\ Apart(c)'
    BY <1>7, <1>9, <2>1, SameQueues
  <2> QED
    <3>1. AllDealt(c, me.to, k, pkts, mine)
      BY <1>9, <2>2 DEF AllDealt
    <3>2. AsDealt(c, pkts, mine)
      BY <1>9, <2>2 DEF AsDealt
    <3>3. Spared(c, k, pkts, mine)
      BY <1>1, <1>4, <1>9 DEF Spared
    <3> QED
      BY <1>1, <1>8, <1>9, <2>2, <3>1, <3>2, <3>3 DEF Inv, Types
(* All of them are queued ... *)
<1>10. CASE /\ fifo' = [fifo EXCEPT ![me.to][c] =
                 @ \o [i \in 1 .. Len(slots) |-> [ring |-> k, slot |-> slots[i]]]]
            /\ UNCHANGED flag
  <2>1. PICK old \in Seq(Packets), l \in Nat : old = fifo[me.to][c] /\ l = Len(old)
    <3>1. fifo[me.to][c] \in Seq(Packets)
      BY <1>2 DEF Inv, Types
    <3> QED
      BY <3>1
  <2>2. PICK new \in Seq(Packets) :
          /\ new = [i \in 1 .. Len(slots) |-> [ring |-> k, slot |-> slots[i]]]
          /\ Len(new) = m
          /\ \A i \in 1 .. m : new[i].ring = k /\ new[i].slot = slots[i]
    <3> DEFINE w == [i \in 1 .. Len(slots) |-> [ring |-> k, slot |-> slots[i]]]
    <3>1. \A i \in 1 .. m : [ring |-> k, slot |-> slots[i]] \in Packets
      BY <1>1 DEF Packets
    <3>2. w \in [1 .. m -> Packets]
      BY <1>1, <3>1
    <3>3. \A i \in 1 .. m : w[i].ring = k /\ w[i].slot = slots[i]
      BY <1>1
    <3> HIDE DEF w
    <3>4. w \in Seq(Packets) /\ Len(w) = m
      BY <3>2
    <3> QED
      BY <3>3, <3>4 DEF w
  <2>3. PICK q \in Seq(Packets) :
          /\ q = old \o new /\ Len(q) = l + m
          /\ \A i \in 1 .. l : q[i] = old[i]
          /\ \A i \in l + 1 .. l + m : q[i] = new[i - l]
    <3> DEFINE w == old \o new
    <3>1. w \in Seq(Packets) /\ Len(w) = l + m
      BY <2>1, <2>2, ConcatProperties
    <3>2. \A i \in 1 .. l : w[i] = old[i]
      BY <2>1, <2>2
    <3>3. \A i \in l + 1 .. l + m : w[i] = new[i - l]
      BY <1>1, <2>1, <2>2
    <3>4. w = old \o new
      OBVIOUS
    <3> HIDE DEF w
    <3> QED
      BY <3>1, <3>2, <3>3, <3>4
  <2>4. fifo' = [fifo EXCEPT ![me.to][c] = q]
    BY <1>2, <1>10, <2>1, <2>2, <2>3 DEF Inv, Types
  <2>5. ASSUME NEW i \in l + 1 .. Len(q)
        PROVE  /\ i - l \in 1 .. m /\ mine[i - l] \in 1 .. n
               /\ q[i].ring = k /\ q[i].slot = pkts[mine[i - l]]
    <3>1. i \in l + 1 .. l + m /\ i - l \in 1 .. m
      BY <2>3
    <3> QED
      BY <1>1, <2>2, <2>3, <3>1
  <2>6. ASSUME NEW i \in l + 1 .. Len(q)
        PROVE  /\ q[i].ring = k /\ flag[c][k][q[i].slot]
               /\ Pos(c, k, q[i].slot) < Captured(c, k)'
               /\ \A o \in Receivers : \A j \in Pending(o, c) :
                    fifo[o][c][j].ring = k =>
                      /\ fifo[o][c][j].slot # q[i].slot
                      /\ o = me.to => Pos(c, k, fifo[o][c][j].slot) < Pos(c, k, q[i].slot)
    <3>1. Captured(c, k)' = Captured(c, k)
      BY DEF Captured
    <3>2. PICK a \in 1 .. n : q[i].ring = k /\ q[i].slot = pkts[a]
      BY <2>5
    <3>3. flag[c][k][q[i].slot] /\ Pos(c, k, q[i].slot) < Captured(c, k)'
      BY <1>4, <3>1, <3>2
    <3>4. ASSUME NEW o \in Receivers, NEW j \in Pending(o, c), fifo[o][c][j].ring = k
          PROVE  /\ fifo[o][c][j].slot # q[i].slot
                 /\ o = me.to => Pos(c, k, fifo[o][c][j].slot) < Pos(c, k, q[i].slot)
      BY <1>6, <3>2, <3>4
    <3> QED
      BY <3>2, <3>3, <3>4
  <2>7. ASSUME NEW i \in l + 1 .. Len(q), NEW j \in l + 1 .. Len(q), i < j
        PROVE  Pos(c, k, q[i].slot) < Pos(c, k, q[j].slot)
    <3>1. i - l < j - l
      <4>1. i \in Int /\ j \in Int /\ l \in Int
        BY <2>1, <2>3
      <4> QED
        BY <2>7, <4>1
    <3>2. mine[i - l] < mine[j - l]
      BY <1>1, <2>5, <3>1
    <3> QED
      BY <1>5, <2>5, <3>2
  <2>8. /\ UNCHANGED <<conf, proc, flag, receive>> /\ l = Len(fifo[me.to][c]) /\ l <= Len(q)
        /\ \A i \in 1 .. l : q[i] = fifo[me.to][c][i]
    <3>1. UNCHANGED <<conf, proc, flag, receive>> /\ l = Len(fifo[me.to][c])
      BY <1>10, <2>1
    <3>2. l <= Len(q)
      BY <1>1, <2>1, <2>3
    <3>3. \A i \in 1 .. l : q[i] = fifo[me.to][c][i]
      BY <2>1, <2>3
    <3> QED
      BY <3>1, <3>2, <3>3
  <2>15. Behind(c, k, me.to, q, l)
    BY <2>6, <2>7 DEF Behind
  <2>9. fifo' \in [Receivers -> [Cards -> Seq(Packets)]]
    BY <2>4 DEF Inv, Types
  <2>10. \A o \in Receivers, d \in Cards : o # me.to \/ d # c => fifo'[o][d] = fifo[o][d]
    BY <1>2, <1>3, <1>7, <2>4, <2>8, <2>15, Received
  <2>11. \A o \in Receivers, d \in Cards :
          Len(fifo'[o][d]) \in Nat /\ Len(fifo'[o][d]) >= Len(fifo[o][d])
    BY <1>2, <1>3, <1>7, <2>4, <2>8, <2>15, Received
  <2>12. /\ \A o \in Receivers' : Placed(c, o)' /\ Ordered(c, o)'
        /\ Apart(c)'
    BY <1>2, <1>3, <1>7, <2>4, <2>8, <2>15, Received
  <2>13. \A o \in Receivers : \A i \in Pending(o, c)' :
           \/ i \in Pending(o, c) /\ fifo'[o][c][i] = fifo[o][c][i]
           \/ o = me.to /\ i \in l + 1 .. Len(q) /\ fifo'[o][c][i] = q[i]
    <3>1. OnlyThese(c, me.to, q, l)
      BY <1>2, <1>3, <1>7, <2>4, <2>8, <2>15, Received
    <3> QED
      BY <3>1 DEF OnlyThese
  <2>14. \A o \in Receivers : \A i \in Pending(o, c)' :
           \/ i \in Pending(o, c) /\ fifo'[o][c][i] = fifo[o][c][i]
           \/ o = me.to /\ \E j \in DOMAIN mine : fifo'[o][c][i].slot = pkts[mine[j]]
    <3>1. \A i \in l + 1 .. Len(q) : \E j \in DOMAIN mine : q[i].slot = pkts[mine[j]]
      BY <1>1, <2>5
    <3>2. ASSUME NEW o \in Receivers, NEW i \in Pending(o, c)',
                 i \in l + 1 .. Len(q), fifo'[o][c][i] = q[i]
          PROVE  \E j \in DOMAIN mine : fifo'[o][c][i].slot = pkts[mine[j]]
      BY <3>1, <3>2
    <3> QED
      BY <2>13, <3>2
  <2>16. AsDealt(c, pkts, mine)
    BY <2>14 DEF AsDealt
  <2>17. Spared(c, k, pkts, mine)
    BY <1>1, <1>4, <1>10 DEF Spared
  <2>18. /\ flag' \in [Cards -> [Rings -> [Slots -> BOOLEAN]]]
         /\ \A d \in Cards : d # c => flag'[d] = flag[d]
    BY <1>10 DEF Inv, Types
  <2>19. AllDealt(c, me.to, k, pkts, mine)
    <3>1. AllThese(c, me.to, q, l)
      BY <1>2, <2>4, <2>8, QueueGrows
    <3>2. ASSUME NEW j \in DOMAIN mine
          PROVE  \E i \in Pending(me.to, c)' :
                   fifo'[me.to][c][i] = [ring |-> k, slot |-> pkts[mine[j]]]
      <4>1. PICK i \in l + 1 .. Len(q) : i - l = j
        <5>1. j \in 1 .. m /\ Len(q) = l + m
          BY <1>1, <2>3
        <5>2. j \in Nat /\ j >= 1 /\ j <= m
          BY <1>1, <5>1
        <5>3. j + l \in l + 1 .. l + m /\ (j + l) - l = j
          BY <1>1, <2>1, <5>2, InTail
        <5> QED
          BY <5>1, <5>3
      <4>2. i \in Pending(me.to, c)' /\ fifo'[me.to][c][i] = q[i]
        BY <3>1 DEF AllThese
      <4>3. q[i] = [ring |-> k, slot |-> pkts[mine[j]]]
        <5>1. i \in l + 1 .. l + m /\ j \in 1 .. m
          BY <1>1, <2>3
        <5>2. q[i] = new[j] /\ slots[j] = pkts[mine[j]]
          BY <1>1, <2>3, <4>1, <5>1
        <5> QED
          BY <1>1, <2>2, <5>1, <5>2
      <4> QED
        BY <4>2, <4>3
    <3>3. \A o \in Receivers : \A i \in Pending(o, c) :
            i \in Pending(o, c)' /\ fifo'[o][c][i] = fifo[o][c][i]
      BY <3>1 DEF AllThese
    <3>4. \A h \in Rings, s \in Slots : flag'[c][h][s] => flag[c][h][s]
      BY <1>10
    <3> QED
      BY <3>2, <3>3, <3>4 DEF AllDealt
  <2> QED
    BY <2>9, <2>10, <2>11, <2>12, <2>16, <2>17, <2>18, <2>19
(* ... or all of them dropped. *)
<1>11. CASE /\ flag' = [flag EXCEPT ![c][k] = [s \in Slots |->
                 @[s] /\ \A i \in 1 .. Len(slots) : slots[i] # s]]
            /\ UNCHANGED fifo
  <2>1. PICK lower \in [Slots -> BOOLEAN] :
          /\ flag' = [flag EXCEPT ![c][k] = lower]
          /\ \A s \in Slots : lower[s] <=> flag[c][k][s] /\ \A i \in 1 .. m : slots[i] # s
    <3> DEFINE w == [s \in Slots |-> flag[c][k][s] /\ \A i \in 1 .. Len(slots) : slots[i] # s]
    <3>1. w \in [Slots -> BOOLEAN]
      OBVIOUS
    <3>2. flag' = [flag EXCEPT ![c][k] = w]
      BY <1>11 DEF Inv, Types
    <3>3. \A s \in Slots : w[s] <=> flag[c][k][s] /\ \A i \in 1 .. m : slots[i] # s
      BY <1>1
    <3> HIDE DEF w
    <3> QED
      BY <3>1, <3>2, <3>3
  <2>2. /\ flag' \in [Cards -> [Rings -> [Slots -> BOOLEAN]]]
        /\ \A d \in Cards : d # c => flag'[d] = flag[d]
        /\ \A h \in Rings : h # k => flag'[c][h] = flag[c][h]
        /\ flag'[c][k] = lower
    BY <2>1 DEF Inv, Types
  <2>3. ASSUME NEW o \in Receivers, NEW i \in Pending(o, c)
        PROVE  flag'[c][fifo[o][c][i].ring][fifo[o][c][i].slot]
    <3>1. /\ fifo[o][c][i].ring \in Rings /\ fifo[o][c][i].slot \in Slots
          /\ flag[c][fifo[o][c][i].ring][fifo[o][c][i].slot]
      BY PendingIs
    <3>2. CASE fifo[o][c][i].ring # k
      BY <2>2, <3>1, <3>2
    <3>3. CASE fifo[o][c][i].ring = k
      <4>1. \A j \in 1 .. m : slots[j] # fifo[o][c][i].slot
        BY <1>1, <1>6, <3>3
      <4>2. lower[fifo[o][c][i].slot]
        BY <2>1, <3>1, <3>3, <4>1
      <4> QED
        BY <2>2, <3>3, <4>2
    <3> QED
      BY <3>2, <3>3
  <2>4. /\ \A o \in Receivers : Pending(o, c)' = Pending(o, c)
        /\ \A o \in Receivers' : Placed(c, o)' /\ Ordered(c, o)'
        /\ Apart(c)'
    BY <1>7, <1>11, <2>3, SameQueues
  <2>5. ASSUME NEW i \in 1 .. n, ~ \E j \in DOMAIN mine : mine[j] = i
        PROVE  flag'[c][k][pkts[i]]
    <3>1. ASSUME NEW j \in 1 .. m PROVE slots[j] # pkts[i]
      <4>1. mine[j] \in 1 .. n /\ mine[j] # i /\ slots[j] = pkts[mine[j]]
        BY <1>1, <2>5
      <4>2. Pos(c, k, pkts[mine[j]]) # Pos(c, k, pkts[i])
        <5>1. mine[j] < i \/ i < mine[j]
          BY <1>1, <4>1
        <5>2. Pos(c, k, pkts[mine[j]]) \in Nat /\ Pos(c, k, pkts[i]) \in Nat
          BY <1>4, <4>1
        <5> QED
          BY <1>5, <4>1, <5>1, <5>2
      <4> QED
        BY <4>1, <4>2
    <3>2. lower[pkts[i]]
      BY <1>4, <2>1, <3>1
    <3> QED
      BY <2>2, <3>2
  <2>6. AllDealt(c, me.to, k, pkts, mine)
    <3>1. ASSUME NEW h \in Rings, NEW s \in Slots, flag'[c][h][s] PROVE flag[c][h][s]
      BY <2>1, <2>2, <3>1
    <3>2. ASSUME NEW j \in DOMAIN mine PROVE ~ flag'[c][k][pkts[mine[j]]]
      <4>1. j \in 1 .. m /\ slots[j] = pkts[mine[j]] /\ slots[j] \in Slots
        BY <1>1
      <4>2. ~ lower[slots[j]]
        BY <2>1, <4>1
      <4> QED
        BY <2>2, <4>1, <4>2
    <3>3. \A o \in Receivers : \A i \in Pending(o, c) :
            i \in Pending(o, c)' /\ fifo'[o][c][i] = fifo[o][c][i]
      BY <1>11, <2>4
    <3> QED
      BY <3>1, <3>2, <3>3 DEF AllDealt
  <2> QED
    <3>1. fifo' \in [Receivers -> [Cards -> Seq(Packets)]]
      BY <1>11 DEF Inv, Types
    <3>2. Spared(c, k, pkts, mine)
      BY <1>1, <2>5 DEF Spared
    <3>3. \A o \in Receivers : \A i \in Pending(o, c)' :
            i \in Pending(o, c) /\ fifo'[o][c][i] = fifo[o][c][i]
      BY <1>11, <2>4
    <3>4. \A o \in Receivers, d \in Cards :
            /\ d # c => fifo'[o][d] = fifo[o][d]
            /\ Len(fifo'[o][d]) \in Nat /\ Len(fifo'[o][d]) >= Len(fifo[o][d])
      BY <1>8, <1>11
    <3> QED
      BY <2>2, <2>4, <2>6, <3>1, <3>2, <3>3, <3>4 DEF AsDealt
<1> QED
  BY <1>1, <1>9, <1>10, <1>11 DEF ReceivePktBatch

LEMMA DispatchPktBatchInv ==
  ASSUME Inv, NEW c \in Cards, DispatchPktBatch(c)
  PROVE  Inv'
<1>1. PICK me \in Places, k \in Rings, pkts \in Seq(Slots) :
        /\ me = capture[c] /\ k = me.ring /\ pkts = me.pkts /\ me.pc = "batch"
        /\ UNCHANGED <<conf, ring, proc, read, current, receive>>
  <2>1. capture[c] \in Places /\ capture[c].ring \in Rings /\ capture[c].pkts \in Seq(Slots)
    BY PlaceIs
  <2> QED
    BY <2>1 DEF DispatchPktBatch, At
<1>2. PICK mine \in Selections(Len(pkts)), rest \in Selections(Len(pkts)) :
        /\ Dealt(Len(pkts), mine, rest)
        /\ IF mine = <<>> THEN UNCHANGED <<fifo, flag>>
                          ELSE ReceivePktBatch(me.to, c, k, Picked(pkts, mine))
        /\ IF me.to = conf.receivers - 1
             THEN Goto(c, [me EXCEPT !.pc = "refresh", !.pkts = <<>>, !.to = 0])
             ELSE Goto(c, [me EXCEPT !.to = @ + 1, !.pkts = Picked(pkts, rest)])
  BY <1>1 DEF DispatchPktBatch, Picked
<1>3. /\ Cards' = Cards /\ Rings' = Rings /\ Receivers' = Receivers /\ Packets' = Packets
      /\ Turns' = Turns
  BY <1>1 DEF Cards, Rings, Receivers, Packets, Turns
<1>4. UNCHANGED <<conf, proc, read, receive>>
  BY <1>1
<1>5. /\ fifo' \in [Receivers -> [Cards -> Seq(Packets)]]
      /\ flag' \in [Cards -> [Rings -> [Slots -> BOOLEAN]]]
      /\ \A d \in Cards : d # c => flag'[d] = flag[d]
  BY <1>1, <1>2, <1>4, DealtIs
<1>6. /\ \A o \in Receivers, d \in Cards :
           /\ d # c => fifo'[o][d] = fifo[o][d]
           /\ Len(fifo'[o][d]) \in Nat /\ Len(fifo'[o][d]) >= Len(fifo[o][d])
      /\ \A o \in Receivers' : Placed(c, o)' /\ Ordered(c, o)'
      /\ Apart(c)'
  BY <1>1, <1>2, <1>4, DealtIs
<1>7. /\ \A i \in 1 .. Len(pkts) :
           flag'[c][k][pkts[i]] \/ \E j \in DOMAIN mine : mine[j] = i
      /\ AsDealt(c, pkts, mine)
  <2>1. AsDealt(c, pkts, mine)
    BY <1>1, <1>2, <1>4, DealtIs
  <2>2. Spared(c, k, pkts, mine)
    BY <1>1, <1>2, <1>4, DealtIs
  <2> QED
    BY <2>1, <2>2 DEF Spared
<1>8. /\ me.to \in Receivers /\ Batched(c) /\ proc[c][k] # Unset /\ me.cur \in Slots /\ me.left \in Nat
      /\ ~ conf.batch => me.pkts = <<>>
  BY <1>1, PlaceIs DEF Walks
<1>9. PICK n \in Nat, m \in Nat, left \in Seq(Slots) :
        /\ n = Len(pkts) /\ m <= n /\ DOMAIN rest = 1 .. m
        /\ left = Picked(pkts, rest) /\ Len(left) = m
        /\ \A j \in 1 .. m : rest[j] \in 1 .. n /\ left[j] = pkts[rest[j]] /\ left[j] \in Slots
        /\ \A i, j \in 1 .. m : i < j => rest[i] < rest[j]
  BY PickedIs
<1>10. PICK place \in Places :
         /\ Goto(c, place) /\ place.ring = k
         /\ \/ place.pc = "refresh" /\ place.pkts = <<>> /\ place.to = 0
            \/ place.pc = "batch" /\ place.pkts = left /\ place.to = me.to + 1
  <2>1. CASE me.to = conf.receivers - 1
    <3> DEFINE place == [me EXCEPT !.pc = "refresh", !.pkts = <<>>, !.to = 0]
    <3>1. 0 \in Receivers /\ <<>> \in Seq(Slots)
      BY ConfIs DEF Inv, Types
    <3>2. place \in Places /\ place.ring = k /\ place.pc = "refresh"
          /\ place.pkts = <<>> /\ place.to = 0
      BY <1>1, <3>1 DEF Places
    <3> QED
      BY <1>2, <2>1, <3>2
  <2>2. CASE me.to # conf.receivers - 1
    <3> DEFINE place == [me EXCEPT !.to = @ + 1, !.pkts = left]
    <3>1. me.to + 1 \in Receivers
      <4>1. conf.receivers \in Nat \ {0}
        BY ConfIs DEF Inv, Types
      <4> QED
        BY <1>8, <2>2, <4>1 DEF Receivers
    <3>2. place \in Places /\ place.ring = k /\ place.pc = "batch"
          /\ place.pkts = left /\ place.to = me.to + 1
      BY <1>1, <3>1 DEF Places
    <3> QED
      BY <1>2, <1>9, <2>2, <3>2
  <2> QED
    BY <2>1, <2>2
<1>11. /\ capture' \in [Cards' -> Places'] /\ capture'[c] = place
       /\ \A d \in Cards : d # c => capture'[d] = capture[d]
  BY <1>1, <1>10, CaptureIs DEF Inv
<1>12. Types'
  BY <1>1, <1>3, <1>5, <1>11 DEF Inv, Types
<1>13. Walks(c)'
  <2>1. ~ conf.batch => place.pkts = <<>>
    <3> SUFFICES ASSUME ~ conf.batch PROVE place.pkts = <<>>
      OBVIOUS
    <3>1. n = 0
      BY <1>1, <1>8, <1>9
    <3>2. Len(left) = 0
      BY <1>9, <3>1
    <3>3. left = <<>>
      BY <3>2
    <3> QED
      BY <1>10, <3>3
  <2> QED
    BY <1>1, <1>8, <1>10, <1>11, <2>1 DEF Walks
<1>14. Batched(c)'
  <2>1. CASE place.pkts = <<>>
    BY <1>11, <2>1, BatchedEmpty
  <2>2. CASE place.pc = "batch" /\ place.pkts = left /\ place.to = me.to + 1
    <3>1. ASSUME NEW i \in 1 .. m
          PROVE  /\ rest[i] \in 1 .. n /\ left[i] = pkts[rest[i]] /\ rest[i] \in DOMAIN pkts
                 /\ ~ \E j \in DOMAIN mine : mine[j] = rest[i]
      <4>1. rest[i] \in 1 .. n /\ left[i] = pkts[rest[i]] /\ i \in DOMAIN rest
        BY <1>9
      <4>2. (\E j \in DOMAIN mine : mine[j] = rest[i]) # (\E j \in DOMAIN rest : rest[j] = rest[i])
        BY <1>2, <1>9, <4>1 DEF Dealt
      <4>3. rest[i] \in DOMAIN pkts
        BY <1>9, <4>1
      <4> QED
        BY <4>1, <4>2, <4>3
    <3>2. ASSUME NEW i \in 1 .. m
          PROVE  /\ Pos(c, k, left[i]) < Captured(c, k)
                 /\ flag'[c][k][left[i]]
      <4>1. Pos(c, k, left[i]) < Captured(c, k)
        BY <1>1, <1>8, <3>1 DEF Batched
      <4>2. flag'[c][k][left[i]]
        BY <1>7, <1>9, <3>1
      <4> QED
        BY <4>1, <4>2
    <3>3. ASSUME NEW i \in 1 .. m, NEW j \in 1 .. m, i < j
          PROVE  Pos(c, k, left[i]) < Pos(c, k, left[j])
      <4>1. rest[i] < rest[j]
        BY <1>9, <3>3
      <4> QED
        BY <1>1, <1>8, <3>1, <4>1 DEF Batched
    <3>4. ASSUME NEW o \in Receivers, NEW i \in Pending(o, c)', NEW j \in 1 .. m,
                 fifo'[o][c][i].ring = k
          PROVE  /\ fifo'[o][c][i].slot # left[j]
                 /\ o >= me.to + 1 => Pos(c, k, fifo'[o][c][i].slot) < Pos(c, k, left[j])
      <4>1. CASE i \in Pending(o, c) /\ fifo'[o][c][i] = fifo[o][c][i]
        <5>1. /\ fifo[o][c][i].slot # pkts[rest[j]]
              /\ o >= me.to => Pos(c, k, fifo[o][c][i].slot) < Pos(c, k, pkts[rest[j]])
          BY <1>1, <1>8, <3>1, <3>4, <4>1 DEF Batched
        <5>2. o >= me.to + 1 => o >= me.to
          BY <1>8 DEF Receivers
        <5> QED
          BY <3>1, <4>1, <5>1, <5>2
      <4>2. CASE o = me.to /\ \E h \in DOMAIN mine : fifo'[o][c][i].slot = pkts[mine[h]]
        <5>1. PICK h \in DOMAIN mine : fifo'[o][c][i].slot = pkts[mine[h]]
          BY <4>2
        <5>2. mine[h] # rest[j]
          BY <3>1, <5>1
        <5>3. mine[h] \in 1 .. n
          BY <1>9, <5>1, PickedIs
        <5>4. pkts[mine[h]] # pkts[rest[j]]
          <6>1. \A a, b \in 1 .. n : a < b => Pos(c, k, pkts[a]) < Pos(c, k, pkts[b])
            <7>1. DOMAIN pkts = 1 .. n
              BY <1>9
            <7> QED
              BY <1>1, <1>8, <7>1 DEF Batched
          <6>2. \A a \in 1 .. n : Pos(c, k, pkts[a]) \in Nat
            <7>1. proc[c][k] \in Slots /\ \A a \in 1 .. n : pkts[a] \in Slots
              BY <1>8, <1>9, IndexedIs
            <7> QED
              BY <7>1, CountIs DEF Pos
          <6>3. mine[h] < rest[j] \/ rest[j] < mine[h]
            BY <3>1, <5>2, <5>3
          <6>4. Pos(c, k, pkts[mine[h]]) # Pos(c, k, pkts[rest[j]])
            BY <3>1, <5>3, <6>1, <6>2, <6>3
          <6> QED
            BY <6>4
        <5>5. ~ (o >= me.to + 1)
          BY <1>8, <4>2 DEF Receivers
        <5> QED
          BY <3>1, <5>1, <5>4, <5>5
      <4> QED
        BY <1>1, <1>7, <4>1, <4>2 DEF AsDealt
    <3>5. /\ \A s : Pos(c, k, s) = SlotCount(proc'[c][k], s)
          /\ Captured(c, k)' = Captured(c, k)
          /\ capture'[c].pkts = left /\ capture'[c].ring = k /\ DOMAIN left = 1 .. m
          /\ capture'[c].to = me.to + 1
      BY <1>1, <1>9, <1>10, <1>11, <2>2 DEF Pos, Captured
    <3>6. \A i \in DOMAIN capture'[c].pkts :
            /\ SlotCount(proc'[c][k], capture'[c].pkts[i]) < Captured(c, k)'
            /\ flag'[c][k][capture'[c].pkts[i]]
      BY <3>2, <3>5
    <3>7. \A i, j \in DOMAIN capture'[c].pkts :
            i < j => SlotCount(proc'[c][k], capture'[c].pkts[i])
                       < SlotCount(proc'[c][k], capture'[c].pkts[j])
      BY <3>3, <3>5
    <3>8. \A o \in Receivers : \A i \in Pending(o, c)', j \in DOMAIN capture'[c].pkts :
            fifo'[o][c][i].ring = k =>
              /\ fifo'[o][c][i].slot # capture'[c].pkts[j]
              /\ o >= capture'[c].to =>
                   SlotCount(proc'[c][k], fifo'[o][c][i].slot)
                     < SlotCount(proc'[c][k], capture'[c].pkts[j])
      BY <3>4, <3>5
    <3> QED
      BY <1>3, <3>5, <3>6, <3>7, <3>8 DEF Batched, Pos
  <2> QED
    BY <1>10, <2>1, <2>2
<1>15. CardInv(c)'
  <2>1. \A h \in Rings : Indexed(c, h)'
    BY <1>1 DEF Inv, CardInv, Indexed, Captured, Published
  <2> QED
    BY <1>3, <1>6, <1>13, <1>14, <2>1 DEF CardInv
<1> QED
  BY <1>1, <1>5, <1>6, <1>11, <1>12, <1>15, CardStep

-----------------------------------------------------------------------------
(* Slots are handed back: proc_index moves up to a slot that no packet that*)
(* waits is behind, since their flags are up.                              *)
LEMMA HandBackInv ==
  ASSUME Inv, NEW c \in Cards, HandBack(c)
  PROVE  Inv'
<1>1. PICK me \in Places, k \in Rings :
        /\ me = capture[c] /\ k = me.ring /\ me.pc = "scan"
        /\ me.cur \in Slots /\ me.left \in Nat
        /\ proc' = [proc EXCEPT ![c][k] = me.cur]
        /\ ring' = [ring EXCEPT ![c][k].cur = me.cur]
        /\ NextRing(c, capture[c].ring)
        /\ UNCHANGED <<conf, flag, read, current, fifo, receive>>
  BY PlaceIs DEF HandBack, At
<1>2. /\ proc[c][k] # Unset
      /\ Pos(c, k, me.cur) + me.left = Captured(c, k)
      /\ \A s \in Slots : Pos(c, k, s) < Pos(c, k, me.cur) => ~ flag[c][k][s]
  BY <1>1, PlaceIs DEF Walks
<1>3. /\ proc[c][k] \in Slots /\ read[c][k] \in Slots /\ ring[c][k].tail \in Slots
      /\ Captured(c, k) \in Nat /\ Published(c, k) \in Nat /\ Captured(c, k) <= Published(c, k)
  BY <1>2, IndexedIs
<1>4. /\ \A s \in Slots : Pos(c, k, s) \in Nat
      /\ Pos(c, k, me.cur) <= Captured(c, k)
  <2>1. \A s \in Slots : Pos(c, k, s) \in Nat
    BY <1>3, CountIs DEF Pos
  <2> QED
    BY <1>1, <1>2, <1>3, <2>1
<1>5. \A s \in Slots : Pos(c, k, me.cur) <= Pos(c, k, s) =>
        SlotCount(me.cur, s) = Pos(c, k, s) - Pos(c, k, me.cur)
  BY <1>1, <1>3, ShiftCount DEF Pos
<1>6. /\ Cards' = Cards /\ Rings' = Rings /\ Receivers' = Receivers /\ Packets' = Packets
      /\ Turns' = Turns
      /\ \A d \in Cards, r \in Receivers : Pending(r, d)' = Pending(r, d)
  BY <1>1 DEF Cards, Rings, Receivers, Packets, Turns, Pending
<1>7. /\ proc' \in [Cards -> [Rings -> Slots \cup {Unset}]]
      /\ proc'[c][k] = me.cur
      /\ \A h \in Rings : h # k => proc'[c][h] = proc[c][h]
      /\ \A d \in Cards : d # c => proc'[d] = proc[d]
  BY <1>1 DEF Inv, Types
<1>8. /\ ring' \in [Cards -> [Rings -> [cur : Slots, tail : Slots]]]
      /\ ring'[c][k].cur = me.cur /\ ring'[c][k].tail = ring[c][k].tail
      /\ \A h \in Rings : h # k => ring'[c][h] = ring[c][h]
      /\ \A d \in Cards : d # c => ring'[d] = ring[d]
  <2> DEFINE Cursors == [cur : Slots, tail : Slots]
  <2>1. ring \in [Cards -> [Rings -> Cursors]]
    BY DEF Inv, Types
  <2>2. PICK rx \in Cursors :
          rx = [ring[c][k] EXCEPT !.cur = me.cur] /\ rx.cur = me.cur /\ rx.tail = ring[c][k].tail
    <3>1. ring[c][k] \in Cursors
      BY <2>1
    <3> QED
      BY <1>1, <3>1
  <2>3. ring' = [ring EXCEPT ![c][k] = rx]
    BY <1>1, <2>1, <2>2
  <2> HIDE DEF Cursors
  <2>4. /\ ring' \in [Cards -> [Rings -> Cursors]]
        /\ ring'[c][k] = rx
        /\ \A h \in Rings : h # k => ring'[c][h] = ring[c][h]
        /\ \A d \in Cards : d # c => ring'[d] = ring[d]
    BY <2>1, <2>3
  <2> QED
    BY <2>2, <2>4 DEF Cursors
<1>9. PICK place \in Places :
        /\ Goto(c, place)
        /\ place.pc \in {"poll", "ring"} /\ place.pkts = <<>> /\ place.to = 0
  BY <1>1, NextRingIs
<1>10. /\ capture' \in [Cards' -> Places'] /\ capture'[c] = place
       /\ \A d \in Cards : d # c => capture'[d] = capture[d]
  BY <1>1, <1>9, CaptureIs DEF Inv
<1>11. Types'
  BY <1>1, <1>6, <1>7, <1>8, <1>10 DEF Inv, Types
<1>12. /\ Captured(c, k)' = Captured(c, k) - Pos(c, k, me.cur)
       /\ Published(c, k)' = Published(c, k) - Pos(c, k, me.cur)
  <2>1. SlotCount(me.cur, read[c][k]) = Captured(c, k) - Pos(c, k, me.cur)
    BY <1>3, <1>4, <1>5 DEF Captured, Pos
  <2>2. SlotCount(me.cur, ring[c][k].tail) = Published(c, k) - Pos(c, k, me.cur)
    <3>1. Pos(c, k, me.cur) <= Published(c, k)
      BY <1>1, <1>3, <1>4
    <3> QED
      BY <1>3, <1>5, <3>1 DEF Published, Pos
  <2> QED
    BY <1>1, <1>7, <1>8, <2>1, <2>2 DEF Captured, Published
<1>13. ASSUME NEW h \in Rings PROVE Indexed(c, h)'
  <2>1. Indexed(c, h)
    BY DEF Inv, CardInv
  <2>2. CASE h # k
    BY <1>1, <1>7, <1>8, <2>1, <2>2 DEF Indexed, Captured, Published
  <2>3. CASE h = k
    <3>1. Captured(c, k)' <= Published(c, k)'
      BY <1>1, <1>3, <1>4, <1>12
    <3> QED
      BY <1>1, <1>3, <1>7, <1>8, <2>3, <3>1, SlotsAre DEF Indexed
  <2> QED
    BY <2>2, <2>3
<1>14. Walks(c)' /\ Batched(c)'
  BY <1>9, <1>10, BatchedEmpty DEF Walks
<1>15. ASSUME NEW r \in Receivers, NEW i \in Pending(r, c), NEW p \in Packets, p = fifo[r][c][i]
       PROVE  /\ p.ring \in Rings
              /\ proc'[c][p.ring] # Unset
              /\ SlotCount(proc'[c][p.ring], p.slot) =
                   IF p.ring = k THEN Pos(c, k, p.slot) - Pos(c, k, me.cur) ELSE Pos(c, p.ring, p.slot)
              /\ SlotCount(proc'[c][p.ring], p.slot) < Captured(c, p.ring)'
              /\ Pos(c, p.ring, p.slot) \in Nat
  <2>1. /\ p.ring \in Rings /\ p.slot \in Slots
        /\ proc[c][p.ring] \in Slots
        /\ Pos(c, p.ring, p.slot) \in Nat
        /\ Pos(c, p.ring, p.slot) < Captured(c, p.ring)
        /\ flag[c][p.ring][p.slot]
    BY <1>15, PendingIs
  <2>2. CASE p.ring = k
    <3>1. ~ (Pos(c, k, p.slot) < Pos(c, k, me.cur))
      BY <1>2, <2>1, <2>2
    <3>2. Pos(c, k, me.cur) <= Pos(c, k, p.slot)
      BY <1>1, <1>4, <2>1, <3>1
    <3>3. SlotCount(me.cur, p.slot) = Pos(c, k, p.slot) - Pos(c, k, me.cur)
      BY <1>5, <2>1, <3>2
    <3>4. SlotCount(me.cur, p.slot) < Captured(c, k)'
      BY <1>1, <1>3, <1>4, <1>12, <2>1, <2>2, <3>3
    <3> QED
      BY <1>1, <1>7, <2>1, <2>2, <3>3, <3>4, SlotsAre
  <2>3. CASE p.ring # k
    <3>1. proc'[c][p.ring] = proc[c][p.ring] /\ Captured(c, p.ring)' = Captured(c, p.ring)
      BY <1>1, <1>7, <2>1, <2>3 DEF Captured
    <3> QED
      BY <2>1, <2>3, <3>1, SlotsAre DEF Pos
  <2> QED
    BY <2>2, <2>3
<1>16. \A r \in Receivers : \A i \in Pending(r, c) : fifo[r][c][i] \in Packets
  BY PendingIs
<1>17. ASSUME NEW r \in Receivers PROVE Placed(c, r)' /\ Ordered(c, r)'
  <2>1. Placed(c, r) /\ Ordered(c, r)
    BY DEF Inv, CardInv
  <2>2. Placed(c, r)'
    <3>1. ASSUME NEW i \in Pending(r, c), NEW p \in Packets, p = fifo[r][c][i]
          PROVE  /\ proc'[c][p.ring] # Unset
                 /\ SlotCount(proc'[c][p.ring], p.slot) < Captured(c, p.ring)'
                 /\ flag[c][p.ring][p.slot]
      <4>1. /\ proc'[c][p.ring] # Unset
            /\ SlotCount(proc'[c][p.ring], p.slot) < Captured(c, p.ring)'
        BY <1>15, <3>1
      <4>2. flag[c][p.ring][p.slot]
        BY <2>1, <3>1 DEF Placed
      <4> QED
        BY <4>1, <4>2
    <3> QED
      BY <1>1, <1>6, <1>16, <3>1 DEF Placed, Pos
  <2>3. ASSUME NEW i \in Pending(r, c), NEW j \in Pending(r, c), NEW p \in Packets, NEW q \in Packets,
               p = fifo[r][c][i], q = fifo[r][c][j], i < j, p.ring = q.ring
        PROVE  SlotCount(proc'[c][p.ring], p.slot) < SlotCount(proc'[c][q.ring], q.slot)
    <3>1. Pos(c, p.ring, p.slot) < Pos(c, q.ring, q.slot)
      BY <2>1, <2>3 DEF Ordered
    <3>2. /\ SlotCount(proc'[c][p.ring], p.slot) =
               IF p.ring = k THEN Pos(c, k, p.slot) - Pos(c, k, me.cur) ELSE Pos(c, p.ring, p.slot)
          /\ Pos(c, p.ring, p.slot) \in Nat
      BY <1>15, <2>3
    <3>3. /\ SlotCount(proc'[c][q.ring], q.slot) =
               IF q.ring = k THEN Pos(c, k, q.slot) - Pos(c, k, me.cur) ELSE Pos(c, q.ring, q.slot)
          /\ Pos(c, q.ring, q.slot) \in Nat
      BY <1>15, <2>3
    <3>4. Pos(c, k, me.cur) \in Nat
      BY <1>1, <1>4
    <3> QED
      BY <2>3, <3>1, <3>2, <3>3, <3>4
  <2>4. Ordered(c, r)'
    BY <1>1, <1>6, <1>16, <2>3 DEF Ordered, Pos
  <2> QED
    BY <2>2, <2>4
<1>18. Apart(c)'
  BY <1>1, <1>6 DEF Inv, CardInv, Apart
<1>19. CardInv(c)'
  BY <1>6, <1>13, <1>14, <1>17, <1>18 DEF CardInv
<1>20. \A r \in Receivers, d \in Cards : Len(fifo[r][d]) \in Nat
  BY DEF Inv, Types
<1> QED
  BY <1>1, <1>7, <1>8, <1>10, <1>11, <1>19, <1>20, CardStep

-----------------------------------------------------------------------------
(* The processing threads.                                                 *)

LEMMA ReceiverStep ==
  ASSUME Inv, NEW r \in Receivers, UNCHANGED <<conf, ring, proc, read, capture, current>>,
         flag' \in [Cards -> [Rings -> [Slots -> BOOLEAN]]],
         fifo' \in [Receivers -> [Cards -> Seq(Packets)]],
         receive' \in [Receivers -> Turns],
         \A o \in Receivers : o # r => fifo'[o] = fifo[o] /\ receive'[o] = receive[o],
         \A c \in Cards : CardInv(c)',
         Serves(r)'
  PROVE  Inv'
<1>1. /\ Cards' = Cards /\ Rings' = Rings /\ Receivers' = Receivers /\ Packets' = Packets
      /\ Turns' = Turns /\ Places' = Places
  BY DEF Cards, Rings, Receivers, Packets, Turns, Places
<1>2. Types'
  BY <1>1 DEF Inv, Types
<1>3. \A o \in Receivers : Serves(o)'
  BY DEF Inv, Serves
<1> QED
  BY <1>1, <1>2, <1>3 DEF Inv

(* What waits is part of what waited, further on in its queue.             *)
Shrinks(c, shift) ==
  \A o \in Receivers : \A i \in Pending(o, c)' :
    /\ i \in Nat /\ i + shift[o] \in Pending(o, c)
    /\ fifo'[o][c][i] = fifo[o][c][i + shift[o]]

FlagsFall(c) ==
  /\ \A h \in Rings, s \in Slots : flag'[c][h][s] => flag[c][h][s]
  /\ \A o \in Receivers : \A i \in Pending(o, c)' :
       flag'[c][fifo'[o][c][i].ring][fifo'[o][c][i].slot]
  /\ \A i \in DOMAIN capture[c].pkts : flag'[c][capture[c].ring][capture[c].pkts[i]]
  /\ At(c, "dispatch") => flag'[c][capture[c].ring][capture[c].cur]

LEMMA FewerPending ==
  ASSUME Inv, NEW c \in Cards, UNCHANGED <<conf, ring, proc, read, capture>>,
         NEW shift \in [Receivers -> Nat], Shrinks(c, shift), FlagsFall(c)
  PROVE  CardInv(c)'
<1>1. CardInv(c) /\ Receivers' = Receivers /\ Rings' = Rings /\ Slots' = Slots
  BY DEF Inv, Receivers, Rings
<1>2. \A h \in Rings : Indexed(c, h)'
  BY <1>1 DEF CardInv, Indexed, Captured, Published
<1>3. Walks(c)'
  <2>1. Walks(c) /\ capture[c].ring \in Rings /\ capture' = capture
    BY PlaceIs
  <2>2. \A s \in Slots : flag'[c][capture[c].ring][s] => flag[c][capture[c].ring][s]
    BY <2>1 DEF FlagsFall
  <2>3. capture[c].pc = "dispatch" => flag'[c][capture[c].ring][capture[c].cur]
    BY DEF FlagsFall, At
  <2> QED
    BY <1>1, <2>1, <2>2, <2>3 DEF Walks, Pos, Captured, Published
<1>4. ASSUME NEW o \in Receivers PROVE Placed(c, o)' /\ Ordered(c, o)'
  <2>1. Placed(c, o) /\ Ordered(c, o) /\ shift[o] \in Nat
    BY <1>1 DEF CardInv
  <2>2. Placed(c, o)'
    <3>1. ASSUME NEW i \in Pending(o, c)'
          PROVE  LET p == fifo'[o][c][i] IN
                 /\ proc[c][p.ring] # Unset
                 /\ Pos(c, p.ring, p.slot) < Captured(c, p.ring)
                 /\ flag'[c][p.ring][p.slot]
      <4>1. i + shift[o] \in Pending(o, c) /\ fifo'[o][c][i] = fifo[o][c][i + shift[o]]
        BY DEF Shrinks
      <4>2. flag'[c][fifo'[o][c][i].ring][fifo'[o][c][i].slot]
        BY DEF FlagsFall
      <4> QED
        BY <2>1, <4>1, <4>2 DEF Placed
    <3> QED
      BY <3>1 DEF Placed, Pos, Captured
  <2>3. Ordered(c, o)'
    <3>1. ASSUME NEW i \in Pending(o, c)', NEW j \in Pending(o, c)', i < j,
                 fifo'[o][c][i].ring = fifo'[o][c][j].ring
          PROVE  SlotCount(proc[c][fifo'[o][c][i].ring], fifo'[o][c][i].slot)
                   < SlotCount(proc[c][fifo'[o][c][j].ring], fifo'[o][c][j].slot)
      <4>1. /\ i \in Nat /\ i + shift[o] \in Pending(o, c) /\ fifo'[o][c][i] = fifo[o][c][i + shift[o]]
            /\ j \in Nat /\ j + shift[o] \in Pending(o, c) /\ fifo'[o][c][j] = fifo[o][c][j + shift[o]]
        BY DEF Shrinks
      <4>2. i + shift[o] < j + shift[o]
        BY <2>1, <3>1, <4>1
      <4> QED
        BY <2>1, <3>1, <4>1, <4>2 DEF Ordered, Pos
    <3> QED
      BY <3>1 DEF Ordered, Pos
  <2> QED
    BY <2>2, <2>3
<1>5. Apart(c)'
  <2>1. ASSUME NEW o \in Receivers, NEW p \in Receivers,
               NEW i \in Pending(o, c)', NEW j \in Pending(p, c)',
               fifo'[o][c][i] = fifo'[p][c][j]
        PROVE  o = p /\ i = j
    <3>1. /\ i \in Nat /\ i + shift[o] \in Pending(o, c) /\ fifo'[o][c][i] = fifo[o][c][i + shift[o]]
          /\ j \in Nat /\ j + shift[p] \in Pending(p, c) /\ fifo'[p][c][j] = fifo[p][c][j + shift[p]]
      BY DEF Shrinks
    <3>2. o = p /\ i + shift[o] = j + shift[p]
      <4>1. PICK a \in Pending(o, c), b \in Pending(p, c) :
              a = i + shift[o] /\ b = j + shift[p] /\ fifo[o][c][a] = fifo[p][c][b]
        BY <2>1, <3>1
      <4>2. Apart(c)
        BY <1>1 DEF CardInv
      <4> QED
        BY <4>1, <4>2 DEF Apart
    <3>3. shift[o] \in Nat
      OBVIOUS
    <3> QED
      BY <3>1, <3>2, <3>3
  <2> QED
    BY <1>1, <2>1 DEF Apart
<1>6. Batched(c)'
  <2>1. PICK me \in Places, k \in Rings : me = capture[c] /\ k = me.ring /\ Batched(c)
    BY PlaceIs
  <2>2. \A i \in DOMAIN me.pkts : flag'[c][k][me.pkts[i]]
    BY <2>1 DEF FlagsFall
  <2>3. ASSUME NEW o \in Receivers, NEW i \in Pending(o, c)', NEW j \in DOMAIN me.pkts,
               fifo'[o][c][i].ring = k
        PROVE  /\ fifo'[o][c][i].slot # me.pkts[j]
               /\ me.pc \in {"slot", "batch"} /\ o >= me.to =>
                    SlotCount(proc[c][k], fifo'[o][c][i].slot) < SlotCount(proc[c][k], me.pkts[j])
    <3>1. i + shift[o] \in Pending(o, c) /\ fifo'[o][c][i] = fifo[o][c][i + shift[o]]
      BY DEF Shrinks
    <3> QED
      BY <2>1, <2>3, <3>1 DEF Batched, Pos
  <2>4. capture'[c] = me /\ proc' = proc /\ read' = read
    BY <2>1
  <2> QED
    BY <1>1, <2>1, <2>2, <2>3, <2>4 DEF Batched, Pos, Captured
<1> QED
  BY <1>1, <1>2, <1>3, <1>4, <1>5, <1>6 DEF CardInv

(* What is known of a processing thread.                                   *)
LEMMA TurnIs ==
  ASSUME Inv, NEW r \in Receivers
  PROVE  LET me == receive[r] IN
         /\ me \in Turns /\ me.fifo \in Cards /\ me.got \in Nat /\ me.done \in Nat
         /\ fifo[r][me.fifo] \in Seq(Packets) /\ Len(fifo[r][me.fifo]) \in Nat
         /\ Serves(r)
         /\ NextFifo(me.fifo) \in Cards
<1>1. receive[r] \in Turns /\ Serves(r)
  BY DEF Inv, Types
<1>2. receive[r].fifo \in Cards /\ receive[r].got \in Nat /\ receive[r].done \in Nat
  BY <1>1 DEF Turns
<1>3. fifo[r][receive[r].fifo] \in Seq(Packets)
  BY <1>2 DEF Inv, Types
<1>4. conf.cards \in Nat \ {0}
  BY ConfIs DEF Inv, Types
<1>5. NextFifo(receive[r].fifo) \in Cards
  BY <1>2, <1>4 DEF NextFifo, Cards
<1> QED
  BY <1>1, <1>2, <1>3, <1>5

LEMMA TurnOf ==
  ASSUME Inv, NEW r \in Receivers, NEW turn \in Turns, receive' = [receive EXCEPT ![r] = turn]
  PROVE  /\ receive' \in [Receivers -> Turns]
         /\ receive'[r] = turn
         /\ \A o \in Receivers : o # r => receive'[o] = receive[o]
BY DEF Inv, Types

(* Nothing was processed yet, so that it makes no difference whose queue   *)
(* the thread is at.                                                       *)
LEMMA LookInv ==
  ASSUME Inv, NEW r \in Receivers, receive[r].done = 0,
         NEW turn \in Turns, receive' = [receive EXCEPT ![r] = turn], turn.done = 0,
         UNCHANGED <<conf, ring, flag, proc, read, capture, current, fifo>>,
         Serves(r)'
  PROVE  Inv'
<1>1. /\ receive' \in [Receivers -> Turns]
      /\ receive'[r] = turn
      /\ \A o \in Receivers : o # r => receive'[o] = receive[o]
  BY TurnOf
<1>2. \A o \in Receivers, c \in Cards : Pending(o, c)' = Pending(o, c)
  BY <1>1 DEF Pending
<1>3. \A c \in Cards : CardInv(c)'
  BY <1>2, SameCard
<1>4. flag \in [Cards -> [Rings -> [Slots -> BOOLEAN]]] /\ fifo \in [Receivers -> [Cards -> Seq(Packets)]]
  BY DEF Inv, Types
<1> QED
  BY <1>1, <1>3, <1>4, ReceiverStep

LEMMA LookFurtherInv ==
  ASSUME Inv, NEW r \in Receivers, LookFurther(r)
  PROVE  Inv'
<1> DEFINE me == receive[r]
           turn == [me EXCEPT !.fifo = NextFifo(me.fifo)]
<1>1. /\ me.pc = "look" /\ me.done = 0 /\ me \in Turns /\ NextFifo(me.fifo) \in Cards
  BY TurnIs DEF LookFurther, Serves
<1>2. turn \in Turns /\ turn.pc = "look" /\ turn.done = 0
  BY <1>1 DEF Turns
<1>3. receive' = [receive EXCEPT ![r] = turn]
  BY <1>1 DEF LookFurther, Inv, Types
<1>4. UNCHANGED <<conf, ring, flag, proc, read, capture, current, fifo>>
  BY DEF LookFurther
<1> HIDE DEF turn
<1>5. Serves(r)'
  BY <1>2, <1>3, TurnOf DEF Serves
<1> QED
  BY <1>1, <1>2, <1>3, <1>4, <1>5, LookInv

LEMMA GetReadableInv ==
  ASSUME Inv, NEW r \in Receivers, GetReadable(r)
  PROVE  Inv'
<1> DEFINE me == receive[r]
           n == Len(fifo[r][me.fifo])
           got == IF conf.batch THEN n ELSE 1
           turn == [me EXCEPT !.pc = "process", !.done = 0, !.got = got]
<1>1. /\ me.pc = "look" /\ me.done = 0 /\ me \in Turns /\ n \in Nat /\ n > 0
  BY TurnIs DEF GetReadable, Serves
<1>2. got \in Nat /\ 0 < got /\ got <= n
  BY <1>1
<1>3. turn \in Turns /\ turn.pc = "process" /\ turn.done = 0 /\ turn.got = got /\ turn.fifo = me.fifo
  <2> HIDE DEF got
  <2> QED
    BY <1>1, <1>2 DEF Turns
<1>4. receive' = [receive EXCEPT ![r] = turn]
  BY <1>1 DEF GetReadable, Inv, Types
<1>5. UNCHANGED <<conf, ring, flag, proc, read, capture, current, fifo>>
  BY DEF GetReadable
<1> HIDE DEF turn, got
<1>6. receive'[r] = turn
  BY <1>3, <1>4, TurnOf
<1>7. Serves(r)'
  BY <1>2, <1>3, <1>5, <1>6 DEF Serves
<1> QED
  BY <1>1, <1>3, <1>4, <1>5, <1>7, LookInv

LEMMA ProcessInv ==
  ASSUME Inv, NEW r \in Receivers, Process(r)
  PROVE  Inv'
<1>1. PICK me \in Turns, f \in Cards, p \in Packets, n \in Nat :
        /\ me = receive[r] /\ f = me.fifo /\ me.pc = "process"
        /\ me.done < me.got /\ me.got <= n /\ me.done \in Nat /\ me.got \in Nat
        /\ n = Len(fifo[r][f]) /\ p = fifo[r][f][me.done + 1]
  <2>1. /\ receive[r] \in Turns /\ receive[r].fifo \in Cards /\ receive[r].pc = "process"
        /\ receive[r].done < receive[r].got /\ receive[r].got <= Len(fifo[r][receive[r].fifo])
        /\ receive[r].done \in Nat /\ receive[r].got \in Nat
        /\ fifo[r][receive[r].fifo] \in Seq(Packets)
        /\ Len(fifo[r][receive[r].fifo]) \in Nat
    BY TurnIs DEF Process, Serves
  <2>2. receive[r].done + 1 \in 1 .. Len(fifo[r][receive[r].fifo])
    BY <2>1
  <2>3. fifo[r][receive[r].fifo][receive[r].done + 1] \in Packets
    BY <2>1, <2>2
  <2> QED
    BY <2>1, <2>3
<1>2. /\ UNCHANGED <<conf, ring, proc, read, capture, current, fifo>>
      /\ flag' = [flag EXCEPT ![f][p.ring][p.slot] = FALSE]
  BY <1>1 DEF Process
<1> DEFINE turn == [me EXCEPT !.done = @ + 1, !.pc = IF me.done + 1 = me.got THEN "finish" ELSE @]
<1>3. /\ turn \in Turns /\ turn.done = me.done + 1 /\ turn.got = me.got /\ turn.fifo = f
      /\ turn.pc = IF me.done + 1 = me.got THEN "finish" ELSE "process"
  <2>1. me.done + 1 \in Nat
    BY <1>1
  <2> QED
    BY <1>1, <2>1 DEF Turns
<1>4. receive' = [receive EXCEPT ![r] = turn]
  BY <1>1 DEF Process, Inv, Types
<1> HIDE DEF turn
<1>5. /\ receive' \in [Receivers -> Turns] /\ receive'[r] = turn
      /\ \A o \in Receivers : o # r => receive'[o] = receive[o]
  BY <1>3, <1>4, TurnOf
<1>6. Serves(r)'
  <2>1. fifo'[r][turn.fifo] = fifo[r][f] /\ receive'[r] = turn
    BY <1>2, <1>3, <1>5
  <2>2. me.done + 1 # me.got => me.done + 1 < me.got
    BY <1>1
  <2>3. /\ turn.pc = "process" => turn.done < turn.got
        /\ turn.pc = "finish" => turn.done = turn.got
        /\ turn.pc # "look" /\ turn.got <= Len(fifo'[r][turn.fifo])
    BY <1>1, <1>3, <2>1, <2>2
  <2> QED
    BY <2>1, <2>3 DEF Serves
<1>7. me.done + 1 \in Pending(r, f)
  BY <1>1 DEF Pending
<1>8. p.ring \in Rings /\ p.slot \in Slots
  BY <1>1 DEF Packets
<1>9. LowerFlag(f, p.ring, p.slot)
  BY <1>2 DEF LowerFlag
<1>10. flag' \in [Cards -> [Rings -> [Slots -> BOOLEAN]]]
  BY <1>8, <1>9, FlagLowered
<1>11. \A d \in Cards : d # f => flag'[d] = flag[d]
  BY <1>8, <1>9, FlagLowered
<1>12. ~ flag'[f][p.ring][p.slot]
  BY <1>8, <1>9, FlagLowered
<1>13. ASSUME NEW h \in Rings, NEW s \in Slots, h # p.ring \/ s # p.slot
       PROVE  flag'[f][h][s] = flag[f][h][s]
  BY <1>8, <1>9, <1>13, FlagLowered
<1>14. ASSUME NEW d \in Cards, d # f PROVE CardInv(d)'
  <2>1. \A o \in Receivers : Pending(o, d)' = Pending(o, d)
    BY <1>1, <1>2, <1>3, <1>5, <1>14 DEF Pending
  <2> QED
    BY <1>2, <1>11, <1>14, <2>1, SameCard
<1>15. CardInv(f)'
  <2>1. PICK shift \in [Receivers -> Nat] : \A o \in Receivers : shift[o] = 0
    <3>1. [o \in Receivers |-> 0] \in [Receivers -> Nat]
      OBVIOUS
    <3> QED
      BY <3>1
  <2>2. ASSUME NEW o \in Receivers, NEW i \in Pending(o, f)'
        PROVE  /\ i \in Pending(o, f) /\ i \in Nat
               /\ fifo[o][f][i] # p
    <3>1. i \in Pending(o, f) /\ (o = r => i # me.done + 1)
      <4>1. CASE o # r
        BY <1>2, <1>5, <4>1 DEF Pending
      <4>2. CASE o = r
        <5>1. i \in 1 + (me.done + 1) .. n
          BY <1>1, <1>2, <1>3, <1>5, <4>2 DEF Pending
        <5>2. i \in 1 + me.done .. n /\ i # me.done + 1
          BY <1>1, <5>1
        <5> QED
          BY <1>1, <4>2, <5>2 DEF Pending
      <4> QED
        BY <4>1, <4>2
    <3>2. Apart(f)
      BY DEF Inv, CardInv
    <3>3. fifo[o][f][i] = fifo[r][f][me.done + 1] => o = r /\ i = me.done + 1
      BY <1>7, <3>1, <3>2 DEF Apart
    <3>4. i \in Nat
      BY <3>1, PendingIs
    <3> QED
      BY <1>1, <3>1, <3>3, <3>4
  <2>3. Shrinks(f, shift)
    BY <1>2, <2>1, <2>2 DEF Shrinks
  <2>4. FlagsFall(f)
    <3>1. \A h \in Rings, s \in Slots : flag'[f][h][s] => flag[f][h][s]
      BY <1>12, <1>13, Zenon
    <3>2. ASSUME NEW o \in Receivers, NEW i \in Pending(o, f)'
          PROVE  flag'[f][fifo'[o][f][i].ring][fifo'[o][f][i].slot]
      <4>1. /\ i \in Pending(o, f) /\ fifo[o][f][i] # p /\ fifo' = fifo
        BY <1>2, <2>2
      <4>2. /\ fifo[o][f][i].ring \in Rings /\ fifo[o][f][i].slot \in Slots
            /\ fifo[o][f][i] \in Packets
            /\ flag[f][fifo[o][f][i].ring][fifo[o][f][i].slot]
        <5>1. i \in Pending(o, f)
          BY <4>1
        <5> QED
          BY <5>1, PendingIs
      <4>3. fifo[o][f][i].ring # p.ring \/ fifo[o][f][i].slot # p.slot
        BY <4>1, <4>2 DEF Packets
      <4> QED
        BY <1>13, <4>1, <4>2, <4>3
    <3>3. PICK at \in Places, k \in Rings :
            /\ at = capture[f] /\ k = at.ring /\ Batched(f) /\ Walks(f) /\ at.cur \in Slots
            /\ at.pkts \in Seq(Slots)
      BY PlaceIs
    <3>4. ASSUME NEW i \in DOMAIN at.pkts PROVE flag'[f][k][at.pkts[i]]
      <4>1. /\ at.pkts[i] \in Slots /\ flag[f][k][at.pkts[i]]
            /\ p.ring = k => p.slot # at.pkts[i]
        <5>1. at.pkts[i] \in Slots
          BY <3>3
        <5>2. flag[f][k][at.pkts[i]]
          BY <3>3 DEF Batched
        <5>3. p.ring = k => p.slot # at.pkts[i]
          BY <1>1, <1>7, <3>3 DEF Batched
        <5> QED
          BY <5>1, <5>2, <5>3
      <4> QED
        BY <1>13, <4>1
    <3>5. ASSUME at.pc = "dispatch" PROVE flag'[f][k][at.cur]
      <4>1. flag[f][k][at.cur] /\ at.cur = read[f][k]
        BY <3>3, <3>5 DEF Walks
      <4>2. p.ring = k => p.slot # at.cur
        <5>1. Pos(f, p.ring, p.slot) \in Nat /\ Pos(f, p.ring, p.slot) < Captured(f, p.ring)
          BY <1>1, <1>7, PendingIs
        <5> QED
          BY <4>1, <5>1 DEF Pos, Captured
      <4> QED
        BY <1>13, <3>3, <4>1, <4>2
    <3> QED
      BY <3>1, <3>2, <3>3, <3>4, <3>5 DEF FlagsFall, At
  <2> QED
    BY <1>2, <2>3, <2>4, FewerPending
<1>16. fifo' \in [Receivers -> [Cards -> Seq(Packets)]]
  BY <1>2 DEF Inv, Types
<1> QED
  BY <1>2, <1>5, <1>6, <1>10, <1>14, <1>15, <1>16, ReceiverStep

LEMMA RestIs ==
  ASSUME NEW old \in Seq(Packets), NEW n \in Nat, n = Len(old), NEW g \in Nat, g <= n
  PROVE  \E q \in Seq(Packets) :
           /\ q = SubSeq(old, g + 1, n) /\ Len(q) = n - g
           /\ \A i \in 1 .. n - g : q[i] = old[i + g]
<1>1. PICK a \in Int, b \in Int : a = g + 1 /\ b = n
  OBVIOUS
<1>2. \A i \in a .. b : old[i] \in Packets
  BY <1>1
<1>3. /\ SubSeq(old, a, b) \in Seq(Packets)
      /\ Len(SubSeq(old, a, b)) = IF a <= b THEN b - a + 1 ELSE 0
      /\ \A i \in 1 .. b - a + 1 : SubSeq(old, a, b)[i] = old[a + i - 1]
  BY <1>2, SubSeqProperties
<1>4. b - a + 1 = n - g /\ (IF a <= b THEN b - a + 1 ELSE 0) = n - g
  BY <1>1
<1>5. ASSUME NEW i \in 1 .. n - g PROVE SubSeq(old, a, b)[i] = old[i + g]
  <2>1. a + i - 1 = i + g
    BY <1>1
  <2> QED
    BY <1>3, <1>4, <2>1
<1> QED
  BY <1>1, <1>3, <1>4, <1>5

LEMMA FinishInv ==
  ASSUME Inv, NEW r \in Receivers, Finish(r)
  PROVE  Inv'
<1>1. PICK me \in Turns, f \in Cards, old \in Seq(Packets), n \in Nat :
        /\ me = receive[r] /\ f = me.fifo /\ me.pc = "finish" /\ old = fifo[r][f] /\ n = Len(old)
        /\ me.done = me.got /\ me.got <= n /\ me.got \in Nat /\ NextFifo(f) \in Cards
  <2>1. /\ receive[r] \in Turns /\ receive[r].fifo \in Cards /\ receive[r].pc = "finish"
        /\ receive[r].done = receive[r].got /\ receive[r].got <= Len(fifo[r][receive[r].fifo])
        /\ receive[r].got \in Nat /\ NextFifo(receive[r].fifo) \in Cards
        /\ fifo[r][receive[r].fifo] \in Seq(Packets)
        /\ Len(fifo[r][receive[r].fifo]) \in Nat
    BY TurnIs DEF Finish, Serves
  <2> QED
    BY <2>1
<1>2. UNCHANGED <<conf, ring, flag, proc, read, capture, current>>
  BY DEF Finish
<1> DEFINE turn == [pc |-> "look", fifo |-> NextFifo(f), got |-> 0, done |-> 0]
<1>3. turn \in Turns /\ turn.done = 0 /\ turn.pc = "look"
  BY <1>1 DEF Turns
<1>4. receive' = [receive EXCEPT ![r] = turn]
  BY <1>1 DEF Finish, Inv, Types
<1> HIDE DEF turn
<1>5. /\ receive' \in [Receivers -> Turns] /\ receive'[r] = turn
      /\ \A o \in Receivers : o # r => receive'[o] = receive[o]
  BY <1>3, <1>4, TurnOf
<1>6. Serves(r)'
  BY <1>3, <1>5 DEF Serves
<1>7. PICK q \in Seq(Packets) :
        /\ q = SubSeq(old, me.got + 1, n) /\ Len(q) = n - me.got
        /\ \A i \in 1 .. n - me.got : q[i] = old[i + me.got]
  <2> DEFINE w == old
             g == me.got
             len == n
  <2>1. w \in Seq(Packets) /\ g \in Nat /\ g <= len /\ len = Len(w) /\ len \in Nat
    BY <1>1
  <2> HIDE DEF w, g, len
  <2>2. \E q \in Seq(Packets) :
          /\ q = SubSeq(w, g + 1, len) /\ Len(q) = len - g
          /\ \A i \in 1 .. len - g : q[i] = w[i + g]
    BY <2>1, RestIs
  <2> QED
    BY <2>2 DEF w, g, len
<1>8. fifo' = [fifo EXCEPT ![r][f] = q]
  BY <1>1, <1>7 DEF Finish, Inv, Types
<1>9. /\ fifo' \in [Receivers -> [Cards -> Seq(Packets)]]
      /\ fifo'[r][f] = q
      /\ \A o \in Receivers, d \in Cards : o # r \/ d # f => fifo'[o][d] = fifo[o][d]
      /\ \A o \in Receivers : o # r => fifo'[o] = fifo[o]
  BY <1>8 DEF Inv, Types
<1>10. ASSUME NEW d \in Cards, d # f PROVE CardInv(d)'
  <2>1. \A o \in Receivers : Pending(o, d)' = Pending(o, d) /\ fifo'[o][d] = fifo[o][d]
    BY <1>1, <1>3, <1>5, <1>9, <1>10 DEF Pending
  <2> QED
    BY <1>2, <1>10, <2>1, SameCard
<1>11. CardInv(f)'
  <2>1. PICK shift \in [Receivers -> Nat] :
          \A o \in Receivers : shift[o] = IF o = r THEN me.got ELSE 0
    <3>1. [o \in Receivers |-> IF o = r THEN me.got ELSE 0] \in [Receivers -> Nat]
      BY <1>1
    <3> QED
      BY <3>1
  <2>2. ASSUME NEW o \in Receivers, NEW i \in Pending(o, f)'
        PROVE  /\ i \in Nat /\ i + shift[o] \in Pending(o, f)
               /\ fifo'[o][f][i] = fifo[o][f][i + shift[o]]
    <3>1. CASE o # r
      <4>1. i \in Pending(o, f) /\ fifo'[o][f] = fifo[o][f] /\ shift[o] = 0
        BY <1>5, <1>9, <2>1, <3>1 DEF Pending
      <4>2. i \in Nat
        BY <4>1, PendingIs
      <4> QED
        BY <4>1, <4>2
    <3>2. CASE o = r
      <4>1. i \in 1 .. n - me.got
        <5>1. receive'[r].done = 0 /\ fifo'[r][f] = q
          BY <1>3, <1>5, <1>9
        <5>2. Pending(r, f)' = 1 .. Len(q)
          BY <5>1 DEF Pending
        <5> QED
          BY <1>7, <3>2, <5>2
      <4>2. i + me.got \in 1 + me.got .. n
        BY <1>1, <4>1
      <4>3. i + me.got \in Pending(r, f)
        BY <1>1, <4>2 DEF Pending
      <4>4. i \in Nat /\ shift[r] = me.got
        BY <1>1, <2>1, <4>1
      <4>5. fifo'[r][f][i] = fifo[r][f][i + me.got]
        BY <1>1, <1>7, <1>9, <4>1
      <4> QED
        BY <3>2, <4>3, <4>4, <4>5
    <3> QED
      BY <3>1, <3>2
  <2>3. Shrinks(f, shift)
    BY <2>2 DEF Shrinks
  <2>4. FlagsFall(f)
    <3>1. ASSUME NEW o \in Receivers, NEW i \in Pending(o, f)'
          PROVE  flag'[f][fifo'[o][f][i].ring][fifo'[o][f][i].slot]
      <4>1. PICK j \in Pending(o, f) : fifo'[o][f][i] = fifo[o][f][j]
        BY <2>2
      <4>2. flag[f][fifo[o][f][j].ring][fifo[o][f][j].slot]
        BY PendingIs
      <4> QED
        BY <1>2, <4>1, <4>2
    <3>2. Batched(f) /\ Walks(f)
      BY PlaceIs
    <3>3. /\ \A i \in DOMAIN capture[f].pkts : flag[f][capture[f].ring][capture[f].pkts[i]]
          /\ At(f, "dispatch") => flag[f][capture[f].ring][capture[f].cur]
      BY <3>2 DEF Batched, Walks, At
    <3> QED
      BY <1>2, <3>1, <3>3 DEF FlagsFall
  <2> QED
    BY <1>2, <2>3, <2>4, FewerPending
<1>12. flag' \in [Cards -> [Rings -> [Slots -> BOOLEAN]]]
  BY <1>2 DEF Inv, Types
<1> QED
  BY <1>2, <1>5, <1>6, <1>9, <1>10, <1>11, <1>12, ReceiverStep

-----------------------------------------------------------------------------

LEMMA StutterInv ==
  ASSUME Inv, UNCHANGED vars
  PROVE  Inv'
<1>1. /\ Cards' = Cards /\ Rings' = Rings /\ Receivers' = Receivers /\ Packets' = Packets
      /\ Turns' = Turns /\ Places' = Places
      /\ \A o \in Receivers, d \in Cards : Pending(o, d)' = Pending(o, d)
  BY DEF vars, Cards, Rings, Receivers, Packets, Turns, Places, Pending
<1>2. \A c \in Cards : CardInv(c)'
  BY <1>1, SameCard DEF vars
<1>3. Types'
  BY <1>1 DEF vars, Inv, Types
<1>4. \A r \in Receivers : Serves(r)'
  BY DEF vars, Inv, Serves
<1> QED
  BY <1>1, <1>2, <1>3, <1>4 DEF Inv

LEMMA NextInv ==
  ASSUME Inv, Next
  PROVE  Inv'
<1>1. ASSUME NEW c \in Cards, Capture(c) \/ PollError(c) PROVE Inv'
  BY <1>1, PollInv, VisitRingInv, SkipSlotInv, MarkSlotInv, DispatchPktInv, LoadTurnInv,
     StoreTurnInv, SlotsSeenInv, DispatchPktBatchInv, RefreshInv, ScanSlotInv, HandBackInv,
     PollErrorInv DEF Capture
<1>2. ASSUME NEW r \in Receivers, Receive(r) PROVE Inv'
  BY <1>2, LookFurtherInv, GetReadableInv, ProcessInv, FinishInv DEF Receive
<1> QED
  BY <1>1, <1>2 DEF Next

(* The invariant holds, whatever the rings and the machine.                *)
THEOREM Inductive == Spec => []Inv
<1>1. Inv /\ [Next]_vars => Inv'
  BY NextInv, StutterInv
<1> QED
  BY <1>1, InitInv, PTL DEF Spec

-----------------------------------------------------------------------------
(* Who may still read a packet.                                            *)

LEMMA ReadersAre ==
  ASSUME NEW c, NEW k, NEW s, NEW x
  PROVE  x \in Readers(c, k, s) <=>
           \/ \E r \in Receivers : \E i \in Pending(r, c) :
                fifo[r][c][i] = [ring |-> k, slot |-> s] /\ x = <<r, i>>
           \/ capture[c].ring = k /\ \E i \in DOMAIN capture[c].pkts :
                capture[c].pkts[i] = s /\ x = <<"batch", i>>
           \/ capture[c].ring = k /\ At(c, "dispatch") /\ capture[c].cur = s /\ x = <<"dispatch", 0>>
<1>1. x \in Readers(c, k, s) <=>
        \/ \E r \in Receivers : x \in InQueue(r, c, k, s)
        \/ x \in InBatch(c, k, s)
        \/ x \in InHand(c, k, s)
  <2> DEFINE Queued == UNION {InQueue(r, c, k, s) : r \in Receivers}
  <2>1. x \in Queued <=> \E r \in Receivers : x \in InQueue(r, c, k, s)
    OBVIOUS
  <2>2. Readers(c, k, s) = InBatch(c, k, s) \cup InHand(c, k, s) \cup Queued
    BY DEF Readers
  <2> HIDE DEF Queued
  <2> QED
    BY <2>1, <2>2
<1>2. ASSUME NEW r
      PROVE  x \in InQueue(r, c, k, s) <=>
               \E i \in Pending(r, c) : fifo[r][c][i] = [ring |-> k, slot |-> s] /\ x = <<r, i>>
  BY DEF InQueue
<1>3. x \in InBatch(c, k, s) <=>
        capture[c].ring = k /\ \E i \in DOMAIN capture[c].pkts :
          capture[c].pkts[i] = s /\ x = <<"batch", i>>
  BY DEF InBatch
<1>4. x \in InHand(c, k, s) <=>
        capture[c].ring = k /\ At(c, "dispatch") /\ capture[c].cur = s /\ x = <<"dispatch", 0>>
  BY DEF InHand
<1> QED
  BY <1>1, <1>2, <1>3, <1>4

(* A slot that is read was published and not handed back, and its flag is  *)
(* up.                                                                     *)
LEMMA ReadSlot ==
  ASSUME Inv, NEW c \in Cards, NEW k \in Rings, NEW s \in Slots, Readers(c, k, s) # {}
  PROVE  /\ flag[c][k][s]
         /\ InRange(s, ring[c][k].cur, ring[c][k].tail)
<1>1. PICK x : x \in Readers(c, k, s)
  OBVIOUS
<1>2. PICK me \in Places : me = capture[c] /\ Walks(c) /\ Batched(c)
  BY PlaceIs
<1>3. /\ flag[c][k][s] /\ proc[c][k] # Unset
      /\ Pos(c, k, s) \in Nat /\ Pos(c, k, s) < Published(c, k)
  <2>1. CASE \E r \in Receivers : \E i \in Pending(r, c) : fifo[r][c][i] = [ring |-> k, slot |-> s]
    <3>0. PICK r \in Receivers : \E i \in Pending(r, c) : fifo[r][c][i] = [ring |-> k, slot |-> s]
      BY <2>1
    <3>1. PICK i \in Pending(r, c) : fifo[r][c][i] = [ring |-> k, slot |-> s]
      BY <3>0
    <3>2. /\ flag[c][k][s] /\ proc[c][k] \in Slots
          /\ Pos(c, k, s) \in Nat /\ Captured(c, k) \in Nat /\ Pos(c, k, s) < Captured(c, k)
      BY <3>1, PendingIs
    <3>3. proc[c][k] # Unset
      BY <3>2, SlotsAre
    <3>4. Captured(c, k) <= Published(c, k) /\ Published(c, k) \in Nat
      BY <3>3, IndexedIs
    <3> QED
      BY <3>2, <3>3, <3>4
  <2>2. CASE me.ring = k /\ \E i \in DOMAIN me.pkts : me.pkts[i] = s
    <3>1. flag[c][k][s] /\ Pos(c, k, s) < Captured(c, k)
      BY <1>2, <2>2 DEF Batched
    <3>2. proc[c][k] # Unset
      <4>1. me.pkts # <<>>
        BY <2>2
      <4>2. me.pc \in {"slot", "batch", "refresh", "scan"}
        BY <1>2, <4>1 DEF Walks, Places
      <4> QED
        BY <1>2, <2>2, <4>2 DEF Walks
    <3>3. /\ proc[c][k] \in Slots /\ Captured(c, k) \in Nat
          /\ Captured(c, k) <= Published(c, k) /\ Published(c, k) \in Nat
      BY <3>2, IndexedIs
    <3>4. Pos(c, k, s) \in Nat
      BY <3>3, CountIs DEF Pos
    <3> QED
      BY <3>1, <3>2, <3>3, <3>4
  <2>3. CASE me.ring = k /\ me.pc = "dispatch" /\ me.cur = s
    <3>1. /\ flag[c][k][s] /\ proc[c][k] # Unset /\ me.left > 0 /\ me.left \in Nat
          /\ Pos(c, k, s) + me.left = Published(c, k)
      BY <1>2, <2>3, PlaceIs DEF Walks
    <3>2. proc[c][k] \in Slots
      BY <3>1, IndexedIs
    <3>3. Pos(c, k, s) \in Nat
      BY <3>2, CountIs DEF Pos
    <3> QED
      BY <3>1, <3>3
  <2> QED
    BY <1>1, <1>2, <2>1, <2>2, <2>3, ReadersAre DEF At
<1>4. proc[c][k] \in Slots /\ ring[c][k].cur = proc[c][k] /\ ring[c][k].tail \in Slots
  BY <1>3, IndexedIs
<1> QED
  BY <1>3, <1>4, InRangeIs DEF Pos, Published

LEMMA OneReader ==
  ASSUME Inv, NEW c \in Cards, NEW k \in Rings, NEW s \in Slots,
         NEW x \in Readers(c, k, s), NEW y \in Readers(c, k, s)
  PROVE  x = y
<1>1. PICK me \in Places :
        me = capture[c] /\ Walks(c) /\ Batched(c) /\ Apart(c) /\ me.pkts \in Seq(Slots)
  BY PlaceIs DEF Inv, CardInv
<1> DEFINE Queued(z) == \E r \in Receivers : \E i \in Pending(r, c) :
             fifo[r][c][i] = [ring |-> k, slot |-> s] /\ z = <<r, i>>
           Held(z) == me.ring = k /\ \E i \in DOMAIN me.pkts : me.pkts[i] = s /\ z = <<"batch", i>>
           Marked(z) == me.ring = k /\ me.pc = "dispatch" /\ me.cur = s /\ z = <<"dispatch", 0>>
<1>2. /\ Queued(x) \/ Held(x) \/ Marked(x)
      /\ Queued(y) \/ Held(y) \/ Marked(y)
  BY <1>1, ReadersAre DEF At
<1>3. Queued(x) /\ Queued(y) => x = y
  BY <1>1 DEF Apart
<1>4. ASSUME NEW z, NEW w, Queued(z), Held(w) PROVE FALSE
  <2>0. PICK r \in Receivers : \E i \in Pending(r, c) : fifo[r][c][i] = [ring |-> k, slot |-> s]
    BY <1>4
  <2>1. PICK i \in Pending(r, c) : fifo[r][c][i] = [ring |-> k, slot |-> s]
    BY <2>0
  <2>2. PICK j \in DOMAIN me.pkts : me.pkts[j] = s /\ me.ring = k
    BY <1>4
  <2> QED
    BY <1>1, <2>1, <2>2 DEF Batched
<1>5. ASSUME NEW z, NEW w, Queued(z), Marked(w) PROVE FALSE
  <2>0. PICK r \in Receivers : \E i \in Pending(r, c) : fifo[r][c][i] = [ring |-> k, slot |-> s]
    BY <1>5
  <2>1. PICK i \in Pending(r, c) : fifo[r][c][i] = [ring |-> k, slot |-> s]
    BY <2>0
  <2>2. Pos(c, k, s) \in Nat /\ Pos(c, k, s) < Captured(c, k)
    <3>1. fifo[r][c][i].ring = k /\ fifo[r][c][i].slot = s
      BY <2>1
    <3> QED
      BY <3>1, PendingIs
  <2>3. s = read[c][k]
    BY <1>1, <1>5 DEF Walks
  <2> QED
    BY <2>2, <2>3 DEF Pos, Captured
<1>6. ASSUME NEW z, NEW w, Held(z), Marked(w) PROVE FALSE
  BY <1>1, <1>6 DEF Walks
<1>7. ASSUME Held(x), Held(y) PROVE x = y
  <2>1. PICK i \in DOMAIN me.pkts : me.pkts[i] = s /\ x = <<"batch", i>>
    BY <1>7
  <2>2. PICK j \in DOMAIN me.pkts : me.pkts[j] = s /\ y = <<"batch", j>>
    BY <1>7
  <2>3. ~ (i < j) /\ ~ (j < i)
    <3>1. Pos(c, k, s) \in Nat
      <4>1. proc[c][k] # Unset
        <5>1. me.pkts # <<>> /\ me.ring = k
          BY <1>7
        <5>2. me.pc \in {"slot", "batch", "refresh", "scan"}
          BY <1>1, <5>1 DEF Walks, Places
        <5> QED
          BY <1>1, <5>1, <5>2 DEF Walks
      <4>2. proc[c][k] \in Slots
        BY <4>1, IndexedIs
      <4> QED
        BY <4>2, CountIs DEF Pos
    <3> QED
      BY <1>1, <1>7, <2>1, <2>2, <3>1 DEF Batched
  <2>4. i \in Nat /\ j \in Nat
    BY <1>1, <2>1, <2>2
  <2> QED
    BY <2>1, <2>2, <2>3, <2>4
<1>8. Marked(x) /\ Marked(y) => x = y
  OBVIOUS
<1> HIDE DEF Queued, Held, Marked
<1> QED
  BY <1>2, <1>3, <1>4, <1>5, <1>6, <1>7, <1>8

(* The kernel never writes into a slot whose packet someone may still read,*)
(* and each packet has one reader.                                         *)
THEOREM SlotsInFlight == Spec => []NoReuse
<1>1. Inv => NoReuse
  <2> SUFFICES ASSUME Inv, NEW c \in Cards, NEW k \in Rings, NEW s \in Slots, Readers(c, k, s) # {}
               PROVE  /\ InRange(s, ring[c][k].cur, ring[c][k].tail)
                      /\ Cardinality(Readers(c, k, s)) = 1
    BY DEF NoReuse
  <2>1. PICK x : Readers(c, k, s) = {x}
    BY OneReader
  <2> QED
    BY <2>1, ReadSlot, FS_Singleton
<1> QED
  BY <1>1, Inductive, PTL

(* Packets of one ring reach a receiver in the order they arrived in.      *)
THEOREM OrderKept == Spec => []InOrder
<1>1. Inv => InOrder
  BY DEF Inv, CardInv, Ordered, Pos, InOrder
<1> QED
  BY <1>1, Inductive, PTL

-----------------------------------------------------------------------------
(* A flag that is up has someone who will lower it, unless batches are     *)
(* dealt round-robin: then they are dropped with their flags up.           *)

NoBatchDropped == \A m \in Configs : m.batch => m.policy # "rr"

HasReader(c, k, s) ==
  \/ \E r \in Receivers : \E i \in Pending(r, c) : fifo[r][c][i] = [ring |-> k, slot |-> s]
  \/ capture[c].ring = k /\ \E i \in DOMAIN capture[c].pkts : capture[c].pkts[i] = s
  \/ capture[c].ring = k /\ capture[c].pc = "dispatch" /\ capture[c].cur = s

LEMMA HasReaderIs ==
  ASSUME NEW c, NEW k, NEW s
  PROVE  Readers(c, k, s) # {} <=> HasReader(c, k, s)
<1>1. ASSUME NEW x \in Readers(c, k, s) PROVE HasReader(c, k, s)
  BY ReadersAre DEF HasReader, At
<1>2. ASSUME NEW r \in Receivers, NEW i \in Pending(r, c), fifo[r][c][i] = [ring |-> k, slot |-> s]
      PROVE  <<r, i>> \in Readers(c, k, s)
  BY <1>2, ReadersAre
<1>3. ASSUME capture[c].ring = k, NEW i \in DOMAIN capture[c].pkts, capture[c].pkts[i] = s
      PROVE  <<"batch", i>> \in Readers(c, k, s)
  BY <1>3, ReadersAre
<1>4. ASSUME capture[c].ring = k, capture[c].pc = "dispatch", capture[c].cur = s
      PROVE  <<"dispatch", 0>> \in Readers(c, k, s)
  BY <1>4, ReadersAre DEF At
<1> QED
  BY <1>1, <1>2, <1>3, <1>4 DEF HasReader

Kept(c) ==
  /\ capture[c].pc \in {"refresh", "scan"} => capture[c].pkts = <<>>
  /\ \A k \in Rings, s \in Slots : flag[c][k][s] => HasReader(c, k, s)

AllKept == \A c \in Cards : Kept(c)

(* A card whose queues, flags and capture thread a step leaves alone.      *)
LEMMA KeptSame ==
  ASSUME NEW c \in Cards, Kept(c), conf' = conf, flag'[c] = flag[c], capture'[c] = capture[c],
         \A r \in Receivers : fifo'[r][c] = fifo[r][c] /\ Pending(r, c)' = Pending(r, c)
  PROVE  Kept(c)'
<1>1. Receivers' = Receivers /\ Rings' = Rings /\ Slots' = Slots
  BY DEF Receivers, Rings
<1>2. ASSUME NEW k \in Rings, NEW s \in Slots, HasReader(c, k, s) PROVE HasReader(c, k, s)'
  BY <1>1, <1>2 DEF HasReader
<1> QED
  BY <1>1, <1>2 DEF Kept

(* The place of the capture thread changes, not what it holds.             *)
LEMMA KeptPlace ==
  ASSUME Inv, NEW c \in Cards, Kept(c), UNCHANGED <<conf, flag, fifo, receive>>,
         \/ capture[c].pkts = <<>>
         \/ capture'[c].pkts = capture[c].pkts /\ capture'[c].ring = capture[c].ring,
         capture[c].pc # "dispatch",
         capture'[c].pc \in {"refresh", "scan"} => capture'[c].pkts = <<>>
  PROVE  Kept(c)'
<1>1. Receivers' = Receivers /\ Rings' = Rings /\ Slots' = Slots
      /\ \A r \in Receivers : Pending(r, c)' = Pending(r, c)
  BY DEF Receivers, Rings, Pending
<1>2. ASSUME NEW k \in Rings, NEW s \in Slots, HasReader(c, k, s) PROVE HasReader(c, k, s)'
  BY <1>1, <1>2 DEF HasReader
<1> QED
  BY <1>1, <1>2 DEF Kept

(* A step of one capture thread concerns its card only.                    *)
LEMMA OtherKept ==
  ASSUME Inv, NEW c \in Cards, AllKept, UNCHANGED <<conf, receive>>,
         \A d \in Cards : d # c => flag'[d] = flag[d] /\ capture'[d] = capture[d],
         \A r \in Receivers, d \in Cards : d # c => fifo'[r][d] = fifo[r][d],
         Kept(c)'
  PROVE  AllKept'
<1>1. Cards' = Cards
  BY DEF Cards
<1>2. ASSUME NEW d \in Cards, d # c PROVE Kept(d)'
  <2>1. \A r \in Receivers : fifo'[r][d] = fifo[r][d] /\ Pending(r, d)' = Pending(r, d)
    BY <1>2 DEF Pending
  <2> QED
    BY <1>2, <2>1, KeptSame DEF AllKept
<1> QED
  BY <1>1, <1>2 DEF AllKept

LEMMA OtherPlaces ==
  ASSUME NEW c \in Cards, NEW place, Goto(c, place), Inv
  PROVE  capture'[c] = place /\ \A d \in Cards : d # c => capture'[d] = capture[d]
BY DEF Goto, Inv, Types

LEMMA NextRingKept ==
  ASSUME Inv, NEW c \in Cards, AllKept, NextRing(c, capture[c].ring),
         UNCHANGED <<conf, flag, fifo, receive>>,
         capture[c].pkts = <<>>, capture[c].pc # "dispatch"
  PROVE  AllKept'
<1>1. PICK place \in Places :
        /\ Goto(c, place)
        /\ place.pc \in {"poll", "ring"} /\ place.pkts = <<>> /\ place.to = 0
  BY NextRingIs
<1>2. capture'[c] = place /\ \A d \in Cards : d # c => capture'[d] = capture[d]
  BY <1>1, OtherPlaces
<1>3. Kept(c)'
  BY <1>1, <1>2, KeptPlace DEF AllKept
<1> QED
  BY <1>2, <1>3, OtherKept

(* The capture thread's steps that hold on to what it has. *)
LEMMA StepsKept ==
  ASSUME Inv, NEW c \in Cards, AllKept, NoBatchDropped,
         Poll(c) \/ PollError(c) \/ VisitRing(c) \/ SkipSlot(c) \/ SlotsSeen(c)
           \/ Refresh(c) \/ ScanSlot(c) \/ HandBack(c) \/ LoadTurn(c) \/ StoreTurn(c)
  PROVE  AllKept'
<1>1. PICK me \in Places : me = capture[c] /\ Walks(c) /\ Kept(c)
  BY PlaceIs DEF AllKept
<1>2. UNCHANGED <<conf, flag, fifo, receive>>
  BY DEF Poll, PollError, VisitRing, SkipSlot, SlotsSeen, Refresh, ScanSlot, HandBack,
     LoadTurn, StoreTurn
<1>3. ASSUME NEW place, Goto(c, place), me.pkts = <<>>, place.pkts = <<>>, me.pc # "dispatch"
      PROVE  AllKept'
  <2>1. capture'[c] = place /\ \A d \in Cards : d # c => capture'[d] = capture[d]
    BY <1>3, OtherPlaces
  <2>2. Kept(c)'
    BY <1>1, <1>2, <1>3, <2>1, KeptPlace
  <2> QED
    BY <1>2, <2>1, <2>2, OtherKept
<1>4. CASE Poll(c)
  <2>1. me.pkts = <<>> /\ me.pc # "dispatch" /\ Goto(c, [me EXCEPT !.pc = "ring", !.ring = 0])
    BY <1>1, <1>4 DEF Poll, At, Walks
  <2>2. [me EXCEPT !.pc = "ring", !.ring = 0].pkts = <<>>
    BY <2>1 DEF Places
  <2> QED
    BY <1>3, <2>1, <2>2
<1>5. CASE PollError(c)
  <2>1. me.pkts = <<>> /\ me.pc # "dispatch" /\ Goto(c, [me EXCEPT !.pc = "stopped"])
    BY <1>1, <1>5 DEF PollError, At, Walks
  <2>2. [me EXCEPT !.pc = "stopped"].pkts = <<>>
    BY <2>1 DEF Places
  <2> QED
    BY <1>3, <2>1, <2>2
<1>6. CASE VisitRing(c)
  <2>1. me.pkts = <<>> /\ me.pc = "ring"
    BY <1>1, <1>6 DEF VisitRing, At, Walks
  <2>2. PICK cur, left :
          \/ NextRing(c, me.ring)
          \/ Goto(c, [me EXCEPT !.pc = "slot", !.cur = cur, !.left = left, !.pkts = <<>>])
    BY <1>1, <1>6 DEF VisitRing
  <2>3. [me EXCEPT !.pc = "slot", !.cur = cur, !.left = left, !.pkts = <<>>].pkts = <<>>
    BY DEF Places
  <2> QED
    BY <1>1, <1>2, <1>3, <2>1, <2>2, <2>3, NextRingKept
<1>7. CASE SkipSlot(c)
  <2>1. me.pc = "slot" /\ Goto(c, [me EXCEPT !.cur = NextSlot(@), !.left = @ - 1])
    BY <1>1, <1>7 DEF SkipSlot, At
  <2> DEFINE place == [me EXCEPT !.cur = NextSlot(@), !.left = @ - 1]
  <2>2. /\ Goto(c, place)
        /\ place.pc = "slot" /\ place.pkts = me.pkts /\ place.ring = me.ring
    BY <2>1 DEF Places
  <2> HIDE DEF place
  <2>3. capture'[c] = place /\ \A d \in Cards : d # c => capture'[d] = capture[d]
    BY <2>2, OtherPlaces
  <2>4. Kept(c)'
    BY <1>1, <1>2, <2>1, <2>2, <2>3, KeptPlace
  <2> QED
    BY <1>2, <2>3, <2>4, OtherKept
<1>8. CASE SlotsSeen(c)
  <2>1. me.pc = "slot"
    BY <1>1, <1>8 DEF SlotsSeen, At
  <2> DEFINE dealing == [me EXCEPT !.pc = "batch", !.to = 0]
             done    == [me EXCEPT !.pc = "refresh"]
             Dealing == conf.batch /\ me.pkts # <<>> /\ conf.policy # "rr"
  <2>7. /\ dealing.pkts = me.pkts /\ dealing.ring = me.ring /\ dealing.pc = "batch"
        /\ done.pkts = me.pkts /\ done.ring = me.ring /\ done.pc = "refresh"
    BY DEF Places
  <2>6. IF Dealing THEN Goto(c, dealing) ELSE Goto(c, done)
    BY <1>1, <1>8 DEF SlotsSeen
  <2> HIDE DEF dealing, done
  <2> DEFINE place == IF Dealing THEN dealing ELSE done
  <2>2. /\ Goto(c, place) /\ place.pkts = me.pkts /\ place.ring = me.ring
        /\ place.pc = "batch" \/ (place.pc = "refresh" /\ ~ Dealing)
    <3>1. CASE Dealing
      BY <2>6, <2>7, <3>1
    <3>2. CASE ~ Dealing
      BY <2>6, <2>7, <3>2
    <3> QED
      BY <3>1, <3>2
  <2> HIDE DEF place
  <2>3. capture'[c] = place /\ \A d \in Cards : d # c => capture'[d] = capture[d]
    BY <2>2, OtherPlaces
  <2>4. place.pc \in {"refresh", "scan"} => place.pkts = <<>>
    <3>1. ~ conf.batch => me.pkts = <<>>
      BY <1>1, <2>1 DEF Walks
    <3>2. conf.batch => conf.policy # "rr"
      BY DEF NoBatchDropped, Inv, Types
    <3> QED
      BY <2>2, <3>1, <3>2
  <2>5. Kept(c)'
    BY <1>1, <1>2, <2>1, <2>2, <2>3, <2>4, KeptPlace
  <2> QED
    BY <1>2, <2>3, <2>5, OtherKept
<1>9. CASE Refresh(c)
  <2>1. me.pkts = <<>> /\ me.pc = "refresh"
    BY <1>1, <1>9 DEF Refresh, At, Kept
  <2>2. PICK cur, left :
          \/ NextRing(c, me.ring)
          \/ Goto(c, [me EXCEPT !.pc = "scan", !.cur = cur, !.left = left])
    BY <1>1, <1>9 DEF Refresh
  <2>3. [me EXCEPT !.pc = "scan", !.cur = cur, !.left = left].pkts = <<>>
    BY <2>1 DEF Places
  <2> QED
    BY <1>1, <1>2, <1>3, <2>1, <2>2, <2>3, NextRingKept
<1>10. CASE ScanSlot(c)
  <2>1. me.pkts = <<>> /\ me.pc = "scan" /\ Goto(c, [me EXCEPT !.cur = NextSlot(@), !.left = @ - 1])
    BY <1>1, <1>10 DEF ScanSlot, At, Kept
  <2>2. [me EXCEPT !.cur = NextSlot(@), !.left = @ - 1].pkts = <<>>
    BY <2>1 DEF Places
  <2> QED
    BY <1>3, <2>1, <2>2
<1>11. CASE HandBack(c)
  <2>1. me.pkts = <<>> /\ me.pc = "scan" /\ NextRing(c, me.ring)
    BY <1>1, <1>11 DEF HandBack, At, Kept
  <2> QED
    BY <1>1, <1>2, <2>1, NextRingKept
<1>12. CASE LoadTurn(c) \/ StoreTurn(c)
  <2>1. PICK pc, to :
          /\ me.pkts = <<>> /\ me.pc # "dispatch" /\ pc \in {"store", "slot"}
          /\ Goto(c, [me EXCEPT !.pc = pc, !.to = to])
    BY <1>1, <1>12 DEF LoadTurn, StoreTurn, At, Walks
  <2>2. [me EXCEPT !.pc = pc, !.to = to].pkts = <<>>
    BY <2>1 DEF Places
  <2> QED
    BY <1>3, <2>1, <2>2
<1> QED
  BY <1>4, <1>5, <1>6, <1>7, <1>8, <1>9, <1>10, <1>11, <1>12

LEMMA MarkSlotKept ==
  ASSUME Inv, NEW c \in Cards, AllKept, MarkSlot(c)
  PROVE  AllKept'
<1>1. PICK me \in Places, k \in Rings :
        /\ me = capture[c] /\ k = me.ring /\ me.pc = "slot" /\ Kept(c)
        /\ me.cur \in Slots /\ me.pkts \in Seq(Slots)
        /\ RaiseFlag(c, k, me.cur)
        /\ UNCHANGED <<conf, fifo, receive>>
  BY PlaceIs DEF MarkSlot, At, AllKept, RaiseFlag
<1>2. \A d \in Cards : d # c => flag'[d] = flag[d]
  BY <1>1, FlagRaised
<1>3. ASSUME NEW h \in Rings, NEW t \in Slots, h # k \/ t # me.cur
      PROVE  flag'[c][h][t] = flag[c][h][t]
  BY <1>1, <1>3, FlagRaised
<1> DEFINE single == [me EXCEPT !.pc = "dispatch"]
           batch  == [me EXCEPT !.cur = NextSlot(@), !.left = @ - 1, !.pkts = Append(@, me.cur)]
           Holds(place) == /\ Goto(c, place) /\ place.ring = k
                           /\ \/ place.pc = "dispatch" /\ place.cur = me.cur /\ place.pkts = me.pkts
                              \/ place.pc = "slot" /\ place.pkts = Append(me.pkts, me.cur)
<1>4. PICK place : Holds(place)
  <2>1. /\ single.ring = k /\ single.pc = "dispatch" /\ single.cur = me.cur /\ single.pkts = me.pkts
        /\ batch.ring = k /\ batch.pc = "slot" /\ batch.pkts = Append(me.pkts, me.cur)
    BY <1>1 DEF Places
  <2>2. Goto(c, single) \/ Goto(c, batch)
    BY <1>1 DEF MarkSlot
  <2> HIDE DEF single, batch
  <2> QED
    BY <2>1, <2>2
<1>5. capture'[c] = place /\ \A d \in Cards : d # c => capture'[d] = capture[d]
  BY <1>4, OtherPlaces
<1>6. Receivers' = Receivers /\ Rings' = Rings
      /\ \A r \in Receivers : Pending(r, c)' = Pending(r, c) /\ fifo'[r][c] = fifo[r][c]
  BY <1>1 DEF Receivers, Rings, Pending
<1>7. /\ \A i \in DOMAIN me.pkts : i \in DOMAIN place.pkts /\ place.pkts[i] = me.pkts[i]
      /\ \/ place.pc = "dispatch" /\ place.cur = me.cur
         \/ \E i \in DOMAIN place.pkts : place.pkts[i] = me.cur
  <2>1. CASE place.pc = "dispatch" /\ place.cur = me.cur /\ place.pkts = me.pkts
    BY <2>1
  <2>2. CASE place.pkts = Append(me.pkts, me.cur)
    <3>1. PICK n \in Nat : n = Len(me.pkts) /\ DOMAIN me.pkts = 1 .. n
      BY <1>1
    <3>2. /\ Len(place.pkts) = n + 1 /\ DOMAIN place.pkts = 1 .. n + 1
          /\ place.pkts[n + 1] = me.cur
          /\ \A i \in 1 .. n : place.pkts[i] = me.pkts[i]
      BY <1>1, <2>2, <3>1
    <3> QED
      BY <3>1, <3>2
  <2> QED
    BY <1>4, <2>1, <2>2
<1>8. ASSUME NEW h \in Rings, NEW s \in Slots, HasReader(c, h, s) PROVE HasReader(c, h, s)'
  BY <1>1, <1>4, <1>5, <1>6, <1>7, <1>8 DEF HasReader
<1>9. HasReader(c, k, me.cur)'
  BY <1>4, <1>5, <1>7 DEF HasReader
<1>10. Kept(c)'
  <2>1. ASSUME NEW h \in Rings, NEW s \in Slots, flag'[c][h][s] PROVE HasReader(c, h, s)'
    BY <1>1, <1>3, <1>8, <1>9, <2>1 DEF Kept
  <2> QED
    BY <1>4, <1>5, <1>6, <2>1 DEF Kept
<1> QED
  BY <1>1, <1>2, <1>5, <1>10, OtherKept

(* A packet that is dropped lowers its flag, one that is queued is read by *)
(* the receiver.                                                           *)
LEMMA DispatchPktKept ==
  ASSUME Inv, NEW c \in Cards, AllKept, DispatchPkt(c)
  PROVE  AllKept'
<1>1. PICK me \in Places, k \in Rings, r \in Receivers :
        /\ me = capture[c] /\ k = me.ring /\ me.pc = "dispatch" /\ Kept(c)
        /\ me.cur \in Slots /\ me.pkts = <<>>
        /\ \E pc \in {"slot", "turn"} :
             Goto(c, [me EXCEPT !.pc = pc, !.cur = NextSlot(@), !.left = @ - 1])
        /\ UNCHANGED <<conf, receive>>
        /\ ReceivePkt(r, c, [ring |-> k, slot |-> me.cur])
  <2>1. /\ capture[c] \in Places /\ capture[c].ring \in Rings /\ capture[c].pc = "dispatch"
        /\ capture[c].cur \in Slots /\ capture[c].pkts = <<>> /\ Kept(c)
    BY PlaceIs DEF DispatchPkt, At, Walks, AllKept
  <2>2. PICK r \in Receivers :
          ReceivePkt(r, c, [ring |-> capture[c].ring, slot |-> capture[c].cur])
    <3>1. current \in Receivers
      BY DEF Inv, Types
    <3> QED
      BY <3>1 DEF DispatchPkt
  <2> QED
    BY <2>1, <2>2 DEF DispatchPkt
<1>7. PICK pc \in {"slot", "turn"} :
        Goto(c, [me EXCEPT !.pc = pc, !.cur = NextSlot(@), !.left = @ - 1])
  BY <1>1
<1> DEFINE place == [me EXCEPT !.pc = pc, !.cur = NextSlot(@), !.left = @ - 1]
<1>2. Goto(c, place) /\ place.pc \in {"slot", "turn"} /\ place.pkts = <<>> /\ place.ring = k
  BY <1>1, <1>7 DEF Places
<1> HIDE DEF place
<1>3. capture'[c] = place /\ \A d \in Cards : d # c => capture'[d] = capture[d]
  BY <1>2, OtherPlaces
<1>4. Receivers' = Receivers /\ Rings' = Rings
  BY <1>1 DEF Receivers, Rings
<1>5. CASE flag' = [flag EXCEPT ![c][k][me.cur] = FALSE] /\ UNCHANGED fifo
  <2>0. LowerFlag(c, k, me.cur)
    BY <1>5 DEF LowerFlag
  <2>1. \A d \in Cards : d # c => flag'[d] = flag[d]
    BY <1>1, <2>0, FlagLowered
  <2>2. ~ flag'[c][k][me.cur]
    BY <1>1, <2>0, FlagLowered
  <2>3. \A h \in Rings, t \in Slots : h # k \/ t # me.cur => flag'[c][h][t] = flag[c][h][t]
    BY <1>1, <2>0, FlagLowered
  <2>4. \A o \in Receivers : Pending(o, c)' = Pending(o, c)
    BY <1>1, <1>5 DEF Pending
  <2>5. ASSUME NEW h \in Rings, NEW s \in Slots, flag'[c][h][s] PROVE HasReader(c, h, s)'
    <3>1. flag[c][h][s] /\ (h # k \/ s # me.cur)
      BY <2>2, <2>3, <2>5
    <3>2. HasReader(c, h, s)
      BY <1>1, <3>1 DEF Kept
    <3> QED
      BY <1>1, <1>4, <1>5, <2>4, <3>1, <3>2 DEF HasReader
  <2>6. Kept(c)'
    BY <1>2, <1>3, <1>4, <2>5 DEF Kept
  <2> QED
    BY <1>1, <1>3, <1>5, <2>1, <2>6, OtherKept
<1>6. CASE /\ fifo' = [fifo EXCEPT ![r][c] = Append(@, [ring |-> k, slot |-> me.cur])]
           /\ UNCHANGED flag
  <2>1. PICK old \in Seq(Packets), p \in Packets, n \in Nat :
          /\ old = fifo[r][c] /\ p = [ring |-> k, slot |-> me.cur] /\ n = Len(old)
    <3>1. fifo[r][c] \in Seq(Packets)
      BY DEF Inv, Types
    <3>2. [ring |-> k, slot |-> me.cur] \in Packets
      BY <1>1 DEF Packets
    <3> QED
      BY <3>1, <3>2
  <2>2. PICK q \in Seq(Packets) :
          /\ q = Append(old, p) /\ Len(q) = n + 1 /\ q[n + 1] = p
          /\ \A i \in 1 .. n : q[i] = old[i]
    <3> DEFINE w == Append(old, p)
    <3>1. w \in Seq(Packets) /\ Len(w) = n + 1 /\ w[n + 1] = p /\ \A i \in 1 .. n : w[i] = old[i]
      BY <2>1
    <3> QED
      BY <3>1
  <2>3. /\ fifo' = [fifo EXCEPT ![r][c] = q]
        /\ \A o \in Receivers, d \in Cards : d # c => fifo'[o][d] = fifo[o][d]
    BY <1>6, <2>1, <2>2 DEF Inv, Types
  <2>4. AllThese(c, r, q, n)
    <3>1. UNCHANGED receive /\ n = Len(fifo[r][c]) /\ n <= Len(q) /\ \A i \in 1 .. n : q[i] = fifo[r][c][i]
      BY <1>1, <2>1, <2>2
    <3>2. fifo' = [fifo EXCEPT ![r][c] = q]
      BY <2>3
    <3> QED
      BY <3>1, <3>2, QueueGrows
  <2>5. n + 1 \in Pending(r, c)' /\ fifo'[r][c][n + 1] = [ring |-> k, slot |-> me.cur]
    <3>1. n + 1 \in n + 1 .. Len(q)
      BY <2>1, <2>2
    <3> QED
      BY <2>1, <2>2, <2>4, <3>1 DEF AllThese
  <2>6. ASSUME NEW h \in Rings, NEW s \in Slots, flag'[c][h][s] PROVE HasReader(c, h, s)'
    <3>1. HasReader(c, h, s)
      BY <1>1, <1>6, <2>6 DEF Kept
    <3>2. CASE h = k /\ s = me.cur
      BY <1>4, <2>5, <3>2 DEF HasReader
    <3>3. CASE h # k \/ s # me.cur
      <4>1. PICK o \in Receivers : \E i \in Pending(o, c) : fifo[o][c][i] = [ring |-> h, slot |-> s]
        BY <1>1, <3>1, <3>3 DEF HasReader
      <4>2. PICK i \in Pending(o, c) : fifo[o][c][i] = [ring |-> h, slot |-> s]
        BY <4>1
      <4>3. i \in Pending(o, c)' /\ fifo'[o][c][i] = [ring |-> h, slot |-> s]
        BY <2>4, <4>2 DEF AllThese
      <4> QED
        BY <1>4, <4>3 DEF HasReader
    <3> QED
      BY <3>2, <3>3
  <2>7. Kept(c)'
    BY <1>2, <1>3, <1>4, <2>6 DEF Kept
  <2> QED
    BY <1>1, <1>3, <1>6, <2>3, <2>7, OtherKept
<1> QED
  BY <1>1, <1>5, <1>6 DEF ReceivePkt

(* Each packet of a batch is queued, dropped with its flag, or left for the*)
(* receivers to come; the last leaves none.                                *)
LEMMA DispatchPktBatchKept ==
  ASSUME Inv, NEW c \in Cards, AllKept, DispatchPktBatch(c)
  PROVE  AllKept'
<1>1. PICK me \in Places, k \in Rings, pkts \in Seq(Slots) :
        /\ me = capture[c] /\ k = me.ring /\ pkts = me.pkts /\ me.pc = "batch" /\ Kept(c)
        /\ UNCHANGED <<conf, ring, proc, read, current, receive>>
  <2>1. capture[c] \in Places /\ capture[c].ring \in Rings /\ capture[c].pkts \in Seq(Slots) /\ Kept(c)
    BY PlaceIs DEF AllKept
  <2> QED
    BY <2>1 DEF DispatchPktBatch, At
<1>2. PICK mine \in Selections(Len(pkts)), rest \in Selections(Len(pkts)) :
        /\ Dealt(Len(pkts), mine, rest)
        /\ me.to = conf.receivers - 1 => rest = <<>>
        /\ IF mine = <<>> THEN UNCHANGED <<fifo, flag>>
                          ELSE ReceivePktBatch(me.to, c, k, Picked(pkts, mine))
        /\ IF me.to = conf.receivers - 1
             THEN Goto(c, [me EXCEPT !.pc = "refresh", !.pkts = <<>>, !.to = 0])
             ELSE Goto(c, [me EXCEPT !.to = @ + 1, !.pkts = Picked(pkts, rest)])
  BY <1>1 DEF DispatchPktBatch, Picked
<1>3. Receivers' = Receivers /\ Rings' = Rings /\ me.to \in Receivers
  BY <1>1, PlaceIs DEF Receivers, Rings
<1>4. UNCHANGED <<conf, proc, read, receive>>
  BY <1>1
<1>5. \A d \in Cards : d # c => flag'[d] = flag[d]
  BY <1>1, <1>2, <1>4, DealtIs
<1>6. \A o \in Receivers, d \in Cards : d # c => fifo'[o][d] = fifo[o][d]
  BY <1>1, <1>2, <1>4, DealtIs
<1>7. AllDealt(c, me.to, k, pkts, mine)
  BY <1>1, <1>2, <1>4, DealtIs
<1>8. PICK place :
        /\ Goto(c, place) /\ place.ring = k
        /\ \/ place.pc = "refresh" /\ place.pkts = <<>> /\ rest = <<>>
           \/ place.pc = "batch" /\ place.pkts = Picked(pkts, rest)
  <2> DEFINE last == [me EXCEPT !.pc = "refresh", !.pkts = <<>>, !.to = 0]
             next == [me EXCEPT !.to = @ + 1, !.pkts = Picked(pkts, rest)]
  <2>1. /\ last.ring = k /\ last.pc = "refresh" /\ last.pkts = <<>>
        /\ next.ring = k /\ next.pc = "batch" /\ next.pkts = Picked(pkts, rest)
    BY <1>1 DEF Places
  <2>2. (Goto(c, last) /\ rest = <<>>) \/ Goto(c, next)
    BY <1>2
  <2> HIDE DEF last, next
  <2> QED
    BY <2>1, <2>2
<1>9. capture'[c] = place /\ \A d \in Cards : d # c => capture'[d] = capture[d]
  BY <1>8, OtherPlaces
<1>10. ASSUME NEW h \in Rings, NEW s \in Slots, flag'[c][h][s] PROVE HasReader(c, h, s)'
  <2>1. HasReader(c, h, s)
    BY <1>1, <1>7, <1>10 DEF Kept, AllDealt
  <2>2. CASE \E o \in Receivers : \E i \in Pending(o, c) : fifo[o][c][i] = [ring |-> h, slot |-> s]
    <3>1. PICK o \in Receivers : \E i \in Pending(o, c) : fifo[o][c][i] = [ring |-> h, slot |-> s]
      BY <2>2
    <3>2. PICK i \in Pending(o, c) : fifo[o][c][i] = [ring |-> h, slot |-> s]
      BY <3>1
    <3>3. i \in Pending(o, c)' /\ fifo'[o][c][i] = [ring |-> h, slot |-> s]
      BY <1>7, <3>2 DEF AllDealt
    <3> QED
      BY <1>3, <3>3 DEF HasReader
  <2>3. CASE h = k /\ \E i \in DOMAIN pkts : pkts[i] = s
    <3>1. PICK i \in 1 .. Len(pkts) : pkts[i] = s
      BY <2>3
    <3>2. CASE \E j \in DOMAIN mine : mine[j] = i
      <4>1. PICK j \in DOMAIN mine : mine[j] = i
        BY <3>2
      <4>2. \E l \in Pending(me.to, c)' : fifo'[me.to][c][l] = [ring |-> h, slot |-> s]
        BY <1>7, <1>10, <2>3, <3>1, <4>1 DEF AllDealt
      <4> QED
        BY <1>3, <4>2 DEF HasReader
    <3>3. CASE \E j \in DOMAIN rest : rest[j] = i
      <4>1. PICK j \in DOMAIN rest : rest[j] = i
        BY <3>3
      <4>2. rest # <<>>
        BY <4>1
      <4>3. j \in DOMAIN place.pkts /\ place.pkts[j] = s
        BY <1>8, <3>1, <4>1, <4>2 DEF Picked
      <4> QED
        BY <1>8, <1>9, <2>3, <4>3 DEF HasReader
    <3> QED
      BY <1>2, <3>1, <3>2, <3>3 DEF Dealt
  <2> QED
    BY <1>1, <2>1, <2>2, <2>3 DEF HasReader
<1>11. Kept(c)'
  BY <1>3, <1>8, <1>9, <1>10 DEF Kept
<1> QED
  BY <1>1, <1>5, <1>6, <1>9, <1>11, OtherKept

(* Whoever waited in a queue still does, unless its flag was lowered.      *)
StillQueued(c) ==
  /\ \A h \in Rings, s \in Slots : flag'[c][h][s] => flag[c][h][s]
  /\ \A o \in Receivers : \A i \in Pending(o, c) :
       flag'[c][fifo[o][c][i].ring][fifo[o][c][i].slot] =>
         \E j \in Pending(o, c)' : fifo'[o][c][j] = fifo[o][c][i]

LEMMA QueuesKept ==
  ASSUME NEW c \in Cards, Kept(c), UNCHANGED <<conf, capture>>, StillQueued(c)
  PROVE  Kept(c)'
<1>1. Receivers' = Receivers /\ Rings' = Rings
  BY DEF Receivers, Rings
<1>2. ASSUME NEW h \in Rings, NEW s \in Slots, flag'[c][h][s] PROVE HasReader(c, h, s)'
  <2>1. HasReader(c, h, s)
    BY <1>2 DEF Kept, StillQueued
  <2>2. CASE \E o \in Receivers : \E i \in Pending(o, c) : fifo[o][c][i] = [ring |-> h, slot |-> s]
    <3>1. PICK o \in Receivers : \E i \in Pending(o, c) : fifo[o][c][i] = [ring |-> h, slot |-> s]
      BY <2>2
    <3>2. PICK i \in Pending(o, c) : fifo[o][c][i] = [ring |-> h, slot |-> s]
      BY <3>1
    <3>3. fifo[o][c][i].ring = h /\ fifo[o][c][i].slot = s
      BY <3>2
    <3>4. \E j \in Pending(o, c)' : fifo'[o][c][j] = fifo[o][c][i]
      BY <1>2, <3>3 DEF StillQueued
    <3> QED
      BY <1>1, <3>2, <3>4 DEF HasReader
  <2> QED
    BY <2>1, <2>2 DEF HasReader
<1> QED
  BY <1>1, <1>2 DEF Kept

LEMMA LookKept ==
  ASSUME Inv, NEW r \in Receivers, AllKept, LookFurther(r) \/ GetReadable(r)
  PROVE  AllKept'
<1>1. PICK me \in Turns, n \in Nat :
        me = receive[r] /\ me.done = 0 /\ me.pc = "look" /\ n = Len(fifo[r][me.fifo])
  BY TurnIs DEF LookFurther, GetReadable, Serves
<1>2. UNCHANGED <<conf, capture, flag, fifo>> /\ Cards' = Cards
  BY DEF LookFurther, GetReadable, Cards
<1> DEFINE further == [me EXCEPT !.fifo = NextFifo(@)]
           given   == [me EXCEPT !.pc = "process", !.done = 0, !.got = IF conf.batch THEN n ELSE 1]
<1>3. PICK turn : receive' = [receive EXCEPT ![r] = turn] /\ turn.done = 0
  <2>1. further.done = 0 /\ given.done = 0
    BY <1>1 DEF Turns
  <2>2. receive' = [receive EXCEPT ![r] = further] \/ receive' = [receive EXCEPT ![r] = given]
    BY <1>1 DEF LookFurther, GetReadable, Inv, Types
  <2> HIDE DEF further, given
  <2> QED
    BY <2>1, <2>2
<1>4. \A o \in Receivers, c \in Cards : Pending(o, c)' = Pending(o, c)
  BY <1>1, <1>2, <1>3 DEF Pending, Inv, Types
<1>5. ASSUME NEW c \in Cards PROVE Kept(c)'
  BY <1>2, <1>4, KeptSame DEF AllKept
<1> QED
  BY <1>2, <1>5 DEF AllKept

(* The flag of the packet that was processed goes down. *)
LEMMA ProcessKept ==
  ASSUME Inv, NEW r \in Receivers, AllKept, Process(r)
  PROVE  AllKept'
<1>1. PICK me \in Turns, f \in Cards, p \in Packets, n \in Nat :
        /\ me = receive[r] /\ f = me.fifo /\ me.pc = "process"
        /\ me.done < me.got /\ me.got <= n /\ me.done \in Nat /\ me.got \in Nat
        /\ n = Len(fifo[r][f]) /\ p = fifo[r][f][me.done + 1]
  <2>1. /\ receive[r] \in Turns /\ receive[r].fifo \in Cards /\ receive[r].pc = "process"
        /\ receive[r].done < receive[r].got /\ receive[r].got <= Len(fifo[r][receive[r].fifo])
        /\ receive[r].done \in Nat /\ receive[r].got \in Nat
        /\ fifo[r][receive[r].fifo] \in Seq(Packets)
        /\ Len(fifo[r][receive[r].fifo]) \in Nat
    BY TurnIs DEF Process, Serves
  <2>2. receive[r].done + 1 \in 1 .. Len(fifo[r][receive[r].fifo])
    BY <2>1
  <2> QED
    BY <2>1, <2>2
<1>2. /\ UNCHANGED <<conf, capture, fifo>> /\ Cards' = Cards
      /\ flag' = [flag EXCEPT ![f][p.ring][p.slot] = FALSE]
  BY <1>1 DEF Process, Cards
<1> DEFINE turn == [me EXCEPT !.done = @ + 1, !.pc = IF me.done + 1 = me.got THEN "finish" ELSE @]
<1>3. turn.done = me.done + 1 /\ turn.fifo = f
  BY <1>1 DEF Turns
<1>4. receive' = [receive EXCEPT ![r] = turn]
  BY <1>1 DEF Process, Inv, Types
<1> HIDE DEF turn
<1>5. receive'[r] = turn /\ \A o \in Receivers : o # r => receive'[o] = receive[o]
  BY <1>4 DEF Inv, Types
<1>6. p.ring \in Rings /\ p.slot \in Slots /\ LowerFlag(f, p.ring, p.slot)
  BY <1>1, <1>2 DEF Packets, LowerFlag
<1>7. \A d \in Cards : d # f => flag'[d] = flag[d]
  BY <1>6, FlagLowered
<1>8. ~ flag'[f][p.ring][p.slot]
  BY <1>6, FlagLowered
<1>9. ASSUME NEW h \in Rings, NEW s \in Slots, h # p.ring \/ s # p.slot
      PROVE  flag'[f][h][s] = flag[f][h][s]
  BY <1>6, <1>9, FlagLowered
<1>10. ASSUME NEW d \in Cards, d # f PROVE Kept(d)'
  <2>1. \A o \in Receivers : Pending(o, d)' = Pending(o, d)
    BY <1>1, <1>2, <1>3, <1>5, <1>10 DEF Pending
  <2> QED
    BY <1>2, <1>7, <1>10, <2>1, KeptSame DEF AllKept
<1>11. Kept(f)'
  <2>1. \A h \in Rings, s \in Slots : flag'[f][h][s] => flag[f][h][s]
    BY <1>8, <1>9
  <2>2. ASSUME NEW o \in Receivers, NEW i \in Pending(o, f),
               flag'[f][fifo[o][f][i].ring][fifo[o][f][i].slot]
        PROVE  i \in Pending(o, f)'
    <3>1. ~ (o = r /\ i = me.done + 1)
      BY <1>1, <1>8, <2>2
    <3>2. CASE o # r
      BY <1>2, <1>5, <3>2 DEF Pending
    <3>3. CASE o = r
      <4>1. i \in 1 + me.done .. n
        BY <1>1, <3>3 DEF Pending
      <4>2. i \in 1 + (me.done + 1) .. n
        BY <1>1, <3>1, <3>3, <4>1
      <4> QED
        BY <1>1, <1>2, <1>3, <1>5, <3>3, <4>2 DEF Pending
    <3> QED
      BY <3>2, <3>3
  <2>3. StillQueued(f)
    BY <1>2, <2>1, <2>2 DEF StillQueued
  <2> QED
    BY <1>2, <2>3, QueuesKept DEF AllKept
<1> QED
  BY <1>2, <1>10, <1>11 DEF AllKept

(* The packets that were read leave the queue; the others move up.         *)
LEMMA FinishKept ==
  ASSUME Inv, NEW r \in Receivers, AllKept, Finish(r)
  PROVE  AllKept'
<1>1. PICK me \in Turns, f \in Cards, old \in Seq(Packets), n \in Nat :
        /\ me = receive[r] /\ f = me.fifo /\ old = fifo[r][f] /\ n = Len(old)
        /\ me.done = me.got /\ me.got <= n /\ me.got \in Nat
  <2>1. /\ receive[r] \in Turns /\ receive[r].fifo \in Cards
        /\ receive[r].done = receive[r].got /\ receive[r].got <= Len(fifo[r][receive[r].fifo])
        /\ receive[r].got \in Nat /\ fifo[r][receive[r].fifo] \in Seq(Packets)
        /\ Len(fifo[r][receive[r].fifo]) \in Nat
    BY TurnIs DEF Finish, Serves
  <2> QED
    BY <2>1
<1>2. UNCHANGED <<conf, capture, flag>> /\ Cards' = Cards
  BY DEF Finish, Cards
<1> DEFINE turn == [pc |-> "look", fifo |-> NextFifo(f), got |-> 0, done |-> 0]
<1>3. turn.done = 0
  OBVIOUS
<1>4. receive' = [receive EXCEPT ![r] = turn]
  BY <1>1 DEF Finish, Inv, Types
<1> HIDE DEF turn
<1>5. receive'[r] = turn /\ \A o \in Receivers : o # r => receive'[o] = receive[o]
  BY <1>4 DEF Inv, Types
<1>6. PICK q \in Seq(Packets) :
        /\ q = SubSeq(old, me.got + 1, n) /\ Len(q) = n - me.got
        /\ \A i \in 1 .. n - me.got : q[i] = old[i + me.got]
  <2> DEFINE w == old
             g == me.got
             len == n
  <2>1. w \in Seq(Packets) /\ g \in Nat /\ g <= len /\ len = Len(w) /\ len \in Nat
    BY <1>1
  <2> HIDE DEF w, g, len
  <2>2. \E q \in Seq(Packets) :
          /\ q = SubSeq(w, g + 1, len) /\ Len(q) = len - g
          /\ \A i \in 1 .. len - g : q[i] = w[i + g]
    BY <2>1, RestIs
  <2> QED
    BY <2>2 DEF w, g, len
<1>7. fifo' = [fifo EXCEPT ![r][f] = q]
  BY <1>1, <1>6 DEF Finish, Inv, Types
<1>8. /\ fifo'[r][f] = q
      /\ \A o \in Receivers, d \in Cards : o # r \/ d # f => fifo'[o][d] = fifo[o][d]
  BY <1>7 DEF Inv, Types
<1>9. ASSUME NEW d \in Cards, d # f PROVE Kept(d)'
  <2>1. \A o \in Receivers : Pending(o, d)' = Pending(o, d) /\ fifo'[o][d] = fifo[o][d]
    BY <1>1, <1>3, <1>5, <1>8, <1>9 DEF Pending
  <2> QED
    BY <1>2, <1>9, <2>1, KeptSame DEF AllKept
<1>10. Kept(f)'
  <2>1. ASSUME NEW o \in Receivers, NEW i \in Pending(o, f)
        PROVE  \E j \in Pending(o, f)' : fifo'[o][f][j] = fifo[o][f][i]
    <3>1. CASE o # r
      BY <1>5, <1>8, <3>1 DEF Pending
    <3>2. CASE o = r
      <4>1. i \in 1 + me.got .. n
        BY <1>1, <2>1, <3>2 DEF Pending
      <4>2. PICK j \in 1 .. n - me.got : i = j + me.got
        <5>1. i - me.got \in 1 .. n - me.got /\ i = (i - me.got) + me.got
          BY <1>1, <4>1
        <5> QED
          BY <5>1
      <4>3. Pending(r, f)' = 1 .. Len(q)
        BY <1>3, <1>5, <1>8 DEF Pending
      <4>4. fifo'[r][f][j] = fifo[r][f][i]
        BY <1>1, <1>6, <1>8, <4>2
      <4> QED
        BY <1>6, <3>2, <4>2, <4>3, <4>4
    <3> QED
      BY <3>1, <3>2
  <2>2. StillQueued(f)
    BY <1>2, <2>1 DEF StillQueued
  <2> QED
    BY <1>2, <2>2, QueuesKept DEF AllKept
<1> QED
  BY <1>2, <1>9, <1>10 DEF AllKept

LEMMA InitKept == Init => AllKept
<1> SUFFICES ASSUME Init, NEW c \in Cards PROVE Kept(c)
  BY DEF AllKept
<1>1. capture[c] = Idle /\ Idle.pc = "poll"
  BY DEF Init, Idle
<1>2. \A k \in Rings, s \in Slots : ~ flag[c][k][s]
  BY DEF Init
<1> QED
  BY <1>1, <1>2 DEF Kept

LEMMA NextKept ==
  ASSUME Inv, AllKept, NoBatchDropped, [Next]_vars
  PROVE  AllKept'
<1>1. ASSUME NEW c \in Cards, Capture(c) \/ PollError(c) PROVE AllKept'
  BY <1>1, StepsKept, MarkSlotKept, DispatchPktKept, DispatchPktBatchKept DEF Capture
<1>2. ASSUME NEW r \in Receivers, Receive(r) PROVE AllKept'
  BY <1>2, LookKept, ProcessKept, FinishKept DEF Receive
<1>3. CASE UNCHANGED vars
  <2>1. Cards' = Cards /\ \A o \in Receivers, c \in Cards : Pending(o, c)' = Pending(o, c)
    BY <1>3 DEF vars, Cards, Pending
  <2>2. ASSUME NEW c \in Cards PROVE Kept(c)'
    BY <1>3, <2>1, KeptSame DEF vars, AllKept
  <2> QED
    BY <2>1, <2>2 DEF AllKept
<1> QED
  BY <1>1, <1>2, <1>3 DEF Next

(* A flag that is up has someone who will lower it, on every path, drops   *)
(* included, provided no configuration deals batches round-robin.          *)
THEOREM FlagsComeDown == NoBatchDropped => (Spec => []NoSlotLost)
<1>1. Inv /\ AllKept => NoSlotLost
  BY ReadSlot, HasReaderIs DEF AllKept, Kept, NoSlotLost
<1>2. NoBatchDropped /\ Inv /\ AllKept /\ [Next]_vars => AllKept'
  BY NextKept
<1>3. NoBatchDropped => NoBatchDropped'
  BY DEF NoBatchDropped
<1> QED
  BY <1>1, <1>2, <1>3, InitKept, Inductive, PTL DEF Spec

-----------------------------------------------------------------------------
(* What the queues hold.  Packets that wait for their receiver lie in as   *)
(* many slots, and the kernel keeps one of each ring, so that there are    *)
(* never more than InFlight of them.  A receiver in batches lets go of what*)
(* it was given when it has processed all of it.                           *)

InFlight == conf.rings * (NumSlots - 1)

Bounded ==
  /\ \A c \in Cards :
       /\ capture[c].left < NumSlots
       /\ At(c, "batch") => conf.batch
  /\ \A r \in Receivers :
       IF conf.batch THEN receive[r].got <= InFlight
                     ELSE \A c \in Cards : Len(fifo[r][c]) < conf.size

LEMMA InFlightIs ==
  ASSUME conf \in Configs
  PROVE  /\ InFlight \in Nat
         /\ conf.batch => conf.size > InFlight + InFlight
<1>1. PICK m \in Configs : m = conf
  OBVIOUS
<1>2. /\ m.rings \in Nat /\ NumSlots - 1 \in Nat /\ m.size \in Nat
      /\ m.batch => m.size > 2 * m.rings * (NumSlots - 1)
  BY CaptureAssumption, BatchAssumption, SlotsAre
<1>3. \A a, b \in Nat : a * b \in Nat /\ 2 * a * b = a * b + a * b
  OBVIOUS
<1>4. /\ m.rings * (NumSlots - 1) \in Nat
      /\ 2 * m.rings * (NumSlots - 1) = m.rings * (NumSlots - 1) + m.rings * (NumSlots - 1)
  BY <1>2, <1>3
<1> QED
  BY <1>1, <1>2, <1>4 DEF InFlight

(* Each waiting packet is told from the others by its ring and how far on  *)
(* its slot is.                                                            *)
LEMMA PendingFew ==
  ASSUME Inv, NEW c \in Cards, NEW r \in Receivers
  PROVE  /\ IsFiniteSet(Pending(r, c))
         /\ Cardinality(Pending(r, c)) <= InFlight
<1> DEFINE S == Pending(r, c)
           T == Rings \X (0 .. NumSlots - 2)
           where == [i \in S |-> <<fifo[r][c][i].ring, Pos(c, fifo[r][c][i].ring, fifo[r][c][i].slot)>>]
<1>1. conf.rings \in Nat \ {0} /\ NumSlots \in Nat /\ NumSlots > 1
  BY ConfIs, SlotsAre DEF Inv, Types
<1>2. IsFiniteSet(Rings) /\ Cardinality(Rings) = conf.rings
  <2>1. 0 \in Int /\ conf.rings - 1 \in Int /\ 0 <= conf.rings - 1
    BY <1>1
  <2>2. /\ IsFiniteSet(0 .. conf.rings - 1)
        /\ Cardinality(0 .. conf.rings - 1) = conf.rings - 1 - 0 + 1
    BY <2>1, FS_Interval
  <2> QED
    BY <1>1, <2>2 DEF Rings
<1>3. IsFiniteSet(0 .. NumSlots - 2) /\ Cardinality(0 .. NumSlots - 2) = NumSlots - 1
  <2>1. 0 \in Int /\ NumSlots - 2 \in Int /\ 0 <= NumSlots - 2
    BY <1>1
  <2>2. /\ IsFiniteSet(0 .. NumSlots - 2)
        /\ Cardinality(0 .. NumSlots - 2) = NumSlots - 2 - 0 + 1
    BY <2>1, FS_Interval
  <2> QED
    BY <1>1, <2>2
<1>4. IsFiniteSet(T) /\ Cardinality(T) = InFlight
  BY <1>2, <1>3, FS_Product DEF InFlight
<1>5. ASSUME NEW i \in S
      PROVE  /\ fifo[r][c][i].ring \in Rings /\ fifo[r][c][i].slot \in Slots
             /\ proc[c][fifo[r][c][i].ring] \in Slots
             /\ fifo[r][c][i] = [ring |-> fifo[r][c][i].ring, slot |-> fifo[r][c][i].slot]
             /\ Pos(c, fifo[r][c][i].ring, fifo[r][c][i].slot) \in Nat
             /\ Captured(c, fifo[r][c][i].ring) \in Nat
             /\ Pos(c, fifo[r][c][i].ring, fifo[r][c][i].slot) < Captured(c, fifo[r][c][i].ring)
  BY PendingIs
<1>6. where \in [S -> T]
  <2>1. ASSUME NEW i \in S
        PROVE  <<fifo[r][c][i].ring, Pos(c, fifo[r][c][i].ring, fifo[r][c][i].slot)>> \in T
    <3>1. PICK p :
            /\ p = fifo[r][c][i] /\ p.ring \in Rings /\ proc[c][p.ring] \in Slots
            /\ Pos(c, p.ring, p.slot) \in Nat /\ Captured(c, p.ring) \in Nat
            /\ Pos(c, p.ring, p.slot) < Captured(c, p.ring)
      BY <1>5
    <3>2. Captured(c, p.ring) < NumSlots
      <4>1. proc[c][p.ring] # Unset
        BY <3>1, SlotsAre
      <4>2. /\ Published(c, p.ring) \in Nat /\ Captured(c, p.ring) <= Published(c, p.ring)
            /\ Published(c, p.ring) < NumSlots
        BY <3>1, <4>1, IndexedIs
      <4> QED
        BY <1>1, <3>1, <4>2
    <3>3. Pos(c, p.ring, p.slot) \in 0 .. NumSlots - 2
      BY <1>1, <3>1, <3>2
    <3> QED
      BY <3>1, <3>3
  <2> QED
    BY <2>1
<1>7. ASSUME NEW i \in S, NEW j \in S, where[i] = where[j] PROVE i = j
  <2>1. PICK p :
          /\ p = fifo[r][c][i] /\ p.ring \in Rings /\ p.slot \in Slots
          /\ proc[c][p.ring] \in Slots /\ p = [ring |-> p.ring, slot |-> p.slot]
    BY <1>5
  <2>2. PICK q :
          /\ q = fifo[r][c][j] /\ q.ring \in Rings /\ q.slot \in Slots
          /\ proc[c][q.ring] \in Slots /\ q = [ring |-> q.ring, slot |-> q.slot]
    BY <1>5
  <2>3. p.ring = q.ring /\ Pos(c, p.ring, p.slot) = Pos(c, q.ring, q.slot)
    BY <1>7, <2>1, <2>2
  <2>4. p.slot = q.slot
    BY <2>1, <2>2, <2>3, CountInjective DEF Pos
  <2>5. p = q
    BY <2>1, <2>2, <2>3, <2>4
  <2>6. i \in Pending(r, c) /\ j \in Pending(r, c) /\ fifo[r][c][i] = fifo[r][c][j]
    BY <2>1, <2>2, <2>5
  <2>7. Apart(c)
    BY DEF Inv, CardInv
  <2> HIDE DEF S, T, where
  <2> QED
    BY <2>6, <2>7 DEF Apart
<1> HIDE DEF S, T, where
<1>8. where \in Injection(S, T)
  BY <1>6, <1>7 DEF Injection, IsInjective
<1>9. IsFiniteSet(S) /\ Cardinality(S) <= Cardinality(T)
  BY <1>4, <1>8, FS_Injection
<1> QED
  BY <1>4, <1>9 DEF S

LEMMA QueueIs ==
  ASSUME Inv, NEW c \in Cards, NEW r \in Receivers
  PROVE  /\ fifo[r][c] \in Seq(Packets) /\ Len(fifo[r][c]) \in Nat
         /\ Len(fifo[r][c]) <= (IF receive[r].fifo = c THEN receive[r].done ELSE 0) + InFlight
<1> DEFINE d == IF receive[r].fifo = c THEN receive[r].done ELSE 0
           n == Len(fifo[r][c])
<1>1. fifo[r][c] \in Seq(Packets) /\ n \in Nat /\ receive[r].done \in Nat
  BY TurnIs DEF Inv, Types
<1>2. d \in Nat
  BY <1>1
<1>3. Pending(r, c) = 1 + d .. n
  BY DEF Pending
<1>4. Cardinality(Pending(r, c)) <= InFlight
  BY PendingFew
<1>5. InFlight \in Nat
  BY InFlightIs DEF Inv, Types
<1> HIDE DEF d, n
<1>6. Cardinality(1 + d .. n) = IF 1 + d > n THEN 0 ELSE n - (1 + d) + 1
  BY <1>1, <1>2, FS_Interval
<1>7. n <= d + InFlight
  BY <1>1, <1>2, <1>3, <1>4, <1>5, <1>6
<1> QED
  BY <1>1, <1>7 DEF d, n

LEMMA InitBounded == Init => Bounded
<1> SUFFICES ASSUME Init PROVE Bounded
  OBVIOUS
<1>1. conf \in Configs
  BY DEF Init
<1>2. InFlight \in Nat /\ conf.size \in Nat /\ conf.size > 0 /\ NumSlots \in Nat /\ NumSlots > 1
  BY <1>1, InFlightIs, ConfIs, SlotsAre
<1>3. ASSUME NEW c \in Cards PROVE capture[c].left < NumSlots /\ ~ At(c, "batch")
  BY <1>2 DEF Init, Idle, At
<1>4. ASSUME NEW r \in Receivers
      PROVE  receive[r].got = 0 /\ \A c \in Cards : Len(fifo[r][c]) = 0
  BY DEF Init
<1> QED
  BY <1>2, <1>3, <1>4 DEF Bounded

(* A capture thread: what is left of a ring goes down from a count of      *)
(* slots.                                                                  *)
LEMMA LeftSame ==
  ASSUME Inv, Bounded, NEW c \in Cards, NEW place, Goto(c, place), conf' = conf,
         place.left < NumSlots, place.pc = "batch" => conf.batch
  PROVE  \A d \in Cards : capture'[d].left < NumSlots /\ (At(d, "batch")' => conf'.batch)
<1>1. capture'[c] = place /\ \A d \in Cards : d # c => capture'[d] = capture[d]
  BY OtherPlaces
<1> QED
  BY <1>1 DEF Bounded, At

LEMMA CaptureBounded ==
  ASSUME Inv, Bounded, NEW c \in Cards, Capture(c) \/ PollError(c)
  PROVE  \A d \in Cards : capture'[d].left < NumSlots /\ (At(d, "batch")' => conf'.batch)
<1>1. PICK me \in Places, k \in Rings :
        /\ me = capture[c] /\ k = me.ring /\ me.left \in Nat /\ me.left < NumSlots
        /\ NumSlots \in Nat /\ NumSlots > 1
        /\ (me.pc = "batch" => conf.batch)
        /\ Indexed(c, k) /\ Walks(c)
        /\ ring[c][k].cur \in Slots /\ ring[c][k].tail \in Slots
  BY PlaceIs, SlotsAre DEF Bounded, At
<1>2. conf' = conf
  BY DEF Capture, Poll, VisitRing, SkipSlot, MarkSlot, DispatchPkt, LoadTurn, StoreTurn,
     SlotsSeen, DispatchPktBatch, Refresh, ScanSlot, HandBack, PollError
<1>3. ASSUME NextRing(c, k)
      PROVE  \A d \in Cards : capture'[d].left < NumSlots /\ (At(d, "batch")' => conf'.batch)
  <2>1. PICK place : Goto(c, place) /\ place \in {Idle, [Idle EXCEPT !.pc = "ring", !.ring = k + 1]}
    BY <1>3 DEF NextRing
  <2>2. place.left = 0 /\ place.pc # "batch"
    <3>1. CASE place = Idle
      BY <3>1 DEF Idle
    <3>2. CASE place = [Idle EXCEPT !.pc = "ring", !.ring = k + 1]
      BY <3>2 DEF Idle
    <3> QED
      BY <2>1, <3>1, <3>2
  <2> QED
    BY <1>1, <1>2, <2>1, <2>2, LeftSame
<1>4. CASE Poll(c)
  <2> DEFINE place == [me EXCEPT !.pc = "ring", !.ring = 0]
  <2>1. Goto(c, place)
    BY <1>1, <1>4 DEF Poll
  <2>2. place.left = me.left /\ place.pc = "ring"
    BY DEF Places
  <2> HIDE DEF place
  <2> QED
    BY <1>1, <1>2, <2>1, <2>2, LeftSame
<1>5. CASE PollError(c)
  <2> DEFINE place == [me EXCEPT !.pc = "stopped"]
  <2>1. Goto(c, place)
    BY <1>1, <1>5 DEF PollError
  <2>2. place.left = me.left /\ place.pc = "stopped"
    BY DEF Places
  <2> HIDE DEF place
  <2> QED
    BY <1>1, <1>2, <2>1, <2>2, LeftSame
<1>6. CASE VisitRing(c)
  <2>1. CASE ring[c][k].cur = ring[c][k].tail
    BY <1>1, <1>3, <1>6, <2>1 DEF VisitRing
  <2>2. CASE ring[c][k].cur # ring[c][k].tail
    <3> DEFINE m == SlotCount(ring[c][k].cur, ring[c][k].tail)
               place == [me EXCEPT !.pc = "slot", !.cur = ring[c][k].cur, !.left = m, !.pkts = <<>>]
    <3>1. m < NumSlots
      BY <1>1, CountIs
    <3> HIDE DEF m
    <3>2. Goto(c, place)
      BY <1>1, <1>6, <2>2 DEF VisitRing, m
    <3>3. place.left = m /\ place.pc = "slot"
      BY DEF Places
    <3> HIDE DEF place
    <3> QED
      BY <1>2, <3>1, <3>2, <3>3, LeftSame
  <2> QED
    BY <2>1, <2>2
<1>7. ASSUME me.left > 0, NEW place, Goto(c, place), place.left = me.left - 1,
             place.pc = me.pc \/ place.pc \in {"slot", "turn"}
      PROVE  \A d \in Cards : capture'[d].left < NumSlots /\ (At(d, "batch")' => conf'.batch)
  <2>1. place.left < NumSlots
    BY <1>1, <1>7
  <2>2. place.pc = "batch" => conf.batch
    BY <1>1, <1>7
  <2> QED
    BY <1>2, <1>7, <2>1, <2>2, LeftSame
<1>8. CASE SkipSlot(c) \/ ScanSlot(c)
  <2> DEFINE place == [me EXCEPT !.cur = NextSlot(me.cur), !.left = me.left - 1]
  <2>1. Goto(c, place) /\ me.left > 0
    BY <1>1, <1>8 DEF SkipSlot, ScanSlot
  <2>2. place.left = me.left - 1 /\ place.pc = me.pc
    BY DEF Places
  <2> HIDE DEF place
  <2> QED
    BY <1>7, <2>1, <2>2
<1>9. CASE MarkSlot(c)
  <2>1. CASE conf.batch
    <3> DEFINE place == [me EXCEPT !.cur = NextSlot(me.cur), !.left = me.left - 1,
                                   !.pkts = Append(me.pkts, me.cur)]
    <3>1. Goto(c, place) /\ me.left > 0
      BY <1>1, <1>9, <2>1 DEF MarkSlot
    <3>2. place.left = me.left - 1 /\ place.pc = me.pc
      BY DEF Places
    <3> HIDE DEF place
    <3> QED
      BY <1>7, <3>1, <3>2
  <2>2. CASE ~ conf.batch
    <3> DEFINE place == [me EXCEPT !.pc = "dispatch"]
    <3>1. Goto(c, place)
      BY <1>1, <1>9, <2>2 DEF MarkSlot
    <3>2. place.left = me.left /\ place.pc = "dispatch"
      BY DEF Places
    <3> HIDE DEF place
    <3> QED
      BY <1>1, <1>2, <3>1, <3>2, LeftSame
  <2> QED
    BY <2>1, <2>2
<1>10. CASE DispatchPkt(c)
  <2>1. PICK place :
          /\ Goto(c, place) /\ me.left > 0
          /\ \E pc \in {"slot", "turn"} :
               place = [me EXCEPT !.pc = pc, !.cur = NextSlot(me.cur), !.left = me.left - 1]
    BY <1>1, <1>10 DEF DispatchPkt, At, Walks
  <2>2. place.left = me.left - 1 /\ place.pc \in {"slot", "turn"}
    BY <2>1 DEF Places
  <2> QED
    BY <1>7, <2>1, <2>2
<1>11. CASE SlotsSeen(c)
  <2>1. PICK place : /\ Goto(c, place)
                     /\ \/ conf.batch /\ place = [me EXCEPT !.pc = "batch", !.to = 0]
                        \/ place = [me EXCEPT !.pc = "refresh"]
    BY <1>1, <1>11 DEF SlotsSeen
  <2>2. place.left = me.left /\ (place.pc = "batch" => conf.batch)
    BY <2>1 DEF Places
  <2> QED
    BY <1>1, <1>2, <2>1, <2>2, LeftSame
<1>12. CASE DispatchPktBatch(c)
  <2>1. PICK place, rest :
          /\ Goto(c, place)
          /\ \/ place = [me EXCEPT !.pc = "refresh", !.pkts = <<>>, !.to = 0]
             \/ place = [me EXCEPT !.to = me.to + 1, !.pkts = rest]
    BY <1>1, <1>12 DEF DispatchPktBatch
  <2>2. place.left = me.left /\ (place.pc = "batch" => conf.batch)
    BY <1>1, <2>1 DEF Places
  <2> QED
    BY <1>1, <1>2, <2>1, <2>2, LeftSame
<1>13. CASE Refresh(c)
  <2>1. CASE proc[c][k] = read[c][k]
    BY <1>1, <1>3, <1>13, <2>1 DEF Refresh
  <2>2. CASE proc[c][k] # read[c][k]
    <3> DEFINE place == [me EXCEPT !.pc = "scan", !.cur = proc[c][k], !.left = Captured(c, k)]
    <3>1. Goto(c, place)
      BY <1>1, <1>13, <2>2 DEF Refresh, Captured
    <3>2. Captured(c, k) < NumSlots
      <4>1. proc[c][k] # Unset
        BY <1>1, <1>13 DEF Refresh, At, Walks
      <4>2. proc[c][k] \in Slots /\ read[c][k] \in Slots
        BY <4>1, IndexedIs
      <4> QED
        BY <4>2, CountIs DEF Captured
    <3>3. place.left = Captured(c, k) /\ place.pc = "scan"
      BY DEF Places
    <3> HIDE DEF place
    <3> QED
      BY <1>2, <3>1, <3>2, <3>3, LeftSame
  <2> QED
    BY <2>1, <2>2
<1>14. CASE HandBack(c)
  BY <1>1, <1>3, <1>14 DEF HandBack
<1>15. CASE LoadTurn(c) \/ StoreTurn(c)
  <2>1. PICK pc \in {"store", "slot"} : \E to : Goto(c, [me EXCEPT !.pc = pc, !.to = to])
    BY <1>1, <1>15 DEF LoadTurn, StoreTurn
  <2>2. PICK to : Goto(c, [me EXCEPT !.pc = pc, !.to = to])
    BY <2>1
  <2> DEFINE place == [me EXCEPT !.pc = pc, !.to = to]
  <2>3. Goto(c, place) /\ place.left = me.left /\ place.pc # "batch"
    BY <2>2 DEF Places
  <2> HIDE DEF place
  <2> QED
    BY <1>1, <1>2, <2>3, LeftSame
<1> QED
  BY <1>4, <1>5, <1>6, <1>8, <1>9, <1>10, <1>11, <1>12, <1>13, <1>14, <1>15 DEF Capture

(* A queue without batches takes a packet only while it has room.          *)
LEMMA QueuesBounded ==
  ASSUME Inv, Bounded, ~ conf.batch, NEW c \in Cards, DispatchPkt(c)
  PROVE  \A r \in Receivers, d \in Cards : Len(fifo'[r][d]) < conf.size
<1> DEFINE p == [ring |-> capture[c].ring, slot |-> capture[c].cur]
<1>1. PICK o \in Receivers : ReceivePkt(o, c, p)
  BY DEF DispatchPkt, Inv, Types
<1> HIDE DEF p
<1>2. \A r \in Receivers, d \in Cards :
        /\ Len(fifo[r][d]) < conf.size
        /\ fifo[r][d] \in Seq(Packets)
        /\ Len(fifo[r][d]) \in Nat
  BY DEF Bounded, Inv, Types
<1>3. conf.size \in Nat
  BY ConfIs DEF Inv, Types
<1>4. CASE UNCHANGED fifo
  BY <1>2, <1>4
<1>5. CASE /\ Len(fifo[o][c]) # conf.size - 1
           /\ fifo' = [fifo EXCEPT ![o][c] = Append(fifo[o][c], p)]
  <2>1. Len(Append(fifo[o][c], p)) = Len(fifo[o][c]) + 1
    BY <1>2
  <2>2. /\ fifo'[o][c] = Append(fifo[o][c], p)
        /\ \A r \in Receivers, d \in Cards : r # o \/ d # c => fifo'[r][d] = fifo[r][d]
    BY <1>5 DEF Inv, Types
  <2>3. Len(fifo'[o][c]) < conf.size
    BY <1>2, <1>3, <1>5, <2>1, <2>2
  <2> QED
    BY <1>2, <2>2, <2>3
<1> QED
  BY <1>1, <1>4, <1>5 DEF ReceivePkt

LEMMA CaptureQueues ==
  ASSUME Inv, Bounded, NEW c \in Cards, Capture(c) \/ PollError(c)
  PROVE  /\ UNCHANGED <<conf, receive>>
         /\ ~ conf.batch => \A r \in Receivers, d \in Cards : Len(fifo'[r][d]) < conf.size
<1>1. UNCHANGED <<conf, receive>>
  BY DEF Capture, Poll, VisitRing, SkipSlot, MarkSlot, DispatchPkt, LoadTurn, StoreTurn,
     SlotsSeen, DispatchPktBatch, Refresh, ScanSlot, HandBack, PollError
<1>2. ASSUME ~ conf.batch PROVE \A r \in Receivers, d \in Cards : Len(fifo'[r][d]) < conf.size
  <2>1. CASE DispatchPkt(c)
    BY <1>2, <2>1, QueuesBounded
  <2>2. CASE UNCHANGED fifo
    BY <1>2, <2>2 DEF Bounded
  <2>3. ~ DispatchPktBatch(c)
    BY <1>2 DEF Bounded, DispatchPktBatch
  <2> QED
    BY <2>1, <2>2, <2>3 DEF Capture, Poll, VisitRing, SkipSlot, MarkSlot, LoadTurn, StoreTurn,
       SlotsSeen, Refresh, ScanSlot, HandBack, PollError
<1> QED
  BY <1>1, <1>2

(* A receiver that looks has processed nothing yet, so that all it is given*)
(* waits; what it is done with leaves the queue.                           *)
LEMMA ReceiveBounded ==
  ASSUME Inv, Bounded, NEW r \in Receivers, Receive(r)
  PROVE  Bounded'
<1>1. /\ UNCHANGED <<conf, capture>>
      /\ Cards' = Cards /\ Receivers' = Receivers /\ InFlight' = InFlight
  BY DEF Receive, LookFurther, GetReadable, Process, Finish, Cards, Receivers, InFlight
<1>2. \A d \in Cards : capture'[d].left < NumSlots /\ (At(d, "batch")' => conf'.batch)
  BY <1>1 DEF Bounded, At
<1>3. ASSUME ~ conf.batch, NEW o \in Receivers, NEW d \in Cards PROVE Len(fifo'[o][d]) < conf.size
  <2>1. /\ Len(fifo[o][d]) < conf.size /\ conf.size \in Nat
        /\ fifo[o][d] \in Seq(Packets) /\ Len(fifo[o][d]) \in Nat
    BY <1>3, ConfIs DEF Bounded, Inv, Types
  <2>2. CASE UNCHANGED fifo
    BY <2>1, <2>2
  <2>3. CASE Finish(r)
    <3>1. PICK old \in Seq(Packets), g \in Nat, f \in Cards :
            /\ f = receive[r].fifo /\ old = fifo[r][f] /\ g = receive[r].got /\ g <= Len(old)
      BY <2>3, TurnIs DEF Finish, Serves
    <3>2. /\ fifo'[r][f] = SubSeq(old, g + 1, Len(old))
          /\ \A q \in Receivers, e \in Cards : q # r \/ e # f => fifo'[q][e] = fifo[q][e]
      BY <2>3, <3>1 DEF Finish, Inv, Types
    <3>3. Len(old) \in Nat /\ Len(SubSeq(old, g + 1, Len(old))) = Len(old) - g
      <4> DEFINE w == old
                 n == Len(w)
      <4>1. w \in Seq(Packets) /\ n \in Nat /\ g <= n
        BY <3>1
      <4> HIDE DEF w
      <4>2. n = Len(w)
        OBVIOUS
      <4> HIDE DEF n
      <4>3. Len(SubSeq(w, g + 1, n)) = n - g
        BY <4>1, <4>2, RestIs
      <4> QED
        BY <4>1, <4>3 DEF w, n
    <3>4. CASE o = r /\ d = f
      <4>1. Len(fifo'[r][f]) = Len(fifo[r][f]) - g
        BY <3>1, <3>2, <3>3
      <4>2. Len(fifo[r][f]) < conf.size /\ Len(fifo[r][f]) \in Nat /\ conf.size \in Nat
        BY <2>1, <3>4
      <4>3. Len(fifo'[r][f]) < conf.size
        BY <3>1, <4>1, <4>2
      <4> QED
        BY <3>4, <4>3
    <3>5. CASE o # r \/ d # f
      BY <2>1, <3>2, <3>5
    <3> QED
      BY <3>4, <3>5
  <2> QED
    BY <2>2, <2>3 DEF Receive, LookFurther, GetReadable, Process
<1>4. ASSUME conf.batch, NEW o \in Receivers PROVE receive'[o].got <= InFlight
  <2>1. /\ receive[o].got <= InFlight /\ receive[o] \in Turns /\ receive[r] \in Turns
        /\ InFlight \in Nat
    BY <1>4, TurnIs, InFlightIs DEF Bounded, Inv, Types
  <2>2. CASE o # r
    BY <2>1, <2>2 DEF Receive, LookFurther, GetReadable, Process, Finish, Inv, Types
  <2>3. CASE o = r /\ (LookFurther(r) \/ Process(r))
    <3>1. CASE LookFurther(r)
      <4>1. receive' = [receive EXCEPT ![r].fifo = NextFifo(receive[r].fifo)]
        BY <3>1 DEF LookFurther
      <4> QED
        BY <2>1, <2>3, <4>1 DEF Inv, Types, Turns
    <3>2. CASE Process(r)
      <4>1. PICK done, pc : receive' = [receive EXCEPT ![r].done = done, ![r].pc = pc]
        BY <3>2 DEF Process
      <4> QED
        BY <2>1, <2>3, <4>1 DEF Inv, Types, Turns
    <3> QED
      BY <2>3, <3>1, <3>2
  <2>4. CASE o = r /\ GetReadable(r)
    <3>1. receive'[r].got = Len(fifo[r][receive[r].fifo])
      BY <1>4, <2>1, <2>4 DEF GetReadable, Inv, Types, Turns
    <3>2. receive[r].done = 0 /\ receive[r].fifo \in Cards
      BY <2>4, TurnIs DEF GetReadable, Serves
    <3>3. Len(fifo[r][receive[r].fifo]) <= 0 + InFlight
      BY <3>2, QueueIs
    <3> QED
      BY <2>1, <2>4, <3>1, <3>3
  <2>5. CASE o = r /\ Finish(r)
    <3>1. receive'[r].got = 0
      BY <2>5 DEF Finish, Inv, Types
    <3> QED
      BY <2>1, <2>5, <3>1
  <2> QED
    BY <2>2, <2>3, <2>4, <2>5 DEF Receive
<1>5. ASSUME NEW o \in Receivers
      PROVE  IF conf.batch THEN receive'[o].got <= InFlight
                           ELSE \A d \in Cards : Len(fifo'[o][d]) < conf.size
  BY <1>3, <1>4
<1> QED
  BY <1>1, <1>2, <1>5 DEF Bounded

LEMMA NextBounded ==
  ASSUME Inv, Bounded, [Next]_vars
  PROVE  Bounded'
<1>1. ASSUME NEW c \in Cards, Capture(c) \/ PollError(c) PROVE Bounded'
  <2>1. \A d \in Cards : capture'[d].left < NumSlots /\ (At(d, "batch")' => conf'.batch)
    BY <1>1, CaptureBounded
  <2>2. /\ UNCHANGED <<conf, receive>>
        /\ ~ conf.batch => \A r \in Receivers, d \in Cards : Len(fifo'[r][d]) < conf.size
    BY <1>1, CaptureQueues
  <2>3. Cards' = Cards /\ Receivers' = Receivers /\ InFlight' = InFlight
    BY <2>2 DEF Cards, Receivers, InFlight
  <2>4. ASSUME NEW o \in Receivers
        PROVE  IF conf.batch THEN receive'[o].got <= InFlight
                             ELSE \A d \in Cards : Len(fifo'[o][d]) < conf.size
    BY <2>2 DEF Bounded
  <2> QED
    BY <2>1, <2>2, <2>3, <2>4 DEF Bounded
<1>2. ASSUME NEW r \in Receivers, Receive(r) PROVE Bounded'
  BY <1>2, ReceiveBounded
<1>3. CASE UNCHANGED vars
  <2>1. Cards' = Cards /\ Receivers' = Receivers /\ InFlight' = InFlight
    BY <1>3 DEF vars, Cards, Receivers, InFlight
  <2> QED
    BY <1>3, <2>1 DEF vars, Bounded, At
<1> QED
  BY <1>1, <1>2, <1>3 DEF Next

(* The two invariants give the types, and that no queue overflows.         *)
LEMMA BoundedTypes ==
  ASSUME Inv, Bounded
  PROVE  TypeOK
<1>1. ASSUME NEW r \in Receivers, NEW c \in Cards
      PROVE  /\ Len(fifo[r][c]) < conf.size
             /\ \A i \in 1 .. Len(fifo[r][c]) : fifo[r][c][i] \in Packets
  <2>1. PICK n \in Nat, d \in Nat :
          /\ fifo[r][c] \in Seq(Packets) /\ n = Len(fifo[r][c])
          /\ d = receive[r].done /\ d <= receive[r].got /\ receive[r].got \in Nat
    <3>1. fifo[r][c] \in Seq(Packets) /\ Len(fifo[r][c]) \in Nat
      BY DEF Inv, Types
    <3>2. receive[r] \in Turns /\ Serves(r) /\ receive[r].done \in Nat /\ receive[r].got \in Nat
      BY TurnIs
    <3>3. receive[r].done <= receive[r].got
      BY <3>2 DEF Serves, Turns
    <3> QED
      BY <3>1, <3>2, <3>3
  <2>2. InFlight \in Nat /\ conf.size \in Nat /\ (conf.batch => conf.size > InFlight + InFlight)
    BY InFlightIs, ConfIs DEF Inv, Types
  <2>3. CASE conf.batch
    <3>1. receive[r].got <= InFlight
      BY <2>3 DEF Bounded
    <3>2. n <= (IF receive[r].fifo = c THEN d ELSE 0) + InFlight
      BY <2>1, QueueIs
    <3>3. n < conf.size
      BY <2>1, <2>2, <2>3, <3>1, <3>2
    <3> QED
      BY <2>1, <3>3
  <2>4. CASE ~ conf.batch
    BY <2>1, <2>4 DEF Bounded
  <2> QED
    BY <2>3, <2>4
<1>2. ASSUME NEW c \in Cards PROVE capture[c].cur \in Slots /\ capture[c].left \in 0 .. NumSlots
  <2>1. capture[c].cur \in Slots /\ capture[c].left \in Nat
    BY PlaceIs
  <2>2. capture[c].left < NumSlots
    BY DEF Bounded
  <2> QED
    BY <2>1, <2>2, SlotsAre
<1>3. \A r \in Receivers : receive[r].fifo \in Cards
  BY TurnIs
<1> QED
  BY <1>1, <1>2, <1>3 DEF TypeOK, Inv, Types

(* No queue is ever filled to its size, with batches because all that may  *)
(* be in flight fits twice; and no index leaves its ring.                  *)
THEOREM QueuesFit == Spec => []TypeOK
<1>1. Init => Inv /\ Bounded
  BY InitInv, InitBounded
<1>2. Inv /\ Bounded /\ [Next]_vars => (Inv /\ Bounded)'
  BY NextInv, StutterInv, NextBounded
<1>3. Inv /\ Bounded => TypeOK
  BY BoundedTypes
<1> QED
  BY <1>1, <1>2, <1>3, PTL DEF Spec

=============================================================================
