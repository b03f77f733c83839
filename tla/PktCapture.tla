----------------------------- MODULE PktCapture -----------------------------
(***************************************************************************)
(* The capture pipeline: one capture thread per network card (PktCapturer),*)
(* which hands the packets of the card's netmap rings to the receivers     *)
(* (PktDispatcher), and one processing thread per receiver (PktReceiver),  *)
(* which reads one queue per card in turn.                                 *)
(*                                                                         *)
(* Packets are not copied: a queue holds the ring and slot of each.  A flag*)
(* per slot says that its packet is still in use; the capture thread hands *)
(* a slot back to the kernel once its flag is down.  A queue is used as    *)
(* BoundedFifo, which CircularFifo implements, so an operation on it is one*)
(* step; queues, flags and the rings are what the threads share.           *)
(***************************************************************************)
EXTENDS Naturals, Sequences, FiniteSets, FiniteSetsExt

CONSTANTS
  NumSlots,     \* slots of a ring
  Configs       \* what the program may be started with and on:
                \*   cards      capture-interface, a capture thread each
                \*   rings      receive rings of a card
                \*   receivers  packet-process-thread-count
                \*   size       packet-process-fifo-size
                \*   policy     packet-dispatch-policy
                \*   batch      batch-dispatch-packet
                \*   last       bound: the kernel does not go past this slot

ASSUME CaptureAssumption ==
  /\ NumSlots \in Nat \ {0, 1}
  /\ Configs \subseteq
       [cards : Nat \ {0}, rings : Nat \ {0}, receivers : Nat \ {0},
        size : Nat \ {0}, policy : {"rr", "ip", "ip-port"}, batch : BOOLEAN, last : Nat]

(* In batches a queue behaves as a BoundedFifo only if it can hold two     *)
(* loads of the card's rings (CircularFifoBatch!EnoughSpace).              *)
ASSUME BatchAssumption ==
  \A c \in Configs : c.batch => c.size > 2 * c.rings * (NumSlots - 1)

Slots == 0 .. NumSlots - 1
Unset == NumSlots               \* 0xFFFFFFFF, the index of no slot

VARIABLES
  conf,     \* the configuration the program was started with
  ring,     \* ring[c][k]: [cur, tail] of a netmap ring; its head is its cur
  flag,     \* flag[c][k][s]: ring_slots, the packet in s is in use
  proc,     \* proc_index: the first slot that was not handed back
  read,     \* read_index: the first slot that was not captured
  capture,  \* capture thread: [pc, ring, cur, left, pkts, to]; to: the receiver
            \* whose packets of a batch, or whose turn, come next
  current,  \* current_receiver of the round-robin policy, one for all cards
  fifo,     \* fifo[r][c]: receiver r's queue of packets of card c
  receive   \* processing thread: [pc, fifo, got, done]

Cards     == 0 .. conf.cards - 1
Rings     == 0 .. conf.rings - 1
Receivers == 0 .. conf.receivers - 1
Packets   == [ring : Rings, slot : Slots]

vars == <<conf, ring, flag, proc, read, capture, current, fifo, receive>>

NextSlot(s) == (s + 1) % NumSlots

(* GetRingSlotCount, which nm_ring_space computes as well. *)
SlotCount(start, end) == IF end >= start THEN end - start ELSE NumSlots - (start - end)

(* IsPosInRingRange: is pos in [start, end) of the ring? *)
InRange(pos, start, end) ==
  /\ end # start
  /\ IF end > start THEN pos >= start /\ pos < end ELSE pos >= start \/ pos < end

(* A capture thread between two rings holds nothing. *)
Idle == [pc |-> "poll", ring |-> 0, cur |-> 0, left |-> 0, pkts |-> <<>>, to |-> 0]

Init ==
  /\ conf \in Configs
  /\ ring = [c \in Cards |-> [k \in Rings |-> [cur |-> 0, tail |-> 0]]]
  /\ flag = [c \in Cards |-> [k \in Rings |-> [s \in Slots |-> FALSE]]]
  /\ proc = [c \in Cards |-> [k \in Rings |-> Unset]]
  /\ read = [c \in Cards |-> [k \in Rings |-> Unset]]
  /\ capture = [c \in Cards |-> Idle]
  /\ current = 0
  /\ fifo = [r \in Receivers |-> [c \in Cards |-> <<>>]]
  /\ receive = [r \in Receivers |-> [pc |-> "look", fifo |-> 0, got |-> 0, done |-> 0]]

-----------------------------------------------------------------------------
(* The capture thread of card c. *)

At(c, pc) == capture[c].pc = pc

Goto(c, place) == capture' = [capture EXCEPT ![c] = place]

(* poll() lets the kernel publish packets in slots it owns, all but one of *)
(* those outside [head, tail), or times out with nothing new.              *)
Poll(c) ==
  /\ At(c, "poll")
  /\ \E more \in [Rings -> Slots] :
       /\ \A k \in Rings :
            /\ SlotCount(ring[c][k].cur, ring[c][k].tail) + more[k] < NumSlots
            /\ ring[c][k].tail + more[k] <= conf.last
       /\ ring' = [ring EXCEPT ![c] = [k \in Rings |->
            [cur |-> ring[c][k].cur, tail |-> (ring[c][k].tail + more[k]) % NumSlots]]]
  /\ Goto(c, [capture[c] EXCEPT !.pc = "ring", !.ring = 0])
  /\ UNCHANGED <<conf, flag, proc, read, current, fifo, receive>>

(* An error of poll(), which ends the thread. *)
PollError(c) ==
  /\ At(c, "poll")
  /\ Goto(c, [capture[c] EXCEPT !.pc = "stopped"])
  /\ UNCHANGED <<conf, ring, flag, proc, read, current, fifo, receive>>

NextRing(c, k) ==
  Goto(c, IF k + 1 = conf.rings THEN Idle ELSE [Idle EXCEPT !.pc = "ring", !.ring = k + 1])

(* ThreadFunc's loop over the rings: an empty one is passed over, on any   *)
(* other ReceivePackets starts.                                            *)
VisitRing(c) ==
  LET k == capture[c].ring
      rx == ring[c][k]
  IN
  /\ At(c, "ring")
  /\ IF rx.cur = rx.tail
       THEN NextRing(c, k) /\ UNCHANGED <<proc, read>>
       ELSE /\ Goto(c, [capture[c] EXCEPT !.pc = "slot", !.cur = rx.cur,
                          !.left = SlotCount(rx.cur, rx.tail), !.pkts = <<>>])
            /\ IF proc[c][k] = Unset
                 THEN /\ proc' = [proc EXCEPT ![c][k] = rx.cur]
                      /\ read' = [read EXCEPT ![c][k] = rx.cur]
                 ELSE UNCHANGED <<proc, read>>
  /\ UNCHANGED <<conf, ring, flag, current, fifo, receive>>

(* The slot at cur was captured in an earlier round. *)
SkipSlot(c) ==
  LET me == capture[c] IN
  /\ At(c, "slot") /\ me.left > 0
  /\ InRange(me.cur, proc[c][me.ring], read[c][me.ring])
  /\ Goto(c, [me EXCEPT !.cur = NextSlot(@), !.left = @ - 1])
  /\ UNCHANGED <<conf, ring, flag, proc, read, current, fifo, receive>>

(* A new packet: its flag goes up before anyone is told of it. In batches  *)
(* it waits in pkt_container_ for the rest.                                *)
MarkSlot(c) ==
  LET me == capture[c]
      k  == me.ring
  IN
  /\ At(c, "slot") /\ me.left > 0
  /\ ~ InRange(me.cur, proc[c][k], read[c][k])
  /\ flag' = [flag EXCEPT ![c][k][me.cur] = TRUE]
  /\ IF conf.batch
       THEN /\ Goto(c, [me EXCEPT !.cur = NextSlot(@), !.left = @ - 1,
                                   !.pkts = Append(@, me.cur)])
            /\ read' = [read EXCEPT ![c][k] = NextSlot(me.cur)]
       ELSE /\ Goto(c, [me EXCEPT !.pc = "dispatch"])
            /\ UNCHANGED read
  /\ UNCHANGED <<conf, ring, proc, current, fifo, receive>>

(* Mutants: a dropped packet keeps its slot; packets are queued in front. *)
ReceivePktDropSilently(r, c, p) ==
  IF Len(fifo[r][c]) = conf.size - 1
    THEN UNCHANGED <<flag, fifo>>
    ELSE /\ fifo' = [fifo EXCEPT ![r][c] = Append(@, p)]
         /\ UNCHANGED flag

ReceivePktInFront(r, c, p) ==
  IF Len(fifo[r][c]) = conf.size - 1
    THEN /\ flag' = [flag EXCEPT ![c][p.ring][p.slot] = FALSE]
         /\ UNCHANGED fifo
    ELSE /\ fifo' = [fifo EXCEPT ![r][c] = <<p>> \o @]
         /\ UNCHANGED flag

(* PktReceiver::ReceivePkt: queued, or dropped and its slot released. *)
ReceivePkt(r, c, p) ==
  IF Len(fifo[r][c]) = conf.size - 1
    THEN /\ flag' = [flag EXCEPT ![c][p.ring][p.slot] = FALSE]
         /\ UNCHANGED fifo
    ELSE /\ fifo' = [fifo EXCEPT ![r][c] = Append(@, p)]
         /\ UNCHANGED flag

(* DispatchPkt.  By address, which "ip-port" comes to as well, since Init  *)
(* assigns DP_IP_PORT to the string it has just parsed: any receiver, as   *)
(* the addresses have it.  Round-robin: the receiver whose turn it is.     *)
DispatchPkt(c) ==
  LET me == capture[c]
      p  == [ring |-> me.ring, slot |-> me.cur]
  IN
  /\ At(c, "dispatch")
  /\ \/ /\ conf.policy \in {"ip", "ip-port"}
        /\ \E r \in Receivers : ReceivePkt(r, c, p)
        /\ Goto(c, [me EXCEPT !.pc = "slot", !.cur = NextSlot(@), !.left = @ - 1])
     \/ /\ conf.policy = "rr"
        /\ ReceivePkt(current, c, p)
        /\ Goto(c, [me EXCEPT !.pc = "turn", !.cur = NextSlot(@), !.left = @ - 1])
  /\ read' = [read EXCEPT ![c][me.ring] = NextSlot(me.cur)]
  /\ UNCHANGED <<conf, ring, proc, current, receive>>

(* The round-robin then moves its counter on, which every capture thread   *)
(* does, without a lock: it is loaded, and what comes after it is stored.  *)
LoadTurn(c) ==
  /\ At(c, "turn")
  /\ Goto(c, [capture[c] EXCEPT !.pc = "store", !.to = (current + 1) % conf.receivers])
  /\ UNCHANGED <<conf, ring, flag, proc, read, current, fifo, receive>>

(* Mutant: the counter is incremented, and set to 0 if it was the last.    *)
StoreTurnIncremented(c) ==
  /\ At(c, "store")
  /\ current' = IF capture[c].to = 0 THEN 0 ELSE current + 1
  /\ Goto(c, [capture[c] EXCEPT !.pc = "slot", !.to = 0])
  /\ UNCHANGED <<conf, ring, flag, proc, read, fifo, receive>>

StoreTurn(c) ==
  /\ At(c, "store")
  /\ current' = capture[c].to
  /\ Goto(c, [capture[c] EXCEPT !.pc = "slot", !.to = 0])
  /\ UNCHANGED <<conf, ring, flag, proc, read, fifo, receive>>

(* All slots seen.  A batch is dispatched by address only: the functions   *)
(* for the other policies are empty, and drop it with its flags up.        *)
SlotsSeen(c) ==
  /\ At(c, "slot") /\ capture[c].left = 0
  /\ IF conf.batch /\ capture[c].pkts # <<>> /\ conf.policy # "rr"
       THEN Goto(c, [capture[c] EXCEPT !.pc = "batch", !.to = 0])
       ELSE Goto(c, [capture[c] EXCEPT !.pc = "refresh"])
  /\ UNCHANGED <<conf, ring, flag, proc, read, current, fifo, receive>>

(* HasEnoughSpace(n) of a queue of len packets: FifoIndex!FullAt, SpaceAt. *)
HasEnoughSpace(len, n) ==
  len # conf.size - 1 /\ IF len > 0 THEN len > n ELSE conf.size > n

(* PktReceiver::ReceivePktBatch, like ReceivePkt for the packets together. *)
ReceivePktBatch(r, c, k, slots) ==
  IF HasEnoughSpace(Len(fifo[r][c]), Len(slots))
    THEN /\ fifo' = [fifo EXCEPT ![r][c] =
              @ \o [i \in 1 .. Len(slots) |-> [ring |-> k, slot |-> slots[i]]]]
         /\ UNCHANGED flag
    ELSE /\ flag' = [flag EXCEPT ![c][k] = [s \in Slots |->
              @[s] /\ \A i \in 1 .. Len(slots) : slots[i] # s]]
         /\ UNCHANGED fifo

(* The positions 1 .. n dealt to mine and rest, order kept in both. *)
Selections(n) ==
  {p \in UNION {[1 .. m -> 1 .. n] : m \in 0 .. n} : \A i, j \in DOMAIN p : i < j => p[i] < p[j]}

Dealt(n, mine, rest) ==
  \A i \in 1 .. n : (\E j \in DOMAIN mine : mine[j] = i) # (\E j \in DOMAIN rest : rest[j] = i)

(* DispatchPktByIpBatch, one receiver at a time: the packets whose address *)
(* selects it go together, the others wait for their receivers' turn.      *)
DispatchPktBatch(c) ==
  LET me == capture[c]
      n  == Len(me.pkts)
      Pick(which) == [j \in DOMAIN which |-> me.pkts[which[j]]]
  IN
  /\ At(c, "batch")
  /\ \E mine \in Selections(n), rest \in Selections(n) :
       /\ Dealt(n, mine, rest)
       /\ me.to = conf.receivers - 1 => rest = <<>>
       /\ IF mine = <<>> THEN UNCHANGED <<fifo, flag>>
                         ELSE ReceivePktBatch(me.to, c, me.ring, Pick(mine))
       /\ IF me.to = conf.receivers - 1
            THEN Goto(c, [me EXCEPT !.pc = "refresh", !.pkts = <<>>, !.to = 0])
            ELSE Goto(c, [me EXCEPT !.to = @ + 1, !.pkts = Pick(rest)])
  /\ UNCHANGED <<conf, ring, proc, read, current, receive>>

(* RefreshNetmapRing starts at proc_index, over the captured slots ... *)
Refresh(c) ==
  LET k == capture[c].ring IN
  /\ At(c, "refresh")
  /\ IF proc[c][k] = read[c][k]
       THEN NextRing(c, k)
       ELSE Goto(c, [capture[c] EXCEPT !.pc = "scan", !.cur = proc[c][k],
                       !.left = SlotCount(proc[c][k], read[c][k])])
  /\ UNCHANGED <<conf, ring, flag, proc, read, current, fifo, receive>>

(* Mutant: slots are handed back whether or not their packets are in use. *)
ScanAnySlot(c) ==
  LET me == capture[c] IN
  /\ At(c, "scan") /\ me.left > 0
  /\ Goto(c, [me EXCEPT !.cur = NextSlot(@), !.left = @ - 1])
  /\ UNCHANGED <<conf, ring, flag, proc, read, current, fifo, receive>>

(* ... steps over each whose flag it loads as down ... *)
ScanSlot(c) ==
  LET me == capture[c] IN
  /\ At(c, "scan") /\ me.left > 0 /\ ~ flag[c][me.ring][me.cur]
  /\ Goto(c, [me EXCEPT !.cur = NextSlot(@), !.left = @ - 1])
  /\ UNCHANGED <<conf, ring, flag, proc, read, current, fifo, receive>>

(* ... and at the first that is up, or the last, hands those back. *)
HandBack(c) ==
  LET me == capture[c]
      k  == me.ring
  IN
  /\ At(c, "scan") /\ (me.left = 0 \/ flag[c][k][me.cur])
  /\ proc' = [proc EXCEPT ![c][k] = me.cur]
  /\ ring' = [ring EXCEPT ![c][k].cur = me.cur]
  /\ NextRing(c, k)
  /\ UNCHANGED <<conf, flag, read, current, fifo, receive>>

Capture(c) ==
  \/ Poll(c) \/ VisitRing(c) \/ SkipSlot(c) \/ MarkSlot(c)
  \/ DispatchPkt(c) \/ LoadTurn(c) \/ StoreTurn(c)
  \/ SlotsSeen(c) \/ DispatchPktBatch(c) \/ Refresh(c) \/ ScanSlot(c) \/ HandBack(c)

-----------------------------------------------------------------------------
(* The processing thread of receiver r. *)

(* Mutant: a receiver keeps to one card's queue. *)
SameFifo(f) == f

NextFifo(f) == (f + 1) % conf.cards

(* Nothing in this card's queue: on to the next. *)
LookFurther(r) ==
  LET me == receive[r] IN
  /\ me.pc = "look" /\ fifo[r][me.fifo] = <<>>
  /\ receive' = [receive EXCEPT ![r].fifo = NextFifo(@)]
  /\ UNCHANGED <<conf, ring, flag, proc, read, capture, current, fifo>>

(* GetReadableItem, or GetMultiReadableItems for all there is. *)
GetReadable(r) ==
  LET me == receive[r]
      n  == Len(fifo[r][me.fifo])
  IN
  /\ me.pc = "look" /\ n > 0
  /\ receive' = [receive EXCEPT ![r].pc = "process", ![r].done = 0,
                                ![r].got = IF conf.batch THEN n ELSE 1]
  /\ UNCHANGED <<conf, ring, flag, proc, read, capture, current, fifo>>

(* The packet went through the processors; PktProcessed lowers its flag. *)
Process(r) ==
  LET me == receive[r]
      p  == fifo[r][me.fifo][me.done + 1]
  IN
  /\ me.pc = "process"
  /\ flag' = [flag EXCEPT ![me.fifo][p.ring][p.slot] = FALSE]
  /\ receive' = [receive EXCEPT ![r].done = @ + 1,
                   ![r].pc = IF me.done + 1 = me.got THEN "finish" ELSE @]
  /\ UNCHANGED <<conf, ring, proc, read, capture, current, fifo>>

(* FinishedRead or FinishedReadMulti, and on to the next card's queue. *)
Finish(r) ==
  LET me == receive[r] IN
  /\ me.pc = "finish"
  /\ fifo' = [fifo EXCEPT ![r][me.fifo] = SubSeq(@, me.got + 1, Len(@))]
  /\ receive' = [receive EXCEPT ![r] =
                   [pc |-> "look", fifo |-> NextFifo(@.fifo), got |-> 0, done |-> 0]]
  /\ UNCHANGED <<conf, ring, flag, proc, read, capture, current>>

Receive(r) == LookFurther(r) \/ GetReadable(r) \/ Process(r) \/ Finish(r)

-----------------------------------------------------------------------------

Next ==
  \/ \E c \in Cards : Capture(c) \/ PollError(c)
  \/ \E r \in Receivers : Receive(r)

Spec == Init /\ [][Next]_vars

MaxCards     == Max({c.cards : c \in Configs})
MaxRings     == Max({c.rings : c \in Configs})
MaxReceivers == Max({c.receivers : c \in Configs})

(* Every thread loops: poll() returns after a second at the latest, and a  *)
(* receiver sleeps for a microsecond between two looks.                    *)
FairSpec ==
  /\ Spec
  /\ \A c \in 0 .. MaxCards - 1 : WF_vars(c \in Cards /\ Capture(c))
  /\ \A r \in 0 .. MaxReceivers - 1 : WF_vars(r \in Receivers /\ Receive(r))

-----------------------------------------------------------------------------
(* Properties. *)

TypeOK ==
  /\ conf \in Configs
  /\ ring \in [Cards -> [Rings -> [cur : Slots, tail : Slots]]]
  /\ flag \in [Cards -> [Rings -> [Slots -> BOOLEAN]]]
  /\ proc \in [Cards -> [Rings -> Slots \cup {Unset}]]
  /\ read \in [Cards -> [Rings -> Slots \cup {Unset}]]
  /\ current \in Receivers
  /\ \A r \in Receivers, c \in Cards :
       /\ Len(fifo[r][c]) < conf.size
       /\ \A i \in 1 .. Len(fifo[r][c]) : fifo[r][c][i] \in Packets
  /\ \A c \in Cards : capture[c].cur \in Slots /\ capture[c].left \in 0 .. NumSlots
  /\ \A r \in Receivers : receive[r].fifo \in Cards

(* The positions in receiver r's queue of card c that still await Process. *)
Pending(r, c) ==
  (1 + IF receive[r].fifo = c THEN receive[r].done ELSE 0) .. Len(fifo[r][c])

(* Who may still read the packet in slot s of ring k of card c: receivers  *)
(* through their queues, the capture thread until it has dispatched it.    *)
InQueue(r, c, k, s) ==
  {<<r, i>> : i \in {i \in Pending(r, c) : fifo[r][c][i] = [ring |-> k, slot |-> s]}}

InBatch(c, k, s) ==
  {<<"batch", i>> : i \in {i \in DOMAIN capture[c].pkts :
                             capture[c].ring = k /\ capture[c].pkts[i] = s}}

InHand(c, k, s) ==
  {x \in {<<"dispatch", 0>>} : At(c, "dispatch") /\ capture[c].ring = k /\ capture[c].cur = s}

Readers(c, k, s) ==
  InBatch(c, k, s) \cup InHand(c, k, s) \cup UNION {InQueue(r, c, k, s) : r \in Receivers}

(* The kernel never writes into a slot whose packet someone may still read,*)
(* and each packet has one reader: the rings, cursors and flags of the     *)
(* capture thread and the queues of the receivers, each updated in its own *)
(* time, keep the hands of the kernel off the buffers in flight.           *)
NoReuse ==
  \A c \in Cards, k \in Rings, s \in Slots :
    Readers(c, k, s) # {} =>
      /\ InRange(s, ring[c][k].cur, ring[c][k].tail)
      /\ Cardinality(Readers(c, k, s)) = 1

(* A flag that is up has someone who will lower it, on every path, drops   *)
(* included; a slot whose flag stays up is lost, and with it, since slots  *)
(* are handed back in order, the ring.                                     *)
NoSlotLost ==
  \A c \in Cards, k \in Rings, s \in Slots :
    flag[c][k][s] <=> Readers(c, k, s) # {}

(* Packets of one ring reach a receiver in the order they arrived in: TCP  *)
(* reassembly above relies on it.                                          *)
InOrder ==
  \A r \in Receivers, c \in Cards : \A i, j \in Pending(r, c) :
    LET p == fifo[r][c][i]
        q == fifo[r][c][j]
    IN i < j /\ p.ring = q.ring =>
         SlotCount(proc[c][p.ring], p.slot) < SlotCount(proc[c][q.ring], q.slot)

(* The ring moves on: unless the device fails, the capture thread finds the*)
(* ring fully handed back again and again, or hands slots back for ever. A *)
(* receiver that waits for nobody and a refresh in every round see to it.  *)
RingMoves ==
  \A c \in 0 .. MaxCards - 1, k \in 0 .. MaxRings - 1 :
    LET Exists == c \in Cards /\ k \in Rings IN
    \/ []<>(Exists => proc[c][k] = read[c][k] \/ At(c, "stopped"))
    \/ []<><<Exists /\ proc'[c][k] # proc[c][k]>>_vars

=============================================================================
