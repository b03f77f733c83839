--------------------------- MODULE TcpConnReorder ---------------------------
(***************************************************************************)
(* TcpConnReorder puts the packets of one TCP connection, captured in any  *)
(* order, lost or repeated, into the order in which the two ends sent them,*)
(* and passes them on to TcpConnAnalyzer.  It keeps, per half connection,  *)
(* the sequence and acknowledgement numbers it expects next and a sorted   *)
(* list of the packets that came too early.                                *)
(*                                                                         *)
(* Conversations are what the two ends send; an end that times out sends   *)
(* the same segment again, so a packet may arrive more than once.          *)
(***************************************************************************)
EXTENDS Naturals, Sequences, FiniteSets, FiniteSetsExt, SequencesExt

CONSTANTS
  Conversations,  \* sequences of packets
  MaxCopies,      \* bound: how often a packet arrives at most
  MaxUnordered,   \* global.tcp.max-cached-unordered-pkt
  MaxBefore,      \* global.tcp.max-cached-pkt-before-handshake
  SeqRange          \* sequence numbers are modulo SeqRange (2^32)

Directions == {"S2B", "B2S"}
Flags      == {"syn", "ack", "fin", "rst"}

Packet == [dir : Directions, seq : 0 .. SeqRange - 1, ack : 0 .. SeqRange - 1,
           len : Nat, flags : SUBSET Flags]

ASSUME ReorderAssumption ==
  /\ MaxCopies \in Nat \ {0} /\ MaxUnordered \in Nat /\ MaxBefore \in Nat
  /\ SeqRange \in Nat \ {0}
  /\ Conversations \subseteq Seq(Packet)

VARIABLES
  packets,    \* the conversation that is being captured
  arrived,    \* how often each of its packets has arrived
  conn        \* the connection:
              \*   started     the first packet of the handshake was passed on
              \*   half        per sender: next_seq, next_ack, whether it has
              \*               sent anything (send_pkt_num > 0), cached packets
              \*   abandoned   HandshakeFailed gave it up
              \*   refactored  RefactorTcpConn has skipped over a gap
              \*   log         the packets passed on to TcpConnAnalyzer
              \*   retransmits what was discarded as POT_RETRANSMIT

vars == <<packets, arrived, conn>>

NewHalf == [next_seq |-> 0, next_ack |-> 0, sent |-> FALSE, cached |-> <<>>]

NewConn == [started |-> FALSE, half |-> [d \in Directions |-> NewHalf],
            abandoned |-> FALSE, refactored |-> FALSE, log |-> <<>>, retransmits |-> {}]

NoneArrived(conv) == [i \in DOMAIN conv |-> 0]

Init ==
  /\ conn = NewConn
  /\ packets \in Conversations
  /\ arrived = NoneArrived(packets)

-----------------------------------------------------------------------------
(* Packets. *)

Other(d) == IF d = "S2B" THEN "B2S" ELSE "S2B"

(* SYN and FIN take one sequence number. *)
Space(p) == p.len + IF p.flags \cap {"syn", "fin"} # {} THEN 1 ELSE 0

End(p) == p.seq + Space(p)

IsFirst(p)  == p.len = 0 /\ "syn" \in p.flags /\ "ack" \notin p.flags
IsSecond(p) == p.len = 0 /\ {"syn", "ack"} \subseteq p.flags

PureAck(p) == p.len = 0 /\ p.flags = {"ack"}

(* Mutants: a segment that comes again is in order; what a packet          *)
(* acknowledges is not looked at.                                          *)
OrderTypeAcceptsAgain(c, p) ==
  LET h == c.half[p.dir] IN
  IF ~ c.started \/ ~ h.sent
    THEN IF IsFirst(p) \/ IsSecond(p) THEN "in_order" ELSE "out_of_order"
    ELSE IF p.seq > h.next_seq \/ p.ack > h.next_ack THEN "out_of_order" ELSE "in_order"

OrderTypeBySeqOnly(c, p) ==
  LET h == c.half[p.dir] IN
  CASE ~ c.started             -> IF IsFirst(p) THEN "in_order" ELSE "out_of_order"
    [] c.started /\ ~ h.sent   -> IF IsSecond(p) THEN "in_order" ELSE "out_of_order"
    [] c.started /\ h.sent     -> IF p.seq < h.next_seq THEN "retransmit"
                                 ELSE IF p.seq = h.next_seq THEN "in_order" ELSE "out_of_order"

(* GetPktOrderType.  The numbers are compared as plain unsigned integers. *)
PktOrderType(c, p) ==
  LET h == c.half[p.dir] IN
  CASE ~ c.started /\ IsFirst(p)                           -> "in_order"
    [] ~ c.started /\ ~ IsFirst(p)                         -> "out_of_order"
    [] c.started /\ ~ h.sent /\ IsSecond(p)                -> "in_order"
    [] c.started /\ ~ h.sent /\ ~ IsSecond(p)              -> "out_of_order"
    [] c.started /\ h.sent /\ p.seq < h.next_seq           ->
         IF PureAck(p) THEN "ignore" ELSE "retransmit"
    [] c.started /\ h.sent /\ p.seq > h.next_seq           -> "out_of_order"
    [] c.started /\ h.sent /\ p.seq = h.next_seq           ->
         IF p.ack > h.next_ack THEN "out_of_order" ELSE "in_order"

-----------------------------------------------------------------------------
(* Conversations, as two ends have them that follow the protocol; what is  *)
(* said of all of them below supposes one or the other of this.            *)

(* Sequence numbers do not pass 2^32. *)
NoWrap(conv) == \A i \in DOMAIN conv : End(conv[i]) < SeqRange

(* An end starts with its SYN and goes on where it left off; a packet that *)
(* is more than an acknowledgement, and yet takes no number, is its last.  *)
InSequence(conv) ==
  \A j \in DOMAIN conv :
    LET before == {i \in 1 .. j - 1 : conv[i].dir = conv[j].dir} IN
    /\ \A i \in before : End(conv[i]) <= conv[j].seq
    /\ IF "syn" \in conv[j].flags THEN before = {}
       ELSE \E i \in before : Space(conv[i]) > 0 /\ End(conv[i]) = conv[j].seq
    /\ Space(conv[j]) > 0 => \A i \in before : Space(conv[i]) > 0 \/ PureAck(conv[i])

(* An end acknowledges what its peer has sent. *)
Acknowledges(p, q) == q.dir # p.dir /\ Space(q) > 0 /\ q.seq < p.ack

Acknowledging(conv) ==
  \A j \in DOMAIN conv :
    conv[j].ack > 0 =>
      \E i \in 1 .. j - 1 : Acknowledges(conv[j], conv[i]) /\ conv[j].ack <= End(conv[i])

(* One end opens; the other one's SYN acknowledges its SYN. *)
Opening(conv) ==
  \E d \in Directions : \A j \in DOMAIN conv : "syn" \in conv[j].flags =>
    IF conv[j].dir = d THEN IsFirst(conv[j])
    ELSE /\ IsSecond(conv[j]) /\ conv[j].ack > 0
         /\ \A i \in DOMAIN conv : Acknowledges(conv[j], conv[i]) => "syn" \in conv[i].flags

Conforms(conv) == NoWrap(conv) /\ InSequence(conv) /\ Acknowledging(conv) /\ Opening(conv)

-----------------------------------------------------------------------------
(* What the methods make of the connection. *)

(* Mutant: every packet takes a sequence number. *)
ProcessOrderedOneMore(c, p) ==
  LET next == (p.seq + p.len + 1) % SeqRange IN
  [c EXCEPT !.started = TRUE,
            !.half[p.dir].next_seq = next,
            !.half[p.dir].sent = TRUE,
            !.half[Other(p.dir)].next_ack = next,
            !.log = Append(@, p)]

(* ProcessOrderedPkt: RefreshTcpConn, and the packet is passed on. *)
ProcessOrdered(c, p) ==
  LET next == (p.seq + Space(p)) % SeqRange IN
  [c EXCEPT !.started = TRUE,
            !.half[p.dir].next_seq = next,
            !.half[p.dir].sent = TRUE,
            !.half[Other(p.dir)].next_ack = next,
            !.log = Append(@, p)]

(* A packet that comes too late is discarded. *)
Discard(c, p) ==
  IF PktOrderType(c, p) = "retransmit" THEN [c EXCEPT !.retransmits = @ \cup {p}] ELSE c

(* ProcOneCachedPkt, on the front of the list, unless that is still early. *)
ProcOneCached(c, d) ==
  LET cached == c.half[d].cached
      p      == Head(cached)
      rest   == [c EXCEPT !.half[d].cached = Tail(@)]
  IN CASE cached = <<>>                        -> c
       [] cached # <<>> /\ PktOrderType(c, p) = "in_order"     -> ProcessOrdered(rest, p)
       [] cached # <<>> /\ PktOrderType(c, p) = "out_of_order" -> c
       [] OTHER                                -> Discard(rest, p)

(* Mutant: only one half is counted. *)
CachedOfOneHalf(c) == Len(c.half["S2B"].cached)

TotalCached(c) == Len(c.half["S2B"].cached) + Len(c.half["B2S"].cached)

(* Mutant: what the second half releases in the first is not looked at. *)
TryProcCachedOnce(c) ==
  LET drain[n \in 0 .. 2 * TotalCached(c)] ==
        IF n = 0 THEN c
        ELSE ProcOneCached(drain[n - 1], IF n <= TotalCached(c) THEN "S2B" ELSE "B2S")
  IN drain[2 * TotalCached(c)]

(* TryProcCachedPkt: one packet of each half in turn, until both are stuck.*)
(* Each turn takes at least one packet or is the last.                     *)
TryProcCached(c) ==
  LET turn[n \in 0 .. TotalCached(c)] ==
        IF n = 0 THEN c ELSE ProcOneCached(ProcOneCached(turn[n - 1], "S2B"), "B2S")
  IN turn[TotalCached(c)]

(* Mutant: the gap is skipped, what the packet acknowledges is not. *)
RaiseSeqOnly(h, ack) ==
  IF h.cached = <<>> THEN h ELSE [h EXCEPT !.next_seq = Max({@, Head(h.cached).seq})]

(* MakeChacedPktOrdered: the front of each list becomes the next packet. In*)
(* the B2S half it is next_ack_num that is raised, but to a sequence number*)
Raise(h, ack) ==
  IF h.cached = <<>> THEN h
  ELSE [h EXCEPT !.next_seq = Max({@, Head(h.cached).seq}), !.next_ack = Max({@, ack})]

MakeCachedOrdered(c) ==
  LET s2b == c.half["S2B"]
      b2s == c.half["B2S"]
  IN [c EXCEPT !.half["S2B"] = Raise(s2b, Head(s2b.cached).ack),
               !.half["B2S"] = Raise(b2s, Head(b2s.cached).seq),
               !.refactored = TRUE]

RefactorTcpConn(c) == TryProcCached(MakeCachedOrdered(c))

(* FindInsertPos: p goes before the first packet it precedes, unless it    *)
(* repeats one on the way there.                                           *)
Same(p, q, flags) == p.flags \cap flags = q.flags \cap flags

Repeats(p, q) ==
  /\ p.seq = q.seq /\ p.ack = q.ack
  /\ \/ p.len > 0 /\ q.len > 0
     \/ p.len = 0 /\ q.len = 0 /\ Same(p, q, {"syn", "fin"})

Precedes(p, q) ==
  \/ p.seq < q.seq
  \/ p.seq = q.seq /\ p.ack < q.ack
  \/ /\ p.seq = q.seq /\ p.ack = q.ack /\ p.len = 0
     /\ \/ q.len > 0
        \/ q.len = 0 /\ ~ Same(p, q, {"syn", "fin"}) /\ p.flags \cap {"syn", "fin"} = {}

InsertUnordered(list, p) ==
  LET pos == SelectInSeq(list, LAMBDA q : Repeats(p, q) \/ Precedes(p, q))
  IN CASE pos = 0                          -> Append(list, p)
       [] pos > 0 /\ Repeats(p, list[pos]) -> list
       [] OTHER                            -> InsertAt(list, pos, p)

(* HandshakeFailed clears both lists and has TcpMonitor give up. *)
HandshakeFailed(c) ==
  [c EXCEPT !.half = [d \in Directions |-> [@[d] EXCEPT !.cached = <<>>]],
            !.abandoned = TRUE]

(* Mutant: the packet goes into the receiver's list. *)
AddToReceiver(c, p) ==
  [c EXCEPT !.half[Other(p.dir)].cached = InsertUnordered(@, p)]

AddUnordered(c, p) ==
  LET added == [c EXCEPT !.half[p.dir].cached = InsertUnordered(@, p)] IN
  IF ~ c.started /\ TotalCached(c) > MaxBefore
    THEN HandshakeFailed(c)
    ELSE IF Len(added.half[p.dir].cached) > MaxUnordered
           THEN RefactorTcpConn(added)
           ELSE added

-----------------------------------------------------------------------------

(* PktMsgProc.  TcpMonitor passes no packet to an abandoned connection, and*)
(* a FIN or a RST does not make it create one.                             *)
PktMsgProc(i) ==
  LET p == packets[i] IN
  /\ ~ conn.abandoned
  /\ arrived # NoneArrived(packets) \/ p.flags \cap {"fin", "rst"} = {}
  /\ arrived[i] < MaxCopies
  /\ arrived' = [arrived EXCEPT ![i] = @ + 1]
  /\ conn' = CASE PktOrderType(conn, p) = "in_order"     -> TryProcCached(ProcessOrdered(conn, p))
               [] PktOrderType(conn, p) = "out_of_order" -> AddUnordered(conn, p)
               [] OTHER                                  -> Discard(conn, p)
  /\ UNCHANGED packets

(* TcpMonitor reuses the object for a new connection (MSG_REINITIALIZE). *)
ReInitHalf(h) ==
  [h EXCEPT !.next_seq = 0, !.next_ack = 0, !.sent = FALSE, !.cached = <<>>]

Reinitialize ==
  /\ conn' = [conn EXCEPT !.started = FALSE,
                          !.half = [d \in Directions |-> ReInitHalf(@[d])],
                          !.abandoned = FALSE, !.refactored = FALSE,
                          !.log = <<>>, !.retransmits = {}]
  /\ packets' \in Conversations
  /\ arrived' = NoneArrived(packets')

Next ==
  \/ \E i \in DOMAIN packets : PktMsgProc(i)
  \/ Reinitialize

Spec == Init /\ [][Next]_vars

-----------------------------------------------------------------------------
(* Properties. *)

Cached(d) == conn.half[d].cached

TypeOK ==
  /\ packets \in Conversations
  /\ arrived \in [DOMAIN packets -> 0 .. MaxCopies]
  /\ \A d \in Directions :
       /\ conn.half[d].next_seq \in 0 .. SeqRange - 1
       /\ conn.half[d].next_ack \in 0 .. SeqRange - 1
       /\ \A i \in DOMAIN Cached(d) : Cached(d)[i] \in Range(packets) /\ Cached(d)[i].dir = d
  /\ Range(conn.log) \subseteq Range(packets)

(* The analyzer sees each half connection as its sender sent it: no byte   *)
(* twice, none out of place, and no gap unless RefactorTcpConn skipped one.*)
NextOfHalf(log, i, j) ==
  /\ i < j /\ log[i].dir = log[j].dir
  /\ \A k \in i + 1 .. j - 1 : log[k].dir # log[i].dir

StreamsInOrder ==
  \A i, j \in DOMAIN conn.log : NextOfHalf(conn.log, i, j) =>
    IF conn.refactored THEN conn.log[j].seq >= End(conn.log[i])
                       ELSE conn.log[j].seq = End(conn.log[i])

(* The two halves are interleaved as they were on the wire: a packet that  *)
(* acknowledges something is passed on after what it acknowledges.         *)
AcknowledgedFirst ==
  ~ conn.refactored =>
    \A i \in DOMAIN conn.log : "ack" \in conn.log[i].flags =>
      \A q \in Range(packets) :
        q.dir # conn.log[i].dir /\ Space(q) > 0 /\ q.seq < conn.log[i].ack =>
          \E j \in 1 .. i - 1 : conn.log[j] = q

(* Once every packet has arrived, whatever the order and the repetitions,  *)
(* all that take sequence numbers (data, SYN, FIN) have been passed on:    *)
(* none stays in a list that nobody looks at again.  A pure ACK that comes *)
(* after what follows it may be discarded.                                 *)
AllPassedOn ==
  ~ conn.abandoned /\ ~ conn.refactored /\ (\A i \in DOMAIN packets : arrived[i] > 0) =>
    \A i \in DOMAIN packets : Space(packets[i]) > 0 => packets[i] \in Range(conn.log)

(* What is discarded as a retransmission is one: it was passed on before.  *)
(* The comment in GetPktOrderType has it so, "seq_num may go back ... when *)
(* retransmitting", and relies on the old segment with the same contents.  *)
RetransmitsPassedOn == ~ conn.refactored => conn.retransmits \subseteq Range(conn.log)

(* A connection that never starts caches no more than the configured number*)
(* of packets, and the one that made it one too many.                      *)
BoundedBeforeHandshake ==
  ~ conn.started => Len(Cached("S2B")) + Len(Cached("B2S")) <= MaxBefore + 1

(* The list of the S2B half, once its sender was heard, grows to its limit *)
(* and no further: RefactorTcpConn always gets its first packet moving.    *)
S2BListLimited ==
  [][ /\ conn.half["S2B"].sent
      /\ Len(conn'.half["S2B"].cached) > Len(conn.half["S2B"].cached)
      => Len(conn'.half["S2B"].cached) <= MaxUnordered ]_vars

(* "Maximum cached packets for half connection" (config/tmas.conf), for    *)
(* either half once its sender was heard: a list at its limit grows no more*)
HalfListsLimited ==
  [][ \A d \in Directions :
        /\ conn.half[d].sent
        /\ Len(conn'.half[d].cached) > Len(conn.half[d].cached)
        => Len(conn'.half[d].cached) <= MaxUnordered ]_vars

=============================================================================
