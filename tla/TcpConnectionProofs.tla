------------------------ MODULE TcpConnectionProofs ------------------------
(***************************************************************************)
(* Proofs about TcpConnReorder and TcpConnection, for any conversations,   *)
(* limits, number of copies and times.                                     *)
(*                                                                         *)
(* First TcpConnReorder: its states and the steps its methods are made of, *)
(* that each half is passed on in order, that the lists keep their limits, *)
(* what is discarded, and that nothing is left behind.  Then the analyzer, *)
(* which folds over the packets that one call of PktMsgProc releases: what *)
(* such a fold goes through, what one packet makes of the analyzer, what   *)
(* it then knows of the packets it was given, that what is passed on of    *)
(* two ends that follow the protocol is a legal sequence, and that the     *)
(* state machines take every legal one.                                    *)
(***************************************************************************)
EXTENDS TcpConnection, LeftFolds, SequenceTheorems, FiniteSetTheorems, TLAPS

-----------------------------------------------------------------------------
(* Numbers and sequences. *)

(* A step within S can be taken any number of times. *)
Iterates(g, base, step, k) == g[0] = base /\ \A n \in 1 .. k : g[n] = step[g[n - 1]]

LEMMA Iterate ==
  ASSUME NEW S, NEW base \in S, NEW step \in [S -> S], NEW k \in Nat
  PROVE  \E g \in [0 .. k -> S] : Iterates(g, base, step, k)
<1> DEFINE Gives(g, m) == g[0] = base /\ \A n \in 1 .. m : g[n] = step[g[n - 1]]
           Good == {m \in Nat : \E g \in [0 .. m -> S] : Gives(g, m)}
<1>1. 0 \in Good
  <2>1. Gives([n \in 0 .. 0 |-> base], 0) /\ [n \in 0 .. 0 |-> base] \in [0 .. 0 -> S]
    OBVIOUS
  <2> QED
    BY <2>1
<1>2. ASSUME NEW m \in Good PROVE m + 1 \in Good
  <2>1. PICK g \in [0 .. m -> S] : Gives(g, m)
    OBVIOUS
  <2> DEFINE h == [n \in 0 .. m + 1 |-> IF n <= m THEN g[n] ELSE step[g[m]]]
  <2>2. h \in [0 .. m + 1 -> S]
    OBVIOUS
  <2>3. h[0] = base
    BY <2>1
  <2>4. ASSUME NEW n \in 1 .. m + 1 PROVE h[n] = step[h[n - 1]]
    <3>1. CASE n <= m
      BY <2>1, <3>1
    <3>2. CASE n = m + 1
      BY <3>2
    <3> QED
      BY <3>1, <3>2
  <2> HIDE DEF h
  <2>5. m + 1 \in Nat /\ Gives(h, m + 1)
    BY <2>3, <2>4
  <2> QED
    BY <2>2, <2>5
<1> QED
  <2>1. Good = Nat
    <3> HIDE DEF Good
    <3> QED
      BY <1>1, <1>2, NatInd DEF Good
  <2> QED
    BY <2>1 DEF Iterates

LEMMA MaxOfTwo ==
  ASSUME NEW a \in Nat, NEW b \in Nat
  PROVE  Max({a, b}) \in {a, b} /\ a <= Max({a, b}) /\ b <= Max({a, b})
<1>1. \E x \in {a, b} : \A y \in {a, b} : x >= y
  OBVIOUS
<1> QED
  BY <1>1 DEF Max

LEMMA MinOf ==
  ASSUME NEW S \in SUBSET Nat, S # {}
  PROVE  Min(S) \in S /\ \A n \in S : Min(S) <= n
<1>1. \E n \in S : \A m \in S : n <= m
  BY LeastOf
<1> QED
  BY <1>1 DEF Min

LEMMA AppendRange ==
  ASSUME NEW T, NEW s \in Seq(T), NEW e \in T
  PROVE  Range(Append(s, e)) = Range(s) \cup {e}
<1> DEFINE t == Append(s, e)
<1>1. DOMAIN s = 1 .. Len(s) /\ Len(s) \in Nat
  BY LenProperties
<1>2. t \in Seq(T) /\ Len(t) = Len(s) + 1 /\ t[Len(s) + 1] = e
      /\ \A i \in 1 .. Len(s) : t[i] = s[i]
  BY AppendProperties
<1> HIDE DEF t
<1>3. DOMAIN t = 1 .. Len(s) + 1
  BY <1>1, <1>2
<1>4. ASSUME NEW x \in Range(t) PROVE x \in Range(s) \cup {e}
  <2>1. PICK i \in 1 .. Len(s) + 1 : x = t[i]
    BY <1>3 DEF Range
  <2>2. CASE i \in 1 .. Len(s)
    BY <1>1, <1>2, <2>1, <2>2 DEF Range
  <2>3. CASE i = Len(s) + 1
    BY <1>2, <2>1, <2>3
  <2> QED
    BY <1>1, <2>2, <2>3
<1>5. ASSUME NEW x \in Range(s) \cup {e} PROVE x \in Range(t)
  <2>1. CASE x \in Range(s)
    <3>1. PICK i \in 1 .. Len(s) : x = s[i]
      BY <1>1, <2>1 DEF Range
    <3>2. t[i] = x /\ i \in DOMAIN t
      BY <1>1, <1>2, <1>3, <3>1
    <3> QED
      BY <3>2 DEF Range
  <2>2. CASE x = e
    <3>1. t[Len(s) + 1] = x /\ Len(s) + 1 \in DOMAIN t
      BY <1>1, <1>2, <1>3, <2>2
    <3> QED
      BY <3>1 DEF Range
  <2> QED
    BY <2>1, <2>2
<1> QED
  BY <1>4, <1>5 DEF t

LEMMA HeadTailRange ==
  ASSUME NEW T, NEW s \in Seq(T), s # <<>>
  PROVE  Range(s) \subseteq Range(Tail(s)) \cup {Head(s)}
<1> DEFINE t == Tail(s)
<1>1. DOMAIN s = 1 .. Len(s) /\ Len(s) \in Nat /\ Head(s) = s[1] /\ t \in Seq(T)
  BY HeadTailProperties, LenProperties
<1>2. Len(t) = Len(s) - 1 /\ \A i \in 1 .. Len(t) : t[i] = s[i + 1]
  BY HeadTailProperties
<1>3. DOMAIN t = 1 .. Len(t)
  BY <1>1, LenProperties
<1> HIDE DEF t
<1>4. ASSUME NEW x \in Range(s), x # Head(s) PROVE x \in Range(t)
  <2>1. PICK i \in 1 .. Len(s) : x = s[i]
    BY <1>1 DEF Range
  <2>2. i - 1 \in 1 .. Len(t) /\ i = (i - 1) + 1
    BY <1>1, <1>2, <1>4, <2>1
  <2>3. t[i - 1] = x
    BY <1>2, <2>1, <2>2
  <2> QED
    BY <1>3, <2>2, <2>3 DEF Range
<1> QED
  BY <1>4 DEF t

(* InsertAt moves what follows by one place. *)
LEMMA InsertAtProperties ==
  ASSUME NEW T, NEW s \in Seq(T), NEW i \in 1 .. Len(s), NEW e \in T
  PROVE  /\ InsertAt(s, i, e) \in Seq(T)
         /\ Len(InsertAt(s, i, e)) = Len(s) + 1
         /\ \A k \in 1 .. Len(s) + 1 : InsertAt(s, i, e)[k] =
              IF k < i THEN s[k] ELSE IF k = i THEN e ELSE s[k - 1]
<1> DEFINE a == SubSeq(s, 1, i - 1)
           b == SubSeq(s, i, Len(s))
<1>1. /\ a \in Seq(T) /\ Len(a) = i - 1
      /\ \A k \in 1 .. i - 1 : a[k] = s[k]
  BY SubSeqProperties, ElementOfSeq
<1>2. /\ b \in Seq(T) /\ Len(b) = Len(s) - i + 1
      /\ \A k \in 1 .. Len(s) - i + 1 : b[k] = s[i + k - 1]
  BY SubSeqProperties, ElementOfSeq
<1>3. <<e>> \in Seq(T) /\ Len(<<e>>) = 1 /\ <<e>>[1] = e
  OBVIOUS
<1> HIDE DEF a, b
<1> DEFINE ae == a \o <<e>>
<1>4. /\ ae \in Seq(T) /\ Len(ae) = i
      /\ \A k \in 1 .. i : ae[k] = IF k < i THEN s[k] ELSE e
  BY <1>1, <1>3, ConcatProperties
<1> HIDE DEF ae
<1>5. /\ ae \o b \in Seq(T)
      /\ Len(ae \o b) = Len(ae) + Len(b)
      /\ \A k \in 1 .. Len(ae) + Len(b) : (ae \o b)[k] =
           IF k <= Len(ae) THEN ae[k] ELSE b[k - Len(ae)]
  BY <1>2, <1>4, ConcatProperties
<1>6. InsertAt(s, i, e) = ae \o b
  BY DEF InsertAt, ae, a, b
<1>7. Len(s) \in Nat /\ Len(ae) + Len(b) = Len(s) + 1
  BY <1>2, <1>4
<1>8. ASSUME NEW k \in 1 .. Len(s) + 1
      PROVE  (ae \o b)[k] = IF k < i THEN s[k] ELSE IF k = i THEN e ELSE s[k - 1]
  <2>1. CASE k <= i
    BY <1>4, <1>5, <1>7, <2>1
  <2>2. CASE k > i
    <3>1. k - i \in 1 .. Len(s) - i + 1
      BY <1>7, <2>2
    <3> QED
      BY <1>2, <1>4, <1>5, <1>7, <2>2, <3>1
  <2> QED
    BY <1>7, <2>1, <2>2
<1> QED
  BY <1>5, <1>6, <1>7, <1>8



-----------------------------------------------------------------------------
(* The states of the connection, when packets of the set P are captured.   *)

Numbers  == 0 .. SeqRange - 1
Of(P, d) == {p \in P : p.dir = d}
Halves(P) == [next_seq : Numbers, next_ack : Numbers, sent : BOOLEAN, cached : Seq(P)]

Conns(P) ==
  {c \in [started : BOOLEAN, half : [Directions -> Halves(P)], abandoned : BOOLEAN,
          refactored : BOOLEAN, log : Seq(P), retransmits : SUBSET P] :
     \A d \in Directions : c.half[d].cached \in Seq(Of(P, d))}

(* The front of a list is taken off. *)
Drop(c, d) == [c EXCEPT !.half[d].cached = Tail(@)]

(* p is put into the list of its sender. *)
Insert(c, p) == [c EXCEPT !.half[p.dir].cached = InsertUnordered(@, p)]

LEMMA NumbersAre == SeqRange \in Nat \ {0} /\ Numbers \subseteq Nat /\ 0 \in Numbers
BY ReorderAssumption DEF Numbers

LEMMA DirectionsAre ==
  ASSUME NEW d \in Directions
  PROVE  /\ Other(d) \in Directions /\ Other(d) # d /\ Other(Other(d)) = d
         /\ \A e \in Directions : e = d \/ e = Other(d)
BY DEF Directions, Other

LEMMA PacketIs ==
  ASSUME NEW p \in Packet
  PROVE  /\ p.dir \in Directions /\ p.seq \in Numbers /\ p.ack \in Numbers /\ p.len \in Nat
         /\ p.flags \subseteq Flags
         /\ p.seq \in Nat /\ p.ack \in Nat /\ Space(p) \in Nat /\ End(p) \in Nat
         /\ p.seq <= End(p) /\ (Space(p) > 0 <=> p.seq < End(p))
<1>1. /\ p.dir \in Directions /\ p.seq \in Numbers /\ p.ack \in Numbers /\ p.len \in Nat
      /\ p.flags \subseteq Flags
  BY DEF Packet, Numbers
<1>2. Space(p) \in Nat
  BY <1>1 DEF Space
<1>3. p.seq \in Nat /\ p.ack \in Nat
  BY <1>1, NumbersAre
<1> QED
  BY <1>1, <1>2, <1>3 DEF End

LEMMA ConnIs ==
  ASSUME NEW P, NEW c \in Conns(P)
  PROVE  /\ c.started \in BOOLEAN /\ c.half \in [Directions -> Halves(P)]
         /\ c.abandoned \in BOOLEAN /\ c.refactored \in BOOLEAN /\ c.log \in Seq(P)
         /\ c.retransmits \in SUBSET P
         /\ \A d \in Directions :
              /\ c.half[d].next_seq \in Numbers /\ c.half[d].next_ack \in Numbers
              /\ c.half[d].sent \in BOOLEAN /\ c.half[d].cached \in Seq(P)
              /\ c.half[d].cached \in Seq(Of(P, d))
BY DEF Conns, Halves

(* How one connection n differs from another, c: in the half of d, in its  *)
(* list, by a packet taken off, or by a packet passed on.                  *)
Like(c, n) ==
  /\ n.started = c.started /\ n.abandoned = c.abandoned /\ n.refactored = c.refactored
  /\ n.log = c.log /\ n.retransmits = c.retransmits

SameNumbers(h, k) ==
  h.next_seq = k.next_seq /\ h.next_ack = k.next_ack /\ h.sent = k.sent

Halved(c, n, d, h) == Like(c, n) /\ n.half[d] = h /\ n.half[Other(d)] = c.half[Other(d)]

Relisted(c, n, d, list) ==
  /\ Like(c, n)
  /\ n.half[d].cached = list /\ SameNumbers(n.half[d], c.half[d])
  /\ n.half[Other(d)] = c.half[Other(d)]

NextAfter(p) == End(p) % SeqRange

Passed(c, n, p, d, o) ==
  /\ n.started /\ n.abandoned = c.abandoned /\ n.refactored = c.refactored
  /\ n.log = Append(c.log, p) /\ n.retransmits = c.retransmits
  /\ n.half[d].next_seq = NextAfter(p) /\ n.half[o].next_seq = c.half[o].next_seq
  /\ n.half[d].next_ack = c.half[d].next_ack /\ n.half[o].next_ack = NextAfter(p)
  /\ n.half[d].sent /\ n.half[o].sent = c.half[o].sent
  /\ n.half[d].cached = c.half[d].cached /\ n.half[o].cached = c.half[o].cached

WithHalf(c, d, h) == [c EXCEPT !.half[d] = h]

LEMMA WithHalfIs ==
  ASSUME NEW P, NEW c \in Conns(P), NEW d \in Directions, NEW h \in Halves(P),
         h.cached \in Seq(Of(P, d))
  PROVE  WithHalf(c, d, h) \in Conns(P) /\ Halved(c, WithHalf(c, d, h), d, h)
<1>1. WithHalf(c, d, h) = [c EXCEPT !.half = [c.half EXCEPT ![d] = h]]
  BY ConnIs DEF WithHalf
<1>2. Other(d) \in Directions /\ Other(d) # d
  BY DirectionsAre
<1>3. WithHalf(c, d, h) \in Conns(P)
  BY <1>1 DEF Conns
<1>4. Halved(c, WithHalf(c, d, h), d, h)
  BY <1>1, <1>2 DEF Conns, Like, Halved
<1> QED
  BY <1>3, <1>4

WithList(c, d, list) == [c EXCEPT !.half[d].cached = list]

LEMMA WithListIs ==
  ASSUME NEW P, NEW c \in Conns(P), NEW d \in Directions, NEW list \in Seq(Of(P, d))
  PROVE  WithList(c, d, list) \in Conns(P) /\ Relisted(c, WithList(c, d, list), d, list)
<1> DEFINE h == [c.half[d] EXCEPT !.cached = list]
           n == WithHalf(c, d, h)
<1>1. c.half[d] \in Halves(P)
  BY ConnIs
<1>2. list \in Seq(P)
  BY SeqMonotonic DEF Of
<1>3. h \in Halves(P) /\ h.cached = list /\ SameNumbers(h, c.half[d])
  BY <1>1, <1>2 DEF SameNumbers, Halves
<1>4. WithList(c, d, list) = n
  BY DEF WithHalf, WithList
<1> HIDE DEF h
<1>5. n \in Conns(P) /\ Halved(c, n, d, h)
  BY <1>3, WithHalfIs
<1> HIDE DEF n
<1>6. Relisted(c, n, d, list)
  BY <1>3, <1>5 DEF Halved, Relisted
<1> QED
  BY <1>4, <1>5, <1>6

(* Drop takes the front of a list off. *)
LEMMA DropIs ==
  ASSUME NEW P, NEW c \in Conns(P), NEW d \in Directions, c.half[d].cached # <<>>
  PROVE  /\ Drop(c, d) \in Conns(P)
         /\ Relisted(c, Drop(c, d), d, Tail(c.half[d].cached))
         /\ Head(c.half[d].cached) \in Of(P, d)
<1> DEFINE list == Tail(c.half[d].cached)
<1>1. c.half[d].cached \in Seq(Of(P, d))
  BY ConnIs
<1>2. list \in Seq(Of(P, d)) /\ Head(c.half[d].cached) \in Of(P, d)
  BY <1>1, HeadTailProperties
<1>3. Drop(c, d) = WithList(c, d, list)
  BY DEF Drop, WithList
<1> HIDE DEF list
<1>4. WithList(c, d, list) \in Conns(P) /\ Relisted(c, WithList(c, d, list), d, list)
  BY <1>2, WithListIs
<1> QED
  BY <1>2, <1>3, <1>4 DEF list

(* ProcessOrdered moves both ends' numbers to the packet's end. *)
LEMMA ProcessOrderedIs ==
  ASSUME NEW P \in SUBSET Packet, NEW c \in Conns(P), NEW p \in P
  PROVE  ProcessOrdered(c, p) \in Conns(P) /\ Passed(c, ProcessOrdered(c, p), p, p.dir, Other(p.dir))
<1> DEFINE d == p.dir
           o == Other(p.dir)
<1>1. d \in Directions /\ o \in Directions /\ o # d
  BY PacketIs, DirectionsAre
<1>2. NextAfter(p) \in Numbers
  BY PacketIs, NumbersAre DEF Numbers, NextAfter
<1> DEFINE c1 == [c EXCEPT !.started = TRUE]
           h1 == [c.half[d] EXCEPT !.next_seq = NextAfter(p)]
           h2 == [h1 EXCEPT !.sent = TRUE]
           k  == [c.half[o] EXCEPT !.next_ack = NextAfter(p)]
           c2 == WithHalf(c1, d, h1)
           c3 == WithHalf(c2, d, h2)
           c4 == WithHalf(c3, o, k)
           c5 == [c4 EXCEPT !.log = Append(@, p)]
<1>3. /\ c.half[d] \in Halves(P) /\ c.half[d].cached \in Seq(Of(P, d))
      /\ c.half[o] \in Halves(P) /\ c.half[o].cached \in Seq(Of(P, o))
  BY <1>1, ConnIs
<1>4. c1 \in Conns(P) /\ c1.half = c.half /\ c1.started /\ c1.abandoned = c.abandoned
      /\ c1.refactored = c.refactored /\ c1.log = c.log /\ c1.retransmits = c.retransmits
  BY DEF Conns
<1>5. h1 \in Halves(P) /\ h1.cached = c.half[d].cached /\ h1.next_seq = NextAfter(p)
      /\ h1.next_ack = c.half[d].next_ack
  BY <1>2, <1>3 DEF Halves
<1>6. k \in Halves(P) /\ k.cached = c.half[o].cached /\ k.next_ack = NextAfter(p)
      /\ k.next_seq = c.half[o].next_seq /\ k.sent = c.half[o].sent
  BY <1>2, <1>3 DEF Halves
<1>7. c1.half[d] = c.half[d]
  BY <1>4
<1>8. c2 = [c1 EXCEPT !.half[d].next_seq = NextAfter(p)]
  BY <1>7 DEF WithHalf
<1> HIDE DEF h1
<1>9. h2 \in Halves(P) /\ h2.cached = h1.cached /\ h2.next_seq = h1.next_seq
      /\ h2.next_ack = h1.next_ack /\ h2.sent
  BY <1>5 DEF Halves
<1> HIDE DEF c1
<1>10. c2 \in Conns(P) /\ Halved(c1, c2, d, h1)
  BY <1>1, <1>3, <1>4, <1>5, WithHalfIs
<1> HIDE DEF c2
<1>11. c3 = [c2 EXCEPT !.half[d].sent = TRUE]
  BY <1>10 DEF WithHalf, Halved
<1> HIDE DEF h2
<1>12. c3 \in Conns(P) /\ Halved(c2, c3, d, h2)
  BY <1>1, <1>3, <1>5, <1>9, <1>10, WithHalfIs
<1> HIDE DEF c3
<1>13. c3.half[o] = c.half[o]
  BY <1>1, <1>4, <1>10, <1>12 DEF Halved
<1>14. c4 = [c3 EXCEPT !.half[o].next_ack = NextAfter(p)]
  BY <1>13 DEF WithHalf
<1> HIDE DEF k
<1>15. c4 \in Conns(P) /\ Halved(c3, c4, o, k)
  BY <1>1, <1>3, <1>6, <1>12, WithHalfIs
<1> HIDE DEF c4
<1>16. Append(c4.log, p) \in Seq(P)
  BY <1>15, ConnIs, AppendProperties
<1>17. c5 \in Conns(P) /\ c5.half = c4.half /\ c5.started = c4.started
       /\ c5.abandoned = c4.abandoned /\ c5.refactored = c4.refactored
       /\ c5.log = Append(c4.log, p) /\ c5.retransmits = c4.retransmits
  BY <1>15, <1>16 DEF Conns
<1>18. ProcessOrdered(c, p) = c5
  BY <1>8, <1>11, <1>14 DEF ProcessOrdered, NextAfter, End, c1
<1> HIDE DEF c5
<1>19. c5.half[d] = h2 /\ c5.half[o] = k
  BY <1>1, <1>12, <1>15, <1>17, DirectionsAre DEF Halved
<1>20. /\ c5.started /\ c5.abandoned = c.abandoned /\ c5.refactored = c.refactored
       /\ c5.log = Append(c.log, p) /\ c5.retransmits = c.retransmits
  BY <1>4, <1>10, <1>12, <1>15, <1>17 DEF Halved, Like
<1> HIDE DEF d, o
<1>21. Passed(c, c5, p, d, o)
  BY <1>5, <1>6, <1>9, <1>19, <1>20 DEF Passed
<1> QED
  BY <1>17, <1>18, <1>21 DEF d, o

(* InsertUnordered leaves a list that has the packet as it is, and puts    *)
(* the packet behind all that it does not precede otherwise.               *)
Behind(list, p, pos) ==
  \A k \in 1 .. pos - 1 : ~ Repeats(p, list[k]) /\ ~ Precedes(p, list[k])

RepeatedAt(list, p, pos) == pos \in 1 .. Len(list) /\ Behind(list, p, pos) /\ Repeats(p, list[pos])

InsertedAt(list, p, new, pos) ==
  /\ pos \in 1 .. Len(list) + 1 /\ Behind(list, p, pos)
  /\ pos <= Len(list) => Precedes(p, list[pos])
  /\ Len(new) = Len(list) + 1
  /\ \A k \in 1 .. Len(list) + 1 :
       new[k] = IF k < pos THEN list[k] ELSE IF k = pos THEN p ELSE list[k - 1]

LEMMA InsertUnorderedIs ==
  ASSUME NEW T, NEW list \in Seq(T), NEW p \in T
  PROVE  /\ InsertUnordered(list, p) \in Seq(T)
         /\ \/ InsertUnordered(list, p) = list /\ \E pos \in Nat : RepeatedAt(list, p, pos)
            \/ \E pos \in Nat : InsertedAt(list, p, InsertUnordered(list, p), pos)
<1> DEFINE I   == {i \in 1 .. Len(list) : Repeats(p, list[i]) \/ Precedes(p, list[i])}
           pos == IF I # {} THEN Min(I) ELSE 0
           new == InsertUnordered(list, p)
<1>1. new = CASE pos = 0                          -> Append(list, p)
              [] pos > 0 /\ Repeats(p, list[pos]) -> list
              [] OTHER                            -> InsertAt(list, pos, p)
  BY DEF InsertUnordered, SelectInSeq
<1>2. Len(list) \in Nat
  OBVIOUS
<1>3. CASE I = {}
  <2>1. new = Append(list, p)
    BY <1>1, <1>3
  <2>2. new \in Seq(T) /\ Len(new) = Len(list) + 1 /\ new[Len(list) + 1] = p
        /\ \A k \in 1 .. Len(list) : new[k] = list[k]
    BY <2>1, AppendProperties
  <2>3. Behind(list, p, Len(list) + 1)
    BY <1>2, <1>3 DEF Behind
  <2> HIDE DEF new
  <2>4. InsertedAt(list, p, new, Len(list) + 1)
    BY <1>2, <2>2, <2>3 DEF InsertedAt
  <2> QED
    BY <1>2, <2>2, <2>4 DEF new
<1>4. CASE I # {}
  <2>1. I \in SUBSET Nat
    BY <1>2
  <2>2. pos \in I /\ \A i \in I : pos <= i
    BY <1>4, <2>1, MinOf
  <2>3. pos \in 1 .. Len(list) /\ (Repeats(p, list[pos]) \/ Precedes(p, list[pos]))
    BY <2>2
  <2> HIDE DEF pos
  <2>4. Behind(list, p, pos)
    <3>1. ASSUME NEW k \in 1 .. pos - 1 PROVE k \notin I /\ k \in 1 .. Len(list)
      <4>1. k \in 1 .. Len(list) /\ ~ (pos <= k)
        BY <1>2, <2>3
      <4> HIDE DEF I
      <4> QED
        BY <2>2, <4>1
    <3> QED
      BY <3>1 DEF Behind
  <2> HIDE DEF I
  <2>5. CASE Repeats(p, list[pos])
    <3>1. new = list
      BY <1>1, <2>3, <2>5
    <3> QED
      BY <2>3, <2>4, <2>5, <3>1 DEF RepeatedAt
  <2>6. CASE ~ Repeats(p, list[pos])
    <3>1. new = InsertAt(list, pos, p)
      BY <1>1, <2>3, <2>6
    <3>2. new \in Seq(T) /\ Len(new) = Len(list) + 1
      BY <2>3, <3>1, InsertAtProperties
    <3>3. \A k \in 1 .. Len(list) + 1 :
            new[k] = IF k < pos THEN list[k] ELSE IF k = pos THEN p ELSE list[k - 1]
      BY <2>3, <3>1, InsertAtProperties
    <3> HIDE DEF new
    <3>4. InsertedAt(list, p, new, pos)
      BY <1>2, <2>3, <2>4, <2>6, <3>2, <3>3 DEF InsertedAt
    <3> QED
      BY <2>3, <3>2, <3>4 DEF new
  <2> QED
    BY <2>5, <2>6
<1> QED
  BY <1>3, <1>4

LEMMA InsertIs ==
  ASSUME NEW P \in SUBSET Packet, NEW c \in Conns(P), NEW p \in P
  PROVE  /\ Insert(c, p) \in Conns(P)
         /\ Relisted(c, Insert(c, p), p.dir, InsertUnordered(c.half[p.dir].cached, p))
<1> DEFINE d    == p.dir
           list == InsertUnordered(c.half[d].cached, p)
<1>1. d \in Directions /\ p \in Of(P, d)
  BY PacketIs DEF Of
<1>5. c.half[d].cached \in Seq(Of(P, d))
  BY <1>1, ConnIs
<1>2. list \in Seq(Of(P, d))
  BY <1>1, <1>5, InsertUnorderedIs
<1>3. Insert(c, p) = WithList(c, d, list)
  BY DEF Insert, WithList
<1> HIDE DEF list
<1>4. WithList(c, d, list) \in Conns(P) /\ Relisted(c, WithList(c, d, list), d, list)
  BY <1>1, <1>2, WithListIs
<1> QED
  BY <1>3, <1>4 DEF list

(* HandshakeFailed empties the lists. *)
Emptied(c, n) ==
  /\ n.started = c.started /\ n.abandoned /\ n.refactored = c.refactored
  /\ n.log = c.log /\ n.retransmits = c.retransmits
  /\ \A d \in Directions : n.half[d].cached = <<>> /\ SameNumbers(n.half[d], c.half[d])

LEMMA HandshakeFailedIs ==
  ASSUME NEW P, NEW c \in Conns(P)
  PROVE  HandshakeFailed(c) \in Conns(P) /\ Emptied(c, HandshakeFailed(c))
<1> DEFINE half == [d \in Directions |-> [c.half[d] EXCEPT !.cached = <<>>]]
           n    == [c EXCEPT !.half = half, !.abandoned = TRUE]
<1>1. ASSUME NEW d \in Directions
      PROVE  /\ half[d] \in Halves(P) /\ half[d].cached = <<>> /\ half[d].cached \in Seq(Of(P, d))
             /\ SameNumbers(half[d], c.half[d])
  <2> DEFINE h == [c.half[d] EXCEPT !.cached = <<>>]
  <2>1. c.half[d] \in Halves(P) /\ half[d] = h
    BY ConnIs
  <2>2. <<>> \in Seq(P) /\ <<>> \in Seq(Of(P, d))
    BY EmptySeq
  <2>3. h \in Halves(P) /\ h.cached = <<>> /\ SameNumbers(h, c.half[d])
    BY <2>1, <2>2 DEF Halves, SameNumbers
  <2> HIDE DEF h, half
  <2> QED
    BY <2>1, <2>2, <2>3
<1>2. half \in [Directions -> Halves(P)]
  BY <1>1
<1>3. HandshakeFailed(c) = n
  BY DEF HandshakeFailed
<1> HIDE DEF half
<1>4. n \in Conns(P) /\ n.half = half /\ n.started = c.started /\ n.abandoned
      /\ n.refactored = c.refactored /\ n.log = c.log /\ n.retransmits = c.retransmits
  BY <1>1, <1>2 DEF Conns
<1> HIDE DEF n
<1>5. Emptied(c, n)
  BY <1>1, <1>4 DEF Emptied
<1> QED
  BY <1>3, <1>4, <1>5

(* Raise raises the numbers of a half whose list is not empty. *)
Raised(h, n, ack) ==
  /\ n.cached = h.cached /\ n.sent = h.sent
  /\ h.cached = <<>> => n.next_seq = h.next_seq /\ n.next_ack = h.next_ack
  /\ h.cached # <<>> => n.next_seq = Max({h.next_seq, Head(h.cached).seq})
                        /\ n.next_ack = Max({h.next_ack, ack})

LEMMA RaiseIs ==
  ASSUME NEW P \in SUBSET Packet, NEW h \in Halves(P), NEW ack,
         h.cached # <<>> => ack \in Numbers
  PROVE  Raise(h, ack) \in Halves(P) /\ Raised(h, Raise(h, ack), ack)
<1>1. CASE h.cached = <<>>
  <2>1. Raise(h, ack) = h
    BY <1>1 DEF Raise
  <2>2. Raised(h, h, ack)
    BY <1>1 DEF Raised
  <2> QED
    BY <2>1, <2>2
<1>2. CASE h.cached # <<>>
  <2> DEFINE seq == Max({h.next_seq, Head(h.cached).seq})
             max == Max({h.next_ack, ack})
             n   == [h EXCEPT !.next_seq = seq, !.next_ack = max]
  <2>1. h.next_seq \in Numbers /\ h.next_ack \in Numbers /\ h.cached \in Seq(P)
    BY DEF Halves
  <2>2. Head(h.cached) \in Packet
    BY <1>2, <2>1, HeadTailProperties
  <2>3. Head(h.cached).seq \in Numbers
    BY <2>2, PacketIs
  <2>4. seq \in {h.next_seq, Head(h.cached).seq}
    BY <2>1, <2>3, NumbersAre, MaxOfTwo
  <2>5. max \in {h.next_ack, ack}
    BY <1>2, <2>1, NumbersAre, MaxOfTwo
  <2>6. seq \in Numbers /\ max \in Numbers
    BY <1>2, <2>1, <2>3, <2>4, <2>5
  <2>7. Raise(h, ack) = n
    BY <1>2 DEF Raise
  <2> HIDE DEF seq, max
  <2>8. n \in Halves(P) /\ n.next_seq = seq /\ n.next_ack = max /\ n.cached = h.cached
        /\ n.sent = h.sent
    BY <2>6 DEF Halves
  <2> HIDE DEF n
  <2>9. Raised(h, n, ack)
    BY <1>2, <2>8 DEF Raised, seq, max
  <2> QED
    BY <2>7, <2>8, <2>9
<1> QED
  BY <1>1, <1>2

FrontOrdered(c, n) ==
  /\ n.started = c.started /\ n.abandoned = c.abandoned /\ n.refactored
  /\ n.log = c.log /\ n.retransmits = c.retransmits
  /\ Raised(c.half["S2B"], n.half["S2B"], Head(c.half["S2B"].cached).ack)
  /\ Raised(c.half["B2S"], n.half["B2S"], Head(c.half["B2S"].cached).seq)

LEMMA MakeCachedOrderedIs ==
  ASSUME NEW P \in SUBSET Packet, NEW c \in Conns(P)
  PROVE  MakeCachedOrdered(c) \in Conns(P) /\ FrontOrdered(c, MakeCachedOrdered(c))
<1> DEFINE s2b == Raise(c.half["S2B"], Head(c.half["S2B"].cached).ack)
           b2s == Raise(c.half["B2S"], Head(c.half["B2S"].cached).seq)
           c1  == WithHalf(c, "S2B", s2b)
           c2  == WithHalf(c1, "B2S", b2s)
           n   == [c2 EXCEPT !.refactored = TRUE]
<1>1. "S2B" \in Directions /\ "B2S" \in Directions /\ Other("S2B") = "B2S" /\ Other("B2S") = "S2B"
  BY DEF Directions, Other
<1>2. ASSUME NEW d \in Directions, c.half[d].cached # <<>>
      PROVE  Head(c.half[d].cached).seq \in Numbers /\ Head(c.half[d].cached).ack \in Numbers
  <2>1. c.half[d].cached \in Seq(P)
    BY ConnIs
  <2>2. Head(c.half[d].cached) \in Packet
    BY <1>2, <2>1, HeadTailProperties
  <2> QED
    BY <2>2, PacketIs
<1>3. \A d \in Directions : c.half[d] \in Halves(P) /\ c.half[d].cached \in Seq(Of(P, d))
  BY ConnIs
<1>4. s2b \in Halves(P) /\ Raised(c.half["S2B"], s2b, Head(c.half["S2B"].cached).ack)
  BY <1>1, <1>2, <1>3, RaiseIs
<1>5. b2s \in Halves(P) /\ Raised(c.half["B2S"], b2s, Head(c.half["B2S"].cached).seq)
  BY <1>1, <1>2, <1>3, RaiseIs
<1>6. s2b.cached \in Seq(Of(P, "S2B"))
  BY <1>1, <1>3, <1>4 DEF Raised
<1>7. b2s.cached \in Seq(Of(P, "B2S"))
  BY <1>1, <1>3, <1>5 DEF Raised
<1> HIDE DEF s2b, b2s
<1>8. c1 \in Conns(P) /\ Halved(c, c1, "S2B", s2b)
  BY <1>1, <1>4, <1>6, WithHalfIs
<1> HIDE DEF c1
<1>9. c2 \in Conns(P) /\ Halved(c1, c2, "B2S", b2s)
  BY <1>1, <1>5, <1>7, <1>8, WithHalfIs
<1>10. MakeCachedOrdered(c) = n
  BY DEF MakeCachedOrdered, WithHalf, s2b, b2s, c1
<1> HIDE DEF c2
<1>11. n \in Conns(P) /\ n.half = c2.half /\ n.started = c2.started /\ n.abandoned = c2.abandoned
       /\ n.refactored /\ n.log = c2.log /\ n.retransmits = c2.retransmits
  BY <1>9 DEF Conns
<1> HIDE DEF n
<1>12. n.half["S2B"] = s2b /\ n.half["B2S"] = b2s
  BY <1>1, <1>8, <1>9, <1>11 DEF Halved
<1>13. FrontOrdered(c, n)
  BY <1>4, <1>5, <1>8, <1>9, <1>11, <1>12 DEF FrontOrdered, Halved, Like
<1> QED
  BY <1>10, <1>11, <1>13

-----------------------------------------------------------------------------
(* The steps that the methods are made of.                                 *)

(* What GetPktOrderType answers. *)
LEMMA OrderTypeIs ==
  ASSUME NEW P \in SUBSET Packet, NEW c \in Conns(P), NEW p \in P
  PROVE  /\ PktOrderType(c, p) \in {"in_order", "out_of_order", "retransmit", "ignore"}
         /\ PktOrderType(c, p) = "in_order" <=>
              \/ ~ c.started /\ IsFirst(p)
              \/ c.started /\ ~ c.half[p.dir].sent /\ IsSecond(p)
              \/ /\ c.started /\ c.half[p.dir].sent
                 /\ p.seq = c.half[p.dir].next_seq /\ p.ack <= c.half[p.dir].next_ack
         /\ PktOrderType(c, p) = "out_of_order" <=>
              \/ ~ c.started /\ ~ IsFirst(p)
              \/ c.started /\ ~ c.half[p.dir].sent /\ ~ IsSecond(p)
              \/ /\ c.started /\ c.half[p.dir].sent
                 /\ \/ p.seq > c.half[p.dir].next_seq
                    \/ p.seq = c.half[p.dir].next_seq /\ p.ack > c.half[p.dir].next_ack
         /\ PktOrderType(c, p) = "retransmit" <=>
              c.started /\ c.half[p.dir].sent /\ p.seq < c.half[p.dir].next_seq /\ ~ PureAck(p)
         /\ PktOrderType(c, p) = "ignore" <=>
              c.started /\ c.half[p.dir].sent /\ p.seq < c.half[p.dir].next_seq /\ PureAck(p)
<1>1. p.dir \in Directions /\ p.seq \in Nat /\ p.ack \in Nat
  BY PacketIs
<1> DEFINE h == c.half[p.dir]
<1>2. h.next_seq \in Nat /\ h.next_ack \in Nat /\ h.sent \in BOOLEAN /\ c.started \in BOOLEAN
  BY <1>1, ConnIs, NumbersAre
<1>3. PktOrderType(c, p) =
  CASE ~ c.started /\ IsFirst(p)                           -> "in_order"
    [] ~ c.started /\ ~ IsFirst(p)                         -> "out_of_order"
    [] c.started /\ ~ h.sent /\ IsSecond(p)                -> "in_order"
    [] c.started /\ ~ h.sent /\ ~ IsSecond(p)              -> "out_of_order"
    [] c.started /\ h.sent /\ p.seq < h.next_seq           ->
         IF PureAck(p) THEN "ignore" ELSE "retransmit"
    [] c.started /\ h.sent /\ p.seq > h.next_seq           -> "out_of_order"
    [] c.started /\ h.sent /\ p.seq = h.next_seq           ->
         IF p.ack > h.next_ack THEN "out_of_order" ELSE "in_order"
  BY DEF PktOrderType
<1> DEFINE type == PktOrderType(c, p)
<1> HIDE DEF h, type
<1>4. CASE ~ c.started
  BY <1>3, <1>4 DEF h, type
<1>5. CASE c.started /\ ~ h.sent
  BY <1>3, <1>5 DEF h, type
<1>6. CASE c.started /\ h.sent /\ p.seq < h.next_seq
  BY <1>1, <1>2, <1>3, <1>6 DEF h, type
<1>7. CASE c.started /\ h.sent /\ p.seq >= h.next_seq
  BY <1>1, <1>2, <1>3, <1>7 DEF h, type
<1> QED
  BY <1>1, <1>2, <1>4, <1>5, <1>6, <1>7

(* It looks at the numbers only. *)
LEMMA OrderTypeSame ==
  ASSUME NEW c, NEW n, NEW p, n.started = c.started, SameNumbers(n.half[p.dir], c.half[p.dir])
  PROVE  PktOrderType(n, p) = PktOrderType(c, p)
BY DEF PktOrderType, SameNumbers

(* A packet is discarded as a retransmission. *)
Retransmit(c, p) == [c EXCEPT !.retransmits = @ \cup {p}]

Retransmitted(c, n, p) ==
  /\ n.started = c.started /\ n.abandoned = c.abandoned /\ n.refactored = c.refactored
  /\ n.log = c.log /\ n.half = c.half /\ n.retransmits = c.retransmits \cup {p}

LEMMA RetransmitIs ==
  ASSUME NEW P, NEW c \in Conns(P), NEW p \in P
  PROVE  Retransmit(c, p) \in Conns(P) /\ Retransmitted(c, Retransmit(c, p), p)
<1>1. Retransmit(c, p) \in Conns(P)
  BY DEF Conns, Retransmit
<1>2. Retransmitted(c, Retransmit(c, p), p)
  BY DEF Conns, Retransmit, Retransmitted
<1> QED
  BY <1>1, <1>2

(* ProcOneCachedPkt leaves the connection as it is, or takes the front of  *)
(* the list off and passes it on, or discards it.                          *)
LEMMA ProcOneCachedIs ==
  ASSUME NEW P \in SUBSET Packet, NEW c \in Conns(P), NEW d \in Directions,
         NEW p, p = Head(c.half[d].cached)
  PROVE  \/ /\ c.half[d].cached = <<>> \/ PktOrderType(c, p) = "out_of_order"
            /\ ProcOneCached(c, d) = c
         \/ /\ c.half[d].cached # <<>> /\ p \in Of(P, d) /\ Drop(c, d) \in Conns(P)
            /\ PktOrderType(c, p) # "out_of_order"
            /\ PktOrderType(c, p) = PktOrderType(Drop(c, d), p)
            /\ \/ PktOrderType(c, p) = "in_order" /\ ProcOneCached(c, d) = ProcessOrdered(Drop(c, d), p)
               \/ PktOrderType(c, p) = "retransmit" /\ ProcOneCached(c, d) = Retransmit(Drop(c, d), p)
               \/ PktOrderType(c, p) = "ignore" /\ ProcOneCached(c, d) = Drop(c, d)
<1> DEFINE cached == c.half[d].cached
           rest   == Drop(c, d)
<1>1. ProcOneCached(c, d) =
        CASE cached = <<>>                                         -> c
          [] cached # <<>> /\ PktOrderType(c, p) = "in_order"     -> ProcessOrdered(rest, p)
          [] cached # <<>> /\ PktOrderType(c, p) = "out_of_order" -> c
          [] OTHER                                                -> Discard(rest, p)
  BY DEF ProcOneCached, Drop
<1> HIDE DEF rest
<1>2. CASE cached = <<>>
  <2>1. ProcOneCached(c, d) = c
    BY <1>1, <1>2
  <2> QED
    BY <1>2, <2>1
<1>3. CASE cached # <<>>
  <2>1. rest \in Conns(P) /\ Relisted(c, rest, d, Tail(cached)) /\ p \in Of(P, d)
    BY <1>3, DropIs DEF rest
  <2>2. p \in P /\ p.dir = d
    BY <2>1 DEF Of
  <2>3. PktOrderType(rest, p) = PktOrderType(c, p)
    BY <2>1, <2>2, OrderTypeSame DEF Relisted, Like
  <2>4. PktOrderType(c, p) \in {"in_order", "out_of_order", "retransmit", "ignore"}
    BY <2>2, OrderTypeIs
  <2>5. CASE PktOrderType(c, p) = "out_of_order"
    <3>1. ProcOneCached(c, d) = c
      BY <1>1, <1>3, <2>5
    <3> QED
      BY <2>5, <3>1
  <2>6. CASE PktOrderType(c, p) = "in_order"
    <3>1. ProcOneCached(c, d) = ProcessOrdered(rest, p)
      BY <1>1, <1>3, <2>6
    <3> QED
      BY <1>3, <2>1, <2>3, <2>6, <3>1 DEF rest
  <2>7. CASE PktOrderType(c, p) = "retransmit"
    <3>1. ProcOneCached(c, d) = Discard(rest, p)
      BY <1>1, <1>3, <2>7
    <3>2. Discard(rest, p) = Retransmit(rest, p)
      BY <2>3, <2>7 DEF Discard, Retransmit
    <3> QED
      BY <1>3, <2>1, <2>3, <2>7, <3>1, <3>2 DEF rest
  <2>8. CASE PktOrderType(c, p) = "ignore"
    <3>1. ProcOneCached(c, d) = Discard(rest, p)
      BY <1>1, <1>3, <2>8
    <3>2. Discard(rest, p) = rest
      BY <2>3, <2>8 DEF Discard
    <3> QED
      BY <1>3, <2>1, <2>3, <2>8, <3>1, <3>2 DEF rest
  <2> QED
    BY <2>4, <2>5, <2>6, <2>7, <2>8
<1> QED
  BY <1>2, <1>3

(* One turn of TryProcCachedPkt. *)
Turn(c) == ProcOneCached(ProcOneCached(c, "S2B"), "B2S")

(* TryProcCachedPkt takes as many turns as there are packets in the lists, *)
(* within any set that a turn does not leave.                              *)
LEMMA TryProcCachedIs ==
  ASSUME NEW P, NEW S \in SUBSET Conns(P), NEW c \in S, \A x \in S : Turn(x) \in S
  PROVE  /\ TotalCached(c) \in Nat
         /\ \E g \in [0 .. TotalCached(c) -> S] :
              /\ g[0] = c /\ \A n \in 1 .. TotalCached(c) : g[n] = Turn(g[n - 1])
              /\ TryProcCached(c) = g[TotalCached(c)]
<1> DEFINE N     == TotalCached(c)
           Eq(g) == g = [n \in 0 .. N |->
                           IF n = 0 THEN c ELSE ProcOneCached(ProcOneCached(g[n - 1], "S2B"), "B2S")]
           turn  == CHOOSE g : Eq(g)
           step  == [x \in S |-> Turn(x)]
<1>1. N \in Nat
  <2> DEFINE a == c.half["S2B"].cached
             b == c.half["B2S"].cached
  <2>1. a \in Seq(P) /\ b \in Seq(P)
    BY ConnIs DEF Directions
  <2>2. N = Len(a) + Len(b)
    BY DEF TotalCached
  <2> HIDE DEF a, b, N
  <2> QED
    BY <2>1, <2>2
<1>2. TryProcCached(c) = turn[N]
  BY DEF TryProcCached
<1> HIDE DEF N
<1>3. step \in [S -> S]
  OBVIOUS
<1>31. \A x \in S : step[x] = Turn(x)
  OBVIOUS
<1> HIDE DEF step
<1>41. PICK g \in [0 .. N -> S] : Iterates(g, c, step, N)
  BY <1>1, <1>3, Iterate
<1>4. g[0] = c /\ \A n \in 1 .. N : g[n] = step[g[n - 1]]
  BY <1>41 DEF Iterates
<1>5. \A n \in 1 .. N : n - 1 \in 0 .. N /\ g[n - 1] \in S /\ g[n] = Turn(g[n - 1])
  BY <1>1, <1>31, <1>4
<1>6. g = [n \in 0 .. N |-> IF n = 0 THEN c ELSE Turn(g[n - 1])]
  BY <1>1, <1>4, <1>5
<1>7. Eq(g)
  BY <1>6 DEF Turn
<1>8. Eq(turn)
  BY <1>7
<1> DEFINE t == turn
<1>9. t = [n \in 0 .. N |-> IF n = 0 THEN c ELSE Turn(t[n - 1])]
  BY <1>8 DEF Turn
<1> HIDE DEF t
<1>10. DOMAIN t = 0 .. N /\ t[0] = c /\ \A n \in 1 .. N : t[n] = Turn(t[n - 1])
  <2>1. \A n \in 0 .. N : t[n] = IF n = 0 THEN c ELSE Turn(t[n - 1])
    BY <1>9
  <2> QED
    BY <1>1, <1>9, <2>1
<1> DEFINE Agree == {n \in Nat : n <= N => t[n] = g[n]}
<1>11. 0 \in Agree
  BY <1>4, <1>10
<1>12. ASSUME NEW n \in Agree PROVE n + 1 \in Agree
  <2>1. CASE n + 1 <= N
    <3>1. t[n] = g[n] /\ n + 1 \in 1 .. N
      BY <1>1, <2>1
    <3>2. t[n + 1] = Turn(t[n])
      BY <1>10, <3>1
    <3>3. g[n + 1] = Turn(g[n])
      BY <1>5, <3>1
    <3> QED
      BY <3>1, <3>2, <3>3
  <2>2. CASE ~ (n + 1 <= N)
    BY <2>2
  <2> QED
    BY <2>1, <2>2
<1>13. N \in Agree
  <2>1. Agree \in SUBSET Nat
    OBVIOUS
  <2> HIDE DEF Agree
  <2>2. Agree = Nat
    BY <1>11, <1>12, <2>1, NatInd
  <2> QED
    BY <1>1, <2>2
<1>14. t[N] = g[N]
  BY <1>1, <1>13
<1>15. TryProcCached(c) = g[N]
  BY <1>2, <1>14 DEF t
<1> QED
  BY <1>1, <1>4, <1>5, <1>15 DEF N

(* So does what holds of everything that a turn leads to. *)
LEMMA TryProcCachedWithin ==
  ASSUME NEW P, NEW S \in SUBSET Conns(P), NEW c \in S,
         \A x \in S : \A d \in Directions : ProcOneCached(x, d) \in S
  PROVE  TryProcCached(c) \in S
<1>1. \A x \in S : Turn(x) \in S
  BY DEF Turn, Directions
<1> DEFINE N == TotalCached(c)
<1>2. N \in Nat
  BY <1>1, TryProcCachedIs
<1>3. \E g \in [0 .. N -> S] : TryProcCached(c) = g[N]
  BY <1>1, TryProcCachedIs
<1> HIDE DEF N
<1> QED
  BY <1>2, <1>3

(* What PktMsgProc makes of the connection. *)
Handled(c, p) ==
  CASE PktOrderType(c, p) = "in_order"     -> TryProcCached(ProcessOrdered(c, p))
    [] PktOrderType(c, p) = "out_of_order" -> AddUnordered(c, p)
    [] OTHER                               -> Discard(c, p)

LEMMA HandledIs ==
  ASSUME NEW P \in SUBSET Packet, NEW c \in Conns(P), NEW p \in P
  PROVE  \/ PktOrderType(c, p) = "in_order" /\ Handled(c, p) = TryProcCached(ProcessOrdered(c, p))
         \/ PktOrderType(c, p) = "retransmit" /\ Handled(c, p) = Retransmit(c, p)
         \/ PktOrderType(c, p) = "ignore" /\ Handled(c, p) = c
         \/ /\ PktOrderType(c, p) = "out_of_order"
            /\ \/ ~ c.started /\ TotalCached(c) > MaxBefore /\ Handled(c, p) = HandshakeFailed(c)
               \/ /\ c.started \/ ~ (TotalCached(c) > MaxBefore)
                  /\ \/ /\ Len(Insert(c, p).half[p.dir].cached) > MaxUnordered
                        /\ Handled(c, p) = TryProcCached(MakeCachedOrdered(Insert(c, p)))
                     \/ /\ ~ (Len(Insert(c, p).half[p.dir].cached) > MaxUnordered)
                        /\ Handled(c, p) = Insert(c, p)
<1> DEFINE type == PktOrderType(c, p)
<1>1. type \in {"in_order", "out_of_order", "retransmit", "ignore"}
  BY OrderTypeIs
<1>2. Handled(c, p) = CASE type = "in_order"     -> TryProcCached(ProcessOrdered(c, p))
                        [] type = "out_of_order" -> AddUnordered(c, p)
                        [] OTHER                 -> Discard(c, p)
  BY DEF Handled
<1>3. Discard(c, p) = IF type = "retransmit" THEN Retransmit(c, p) ELSE c
  BY DEF Discard, Retransmit
<1> DEFINE added == Insert(c, p)
<1>4. AddUnordered(c, p) =
        IF ~ c.started /\ TotalCached(c) > MaxBefore
          THEN HandshakeFailed(c)
          ELSE IF Len(added.half[p.dir].cached) > MaxUnordered
                 THEN TryProcCached(MakeCachedOrdered(added))
                 ELSE added
  BY DEF AddUnordered, RefactorTcpConn, Insert
<1> HIDE DEF type, added
<1>5. CASE type = "in_order"
  <2>1. Handled(c, p) = TryProcCached(ProcessOrdered(c, p))
    BY <1>2, <1>5
  <2> QED
    BY <1>5, <2>1 DEF type
<1>6. CASE type = "retransmit"
  <2>1. Handled(c, p) = Retransmit(c, p)
    BY <1>2, <1>3, <1>6
  <2> QED
    BY <1>6, <2>1 DEF type
<1>7. CASE type = "ignore"
  <2>1. Handled(c, p) = c
    BY <1>2, <1>3, <1>7
  <2> QED
    BY <1>7, <2>1 DEF type
<1>8. CASE type = "out_of_order"
  <2>1. Handled(c, p) = AddUnordered(c, p)
    BY <1>2, <1>8
  <2>2. CASE ~ c.started /\ TotalCached(c) > MaxBefore
    <3>1. Handled(c, p) = HandshakeFailed(c)
      BY <1>4, <2>1, <2>2
    <3> QED
      BY <1>8, <2>2, <3>1 DEF type
  <2>3. CASE ~ (~ c.started /\ TotalCached(c) > MaxBefore)
    <3>1. CASE Len(added.half[p.dir].cached) > MaxUnordered
      <4>1. Handled(c, p) = TryProcCached(MakeCachedOrdered(added))
        BY <1>4, <2>1, <2>3, <3>1
      <4> QED
        BY <1>8, <2>3, <3>1, <4>1 DEF type, added
    <3>2. CASE ~ (Len(added.half[p.dir].cached) > MaxUnordered)
      <4>1. Handled(c, p) = added
        BY <1>4, <2>1, <2>3, <3>2
      <4> QED
        BY <1>8, <2>3, <3>2, <4>1 DEF type, added
    <3> QED
      BY <3>1, <3>2
  <2> QED
    BY <2>2, <2>3
<1> QED
  BY <1>1, <1>5, <1>6, <1>7, <1>8

(* None of these steps leaves S. *)
Keeps(P, S) ==
  /\ S \subseteq Conns(P)
  /\ \A c \in S : \A d \in Directions : c.half[d].cached # <<>> => Drop(c, d) \in S
  /\ \A c \in S : \A p \in P :
       /\ PktOrderType(c, p) = "in_order"   => ProcessOrdered(c, p) \in S
       /\ PktOrderType(c, p) = "retransmit" => Retransmit(c, p) \in S
       /\ Insert(c, p) \in S
  /\ \A c \in S : HandshakeFailed(c) \in S /\ MakeCachedOrdered(c) \in S

LEMMA ProcOneCachedStays ==
  ASSUME NEW P \in SUBSET Packet, NEW S, Keeps(P, S), NEW x \in S, NEW d \in Directions
  PROVE  ProcOneCached(x, d) \in S
<1> DEFINE p == Head(x.half[d].cached)
<1>1. x \in Conns(P)
  BY DEF Keeps
<1>2. CASE ProcOneCached(x, d) = x
  BY <1>2
<1>3. CASE /\ x.half[d].cached # <<>> /\ p \in Of(P, d)
           /\ PktOrderType(x, p) = PktOrderType(Drop(x, d), p)
           /\ \/ PktOrderType(x, p) = "in_order" /\ ProcOneCached(x, d) = ProcessOrdered(Drop(x, d), p)
              \/ PktOrderType(x, p) = "retransmit" /\ ProcOneCached(x, d) = Retransmit(Drop(x, d), p)
              \/ PktOrderType(x, p) = "ignore" /\ ProcOneCached(x, d) = Drop(x, d)
  <2>1. Drop(x, d) \in S /\ p \in P
    BY <1>3 DEF Keeps, Of
  <2> HIDE DEF p
  <2> QED
    BY <1>3, <2>1 DEF Keeps
<1> QED
  BY <1>1, <1>2, <1>3, ProcOneCachedIs

LEMMA TryProcCachedStays ==
  ASSUME NEW P \in SUBSET Packet, NEW S, Keeps(P, S), NEW c \in S
  PROVE  TryProcCached(c) \in S
<1>1. \A x \in S : \A d \in Directions : ProcOneCached(x, d) \in S
  BY ProcOneCachedStays
<1>2. S \in SUBSET Conns(P)
  BY DEF Keeps
<1> QED
  BY <1>1, <1>2, TryProcCachedWithin

LEMMA HandledStays ==
  ASSUME NEW P \in SUBSET Packet, NEW S, Keeps(P, S), NEW c \in S, NEW p \in P
  PROVE  Handled(c, p) \in S
<1>1. c \in Conns(P)
  BY DEF Keeps
<1>2. CASE PktOrderType(c, p) = "in_order" /\ Handled(c, p) = TryProcCached(ProcessOrdered(c, p))
  <2>1. ProcessOrdered(c, p) \in S
    BY <1>2 DEF Keeps
  <2> QED
    BY <1>2, <2>1, TryProcCachedStays
<1>3. CASE PktOrderType(c, p) = "retransmit" /\ Handled(c, p) = Retransmit(c, p)
  BY <1>3 DEF Keeps
<1>4. CASE Handled(c, p) = c
  BY <1>4
<1>5. CASE Handled(c, p) = HandshakeFailed(c)
  BY <1>5 DEF Keeps
<1>6. CASE Handled(c, p) = TryProcCached(MakeCachedOrdered(Insert(c, p)))
  <2>1. MakeCachedOrdered(Insert(c, p)) \in S
    BY DEF Keeps
  <2> QED
    BY <1>6, <2>1, TryProcCachedStays
<1>7. CASE Handled(c, p) = Insert(c, p)
  BY <1>7 DEF Keeps
<1> QED
  BY <1>1, <1>2, <1>3, <1>4, <1>5, <1>6, <1>7, HandledIs

-----------------------------------------------------------------------------
(* Type correctness.                                                       *)

Pkts == Range(packets)

ConnOK ==
  /\ packets \in Conversations
  /\ arrived \in [DOMAIN packets -> 0 .. MaxCopies]
  /\ conn \in Conns(Pkts)

LEMMA PacketsAre ==
  ASSUME NEW conv \in Conversations
  PROVE  /\ Range(conv) \in SUBSET Packet /\ DOMAIN conv \subseteq Nat
         /\ \A i \in DOMAIN conv : conv[i] \in Range(conv) /\ conv[i] \in Packet
<1>1. conv \in Seq(Packet)
  BY ReorderAssumption
<1>2. \A i \in DOMAIN conv : conv[i] \in Packet
  BY <1>1
<1>3. DOMAIN conv \subseteq Nat
  BY <1>1
<1> QED
  BY <1>2, <1>3 DEF Range

LEMMA NewConnIs ==
  ASSUME NEW Q
  PROVE  /\ NewConn \in Conns(Q)
         /\ ~ NewConn.started /\ ~ NewConn.abandoned /\ ~ NewConn.refactored
         /\ NewConn.log = <<>> /\ NewConn.retransmits = {}
         /\ \A d \in Directions :
              /\ NewConn.half[d].next_seq = 0 /\ NewConn.half[d].next_ack = 0
              /\ ~ NewConn.half[d].sent /\ NewConn.half[d].cached = <<>>
<1>1. 0 \in Numbers /\ <<>> \in Seq(Q) /\ \A d \in Directions : <<>> \in Seq(Of(Q, d))
  BY NumbersAre, EmptySeq
<1>2. NewHalf \in Halves(Q)
  BY <1>1 DEF NewHalf, Halves
<1>3. NewHalf.cached = <<>>
  BY DEF NewHalf
<1> DEFINE half == [d \in Directions |-> NewHalf]
<1>4. half \in [Directions -> Halves(Q)] /\ \A d \in Directions : half[d].cached \in Seq(Of(Q, d))
  BY <1>1, <1>2, <1>3
<1>5. NewConn = [started |-> FALSE, half |-> half, abandoned |-> FALSE, refactored |-> FALSE,
                 log |-> <<>>, retransmits |-> {}]
  BY DEF NewConn
<1> HIDE DEF half
<1>6. NewConn \in Conns(Q)
  BY <1>1, <1>4, <1>5 DEF Conns
<1>7. /\ ~ NewConn.started /\ ~ NewConn.abandoned /\ ~ NewConn.refactored
      /\ NewConn.log = <<>> /\ NewConn.retransmits = {}
  BY DEF NewConn
<1>8. \A d \in Directions :
        /\ NewConn.half[d].next_seq = 0 /\ NewConn.half[d].next_ack = 0
        /\ ~ NewConn.half[d].sent /\ NewConn.half[d].cached = <<>>
  BY DEF NewConn, NewHalf
<1> QED
  BY <1>6, <1>7, <1>8

(* A reused object is as good as a new one. *)
LEMMA ReinitializeIs ==
  ASSUME conn \in Conns(Pkts), Reinitialize
  PROVE  packets' \in Conversations /\ arrived' = NoneArrived(packets') /\ conn' = NewConn
<1> DEFINE half == [d \in Directions |-> ReInitHalf(conn.half[d])]
<1>1. ASSUME NEW d \in Directions PROVE ReInitHalf(conn.half[d]) = NewHalf
  <2> DEFINE h == conn.half[d]
  <2>1. h \in Halves(Pkts)
    BY ConnIs
  <2> HIDE DEF h
  <2> DEFINE no == FALSE
             h1 == [h EXCEPT !.next_seq = 0]
             h2 == [h1 EXCEPT !.next_ack = 0]
             h3 == [h2 EXCEPT !.sent = no]
             h4 == [h3 EXCEPT !.cached = <<>>]
  <2>2. ReInitHalf(h) = h4
    BY DEF ReInitHalf
  <2>3. NewHalf = [next_seq |-> 0, next_ack |-> 0, sent |-> no, cached |-> <<>>]
    BY DEF NewHalf
  <2> HIDE DEF no
  <2>4. h1 = [next_seq |-> 0, next_ack |-> h.next_ack, sent |-> h.sent, cached |-> h.cached]
    BY <2>1 DEF Halves
  <2> HIDE DEF h1
  <2>5. h2 = [next_seq |-> 0, next_ack |-> 0, sent |-> h.sent, cached |-> h.cached]
    BY <2>4
  <2> HIDE DEF h2
  <2>6. h3 = [next_seq |-> 0, next_ack |-> 0, sent |-> no, cached |-> h.cached]
    BY <2>5
  <2> HIDE DEF h3
  <2>7. h4 = [next_seq |-> 0, next_ack |-> 0, sent |-> no, cached |-> <<>>]
    BY <2>6
  <2> QED
    BY <2>2, <2>3, <2>7 DEF h, h1, h2, h3
<1>2. half = [d \in Directions |-> NewHalf]
  BY <1>1
<1>3. conn' = [conn EXCEPT !.started = FALSE, !.half = half, !.abandoned = FALSE,
                           !.refactored = FALSE, !.log = <<>>, !.retransmits = {}]
  BY DEF Reinitialize
<1> HIDE DEF half
<1>4. conn' = [started |-> FALSE, half |-> half, abandoned |-> FALSE, refactored |-> FALSE,
               log |-> <<>>, retransmits |-> {}]
  BY <1>3 DEF Conns
<1> QED
  BY <1>2, <1>4 DEF Reinitialize, NewConn

(* What a step does, in these terms. *)
Captures(i) ==
  /\ i \in DOMAIN packets /\ packets[i] \in Pkts /\ ~ conn.abandoned
  /\ arrived' = [arrived EXCEPT ![i] = @ + 1] /\ arrived[i] < MaxCopies
  /\ conn' = Handled(conn, packets[i]) /\ packets' = packets /\ Pkts' = Pkts

Restarts ==
  packets' \in Conversations /\ arrived' = NoneArrived(packets') /\ conn' = NewConn

LEMMA NextIs ==
  ASSUME ConnOK, Next
  PROVE  (\E i \in DOMAIN packets : Captures(i)) \/ Restarts
<1>1. ASSUME NEW i \in DOMAIN packets, PktMsgProc(i) PROVE Captures(i)
  <2>1. packets[i] \in Pkts
    BY PacketsAre DEF ConnOK, Pkts
  <2>2. conn' = Handled(conn, packets[i])
    BY <1>1 DEF PktMsgProc, Handled
  <2>3. packets' = packets /\ Pkts' = Pkts
    BY <1>1 DEF PktMsgProc, Pkts
  <2> QED
    BY <1>1, <2>1, <2>2, <2>3 DEF PktMsgProc, Captures
<1>2. CASE Reinitialize
  BY <1>2, ReinitializeIs DEF ConnOK, Restarts
<1> QED
  BY <1>1, <1>2 DEF Next

LEMMA ArrivedOK ==
  ASSUME ConnOK, (\E i \in DOMAIN packets : Captures(i)) \/ Restarts
  PROVE  packets' \in Conversations /\ arrived' \in [DOMAIN packets' -> 0 .. MaxCopies]
<1>1. ASSUME NEW i \in DOMAIN packets, Captures(i)
      PROVE  packets' \in Conversations /\ arrived' \in [DOMAIN packets' -> 0 .. MaxCopies]
  BY <1>1, ReorderAssumption DEF ConnOK, Captures
<1>2. CASE Restarts
  BY <1>2, ReorderAssumption DEF Restarts, NoneArrived
<1> QED
  BY <1>1, <1>2

LEMMA ConnsClosed ==
  ASSUME NEW Q \in SUBSET Packet
  PROVE  Keeps(Q, Conns(Q))
<1>1. ASSUME NEW c \in Conns(Q), NEW d \in Directions, c.half[d].cached # <<>>
      PROVE  Drop(c, d) \in Conns(Q)
  BY <1>1, DropIs
<1>2. ASSUME NEW c \in Conns(Q), NEW p \in Q
      PROVE  /\ ProcessOrdered(c, p) \in Conns(Q) /\ Retransmit(c, p) \in Conns(Q)
             /\ Insert(c, p) \in Conns(Q)
  BY ProcessOrderedIs, RetransmitIs, InsertIs
<1>3. ASSUME NEW c \in Conns(Q) PROVE HandshakeFailed(c) \in Conns(Q) /\ MakeCachedOrdered(c) \in Conns(Q)
  BY HandshakeFailedIs, MakeCachedOrderedIs
<1> QED
  BY <1>1, <1>2, <1>3 DEF Keeps

LEMMA ConnOKInit == Init => ConnOK
<1> SUFFICES ASSUME Init PROVE ConnOK
  OBVIOUS
<1>1. arrived \in [DOMAIN packets -> 0 .. MaxCopies]
  BY ReorderAssumption DEF Init, NoneArrived
<1> QED
  BY <1>1, NewConnIs DEF Init, ConnOK

LEMMA ConnOKNext == ConnOK /\ [Next]_vars => ConnOK'
<1> SUFFICES ASSUME ConnOK, [Next]_vars PROVE ConnOK'
  OBVIOUS
<1>1. CASE Next
  <2>1. (\E i \in DOMAIN packets : Captures(i)) \/ Restarts
    BY <1>1, NextIs
  <2>2. packets' \in Conversations /\ arrived' \in [DOMAIN packets' -> 0 .. MaxCopies]
    BY <2>1, ArrivedOK
  <2>3. ASSUME NEW i \in DOMAIN packets, Captures(i) PROVE conn' \in Conns(Pkts')
    <3>1. Pkts \in SUBSET Packet /\ Keeps(Pkts, Conns(Pkts))
      BY PacketsAre, ConnsClosed DEF ConnOK, Pkts
    <3>2. Handled(conn, packets[i]) \in Conns(Pkts)
      BY <2>3, <3>1, HandledStays DEF ConnOK, Captures
    <3> QED
      BY <2>3, <3>2 DEF Captures
  <2>4. ASSUME Restarts PROVE conn' \in Conns(Pkts')
    BY <2>4, NewConnIs DEF Restarts
  <2>5. conn' \in Conns(Pkts')
    BY <2>1, <2>3, <2>4
  <2> QED
    BY <2>2, <2>5 DEF ConnOK
<1>2. CASE UNCHANGED vars
  BY <1>2 DEF vars, ConnOK, Pkts
<1> QED
  BY <1>1, <1>2

LEMMA ConnOKAlways == Spec => []ConnOK
BY ConnOKInit, ConnOKNext, PTL DEF Spec

(* TcpConnReorder keeps its numbers within 32 bits, each list to packets   *)
(* that the list's own end has sent, and passes on captured packets only.  *)
THEOREM ReorderTypeOK == Spec => []TypeOK
<1>1. ConnOK => TypeOK
  <2> SUFFICES ASSUME ConnOK PROVE TypeOK
    OBVIOUS
  <2>1. ASSUME NEW d \in Directions
        PROVE  /\ conn.half[d].next_seq \in Numbers /\ conn.half[d].next_ack \in Numbers
               /\ Cached(d) \in Seq(Of(Pkts, d))
    BY ConnIs DEF ConnOK, Cached
  <2>2. \A d \in Directions : \A i \in DOMAIN Cached(d) : Cached(d)[i] \in Of(Pkts, d)
    BY <2>1
  <2>3. conn.log \in Seq(Pkts)
    BY ConnIs DEF ConnOK
  <2>4. Range(conn.log) \subseteq Pkts
    BY <2>3, RangeOfSeq
  <2> QED
    BY <2>1, <2>2, <2>4 DEF TypeOK, ConnOK, Pkts, Of, Numbers
<1> QED
  BY <1>1, ConnOKAlways, PTL

-----------------------------------------------------------------------------
(* The analyzer sees each half connection in order.                        *)

(* n is c but for its lists, and whether it was given up. *)
Idle(c, n) ==
  /\ n.started = c.started /\ n.refactored = c.refactored
  /\ n.log = c.log /\ n.retransmits = c.retransmits
  /\ \A d \in Directions : SameNumbers(n.half[d], c.half[d])

(* What does not depend on the lists holds on, if it does when a packet is *)
(* passed on or discarded, or the fronts are made ordered.                 *)
Progress(Q, S) ==
  \A c \in S : \A n \in Conns(Q) :
    /\ Idle(c, n) => n \in S
    /\ FrontOrdered(c, n) => n \in S
    /\ \A p \in Q :
         /\ PktOrderType(c, p) = "in_order" /\ Passed(c, n, p, p.dir, Other(p.dir)) => n \in S
         /\ PktOrderType(c, p) = "retransmit" /\ Retransmitted(c, n, p) => n \in S

LEMMA ClosedIf ==
  ASSUME NEW Q \in SUBSET Packet, NEW S \in SUBSET Conns(Q), Progress(Q, S)
  PROVE  Keeps(Q, S)
<1>1. ASSUME NEW c \in S, NEW n \in Conns(Q), NEW d \in Directions, NEW list, Relisted(c, n, d, list)
      PROVE  n \in S
  <2>1. \A e \in Directions : SameNumbers(n.half[e], c.half[e])
    BY <1>1, DirectionsAre DEF Relisted, SameNumbers
  <2>2. Idle(c, n)
    BY <1>1, <2>1 DEF Relisted, Like, Idle
  <2> QED
    BY <2>2 DEF Progress
<1>2. ASSUME NEW c \in S, NEW d \in Directions, c.half[d].cached # <<>>
      PROVE  Drop(c, d) \in S
  BY <1>1, <1>2, DropIs
<1>3. ASSUME NEW c \in S, NEW p \in Q PROVE Insert(c, p) \in S
  <2>1. p.dir \in Directions
    BY PacketIs
  <2> QED
    BY <1>1, <2>1, InsertIs
<1>4. ASSUME NEW c \in S, NEW p \in Q, PktOrderType(c, p) = "in_order"
      PROVE  ProcessOrdered(c, p) \in S
  BY <1>4, ProcessOrderedIs DEF Progress
<1>5. ASSUME NEW c \in S, NEW p \in Q, PktOrderType(c, p) = "retransmit"
      PROVE  Retransmit(c, p) \in S
  BY <1>5, RetransmitIs DEF Progress
<1>6. ASSUME NEW c \in S PROVE HandshakeFailed(c) \in S
  <2>1. HandshakeFailed(c) \in Conns(Q) /\ Emptied(c, HandshakeFailed(c))
    BY HandshakeFailedIs
  <2>2. Idle(c, HandshakeFailed(c))
    BY <2>1 DEF Emptied, Idle
  <2> QED
    BY <2>1, <2>2 DEF Progress
<1>7. ASSUME NEW c \in S PROVE MakeCachedOrdered(c) \in S
  BY MakeCachedOrderedIs DEF Progress
<1> QED
  BY <1>2, <1>3, <1>4, <1>5, <1>6, <1>7 DEF Keeps

(* No packet's end is beyond the numbers there are. *)
Fits(Q) == \A p \in Q : End(p) < SeqRange

LEMMA NoWrapFits ==
  ASSUME NEW conv, NoWrap(conv)
  PROVE  Fits(Range(conv))
BY DEF NoWrap, Fits, Range

LEMMA NextAfterIs ==
  ASSUME NEW Q \in SUBSET Packet, Fits(Q), NEW p \in Q
  PROVE  NextAfter(p) = End(p)
<1>1. End(p) \in Nat /\ End(p) < SeqRange /\ SeqRange \in Nat \ {0}
  BY PacketIs, NumbersAre DEF Fits
<1> QED
  BY <1>1 DEF NextAfter

(* The number an end goes on with. *)
GoesOn(c, seq, p) == IF c.refactored THEN seq >= End(p) ELSE seq = End(p)

LastOfHalf(log, i) == i \in DOMAIN log /\ \A k \in i + 1 .. Len(log) : log[k].dir # log[i].dir

Ordered(c) ==
  /\ c.log # <<>> => c.started
  /\ \A i \in DOMAIN c.log : c.half[c.log[i].dir].sent
  /\ \A i \in DOMAIN c.log :
       LastOfHalf(c.log, i) => GoesOn(c, c.half[c.log[i].dir].next_seq, c.log[i])
  /\ \A i, j \in DOMAIN c.log : NextOfHalf(c.log, i, j) => GoesOn(c, c.log[j].seq, c.log[i])

(* A packet of p's half at the end of the log is followed by p. *)
Appended(log, new, p) ==
  /\ DOMAIN new = 1 .. Len(log) + 1 /\ DOMAIN log = 1 .. Len(log) /\ Len(log) \in Nat
  /\ Len(new) = Len(log) + 1
  /\ new[Len(log) + 1] = p /\ \A i \in DOMAIN log : new[i] = log[i]
  /\ \A i \in DOMAIN log :
       /\ LastOfHalf(new, i) => LastOfHalf(log, i) /\ log[i].dir # p.dir
       /\ NextOfHalf(new, i, Len(log) + 1) => LastOfHalf(log, i) /\ log[i].dir = p.dir
       /\ \A j \in DOMAIN log : NextOfHalf(new, i, j) => NextOfHalf(log, i, j)
  /\ \A j \in DOMAIN new : ~ NextOfHalf(new, Len(log) + 1, j)

LEMMA AppendHalves ==
  ASSUME NEW T, NEW log \in Seq(T), NEW p \in T
  PROVE  Appended(log, Append(log, p), p)
<1> DEFINE new == Append(log, p)
<1>1. Len(log) \in Nat /\ DOMAIN log = 1 .. Len(log)
  BY LenProperties
<1>2. new \in Seq(T) /\ Len(new) = Len(log) + 1 /\ new[Len(log) + 1] = p
      /\ \A i \in 1 .. Len(log) : new[i] = log[i]
  BY AppendProperties
<1> HIDE DEF new
<1>3. DOMAIN new = 1 .. Len(log) + 1
  BY <1>1, <1>2
<1>4. ASSUME NEW i \in DOMAIN log, LastOfHalf(new, i)
      PROVE  LastOfHalf(log, i) /\ log[i].dir # p.dir
  BY <1>1, <1>2, <1>3, <1>4 DEF LastOfHalf
<1>5. ASSUME NEW i \in DOMAIN log, NextOfHalf(new, i, Len(log) + 1)
      PROVE  LastOfHalf(log, i) /\ log[i].dir = p.dir
  BY <1>1, <1>2, <1>3, <1>5 DEF LastOfHalf, NextOfHalf
<1>6. ASSUME NEW i \in DOMAIN log, NEW j \in DOMAIN log, NextOfHalf(new, i, j)
      PROVE  NextOfHalf(log, i, j)
  BY <1>1, <1>2, <1>6 DEF NextOfHalf
<1>7. ASSUME NEW j \in DOMAIN new PROVE ~ NextOfHalf(new, Len(log) + 1, j)
  BY <1>1, <1>3 DEF NextOfHalf
<1> QED
  BY <1>1, <1>2, <1>3, <1>4, <1>5, <1>6, <1>7 DEF Appended, new

LEMMA OrderedPassed ==
  ASSUME NEW Q \in SUBSET Packet, Fits(Q), NEW c \in Conns(Q), Ordered(c), NEW p \in Q,
         PktOrderType(c, p) = "in_order", NEW n \in Conns(Q), Passed(c, n, p, p.dir, Other(p.dir))
  PROVE  Ordered(n)
<1> DEFINE d == p.dir
           o == Other(p.dir)
           L == Len(c.log)
<1>1. d \in Directions /\ o \in Directions /\ o # d /\ \A e \in Directions : e = d \/ e = o
  BY PacketIs, DirectionsAre
<1>2. c.log \in Seq(Q) /\ n.log = Append(c.log, p)
  BY ConnIs DEF Passed
<1> DEFINE log == c.log
           new == n.log
<1>20. Appended(log, new, p)
  BY <1>2, AppendHalves
<1> HIDE DEF log, new
<1>21. /\ DOMAIN new = 1 .. Len(log) + 1 /\ DOMAIN log = 1 .. Len(log) /\ Len(log) \in Nat
       /\ Len(new) = Len(log) + 1
       /\ new[Len(log) + 1] = p /\ \A i \in DOMAIN log : new[i] = log[i]
  BY <1>20 DEF Appended
<1>3. /\ DOMAIN n.log = 1 .. L + 1 /\ DOMAIN c.log = 1 .. L /\ L \in Nat /\ Len(n.log) = L + 1
      /\ n.log[L + 1] = p /\ \A i \in DOMAIN c.log : n.log[i] = c.log[i]
  BY <1>21 DEF log, new
<1>4. ASSUME NEW i \in DOMAIN c.log
      PROVE  /\ LastOfHalf(n.log, i) => LastOfHalf(c.log, i) /\ c.log[i].dir # d
             /\ NextOfHalf(n.log, i, L + 1) => LastOfHalf(c.log, i) /\ c.log[i].dir = d
             /\ \A j \in DOMAIN c.log : NextOfHalf(n.log, i, j) => NextOfHalf(c.log, i, j)
  BY <1>20 DEF Appended, log, new
<1>5. \A j \in DOMAIN n.log : ~ NextOfHalf(n.log, L + 1, j)
  BY <1>20 DEF Appended, log, new
<1>6. \A i \in DOMAIN c.log : c.log[i] \in Q /\ c.log[i].dir \in Directions
  BY <1>2, PacketIs
<1>7. \A i \in DOMAIN n.log : i \in DOMAIN c.log \/ i = L + 1
  BY <1>3
<1>8. /\ n.started /\ n.refactored = c.refactored
      /\ n.half[d].sent /\ n.half[o].sent = c.half[o].sent
      /\ n.half[d].next_seq = End(p) /\ n.half[o].next_seq = c.half[o].next_seq
  BY NextAfterIs DEF Passed
<1>9. \A q \in Q : End(q) \in Nat
  BY PacketIs
<1>10. ASSUME NEW i \in DOMAIN n.log PROVE n.half[n.log[i].dir].sent
  <2>1. CASE i = L + 1
    BY <1>3, <1>8, <2>1
  <2>2. CASE i \in DOMAIN c.log
    <3>1. c.half[c.log[i].dir].sent /\ n.log[i] = c.log[i]
      BY <1>3, <2>2 DEF Ordered
    <3> QED
      BY <1>1, <1>6, <1>8, <2>2, <3>1
  <2> QED
    BY <1>7, <2>1, <2>2
<1>11. ASSUME NEW i \in DOMAIN n.log, LastOfHalf(n.log, i)
       PROVE  GoesOn(n, n.half[n.log[i].dir].next_seq, n.log[i])
  <2>1. CASE i = L + 1
    BY <1>3, <1>8, <1>9, <2>1 DEF GoesOn
  <2>2. CASE i \in DOMAIN c.log
    <3>1. LastOfHalf(c.log, i) /\ c.log[i].dir = o /\ n.log[i] = c.log[i]
      BY <1>1, <1>3, <1>4, <1>6, <1>11, <2>2
    <3>2. GoesOn(c, c.half[o].next_seq, c.log[i])
      BY <2>2, <3>1 DEF Ordered
    <3> QED
      BY <1>8, <3>1, <3>2 DEF GoesOn
  <2> QED
    BY <1>7, <2>1, <2>2
<1>12. ASSUME NEW i \in DOMAIN n.log, NEW j \in DOMAIN n.log, NextOfHalf(n.log, i, j)
       PROVE  GoesOn(n, n.log[j].seq, n.log[i])
  <2>1. i \in DOMAIN c.log /\ n.log[i] = c.log[i]
    BY <1>3, <1>5, <1>7, <1>12
  <2>2. CASE j \in DOMAIN c.log
    <3>1. NextOfHalf(c.log, i, j) /\ n.log[j] = c.log[j]
      BY <1>3, <1>4, <1>12, <2>1, <2>2
    <3>2. GoesOn(c, c.log[j].seq, c.log[i])
      BY <2>1, <2>2, <3>1 DEF Ordered
    <3> QED
      BY <1>8, <2>1, <3>1, <3>2 DEF GoesOn
  <2>3. CASE j = L + 1
    <3>1. LastOfHalf(c.log, i) /\ c.log[i].dir = d /\ n.log[j] = p
      BY <1>3, <1>4, <1>12, <2>1, <2>3
    <3>2. GoesOn(c, c.half[d].next_seq, c.log[i]) /\ c.half[d].sent /\ c.started
      BY <2>1, <3>1 DEF Ordered
    <3>3. p.seq = c.half[d].next_seq
      BY <3>2, OrderTypeIs
    <3> QED
      BY <1>8, <2>1, <3>1, <3>2, <3>3 DEF GoesOn
  <2> QED
    BY <1>7, <2>2, <2>3
<1> QED
  BY <1>8, <1>10, <1>11, <1>12 DEF Ordered

LEMMA OrderedRaised ==
  ASSUME NEW Q \in SUBSET Packet, NEW c \in Conns(Q), Ordered(c),
         NEW n \in Conns(Q), FrontOrdered(c, n)
  PROVE  Ordered(n)
<1>1. n.started = c.started /\ n.log = c.log /\ n.refactored /\ c.log \in Seq(Q)
  BY ConnIs DEF FrontOrdered
<1>2. ASSUME NEW d \in Directions
      PROVE  n.half[d].sent = c.half[d].sent /\ n.half[d].next_seq >= c.half[d].next_seq
  <2>1. \E ack : Raised(c.half[d], n.half[d], ack)
    BY DEF FrontOrdered, Directions
  <2>2. c.half[d].next_seq \in Nat /\ c.half[d].cached \in Seq(Q)
    BY ConnIs, NumbersAre
  <2>3. CASE c.half[d].cached = <<>>
    BY <2>1, <2>2, <2>3 DEF Raised
  <2>4. CASE c.half[d].cached # <<>>
    <3>1. Head(c.half[d].cached) \in Packet
      BY <2>2, <2>4, HeadTailProperties
    <3>2. Head(c.half[d].cached).seq \in Nat
      BY <3>1, PacketIs
    <3>3. n.half[d].next_seq = Max({c.half[d].next_seq, Head(c.half[d].cached).seq})
      BY <2>1, <2>4 DEF Raised
    <3>4. n.half[d].next_seq \in Nat
      BY ConnIs, NumbersAre
    <3>5. c.half[d].next_seq <= n.half[d].next_seq
      BY <2>2, <3>2, <3>3, MaxOfTwo
    <3> QED
      BY <2>1, <2>2, <3>4, <3>5 DEF Raised
  <2> QED
    BY <2>3, <2>4
<1>3. \A i \in DOMAIN c.log : c.log[i].dir \in Directions /\ End(c.log[i]) \in Nat
                             /\ c.log[i].seq \in Nat
  BY <1>1, PacketIs
<1>4. \A d \in Directions : n.half[d].next_seq \in Nat /\ c.half[d].next_seq \in Nat
  BY ConnIs, NumbersAre
<1>5. ASSUME NEW i \in DOMAIN c.log, LastOfHalf(c.log, i)
      PROVE  GoesOn(n, n.half[c.log[i].dir].next_seq, c.log[i])
  <2>1. GoesOn(c, c.half[c.log[i].dir].next_seq, c.log[i])
    BY <1>5 DEF Ordered
  <2> QED
    BY <1>1, <1>2, <1>3, <1>4, <2>1 DEF GoesOn
<1>6. ASSUME NEW i \in DOMAIN c.log, NEW j \in DOMAIN c.log, NextOfHalf(c.log, i, j)
      PROVE  GoesOn(n, c.log[j].seq, c.log[i])
  <2>1. GoesOn(c, c.log[j].seq, c.log[i])
    BY <1>6 DEF Ordered
  <2> QED
    BY <1>1, <1>3, <2>1 DEF GoesOn
<1>7. \A i \in DOMAIN c.log : n.half[c.log[i].dir].sent
  BY <1>2, <1>3 DEF Ordered
<1>8. c.log # <<>> => n.started
  BY <1>1 DEF Ordered
<1> QED
  BY <1>1, <1>5, <1>6, <1>7, <1>8 DEF Ordered

LEMMA OrderedIdle ==
  ASSUME NEW Q \in SUBSET Packet, NEW c \in Conns(Q), Ordered(c), NEW n \in Conns(Q),
         n.started = c.started /\ n.refactored = c.refactored /\ n.log = c.log,
         \A d \in Directions : SameNumbers(n.half[d], c.half[d])
  PROVE  Ordered(n)
<1>1. \A i \in DOMAIN c.log : c.log[i].dir \in Directions
  <2>1. c.log \in Seq(Q)
    BY ConnIs
  <2> QED
    BY <2>1, PacketIs
<1>2. \A i \in DOMAIN c.log : /\ n.half[c.log[i].dir].sent = c.half[c.log[i].dir].sent
                             /\ n.half[c.log[i].dir].next_seq = c.half[c.log[i].dir].next_seq
  BY <1>1 DEF SameNumbers
<1> QED
  BY <1>2 DEF Ordered, GoesOn

LEMMA OrderedClosed ==
  ASSUME NEW Q \in SUBSET Packet, Fits(Q)
  PROVE  Keeps(Q, {c \in Conns(Q) : Ordered(c)})
<1> DEFINE S == {c \in Conns(Q) : Ordered(c)}
<1>1. ASSUME NEW c \in S, NEW n \in Conns(Q), Idle(c, n) PROVE n \in S
  BY <1>1, OrderedIdle DEF Idle
<1>2. ASSUME NEW c \in S, NEW n \in Conns(Q), FrontOrdered(c, n) PROVE n \in S
  BY <1>2, OrderedRaised
<1>3. ASSUME NEW c \in S, NEW n \in Conns(Q), NEW p \in Q, PktOrderType(c, p) = "in_order",
             Passed(c, n, p, p.dir, Other(p.dir))
      PROVE  n \in S
  BY <1>3, OrderedPassed
<1>4. ASSUME NEW c \in S, NEW n \in Conns(Q), NEW p \in Q, Retransmitted(c, n, p)
      PROVE  n \in S
  <2>1. \A d \in Directions : SameNumbers(n.half[d], c.half[d])
    BY <1>4 DEF Retransmitted, SameNumbers
  <2> QED
    BY <1>4, <2>1, OrderedIdle DEF Retransmitted
<1>5. S \in SUBSET Conns(Q)
  OBVIOUS
<1> HIDE DEF S
<1>6. ASSUME NEW c \in S, NEW n \in Conns(Q), NEW p \in Q
      PROVE  /\ PktOrderType(c, p) = "in_order" /\ Passed(c, n, p, p.dir, Other(p.dir)) => n \in S
             /\ PktOrderType(c, p) = "retransmit" /\ Retransmitted(c, n, p) => n \in S
  BY <1>3, <1>4
<1>7. Progress(Q, S)
  BY <1>1, <1>2, <1>6 DEF Progress
<1>8. Keeps(Q, S)
  BY <1>5, <1>7, ClosedIf
<1> QED
  BY <1>8 DEF S

(* A property of new connections that no step of the handler ends holds    *)
(* for good.                                                               *)
LEMMA ConnStays ==
  ASSUME ConnOK, NEW S, conn \in S, Keeps(Pkts, S), NEW i \in DOMAIN packets, Captures(i)
  PROVE  conn' \in S
<1>1. Pkts \in SUBSET Packet /\ packets[i] \in Pkts
  BY PacketsAre DEF ConnOK, Pkts
<1>2. Handled(conn, packets[i]) \in S
  BY <1>1, HandledStays
<1> QED
  BY <1>2 DEF Captures

OrderOK == ConnOK /\ Ordered(conn)

(* TcpConnReorder passes each half connection on in the order of its       *)
(* sequence numbers, without repetition, and without a gap until it skips  *)
(* one, as long as the numbers do not pass 2^32.                           *)
THEOREM ReorderStreamsInOrder ==
  ASSUME \A conv \in Conversations : NoWrap(conv)
  PROVE  Spec => []StreamsInOrder
<1>1. Ordered(NewConn)
  <2>1. NewConn.log = <<>>
    BY NewConnIs
  <2>2. DOMAIN NewConn.log = {}
    BY <2>1
  <2> QED
    BY <2>1, <2>2 DEF Ordered
<1>2. Init => OrderOK
  BY <1>1, ConnOKInit DEF OrderOK, Init
<1>3. OrderOK /\ [Next]_vars => OrderOK'
  <2> SUFFICES ASSUME OrderOK, [Next]_vars PROVE OrderOK'
    OBVIOUS
  <2>1. ConnOK'
    BY ConnOKNext DEF OrderOK
  <2>2. CASE Next
    <3>1. ASSUME NEW i \in DOMAIN packets, Captures(i) PROVE Ordered(conn')
      <4> DEFINE S == {c \in Conns(Pkts) : Ordered(c)}
      <4>1. Fits(Pkts) /\ Pkts \in SUBSET Packet
        BY NoWrapFits, PacketsAre DEF OrderOK, ConnOK, Pkts
      <4>2. Keeps(Pkts, S) /\ conn \in S
        BY <4>1, OrderedClosed DEF OrderOK, ConnOK
      <4> HIDE DEF S
      <4>3. conn' \in S
        BY <3>1, <4>2, ConnStays DEF OrderOK
      <4> QED
        BY <4>3 DEF S
    <3>2. ASSUME Restarts PROVE Ordered(conn')
      BY <1>1, <3>2 DEF Restarts
    <3>3. Ordered(conn')
      BY <2>2, <3>1, <3>2, NextIs DEF OrderOK
    <3> QED
      BY <2>1, <3>3 DEF OrderOK
  <2>3. CASE UNCHANGED vars
    BY <2>1, <2>3 DEF vars, OrderOK
  <2> QED
    BY <2>2, <2>3
<1>4. OrderOK => StreamsInOrder
  BY DEF OrderOK, Ordered, GoesOn, StreamsInOrder
<1> QED
  BY <1>2, <1>3, <1>4, PTL DEF Spec

-----------------------------------------------------------------------------
(* The lists do not outgrow their limits.                                  *)

ListLen(c, d) == Len(c.half[d].cached)

LEMMA ListLenIs ==
  ASSUME NEW Q, NEW c \in Conns(Q)
  PROVE  /\ \A d \in Directions : ListLen(c, d) \in Nat
         /\ TotalCached(c) = ListLen(c, "S2B") + ListLen(c, "B2S")
<1>1. ASSUME NEW d \in Directions PROVE ListLen(c, d) \in Nat
  <2>1. c.half[d].cached \in Seq(Q)
    BY ConnIs
  <2> QED
    BY <2>1 DEF ListLen
<1>2. TotalCached(c) = ListLen(c, "S2B") + ListLen(c, "B2S")
  BY DEF TotalCached, ListLen
<1> QED
  BY <1>1, <1>2

(* ProcOneCachedPkt takes one packet off its list, or leaves it as it is.  *)
StuckAt(c, d) ==
  c.half[d].cached = <<>> \/ PktOrderType(c, Head(c.half[d].cached)) = "out_of_order"

Shrinks(c, n, d) ==
  /\ c.started => n.started
  /\ ListLen(n, Other(d)) = ListLen(c, Other(d))
  /\ (n = c /\ StuckAt(c, d)) \/ ListLen(n, d) + 1 = ListLen(c, d)

LEMMA ProcOneCachedShrinks ==
  ASSUME NEW Q \in SUBSET Packet, NEW c \in Conns(Q), NEW d \in Directions
  PROVE  ProcOneCached(c, d) \in Conns(Q) /\ Shrinks(c, ProcOneCached(c, d), d)
<1> DEFINE p    == Head(c.half[d].cached)
           rest == Drop(c, d)
           n    == ProcOneCached(c, d)
<1>1. CASE n = c /\ (c.half[d].cached = <<>> \/ PktOrderType(c, p) = "out_of_order")
  <2>1. StuckAt(c, d)
    BY <1>1 DEF StuckAt
  <2>2. Shrinks(c, c, d)
    BY <2>1 DEF Shrinks
  <2> QED
    BY <1>1, <2>2
<1>2. CASE /\ c.half[d].cached # <<>> /\ p \in Of(Q, d) /\ rest \in Conns(Q)
           /\ \/ n = ProcessOrdered(rest, p)
              \/ n = Retransmit(rest, p)
              \/ n = rest
  <2>1. Relisted(c, rest, d, Tail(c.half[d].cached)) /\ p \in Q /\ p.dir = d
    BY <1>2, DropIs DEF Of
  <2>2. c.half[d].cached \in Seq(Q)
    BY ConnIs
  <2>3. Len(Tail(c.half[d].cached)) + 1 = Len(c.half[d].cached)
    BY <1>2, <2>2, HeadTailProperties
  <2> HIDE DEF p, rest, n
  <2>4. rest.started = c.started /\ ListLen(rest, d) + 1 = ListLen(c, d)
        /\ ListLen(rest, Other(d)) = ListLen(c, Other(d))
    BY <2>1, <2>3 DEF Relisted, Like, ListLen
  <2>5. CASE n = ProcessOrdered(rest, p)
    <3>1. n \in Conns(Q) /\ Passed(rest, n, p, d, Other(d))
      BY <1>2, <2>1, <2>5, ProcessOrderedIs
    <3> QED
      BY <2>4, <3>1 DEF Passed, ListLen, Shrinks, n
  <2>6. CASE n = Retransmit(rest, p)
    <3>1. n \in Conns(Q) /\ Retransmitted(rest, n, p)
      BY <1>2, <2>1, <2>6, RetransmitIs
    <3> QED
      BY <2>4, <3>1 DEF Retransmitted, ListLen, Shrinks, n
  <2>7. CASE n = rest
    BY <1>2, <2>4, <2>7 DEF Shrinks, n
  <2> QED
    BY <1>2, <2>5, <2>6, <2>7
<1> QED
  BY <1>1, <1>2, ProcOneCachedIs

(* No list grows while the lists are drained. *)
LEMMA TryProcCachedShrinks ==
  ASSUME NEW Q \in SUBSET Packet, NEW c \in Conns(Q)
  PROVE  /\ TryProcCached(c) \in Conns(Q)
         /\ c.started => TryProcCached(c).started
         /\ \A d \in Directions : ListLen(TryProcCached(c), d) <= ListLen(c, d)
<1> DEFINE S == {x \in Conns(Q) : /\ c.started => x.started
                                  /\ \A d \in Directions : ListLen(x, d) <= ListLen(c, d)}
<1>1. S \in SUBSET Conns(Q)
  OBVIOUS
<1>2. c \in S
  BY ListLenIs
<1>3. ASSUME NEW x \in S, NEW d \in Directions PROVE ProcOneCached(x, d) \in S
  <2> DEFINE n == ProcOneCached(x, d)
  <2>1. n \in Conns(Q) /\ Shrinks(x, n, d)
    BY ProcOneCachedShrinks
  <2> HIDE DEF n
  <2>2. ASSUME NEW e \in Directions PROVE ListLen(n, e) <= ListLen(c, e)
    <3>1. ListLen(n, e) \in Nat /\ ListLen(x, e) \in Nat /\ ListLen(c, e) \in Nat
          /\ ListLen(x, e) <= ListLen(c, e)
      BY <2>1, ListLenIs
    <3>2. ListLen(n, e) = ListLen(x, e) \/ ListLen(n, e) + 1 = ListLen(x, e)
      BY <2>1, DirectionsAre DEF Shrinks
    <3> QED
      BY <3>1, <3>2
  <2> QED
    BY <2>1, <2>2 DEF Shrinks, n
<1>4. TryProcCached(c) \in S
  <2> HIDE DEF S
  <2> QED
    BY <1>1, <1>2, <1>3, TryProcCachedWithin
<1> QED
  BY <1>4

LEMMA TotalShrinks ==
  ASSUME NEW Q, NEW c \in Conns(Q), NEW n \in Conns(Q),
         \A d \in Directions : ListLen(n, d) <= ListLen(c, d)
  PROVE  TotalCached(n) <= TotalCached(c)
<1>1. "S2B" \in Directions /\ "B2S" \in Directions
  BY DEF Directions
<1>2. ListLen(n, "S2B") <= ListLen(c, "S2B") /\ ListLen(n, "B2S") <= ListLen(c, "B2S")
  BY <1>1
<1>3. \A x \in {c, n} : ListLen(x, "S2B") \in Nat /\ ListLen(x, "B2S") \in Nat
                        /\ TotalCached(x) = ListLen(x, "S2B") + ListLen(x, "B2S")
  BY <1>1, ListLenIs
<1> QED
  BY <1>2, <1>3

(* An insertion adds at most one packet, to the list of its sender. *)
LEMMA InsertGrows ==
  ASSUME NEW Q \in SUBSET Packet, NEW c \in Conns(Q), NEW p \in Q
  PROVE  /\ Insert(c, p) \in Conns(Q) /\ Insert(c, p).started = c.started
         /\ ListLen(Insert(c, p), Other(p.dir)) = ListLen(c, Other(p.dir))
         /\ ListLen(Insert(c, p), p.dir) \in {ListLen(c, p.dir), ListLen(c, p.dir) + 1}
         /\ TotalCached(Insert(c, p)) <= TotalCached(c) + 1
<1> DEFINE n    == Insert(c, p)
           d    == p.dir
           list == c.half[d].cached
<1>1. n \in Conns(Q) /\ Relisted(c, n, d, InsertUnordered(list, p)) /\ d \in Directions
  BY InsertIs, PacketIs
<1>2. list \in Seq(Q)
  BY <1>1, ConnIs
<1>3. \/ InsertUnordered(list, p) = list
      \/ \E pos \in Nat : InsertedAt(list, p, InsertUnordered(list, p), pos)
  BY <1>2, InsertUnorderedIs
<1>4. Len(InsertUnordered(list, p)) \in {Len(list), Len(list) + 1}
  BY <1>3 DEF InsertedAt
<1> HIDE DEF n, d
<1>5. ListLen(n, d) \in {ListLen(c, d), ListLen(c, d) + 1} /\ ListLen(n, Other(d)) = ListLen(c, Other(d))
      /\ n.started = c.started
  BY <1>1, <1>4 DEF Relisted, Like, ListLen
<1>6. \A x \in {c, n} : TotalCached(x) = ListLen(x, d) + ListLen(x, Other(d))
                        /\ ListLen(x, d) \in Nat /\ ListLen(x, Other(d)) \in Nat
  <2>1. \A x \in {c, n} : /\ TotalCached(x) = ListLen(x, "S2B") + ListLen(x, "B2S")
                          /\ \A e \in Directions : ListLen(x, e) \in Nat
    BY <1>1, ListLenIs
  <2>2. CASE d = "S2B"
    BY <1>1, <2>1, <2>2, DirectionsAre DEF Other
  <2>3. CASE d = "B2S"
    BY <1>1, <2>1, <2>3, DirectionsAre DEF Other
  <2> QED
    BY <1>1, <2>2, <2>3 DEF Directions
<1>7. TotalCached(n) <= TotalCached(c) + 1
  BY <1>5, <1>6
<1> QED
  BY <1>1, <1>5, <1>7 DEF n, d

Bounded(c) == c.started \/ TotalCached(c) <= MaxBefore + 1

LEMMA BoundedHandled ==
  ASSUME NEW Q \in SUBSET Packet, NEW c \in Conns(Q), NEW p \in Q, Bounded(c)
  PROVE  Bounded(Handled(c, p))
<1> DEFINE n == Insert(c, p)
           m == MakeCachedOrdered(n)
<1>1. MaxBefore \in Nat
  BY ReorderAssumption
<1>2. n \in Conns(Q) /\ n.started = c.started /\ TotalCached(n) <= TotalCached(c) + 1
  BY InsertGrows
<1>3. \A x \in Conns(Q) : TotalCached(x) \in Nat
  BY ListLenIs DEF Directions
<1>4. CASE PktOrderType(c, p) = "in_order" /\ Handled(c, p) = TryProcCached(ProcessOrdered(c, p))
  <2>1. ProcessOrdered(c, p) \in Conns(Q) /\ ProcessOrdered(c, p).started
    BY ProcessOrderedIs DEF Passed
  <2>2. TryProcCached(ProcessOrdered(c, p)).started
    BY <2>1, TryProcCachedShrinks
  <2> QED
    BY <1>4, <2>2 DEF Bounded
<1>5. CASE PktOrderType(c, p) = "retransmit" /\ Handled(c, p) = Retransmit(c, p)
  <2>1. c.started
    BY <1>5, OrderTypeIs
  <2>2. Retransmit(c, p).started
    BY <2>1, RetransmitIs DEF Retransmitted
  <2> QED
    BY <1>5, <2>2 DEF Bounded
<1>6. CASE Handled(c, p) = c
  BY <1>6
<1>7. CASE Handled(c, p) = HandshakeFailed(c)
  <2> DEFINE h == HandshakeFailed(c)
  <2>1. h \in Conns(Q) /\ Emptied(c, h)
    BY HandshakeFailedIs
  <2> HIDE DEF h
  <2>2. ListLen(h, "S2B") = 0 /\ ListLen(h, "B2S") = 0
    BY <2>1 DEF Emptied, ListLen, Directions
  <2>3. TotalCached(h) = 0
    BY <2>1, <2>2, ListLenIs
  <2> QED
    BY <1>1, <1>7, <2>3 DEF Bounded, h
<1>8. CASE (c.started \/ ~ (TotalCached(c) > MaxBefore))
           /\ Handled(c, p) \in {n, TryProcCached(m)}
  <2>1. Bounded(n)
    BY <1>1, <1>2, <1>3, <1>8 DEF Bounded
  <2>2. m \in Conns(Q) /\ m.started = n.started /\ \A d \in Directions : ListLen(m, d) = ListLen(n, d)
    <3> HIDE DEF n
    <3>1. m \in Conns(Q) /\ FrontOrdered(n, m)
      BY <1>2, MakeCachedOrderedIs
    <3> QED
      BY <3>1 DEF FrontOrdered, Raised, ListLen, Directions
  <2>3. TryProcCached(m) \in Conns(Q) /\ (m.started => TryProcCached(m).started)
        /\ \A d \in Directions : ListLen(TryProcCached(m), d) <= ListLen(m, d)
    BY <2>2, TryProcCachedShrinks
  <2> HIDE DEF m
  <2> DEFINE t == TryProcCached(m)
  <2> HIDE DEF t
  <2>4. t \in Conns(Q) /\ TotalCached(t) <= TotalCached(n)
    BY <1>2, <2>2, <2>3, TotalShrinks DEF t
  <2>5. Bounded(t)
    BY <1>1, <1>2, <1>3, <2>1, <2>2, <2>3, <2>4 DEF Bounded, t
  <2> QED
    BY <1>8, <2>1, <2>5 DEF t
<1> QED
  BY <1>4, <1>5, <1>6, <1>7, <1>8, HandledIs

(* A connection whose handshake is not complete keeps at most the          *)
(* configured number of packets and one more, whatever arrives.            *)
THEOREM ReorderBoundedBeforeHandshake == Spec => []BoundedBeforeHandshake
<1> DEFINE Inv == ConnOK /\ Bounded(conn)
<1>1. Bounded(NewConn)
  <2>1. NewConn \in Conns({}) /\ \A d \in Directions : ListLen(NewConn, d) = 0
    BY NewConnIs DEF ListLen
  <2>2. TotalCached(NewConn) = 0
    BY <2>1, ListLenIs DEF Directions
  <2> QED
    BY <2>2, ReorderAssumption DEF Bounded
<1>2. Init => Inv
  BY <1>1, ConnOKInit DEF Init
<1>3. Inv /\ [Next]_vars => Inv'
  <2> SUFFICES ASSUME Inv, [Next]_vars PROVE Inv'
    OBVIOUS
  <2>1. ConnOK'
    BY ConnOKNext
  <2>2. CASE Next
    <3>1. ASSUME NEW i \in DOMAIN packets, Captures(i) PROVE Bounded(conn')
      BY <3>1, BoundedHandled, PacketsAre DEF Captures, ConnOK, Pkts
    <3>2. ASSUME Restarts PROVE Bounded(conn')
      BY <1>1, <3>2 DEF Restarts
    <3> QED
      BY <2>1, <2>2, <3>1, <3>2, NextIs
  <2>3. CASE UNCHANGED vars
    BY <2>1, <2>3 DEF vars
  <2> QED
    BY <2>2, <2>3
<1>4. Inv => BoundedBeforeHandshake
  BY DEF Bounded, BoundedBeforeHandshake, TotalCached, Cached
<1> QED
  BY <1>2, <1>3, <1>4, PTL DEF Spec

(* An end that was heard has been heard since the handshake's start. *)
Heard(c) == \A d \in Directions : c.half[d].sent => c.started

LEMMA HeardClosed ==
  ASSUME NEW Q \in SUBSET Packet
  PROVE  Keeps(Q, {c \in Conns(Q) : Heard(c)})
<1> DEFINE S == {c \in Conns(Q) : Heard(c)}
<1>1. ASSUME NEW c \in S, NEW n \in Conns(Q), n.started \/ n.started = c.started,
             \A d \in Directions : n.half[d].sent = c.half[d].sent \/ n.started
      PROVE  n \in S
  BY <1>1 DEF Heard
<1>2. ASSUME NEW c \in S, NEW n \in Conns(Q), Idle(c, n) PROVE n \in S
  BY <1>1, <1>2 DEF Idle, SameNumbers
<1>3. ASSUME NEW c \in S, NEW n \in Conns(Q), FrontOrdered(c, n) PROVE n \in S
  BY <1>1, <1>3 DEF FrontOrdered, Raised, Directions
<1>4. ASSUME NEW c \in S, NEW n \in Conns(Q), NEW p \in Q
      PROVE  /\ PktOrderType(c, p) = "in_order" /\ Passed(c, n, p, p.dir, Other(p.dir)) => n \in S
             /\ PktOrderType(c, p) = "retransmit" /\ Retransmitted(c, n, p) => n \in S
  BY <1>1 DEF Passed, Retransmitted
<1>5. S \in SUBSET Conns(Q)
  OBVIOUS
<1> HIDE DEF S
<1>6. Progress(Q, S)
  BY <1>2, <1>3, <1>4 DEF Progress
<1>7. Keeps(Q, S)
  BY <1>5, <1>6, ClosedIf
<1> QED
  BY <1>7 DEF S

(* Once MakeChacedPktOrdered has raised its numbers, the front of the S2B  *)
(* list is not early any more.                                             *)
LEMMA RaisedFrontMoves ==
  ASSUME NEW Q \in SUBSET Packet, NEW c \in Conns(Q), c.started, c.half["S2B"].sent,
         c.half["S2B"].cached # <<>>, NEW n \in Conns(Q), FrontOrdered(c, n)
  PROVE  ListLen(ProcOneCached(n, "S2B"), "S2B") + 1 = ListLen(c, "S2B")
<1> DEFINE p == Head(c.half["S2B"].cached)
<1>1. "S2B" \in Directions
  BY DEF Directions
<1>2. n.started /\ Raised(c.half["S2B"], n.half["S2B"], p.ack)
  BY DEF FrontOrdered
<1>3. c.half["S2B"].cached \in Seq(Of(Q, "S2B"))
  BY <1>1, ConnIs
<1>4. p \in Of(Q, "S2B")
  BY <1>3, HeadTailProperties
<1>5. p \in Q /\ p.dir = "S2B" /\ p.seq \in Nat /\ p.ack \in Nat
  BY <1>4, PacketIs DEF Of
<1> HIDE DEF p
<1>6. c.half["S2B"].next_seq \in Nat /\ c.half["S2B"].next_ack \in Nat
      /\ n.half["S2B"].next_seq \in Nat /\ n.half["S2B"].next_ack \in Nat
  BY <1>1, ConnIs, NumbersAre
<1>7. n.half["S2B"].cached = c.half["S2B"].cached /\ n.half["S2B"].sent
      /\ n.half["S2B"].next_seq = Max({c.half["S2B"].next_seq, p.seq})
      /\ n.half["S2B"].next_ack = Max({c.half["S2B"].next_ack, p.ack})
  BY <1>2 DEF Raised, p
<1>8. p.seq <= n.half["S2B"].next_seq /\ p.ack <= n.half["S2B"].next_ack
  BY <1>5, <1>6, <1>7, MaxOfTwo
<1>9. PktOrderType(n, p) # "out_of_order"
  BY <1>2, <1>5, <1>6, <1>7, <1>8, OrderTypeIs
<1>10. ProcOneCached(n, "S2B") # n
  <2>1. p = Head(n.half["S2B"].cached) /\ n.half["S2B"].cached # <<>>
    BY <1>7 DEF p
  <2>2. \/ ProcOneCached(n, "S2B") = ProcessOrdered(Drop(n, "S2B"), p)
        \/ ProcOneCached(n, "S2B") = Retransmit(Drop(n, "S2B"), p)
        \/ ProcOneCached(n, "S2B") = Drop(n, "S2B")
    BY <1>1, <1>9, <2>1, ProcOneCachedIs
  <2> DEFINE m == Drop(n, "S2B")
  <2>3. m \in Conns(Q) /\ Relisted(n, m, "S2B", Tail(n.half["S2B"].cached))
    BY <1>1, <2>1, DropIs
  <2>4. ProcOneCached(n, "S2B").half["S2B"].cached = Tail(n.half["S2B"].cached)
    <3> HIDE DEF m
    <3>1. m.half["S2B"].cached = Tail(n.half["S2B"].cached)
      BY <2>3 DEF Relisted
    <3>2. ProcessOrdered(m, p).half["S2B"].cached = m.half["S2B"].cached
      <4>1. Passed(m, ProcessOrdered(m, p), p, "S2B", Other("S2B"))
        BY <1>5, <2>3, ProcessOrderedIs
      <4> QED
        BY <4>1 DEF Passed
    <3>3. Retransmit(m, p).half["S2B"].cached = m.half["S2B"].cached
      <4>1. Retransmitted(m, Retransmit(m, p), p)
        BY <1>5, <2>3, RetransmitIs
      <4> QED
        BY <4>1 DEF Retransmitted
    <3> QED
      BY <2>2, <3>1, <3>2, <3>3 DEF m
  <2>5. n.half["S2B"].cached \in Seq(Q)
    BY <1>1, ConnIs
  <2>6. Len(Tail(n.half["S2B"].cached)) # Len(n.half["S2B"].cached)
    BY <2>1, <2>5, HeadTailProperties
  <2> QED
    BY <2>4, <2>6
<1>11. ListLen(ProcOneCached(n, "S2B"), "S2B") + 1 = ListLen(n, "S2B")
  BY <1>1, <1>10, ProcOneCachedShrinks DEF Shrinks
<1> QED
  BY <1>7, <1>11 DEF ListLen

(* RefactorTcpConn takes at least one packet off the S2B list. *)
LEMMA RefactorShrinks ==
  ASSUME NEW Q \in SUBSET Packet, NEW c \in Conns(Q), c.started, c.half["S2B"].sent,
         c.half["S2B"].cached # <<>>
  PROVE  ListLen(TryProcCached(MakeCachedOrdered(c)), "S2B") + 1 <= ListLen(c, "S2B")
<1> DEFINE m == MakeCachedOrdered(c)
           S == {x \in Conns(Q) : x = m \/ ListLen(x, "S2B") + 1 <= ListLen(c, "S2B")}
<1>1. m \in Conns(Q) /\ FrontOrdered(c, m)
  BY MakeCachedOrderedIs
<1> HIDE DEF m
<1>2. "S2B" \in Directions /\ "B2S" \in Directions /\ Other("B2S") = "S2B"
  BY DEF Directions, Other
<1>3. ListLen(c, "S2B") \in Nat
  BY <1>2, ListLenIs
<1>4. ASSUME NEW x \in S
      PROVE  Turn(x) \in Conns(Q) /\ ListLen(Turn(x), "S2B") + 1 <= ListLen(c, "S2B")
  <2> DEFINE y == ProcOneCached(x, "S2B")
             z == ProcOneCached(y, "B2S")
  <2>1. y \in Conns(Q) /\ Shrinks(x, y, "S2B") /\ ListLen(x, "S2B") \in Nat
    BY <1>2, ProcOneCachedShrinks, ListLenIs
  <2> HIDE DEF y
  <2>2. z \in Conns(Q) /\ Shrinks(y, z, "B2S")
    BY <1>2, <2>1, ProcOneCachedShrinks
  <2>3. ListLen(y, "S2B") + 1 <= ListLen(c, "S2B")
    <3>1. CASE x = m
      <4>1. ListLen(y, "S2B") + 1 = ListLen(c, "S2B")
        BY <1>1, <3>1, RaisedFrontMoves DEF y
      <4> QED
        BY <1>3, <4>1
    <3>2. CASE ListLen(x, "S2B") + 1 <= ListLen(c, "S2B")
      <4>1. ListLen(y, "S2B") \in Nat
        BY <1>2, <2>1, ListLenIs
      <4>2. ListLen(y, "S2B") <= ListLen(x, "S2B")
        BY <2>1, <4>1 DEF Shrinks
      <4> QED
        BY <1>3, <2>1, <3>2, <4>1, <4>2
    <3> QED
      BY <3>1, <3>2
  <2>4. ListLen(z, "S2B") = ListLen(y, "S2B")
    BY <1>2, <2>2 DEF Shrinks
  <2>5. Turn(x) = z
    BY DEF Turn, y
  <2> QED
    BY <2>2, <2>3, <2>4, <2>5
<1>5. S \in SUBSET Conns(Q) /\ m \in S /\ \A x \in S : Turn(x) \in S
  BY <1>1, <1>4
<1>6. TotalCached(m) \in Nat /\ TotalCached(m) > 0
  <2>1. m.half["S2B"].cached = c.half["S2B"].cached
    BY <1>1 DEF FrontOrdered, Raised
  <2>2. c.half["S2B"].cached \in Seq(Q)
    BY <1>2, ConnIs
  <2>3. ListLen(m, "S2B") > 0
    BY <2>1, <2>2, EmptySeq DEF ListLen
  <2> QED
    BY <1>1, <1>2, <2>3, ListLenIs
<1> HIDE DEF S
<1>7. PICK g \in [0 .. TotalCached(m) -> S] :
        /\ \A n \in 1 .. TotalCached(m) : g[n] = Turn(g[n - 1])
        /\ TryProcCached(m) = g[TotalCached(m)]
  BY <1>5, TryProcCachedIs
<1>8. TotalCached(m) - 1 \in 0 .. TotalCached(m) /\ TotalCached(m) \in 1 .. TotalCached(m)
  BY <1>6
<1>9. g[TotalCached(m) - 1] \in S /\ TryProcCached(m) = Turn(g[TotalCached(m) - 1])
  BY <1>7, <1>8
<1> QED
  BY <1>4, <1>9 DEF m

LEMMA S2BHandled ==
  ASSUME NEW Q \in SUBSET Packet, NEW c \in Conns(Q), NEW p \in Q, Heard(c), c.half["S2B"].sent
  PROVE  ListLen(Handled(c, p), "S2B") <= ListLen(c, "S2B")
         \/ ListLen(Handled(c, p), "S2B") <= MaxUnordered
<1> DEFINE n == Insert(c, p)
           r == TryProcCached(MakeCachedOrdered(n))
<1>1. "S2B" \in Directions /\ "B2S" \in Directions /\ p.dir \in Directions
  BY PacketIs DEF Directions
<1>2. ListLen(c, "S2B") \in Nat /\ MaxUnordered \in Nat
  BY <1>1, ListLenIs, ReorderAssumption
<1>3. c.started
  BY <1>1 DEF Heard
<1>4. CASE PktOrderType(c, p) = "in_order" /\ Handled(c, p) = TryProcCached(ProcessOrdered(c, p))
  <2> DEFINE o == ProcessOrdered(c, p)
  <2>1. o \in Conns(Q) /\ Passed(c, o, p, p.dir, Other(p.dir))
    BY ProcessOrderedIs
  <2> HIDE DEF o
  <2>2. o.half["S2B"].cached = c.half["S2B"].cached
    BY <1>1, <2>1, DirectionsAre DEF Passed
  <2>3. ListLen(TryProcCached(o), "S2B") <= ListLen(o, "S2B")
    BY <1>1, <2>1, TryProcCachedShrinks
  <2> QED
    BY <1>4, <2>2, <2>3 DEF ListLen, o
<1>5. CASE Handled(c, p) = Retransmit(c, p)
  <2>1. Retransmit(c, p).half = c.half
    BY RetransmitIs DEF Retransmitted
  <2> QED
    BY <1>2, <1>5, <2>1 DEF ListLen
<1>6. CASE Handled(c, p) = c
  BY <1>2, <1>6
<1>7. CASE Handled(c, p) = HandshakeFailed(c)
  <2>1. HandshakeFailed(c).half["S2B"].cached = <<>>
    BY <1>1, HandshakeFailedIs DEF Emptied
  <2>2. ListLen(HandshakeFailed(c), "S2B") = 0
    BY <2>1 DEF ListLen
  <2> QED
    BY <1>2, <1>7, <2>2
<1>8. n \in Conns(Q) /\ Relisted(c, n, p.dir, InsertUnordered(c.half[p.dir].cached, p))
  BY InsertIs
<1>9. /\ ListLen(n, Other(p.dir)) = ListLen(c, Other(p.dir))
      /\ ListLen(n, p.dir) \in {ListLen(c, p.dir), ListLen(c, p.dir) + 1}
  BY InsertGrows
<1>10. ListLen(n, "S2B") \in Nat
  BY <1>1, <1>8, ListLenIs
<1> HIDE DEF n
<1>11. CASE Handled(c, p) = n /\ ~ (Len(n.half[p.dir].cached) > MaxUnordered)
  <2>1. CASE p.dir = "S2B"
    BY <1>2, <1>10, <1>11, <2>1 DEF ListLen
  <2>2. CASE p.dir # "S2B"
    <3>1. Other(p.dir) = "S2B"
      BY <1>1, <2>2, DirectionsAre
    <3> QED
      BY <1>2, <1>9, <1>11, <3>1
  <2> QED
    BY <2>1, <2>2
<1>12. CASE Handled(c, p) = r
  <2>1. CASE n.half["S2B"].cached # <<>>
    <3>1. n.started /\ n.half["S2B"].sent
      <4>1. n.started
        BY <1>3, <1>8 DEF Relisted, Like
      <4>2. n.half["S2B"].sent
        BY <1>1, <1>8, DirectionsAre DEF Relisted, SameNumbers
      <4> QED
        BY <4>1, <4>2
    <3>2. ListLen(r, "S2B") + 1 <= ListLen(n, "S2B")
      BY <1>8, <2>1, <3>1, RefactorShrinks
    <3>3. ListLen(r, "S2B") \in Nat
      <4>1. MakeCachedOrdered(n) \in Conns(Q)
        BY <1>8, MakeCachedOrderedIs
      <4>2. r \in Conns(Q)
        BY <4>1, TryProcCachedShrinks
      <4> QED
        BY <1>1, <4>2, ListLenIs
    <3>4. ListLen(n, "S2B") <= ListLen(c, "S2B") + 1
      BY <1>1, <1>2, <1>9, <1>10, DirectionsAre
    <3> HIDE DEF r
    <3> QED
      BY <1>2, <1>10, <1>12, <3>2, <3>3, <3>4
  <2>2. CASE n.half["S2B"].cached = <<>>
    <3> DEFINE m == MakeCachedOrdered(n)
    <3>1. m \in Conns(Q) /\ FrontOrdered(n, m)
      BY <1>8, MakeCachedOrderedIs
    <3> HIDE DEF m
    <3>2. ListLen(m, "S2B") = 0
      BY <2>2, <3>1 DEF FrontOrdered, Raised, ListLen
    <3>3. ListLen(TryProcCached(m), "S2B") <= 0
      BY <1>1, <3>1, <3>2, TryProcCachedShrinks
    <3> QED
      BY <1>2, <1>12, <3>1, <3>3, TryProcCachedShrinks, ListLenIs, <1>1 DEF m
  <2> QED
    BY <2>1, <2>2
<1> QED
  BY <1>4, <1>5, <1>6, <1>7, <1>11, <1>12, HandledIs DEF n

(* The S2B list of a sender that was heard never grows past                *)
(* max-cached-unordered-pkt: whenever it would, RefactorTcpConn gets its   *)
(* first packet moving.                                                    *)
THEOREM ReorderS2BListLimited == Spec => S2BListLimited
<1> DEFINE Inv == ConnOK /\ Heard(conn)
           A   == /\ conn.half["S2B"].sent
                  /\ Len(conn'.half["S2B"].cached) > Len(conn.half["S2B"].cached)
                  => Len(conn'.half["S2B"].cached) <= MaxUnordered
<1>1. Heard(NewConn)
  BY NewConnIs DEF Heard
<1>2. Init => Inv
  BY <1>1, ConnOKInit DEF Init
<1>3. Inv /\ [Next]_vars => Inv'
  <2> SUFFICES ASSUME Inv, [Next]_vars PROVE Inv'
    OBVIOUS
  <2>1. ConnOK'
    BY ConnOKNext
  <2>2. CASE Next
    <3>1. ASSUME NEW i \in DOMAIN packets, Captures(i) PROVE Heard(conn')
      <4> DEFINE S == {c \in Conns(Pkts) : Heard(c)}
      <4>1. Keeps(Pkts, S) /\ conn \in S
        BY HeardClosed, PacketsAre DEF ConnOK, Pkts
      <4> HIDE DEF S
      <4>2. conn' \in S
        BY <3>1, <4>1, ConnStays
      <4> QED
        BY <4>2 DEF S
    <3>2. ASSUME Restarts PROVE Heard(conn')
      BY <1>1, <3>2 DEF Restarts
    <3> QED
      BY <2>1, <2>2, <3>1, <3>2, NextIs
  <2>3. CASE UNCHANGED vars
    BY <2>1, <2>3 DEF vars
  <2> QED
    BY <2>2, <2>3
<1>4. Inv /\ [Next]_vars => [A]_vars
  <2> SUFFICES ASSUME Inv, Next, conn.half["S2B"].sent,
                      Len(conn'.half["S2B"].cached) > Len(conn.half["S2B"].cached)
               PROVE  Len(conn'.half["S2B"].cached) <= MaxUnordered
    OBVIOUS
  <2>1. Len(conn.half["S2B"].cached) \in Nat
    BY ListLenIs DEF ConnOK, ListLen, Directions
  <2>2. ASSUME NEW i \in DOMAIN packets, Captures(i)
        PROVE  \/ Len(conn'.half["S2B"].cached) <= Len(conn.half["S2B"].cached)
               \/ Len(conn'.half["S2B"].cached) <= MaxUnordered
    BY <2>2, S2BHandled, PacketsAre DEF Captures, ConnOK, Pkts, ListLen
  <2>3. ASSUME Restarts PROVE Len(conn'.half["S2B"].cached) = 0
    BY <2>3, NewConnIs DEF Restarts, Directions
  <2>4. ConnOK'
    BY ConnOKNext
  <2>5. Len(conn'.half["S2B"].cached) \in Nat
    BY <2>4, ListLenIs DEF ConnOK, ListLen, Directions
  <2>6. \/ Len(conn'.half["S2B"].cached) <= Len(conn.half["S2B"].cached)
        \/ Len(conn'.half["S2B"].cached) <= MaxUnordered
    <3>1. CASE \E i \in DOMAIN packets : Captures(i)
      BY <2>2, <3>1
    <3>2. CASE Restarts
      BY <2>1, <2>3, <3>2
    <3> QED
      BY <3>1, <3>2, NextIs
  <2>7. MaxUnordered \in Nat
    BY ReorderAssumption
  <2> QED
    BY <2>1, <2>5, <2>6, <2>7
<1> QED
  BY <1>2, <1>3, <1>4, PTL DEF Spec, S2BListLimited

-----------------------------------------------------------------------------
(* What is taken for a retransmission is one, and no packet is passed on   *)
(* before what it acknowledges.                                            *)

(* What a conversation that conforms has to say of any two of its packets. *)
InTurn(Q) ==
  /\ Fits(Q)
  /\ \A p, q \in Q : p.dir = q.dir /\ Space(q) > 0 =>
       /\ Space(p) > 0 /\ p.seq <= q.seq   => p = q \/ End(p) <= q.seq
       /\ "syn" \in p.flags                => p = q \/ End(p) <= q.seq
       /\ Space(p) = 0 /\ ~ PureAck(p)     => End(q) <= p.seq
  /\ \A p, q \in Q : IsSecond(p) /\ Acknowledges(p, q) => "syn" \in q.flags

LEMMA SynTakesSpace ==
  ASSUME NEW p \in Packet, "syn" \in p.flags
  PROVE  Space(p) > 0
<1>1. p.len \in Nat
  BY PacketIs
<1>2. p.flags \cap {"syn", "fin"} # {}
  OBVIOUS
<1> QED
  BY <1>1, <1>2 DEF Space

LEMMA ConformsInTurn ==
  ASSUME NEW conv \in Conversations, Conforms(conv)
  PROVE  InTurn(Range(conv))
<1> DEFINE Q == Range(conv)
<1>1. Fits(Q)
  BY NoWrapFits DEF Conforms
<1>2. DOMAIN conv \subseteq Nat /\ \A i \in DOMAIN conv : conv[i] \in Packet
  BY PacketsAre
<1>3. \A i \in DOMAIN conv : /\ conv[i].seq \in Nat /\ End(conv[i]) \in Nat
                            /\ conv[i].seq <= End(conv[i]) /\ Space(conv[i]) \in Nat
                            /\ (Space(conv[i]) > 0 <=> conv[i].seq < End(conv[i]))
                            /\ ("syn" \in conv[i].flags => Space(conv[i]) > 0)
  BY <1>2, PacketIs, SynTakesSpace
<1>4. ASSUME NEW i \in DOMAIN conv, NEW j \in DOMAIN conv, i \in 1 .. j - 1, conv[i].dir = conv[j].dir
      PROVE  /\ End(conv[i]) <= conv[j].seq
             /\ "syn" \notin conv[j].flags
             /\ Space(conv[j]) > 0 => Space(conv[i]) > 0 \/ PureAck(conv[i])
  <2> DEFINE before == {k \in 1 .. j - 1 : conv[k].dir = conv[j].dir}
  <2>1. i \in before
    BY <1>4
  <2>2. /\ \A k \in before : End(conv[k]) <= conv[j].seq
        /\ IF "syn" \in conv[j].flags THEN before = {}
           ELSE \E k \in before : Space(conv[k]) > 0 /\ End(conv[k]) = conv[j].seq
        /\ Space(conv[j]) > 0 => \A k \in before : Space(conv[k]) > 0 \/ PureAck(conv[k])
    BY DEF Conforms, InSequence
  <2> HIDE DEF before
  <2> QED
    BY <2>1, <2>2
<1>5. ASSUME NEW i \in DOMAIN conv, NEW j \in DOMAIN conv,
             conv[i].dir = conv[j].dir, Space(conv[j]) > 0
      PROVE  /\ Space(conv[i]) > 0 /\ conv[i].seq <= conv[j].seq
                  => conv[i] = conv[j] \/ End(conv[i]) <= conv[j].seq
             /\ "syn" \in conv[i].flags => conv[i] = conv[j] \/ End(conv[i]) <= conv[j].seq
             /\ Space(conv[i]) = 0 /\ ~ PureAck(conv[i]) => End(conv[j]) <= conv[i].seq
  <2>1. CASE i \in 1 .. j - 1
    BY <1>3, <1>4, <1>5, <2>1
  <2>2. CASE j \in 1 .. i - 1
    <3>1. End(conv[j]) <= conv[i].seq /\ "syn" \notin conv[i].flags
      BY <1>4, <1>5, <2>2
    <3> QED
      BY <1>3, <1>5, <3>1
  <2>3. CASE i = j
    BY <1>5, <2>3
  <2>4. 1 <= i /\ 1 <= j /\ i \in Nat /\ j \in Nat
    <3>1. conv \in Seq(Packet)
      BY ReorderAssumption
    <3> QED
      BY <3>1
  <2> QED
    BY <2>1, <2>2, <2>3, <2>4
<1>6. ASSUME NEW p \in Q, NEW q \in Q, p.dir = q.dir, Space(q) > 0
      PROVE  /\ Space(p) > 0 /\ p.seq <= q.seq   => p = q \/ End(p) <= q.seq
             /\ "syn" \in p.flags                => p = q \/ End(p) <= q.seq
             /\ Space(p) = 0 /\ ~ PureAck(p)     => End(q) <= p.seq
  <2>1. PICK i \in DOMAIN conv : p = conv[i]
    BY DEF Range
  <2>2. PICK j \in DOMAIN conv : q = conv[j]
    BY DEF Range
  <2> QED
    BY <1>5, <1>6, <2>1, <2>2
<1>7. ASSUME NEW p \in Q, NEW q \in Q, IsSecond(p), Acknowledges(p, q)
      PROVE  "syn" \in q.flags
  <2>1. PICK i \in DOMAIN conv : p = conv[i]
    BY DEF Range
  <2>2. PICK j \in DOMAIN conv : q = conv[j]
    BY DEF Range
  <2>3. {"syn", "ack"} \subseteq p.flags
    BY <1>7 DEF IsSecond
  <2>4. "syn" \in p.flags /\ ~ IsFirst(p)
    BY <2>3 DEF IsFirst
  <2>5. Opening(conv)
    BY DEF Conforms
  <2>6. \A k \in DOMAIN conv : Acknowledges(conv[i], conv[k]) => "syn" \in conv[k].flags
    BY <2>1, <2>4, <2>5 DEF Opening
  <2> QED
    BY <1>7, <2>1, <2>2, <2>6
<1> QED
  BY <1>1, <1>6, <1>7 DEF InTurn

(* What the numbers of a half say, until a gap is skipped: all that starts *)
(* below has been passed on, and something ended just there.               *)
Reached(Q, c, d) ==
  /\ \A q \in Of(Q, d) : Space(q) > 0 /\ q.seq < c.half[d].next_seq => q \in Range(c.log)
  /\ \E r \in Of(Q, d) : Space(r) > 0 /\ c.half[d].next_seq = End(r)

InLogBefore(log, i, q) == \E j \in 1 .. i - 1 : log[j] = q

AcksInLog(Q, log, i) ==
  "ack" \in log[i].flags => \A q \in Q : Acknowledges(log[i], q) => InLogBefore(log, i, q)

Known(Q, c) ==
  /\ \A d \in Directions :
       /\ c.half[d].sent => Reached(Q, c, d) /\ c.started
       /\ ~ c.half[d].sent => c.half[d].next_seq = 0
       /\ c.started => c.half[d].sent \/ c.half[Other(d)].sent
       /\ c.half[d].next_ack = c.half[Other(d)].next_seq
  /\ c.started => \E q \in Range(c.log) : IsFirst(q)
  /\ \A q \in Range(c.log) : c.half[q.dir].sent /\ End(q) <= c.half[q.dir].next_seq
  /\ c.retransmits \subseteq Range(c.log)
  /\ \A i \in DOMAIN c.log : AcksInLog(Q, c.log, i)

(* Once an end was heard, its SYN has been passed on. *)
LEMMA SynPassedOn ==
  ASSUME NEW Q \in SUBSET Packet, InTurn(Q), NEW c \in Conns(Q), NEW d \in Directions,
         Reached(Q, c, d), NEW q \in Of(Q, d), "syn" \in q.flags
  PROVE  q \in Range(c.log)
<1>1. PICK r \in Of(Q, d) : Space(r) > 0 /\ c.half[d].next_seq = End(r)
  BY DEF Reached
<1>2. q \in Q /\ r \in Q /\ q.dir = d /\ r.dir = d
  BY DEF Of
<1>3. Space(q) > 0 /\ q.seq \in Nat /\ End(q) \in Nat /\ r.seq \in Nat /\ End(r) \in Nat
      /\ q.seq < End(q) /\ r.seq < End(r)
  BY <1>1, <1>2, PacketIs, SynTakesSpace
<1>4. q = r \/ End(q) <= r.seq
  BY <1>1, <1>2 DEF InTurn
<1> QED
  BY <1>1, <1>3, <1>4 DEF Reached

(* What a packet acknowledges that is passed on was passed on before. *)
LEMMA AcksPassedOn ==
  ASSUME NEW Q \in SUBSET Packet, InTurn(Q), NEW c \in Conns(Q), Known(Q, c), NEW p \in Q,
         PktOrderType(c, p) = "in_order", "ack" \in p.flags, NEW q \in Q, Acknowledges(p, q)
  PROVE  q \in Range(c.log)
<1> DEFINE d == p.dir
           o == Other(p.dir)
<1>1. d \in Directions /\ o \in Directions /\ o # d /\ Other(o) = d
  BY PacketIs, DirectionsAre
<1>2. q \in Of(Q, o) /\ Space(q) > 0 /\ q.seq < p.ack /\ q.seq \in Nat /\ p.ack \in Nat
  BY <1>1, PacketIs, DirectionsAre DEF Acknowledges, Of
<1>3. c.half[o].sent \in BOOLEAN /\ c.half[d].next_ack \in Nat /\ c.half[o].next_seq \in Nat
  BY <1>1, ConnIs, NumbersAre
<1>4. ~ IsFirst(p)
  BY DEF IsFirst
<1>5. c.started
  BY <1>4, OrderTypeIs
<1>6. CASE ~ c.half[d].sent /\ IsSecond(p)
  <2>1. "syn" \in q.flags
    BY <1>6 DEF InTurn
  <2>2. Reached(Q, c, o)
    BY <1>1, <1>5, <1>6 DEF Known
  <2> QED
    BY <1>1, <1>2, <2>1, <2>2, SynPassedOn
<1>7. CASE c.half[d].sent /\ p.ack <= c.half[d].next_ack
  <2>1. q.seq < c.half[o].next_seq
    BY <1>1, <1>2, <1>3, <1>7 DEF Known
  <2>2. c.half[o].sent
    BY <1>1, <1>2, <1>3, <2>1 DEF Known
  <2>3. Reached(Q, c, o)
    BY <1>1, <2>2 DEF Known
  <2> QED
    BY <1>2, <2>1, <2>3 DEF Reached
<1> QED
  BY <1>5, <1>6, <1>7, OrderTypeIs

LEMMA ReachedPassed ==
  ASSUME NEW Q \in SUBSET Packet, InTurn(Q), NEW c \in Conns(Q), Known(Q, c), NEW p \in Q,
         PktOrderType(c, p) = "in_order", NEW n \in Conns(Q), Passed(c, n, p, p.dir, Other(p.dir))
  PROVE  Reached(Q, n, p.dir)
<1> DEFINE d == p.dir
<1>1. d \in Directions /\ p \in Of(Q, d) /\ p.seq \in Nat /\ End(p) \in Nat /\ p.seq <= End(p)
      /\ (Space(p) > 0 <=> p.seq < End(p)) /\ Space(p) \in Nat
  BY PacketIs DEF Of
<1>2. n.half[d].next_seq = End(p)
  BY NextAfterIs DEF Passed, InTurn
<1>3. c.log \in Seq(Q) /\ n.log = Append(c.log, p)
  BY ConnIs DEF Passed
<1>4. Range(n.log) = Range(c.log) \cup {p}
  BY <1>3, AppendRange
<1>5. ASSUME NEW q \in Of(Q, d), Space(q) > 0, q.seq < End(p) PROVE q \in Range(n.log)
  <2>1. q \in Q /\ q.dir = d /\ q.seq \in Nat
    BY PacketIs DEF Of
  <2>2. CASE "syn" \in p.flags
    <3>1. p = q \/ End(p) <= q.seq
      BY <1>5, <2>1, <2>2 DEF InTurn
    <3> QED
      BY <1>1, <1>4, <1>5, <2>1, <3>1
  <2>3. CASE c.half[d].sent /\ p.seq = c.half[d].next_seq
    <3>1. Reached(Q, c, d)
      BY <1>1, <2>3 DEF Known
    <3>2. CASE q.seq < p.seq
      BY <1>4, <1>5, <2>3, <3>1, <3>2 DEF Reached
    <3>3. CASE p.seq <= q.seq
      <4>1. Space(p) > 0
        BY <1>1, <1>5, <2>1, <3>3
      <4>2. p = q \/ End(p) <= q.seq
        BY <1>5, <2>1, <3>3, <4>1 DEF InTurn
      <4> QED
        BY <1>1, <1>4, <1>5, <2>1, <4>2
    <3> QED
      BY <1>1, <2>1, <3>2, <3>3
  <2> QED
    BY <2>2, <2>3, OrderTypeIs DEF IsFirst, IsSecond
<1>6. \E r \in Of(Q, d) : Space(r) > 0 /\ End(p) = End(r)
  <2>1. CASE Space(p) > 0
    BY <1>1, <2>1
  <2>2. CASE ~ (Space(p) > 0)
    <3>1. "syn" \notin p.flags
      BY <2>2, SynTakesSpace
    <3>2. c.half[d].sent /\ p.seq = c.half[d].next_seq
      BY <3>1, OrderTypeIs DEF IsFirst, IsSecond
    <3>3. End(p) = c.half[d].next_seq
      BY <1>1, <2>2, <3>2
    <3> QED
      BY <1>1, <3>2, <3>3 DEF Known, Reached
  <2> QED
    BY <2>1, <2>2
<1> QED
  BY <1>2, <1>5, <1>6 DEF Reached

LEMMA KnownPassed ==
  ASSUME NEW Q \in SUBSET Packet, InTurn(Q), NEW c \in Conns(Q), Known(Q, c), NEW p \in Q,
         PktOrderType(c, p) = "in_order", NEW n \in Conns(Q), Passed(c, n, p, p.dir, Other(p.dir))
  PROVE  Known(Q, n)
<1> DEFINE d == p.dir
           o == Other(p.dir)
<1>1. d \in Directions /\ o \in Directions /\ o # d /\ Other(o) = d
      /\ \A e \in Directions : e = d \/ e = o
  BY PacketIs, DirectionsAre
<1>2. /\ n.started /\ n.half[d].sent /\ n.half[o].sent = c.half[o].sent
      /\ n.half[o].next_seq = c.half[o].next_seq
      /\ n.half[d].next_ack = c.half[d].next_ack /\ n.half[o].next_ack = n.half[d].next_seq
      /\ n.log = Append(c.log, p) /\ n.retransmits = c.retransmits
  BY DEF Passed
<1>3. c.log \in Seq(Q) /\ Range(n.log) = Range(c.log) \cup {p}
  BY <1>2, ConnIs, AppendRange
<1>4. Reached(Q, n, d)
  BY ReachedPassed
<1>5. ASSUME n.half[o].sent PROVE Reached(Q, n, o)
  <2>1. Reached(Q, c, o)
    BY <1>1, <1>2, <1>5 DEF Known
  <2> QED
    BY <1>2, <1>3, <2>1 DEF Reached
<1>6. ~ n.half[o].sent => n.half[o].next_seq = 0
  BY <1>1, <1>2 DEF Known
<1>7. n.half[d].next_ack = n.half[o].next_seq
  BY <1>1, <1>2 DEF Known
<1>8. ASSUME NEW e \in Directions
      PROVE  /\ n.half[e].sent => Reached(Q, n, e) /\ n.started
             /\ ~ n.half[e].sent => n.half[e].next_seq = 0
             /\ n.started => n.half[e].sent \/ n.half[Other(e)].sent
             /\ n.half[e].next_ack = n.half[Other(e)].next_seq
  BY <1>1, <1>2, <1>4, <1>5, <1>6, <1>7
<1>9. n.retransmits \subseteq Range(n.log)
  BY <1>2, <1>3 DEF Known
<1>10. /\ DOMAIN n.log = 1 .. Len(c.log) + 1 /\ DOMAIN c.log = 1 .. Len(c.log) /\ Len(c.log) \in Nat
       /\ n.log[Len(c.log) + 1] = p /\ \A i \in DOMAIN c.log : n.log[i] = c.log[i]
  <2>1. Appended(c.log, n.log, p)
    BY <1>2, <1>3, AppendHalves
  <2> QED
    BY <2>1 DEF Appended
<1>11. ASSUME NEW i \in DOMAIN c.log PROVE AcksInLog(Q, n.log, i)
  <2>1. AcksInLog(Q, c.log, i) /\ n.log[i] = c.log[i]
    BY <1>10 DEF Known
  <2>2. \A j \in 1 .. i - 1 : n.log[j] = c.log[j]
    BY <1>10
  <2> QED
    BY <2>1, <2>2 DEF AcksInLog, InLogBefore
<1>12. AcksInLog(Q, n.log, Len(c.log) + 1)
  <2>1. ASSUME NEW q \in Q, "ack" \in p.flags, Acknowledges(p, q)
        PROVE  InLogBefore(n.log, Len(c.log) + 1, q)
    <3>1. q \in Range(c.log)
      BY <2>1, AcksPassedOn
    <3>2. PICK j \in DOMAIN c.log : c.log[j] = q
      BY <3>1 DEF Range
    <3>3. j \in 1 .. (Len(c.log) + 1) - 1 /\ n.log[j] = q
      BY <1>10, <3>2
    <3> QED
      BY <3>3 DEF InLogBefore
  <2> QED
    BY <1>10, <2>1 DEF AcksInLog
<1>13. \A i \in DOMAIN n.log : AcksInLog(Q, n.log, i)
  <2>1. \A i \in DOMAIN n.log : i \in DOMAIN c.log \/ i = Len(c.log) + 1
    BY <1>10
  <2> QED
    BY <1>11, <1>12, <2>1
<1>14. \E q \in Range(n.log) : IsFirst(q)
  <2>1. CASE c.started
    BY <1>3, <2>1 DEF Known
  <2>2. CASE ~ c.started
    BY <1>3, <2>2, OrderTypeIs
  <2> QED
    BY <2>1, <2>2
<1>15. ASSUME NEW q \in Range(n.log)
       PROVE  n.half[q.dir].sent /\ End(q) <= n.half[q.dir].next_seq
  <2>1. n.half[d].next_seq = End(p) /\ p.seq <= End(p) /\ p.seq \in Nat /\ End(p) \in Nat
    BY PacketIs, NextAfterIs DEF Passed, InTurn
  <2>2. CASE q = p
    BY <1>2, <2>1, <2>2
  <2>3. CASE q \in Range(c.log)
    <3>1. q \in Q /\ c.half[q.dir].sent /\ End(q) <= c.half[q.dir].next_seq
      BY <1>3, <2>3, RangeOfSeq DEF Known
    <3>2. q.dir \in Directions /\ End(q) \in Nat
      BY <3>1, PacketIs
    <3>3. CASE q.dir = o
      BY <1>2, <3>1, <3>3
    <3>4. CASE q.dir = d
      <4>1. c.started
        BY <1>1, <3>1, <3>4 DEF Known
      <4>2. p.seq = c.half[d].next_seq
        BY <3>1, <3>4, <4>1, OrderTypeIs
      <4> QED
        BY <1>2, <2>1, <3>1, <3>2, <3>4, <4>2
    <3> QED
      BY <1>1, <3>2, <3>3, <3>4
  <2> QED
    BY <1>3, <2>2, <2>3
<1> QED
  BY <1>8, <1>9, <1>13, <1>14, <1>15 DEF Known

(* A connection that differs in its lists, and in retransmissions that are *)
(* in the log, is as well known.                                           *)
LEMMA KnownSame ==
  ASSUME NEW Q \in SUBSET Packet, NEW c \in Conns(Q), Known(Q, c), NEW n \in Conns(Q),
         n.started = c.started, n.log = c.log, n.retransmits \subseteq Range(c.log),
         \A d \in Directions : SameNumbers(n.half[d], c.half[d])
  PROVE  Known(Q, n)
<1>1. ASSUME NEW d \in Directions
      PROVE  /\ n.half[d].sent => Reached(Q, n, d) /\ n.started
             /\ ~ n.half[d].sent => n.half[d].next_seq = 0
             /\ n.started => n.half[d].sent \/ n.half[Other(d)].sent
             /\ n.half[d].next_ack = n.half[Other(d)].next_seq
  <2>1. Other(d) \in Directions
    BY DirectionsAre
  <2>2. SameNumbers(n.half[d], c.half[d]) /\ SameNumbers(n.half[Other(d)], c.half[Other(d)])
    BY <2>1
  <2>3. Reached(Q, c, d) => Reached(Q, n, d)
    BY <2>2 DEF Reached, SameNumbers
  <2> QED
    BY <2>2, <2>3 DEF Known, SameNumbers
<1>2. ASSUME NEW q \in Range(c.log)
      PROVE  n.half[q.dir].sent /\ End(q) <= n.half[q.dir].next_seq
  <2>1. c.log \in Seq(Q)
    BY ConnIs
  <2>2. q \in Q
    BY <2>1, RangeOfSeq
  <2>3. q.dir \in Directions
    BY <2>2, PacketIs
  <2>4. c.half[q.dir].sent /\ End(q) <= c.half[q.dir].next_seq
    BY DEF Known
  <2> QED
    BY <2>3, <2>4 DEF SameNumbers
<1> QED
  BY <1>1, <1>2 DEF Known

(* What is discarded as a retransmission starts below what is expected. *)
LEMMA RetransmitPassedOn ==
  ASSUME NEW Q \in SUBSET Packet, InTurn(Q), NEW c \in Conns(Q), Known(Q, c), NEW p \in Q,
         PktOrderType(c, p) = "retransmit"
  PROVE  p \in Range(c.log)
<1>1. p.dir \in Directions /\ p \in Of(Q, p.dir) /\ p.seq \in Nat /\ Space(p) \in Nat
  BY PacketIs DEF Of
<1>2. c.half[p.dir].sent /\ p.seq < c.half[p.dir].next_seq /\ ~ PureAck(p)
  BY OrderTypeIs
<1>3. Reached(Q, c, p.dir)
  BY <1>1, <1>2 DEF Known
<1>4. CASE Space(p) > 0
  BY <1>1, <1>2, <1>3, <1>4 DEF Reached
<1>5. CASE Space(p) = 0
  <2>1. PICK r \in Of(Q, p.dir) : Space(r) > 0 /\ c.half[p.dir].next_seq = End(r)
    BY <1>3 DEF Reached
  <2>2. r \in Q /\ r.dir = p.dir
    BY DEF Of
  <2>3. End(r) \in Nat
    BY <2>2, PacketIs
  <2>4. End(r) <= p.seq
    BY <1>2, <1>5, <2>1, <2>2 DEF InTurn
  <2> QED
    BY <1>1, <1>2, <2>1, <2>3, <2>4
<1> QED
  BY <1>1, <1>4, <1>5

KnownOrSkipped(Q, c) == c.refactored \/ Known(Q, c)

LEMMA KnownClosed ==
  ASSUME NEW Q \in SUBSET Packet, InTurn(Q)
  PROVE  Keeps(Q, {c \in Conns(Q) : KnownOrSkipped(Q, c)})
<1> DEFINE S == {c \in Conns(Q) : KnownOrSkipped(Q, c)}
<1>1. ASSUME NEW c \in S, NEW n \in Conns(Q), Idle(c, n) PROVE n \in S
  <2>1. Known(Q, c) => n.retransmits \subseteq Range(c.log)
    BY <1>1 DEF Idle, Known
  <2>2. Known(Q, c) => Known(Q, n)
    BY <1>1, <2>1, KnownSame DEF Idle
  <2> QED
    BY <1>1, <2>2 DEF Idle, KnownOrSkipped
<1>2. ASSUME NEW c \in S, NEW n \in Conns(Q), FrontOrdered(c, n) PROVE n \in S
  BY <1>2 DEF FrontOrdered, KnownOrSkipped
<1>3. ASSUME NEW c \in S, NEW n \in Conns(Q), NEW p \in Q, PktOrderType(c, p) = "in_order",
             Passed(c, n, p, p.dir, Other(p.dir))
      PROVE  n \in S
  <2>1. Known(Q, c) => Known(Q, n)
    BY <1>3, KnownPassed
  <2>2. n.refactored = c.refactored
    BY <1>3 DEF Passed
  <2> QED
    BY <2>1, <2>2 DEF KnownOrSkipped
<1>4. ASSUME NEW c \in S, NEW n \in Conns(Q), NEW p \in Q, PktOrderType(c, p) = "retransmit",
             Retransmitted(c, n, p)
      PROVE  n \in S
  <2>1. \A d \in Directions : SameNumbers(n.half[d], c.half[d])
    BY <1>4 DEF Retransmitted, SameNumbers
  <2>2. Known(Q, c) => n.retransmits \subseteq Range(c.log)
    BY <1>4, RetransmitPassedOn DEF Known, Retransmitted
  <2>3. Known(Q, c) => Known(Q, n)
    BY <1>4, <2>1, <2>2, KnownSame DEF Retransmitted
  <2> QED
    BY <1>4, <2>3 DEF Retransmitted, KnownOrSkipped
<1>5. S \in SUBSET Conns(Q)
  OBVIOUS
<1> HIDE DEF S
<1>6. ASSUME NEW c \in S, NEW n \in Conns(Q), NEW p \in Q
      PROVE  /\ PktOrderType(c, p) = "in_order" /\ Passed(c, n, p, p.dir, Other(p.dir)) => n \in S
             /\ PktOrderType(c, p) = "retransmit" /\ Retransmitted(c, n, p) => n \in S
  BY <1>3, <1>4
<1>7. Progress(Q, S)
  BY <1>1, <1>2, <1>6 DEF Progress
<1>8. Keeps(Q, S)
  BY <1>5, <1>7, ClosedIf
<1> QED
  BY <1>8 DEF S

KnownOK == ConnOK /\ KnownOrSkipped(Pkts, conn)

LEMMA KnownNew ==
  ASSUME NEW Q
  PROVE  KnownOrSkipped(Q, NewConn)
<1>1. NewConn.log = <<>> /\ NewConn.retransmits = {} /\ ~ NewConn.started
  BY NewConnIs
<1>2. DOMAIN NewConn.log = {} /\ Range(NewConn.log) = {}
  BY <1>1 DEF Range
<1>3. \A d \in Directions : ~ NewConn.half[d].sent /\ NewConn.half[d].next_seq = 0
                           /\ NewConn.half[d].next_ack = 0 /\ Other(d) \in Directions
  BY NewConnIs, DirectionsAre
<1> QED
  BY <1>1, <1>2, <1>3 DEF Known, KnownOrSkipped

LEMMA KnownInit == Init => KnownOK
BY KnownNew, ConnOKInit DEF KnownOK, Init

LEMMA KnownNext ==
  ASSUME \A conv \in Conversations : Conforms(conv)
  PROVE  KnownOK /\ [Next]_vars => KnownOK'
<1> SUFFICES ASSUME KnownOK, [Next]_vars PROVE KnownOK'
  OBVIOUS
<1>1. ConnOK'
  BY ConnOKNext DEF KnownOK
<1>2. CASE Next
  <2>1. ASSUME NEW i \in DOMAIN packets, Captures(i) PROVE KnownOrSkipped(Pkts', conn')
    <3> DEFINE S == {c \in Conns(Pkts) : KnownOrSkipped(Pkts, c)}
    <3>1. InTurn(Pkts) /\ Pkts \in SUBSET Packet
      BY ConformsInTurn, PacketsAre DEF KnownOK, ConnOK, Pkts
    <3>2. Keeps(Pkts, S) /\ conn \in S
      BY <3>1, KnownClosed DEF KnownOK, ConnOK
    <3> HIDE DEF S
    <3>3. conn' \in S
      BY <2>1, <3>2, ConnStays DEF KnownOK
    <3>4. Pkts' = Pkts
      BY <2>1 DEF Captures
    <3> QED
      BY <3>3, <3>4 DEF S
  <2>2. ASSUME Restarts PROVE KnownOrSkipped(Pkts', conn')
    BY <2>2, KnownNew DEF Restarts
  <2>3. KnownOrSkipped(Pkts', conn')
    BY <1>2, <2>1, <2>2, NextIs DEF KnownOK
  <2> QED
    BY <1>1, <2>3 DEF KnownOK
<1>3. CASE UNCHANGED vars
  <2>1. conn' = conn /\ Pkts' = Pkts
    BY <1>3 DEF vars, Pkts
  <2> QED
    BY <1>1, <2>1 DEF KnownOK
<1> QED
  BY <1>2, <1>3

LEMMA KnownAlways ==
  ASSUME \A conv \in Conversations : Conforms(conv)
  PROVE  Spec => []KnownOK
BY KnownInit, KnownNext, PTL DEF Spec

(* If the two ends follow the protocol, what TcpConnReorder discards as a  *)
(* retransmission is one: until it skips a gap, it has passed that packet  *)
(* on before.                                                              *)
THEOREM ReorderRetransmitsPassedOn ==
  ASSUME \A conv \in Conversations : Conforms(conv)
  PROVE  Spec => []RetransmitsPassedOn
<1>1. KnownOK => RetransmitsPassedOn
  BY DEF KnownOK, KnownOrSkipped, Known, RetransmitsPassedOn
<1> QED
  BY <1>1, KnownAlways, PTL

(* If the two ends follow the protocol, no packet goes to the analyzer     *)
(* before what it acknowledges, until a gap is skipped.                    *)
THEOREM ReorderAcknowledgedFirst ==
  ASSUME \A conv \in Conversations : Conforms(conv)
  PROVE  Spec => []AcknowledgedFirst
<1>1. KnownOK => AcknowledgedFirst
  <2> SUFFICES ASSUME KnownOK, ~ conn.refactored,
                      NEW i \in DOMAIN conn.log, "ack" \in conn.log[i].flags,
                      NEW q \in Range(packets), q.dir # conn.log[i].dir, Space(q) > 0,
                      q.seq < conn.log[i].ack
               PROVE  \E j \in 1 .. i - 1 : conn.log[j] = q
    BY DEF AcknowledgedFirst
  <2>1. AcksInLog(Pkts, conn.log, i) /\ q \in Pkts /\ Acknowledges(conn.log[i], q)
    BY DEF KnownOK, KnownOrSkipped, Known, Acknowledges, Pkts
  <2> QED
    BY <2>1 DEF AcksInLog, InLogBefore
<1> QED
  BY <1>1, KnownAlways, PTL

-----------------------------------------------------------------------------
(* Nothing is left behind.                                                 *)

(* A list is sorted by sequence numbers and then by acknowledgements. *)
NotAfter(p, q) == p.seq < q.seq \/ (p.seq = q.seq /\ p.ack <= q.ack)

Sorted(list) == \A i, j \in 1 .. Len(list) : i < j => NotAfter(list[i], list[j])

SortedLists(c) == \A d \in Directions : Sorted(c.half[d].cached)

LEMMA NotAfterIs ==
  ASSUME NEW p \in Packet, NEW q \in Packet
  PROVE  /\ Precedes(p, q) => NotAfter(p, q)
         /\ ~ Precedes(p, q) => NotAfter(q, p)
         /\ \A r \in Packet : NotAfter(p, q) /\ NotAfter(q, r) => NotAfter(p, r)
<1>1. \A r \in Packet : r.seq \in Nat /\ r.ack \in Nat
  BY PacketIs
<1>2. Precedes(p, q) => NotAfter(p, q)
  BY <1>1 DEF Precedes, NotAfter
<1>3. ~ Precedes(p, q) => NotAfter(q, p)
  BY <1>1 DEF Precedes, NotAfter
<1>4. ASSUME NEW r \in Packet, NotAfter(p, q), NotAfter(q, r) PROVE NotAfter(p, r)
  BY <1>1, <1>4 DEF NotAfter
<1> QED
  BY <1>2, <1>3, <1>4

LEMMA SortedInsert ==
  ASSUME NEW T \in SUBSET Packet, NEW list \in Seq(T), Sorted(list), NEW p \in T
  PROVE  Sorted(InsertUnordered(list, p))
<1> DEFINE new == InsertUnordered(list, p)
<1>1. new \in Seq(T) /\ (new = list \/ \E pos \in Nat : InsertedAt(list, p, new, pos))
  BY InsertUnorderedIs
<1> HIDE DEF new
<1>2. CASE new = list
  BY <1>2 DEF new
<1>3. ASSUME NEW pos \in Nat, InsertedAt(list, p, new, pos) PROVE Sorted(new)
  <2>1. /\ pos \in 1 .. Len(list) + 1 /\ Len(list) \in Nat /\ Len(new) = Len(list) + 1
        /\ \A k \in 1 .. pos - 1 : ~ Precedes(p, list[k])
        /\ pos <= Len(list) => Precedes(p, list[pos])
    BY <1>3, LenProperties DEF InsertedAt, Behind
  <2>2. \A k \in 1 .. Len(list) + 1 :
          new[k] = IF k < pos THEN list[k] ELSE IF k = pos THEN p ELSE list[k - 1]
    BY <1>3 DEF InsertedAt
  <2>3. \A k \in 1 .. Len(list) : list[k] \in Packet
    BY ElementOfSeq
  <2>4. ASSUME NEW k \in 1 .. Len(list), k < pos PROVE NotAfter(list[k], p)
    <3>1. ~ Precedes(p, list[k])
      BY <2>1, <2>4
    <3> QED
      BY <2>3, <3>1, NotAfterIs
  <2>5. ASSUME NEW k \in 1 .. Len(list), pos <= k PROVE NotAfter(p, list[k])
    <3>1. pos \in 1 .. Len(list) /\ NotAfter(p, list[pos])
      BY <2>1, <2>3, <2>5, NotAfterIs
    <3>2. CASE pos = k
      BY <3>1, <3>2
    <3>3. CASE pos < k
      <4>1. NotAfter(list[pos], list[k])
        BY <3>1, <3>3 DEF Sorted
      <4> QED
        BY <2>3, <3>1, <4>1, NotAfterIs
    <3> QED
      BY <2>1, <2>5, <3>2, <3>3
  <2>6. ASSUME NEW i \in 1 .. Len(list) + 1, NEW j \in 1 .. Len(list) + 1, i < j
        PROVE  NotAfter(new[i], new[j])
    <3>1. CASE j < pos
      <4>1. new[i] = list[i] /\ new[j] = list[j] /\ i \in 1 .. Len(list) /\ j \in 1 .. Len(list)
        BY <2>1, <2>2, <2>6, <3>1
      <4> QED
        BY <2>6, <4>1 DEF Sorted
    <3>2. CASE j = pos
      <4>1. new[i] = list[i] /\ new[j] = p /\ i \in 1 .. Len(list) /\ i < pos
        BY <2>1, <2>2, <2>6, <3>2
      <4> QED
        BY <2>4, <4>1
    <3>3. CASE j > pos /\ i = pos
      <4>1. new[i] = p /\ new[j] = list[j - 1] /\ j - 1 \in 1 .. Len(list) /\ pos <= j - 1
        BY <2>1, <2>2, <2>6, <3>3
      <4> QED
        BY <2>5, <4>1
    <3>4. CASE j > pos /\ i < pos
      <4>1. new[i] = list[i] /\ new[j] = list[j - 1] /\ i \in 1 .. Len(list)
            /\ j - 1 \in 1 .. Len(list) /\ i < j - 1
        BY <2>1, <2>2, <2>6, <3>4
      <4> QED
        BY <4>1 DEF Sorted
    <3>5. CASE i > pos
      <4>1. new[i] = list[i - 1] /\ new[j] = list[j - 1] /\ i - 1 \in 1 .. Len(list)
            /\ j - 1 \in 1 .. Len(list) /\ i - 1 < j - 1
        BY <2>1, <2>2, <2>6, <3>5
      <4> QED
        BY <4>1 DEF Sorted
    <3> QED
      BY <2>1, <2>6, <3>1, <3>2, <3>3, <3>4, <3>5
  <2> QED
    BY <2>1, <2>6 DEF Sorted
<1> QED
  BY <1>1, <1>2, <1>3 DEF new

LEMMA SortedTail ==
  ASSUME NEW T, NEW list \in Seq(T), list # <<>>, Sorted(list)
  PROVE  /\ Sorted(Tail(list))
         /\ \A k \in 1 .. Len(list) : k = 1 \/ NotAfter(Head(list), list[k])
<1>1. Len(list) \in Nat /\ Len(Tail(list)) = Len(list) - 1 /\ Head(list) = list[1]
      /\ \A k \in 1 .. Len(Tail(list)) : Tail(list)[k] = list[k + 1]
  BY HeadTailProperties, LenProperties
<1>2. \A k \in 1 .. Len(list) : k = 1 \/ NotAfter(Head(list), list[k])
  BY <1>1 DEF Sorted
<1> DEFINE t == Tail(list)
<1>3. Len(t) = Len(list) - 1 /\ \A k \in 1 .. Len(t) : t[k] = list[k + 1]
  BY <1>1
<1> HIDE DEF t
<1>4. ASSUME NEW i \in 1 .. Len(t), NEW j \in 1 .. Len(t), i < j PROVE NotAfter(t[i], t[j])
  <2>1. i + 1 \in 1 .. Len(list) /\ j + 1 \in 1 .. Len(list) /\ i + 1 < j + 1
    BY <1>1, <1>3, <1>4
  <2> QED
    BY <1>3, <2>1 DEF Sorted
<1> QED
  BY <1>2, <1>4 DEF Sorted, t

LEMMA SortedRelisted ==
  ASSUME NEW c, SortedLists(c), NEW n, NEW d \in Directions, NEW list, Sorted(list),
         Relisted(c, n, d, list)
  PROVE  SortedLists(n)
<1>1. ASSUME NEW e \in Directions PROVE Sorted(n.half[e].cached)
  <2>1. CASE e = d
    BY <2>1 DEF Relisted
  <2>2. CASE e = Other(d)
    BY <2>2 DEF Relisted, SortedLists
  <2> QED
    BY <2>1, <2>2, DirectionsAre
<1> QED
  BY <1>1 DEF SortedLists

LEMMA SortedClosed ==
  ASSUME NEW Q \in SUBSET Packet
  PROVE  Keeps(Q, {c \in Conns(Q) : SortedLists(c)})
<1> DEFINE S == {c \in Conns(Q) : SortedLists(c)}
<1>1. ASSUME NEW c \in S, NEW d \in Directions, c.half[d].cached # <<>>
      PROVE  Drop(c, d) \in S
  <2>1. c.half[d].cached \in Seq(Q)
    BY ConnIs
  <2>2. Sorted(Tail(c.half[d].cached))
    BY <1>1, <2>1, SortedTail DEF SortedLists
  <2> QED
    BY <1>1, <2>2, DropIs, SortedRelisted
<1>2. ASSUME NEW c \in S, NEW p \in Q PROVE Insert(c, p) \in S
  <2>1. p.dir \in Directions /\ p \in Of(Q, p.dir)
    BY PacketIs DEF Of
  <2>2. c.half[p.dir].cached \in Seq(Q) /\ Sorted(c.half[p.dir].cached)
    BY <2>1, ConnIs DEF SortedLists
  <2>3. Sorted(InsertUnordered(c.half[p.dir].cached, p))
    BY <2>2, SortedInsert
  <2> QED
    BY <2>1, <2>3, InsertIs, SortedRelisted
<1>3. ASSUME NEW c \in S, NEW p \in Q PROVE ProcessOrdered(c, p) \in S
  <2>1. ProcessOrdered(c, p) \in Conns(Q) /\ Passed(c, ProcessOrdered(c, p), p, p.dir, Other(p.dir))
    BY ProcessOrderedIs
  <2> DEFINE n == ProcessOrdered(c, p)
  <2> HIDE DEF n
  <2>2. p.dir \in Directions /\ \A e \in Directions : e = p.dir \/ e = Other(p.dir)
    BY PacketIs, DirectionsAre
  <2>3. \A e \in Directions : n.half[e].cached = c.half[e].cached
    BY <2>1, <2>2 DEF Passed, n
  <2> QED
    BY <2>1, <2>3 DEF SortedLists, n
<1>4. ASSUME NEW c \in S, NEW p \in Q PROVE Retransmit(c, p) \in S
  <2>1. Retransmit(c, p) \in Conns(Q) /\ Retransmit(c, p).half = c.half
    BY RetransmitIs DEF Retransmitted
  <2> QED
    BY <2>1 DEF SortedLists
<1>5. ASSUME NEW c \in S PROVE HandshakeFailed(c) \in S
  <2>1. HandshakeFailed(c) \in Conns(Q)
        /\ \A d \in Directions : HandshakeFailed(c).half[d].cached = <<>>
    BY HandshakeFailedIs DEF Emptied
  <2>2. Sorted(<<>>)
    BY DEF Sorted
  <2> QED
    BY <2>1, <2>2 DEF SortedLists
<1>6. ASSUME NEW c \in S PROVE MakeCachedOrdered(c) \in S
  <2>1. MakeCachedOrdered(c) \in Conns(Q) /\ FrontOrdered(c, MakeCachedOrdered(c))
    BY MakeCachedOrderedIs
  <2>2. \A d \in Directions : MakeCachedOrdered(c).half[d].cached = c.half[d].cached
    BY <2>1 DEF FrontOrdered, Raised, Directions
  <2> QED
    BY <2>1, <2>2 DEF SortedLists
<1> HIDE DEF S
<1>7. S \subseteq Conns(Q)
  BY DEF S
<1>8. Keeps(Q, S)
  BY <1>1, <1>2, <1>3, <1>4, <1>5, <1>6, <1>7 DEF Keeps
<1> QED
  BY <1>8 DEF S

(* When the lists have been drained, both are stuck. *)
Settled(c) == \A d \in Directions : StuckAt(c, d)

LEMMA TurnSettles ==
  ASSUME NEW Q \in SUBSET Packet, NEW c \in Conns(Q)
  PROVE  /\ Turn(c) \in Conns(Q)
         /\ \/ Turn(c) = c /\ Settled(c)
            \/ TotalCached(Turn(c)) + 1 <= TotalCached(c)
<1>0. "S2B" \in Directions /\ "B2S" \in Directions /\ Other("S2B") = "B2S" /\ Other("B2S") = "S2B"
  BY DEF Directions, Other
<1> DEFINE x == ProcOneCached(c, "S2B")
<1>1. x \in Conns(Q) /\ Shrinks(c, x, "S2B")
  BY <1>0, ProcOneCachedShrinks
<1> HIDE DEF x
<1> DEFINE n == ProcOneCached(x, "B2S")
<1>2. n \in Conns(Q) /\ Shrinks(x, n, "B2S")
  BY <1>0, <1>1, ProcOneCachedShrinks
<1> HIDE DEF n
<1>3. Turn(c) = n
  BY DEF Turn, x, n
<1>4. \A y \in {c, x, n} : ListLen(y, "S2B") \in Nat /\ ListLen(y, "B2S") \in Nat
                          /\ TotalCached(y) = ListLen(y, "S2B") + ListLen(y, "B2S")
  BY <1>0, <1>1, <1>2, ListLenIs
<1>5. CASE x = c /\ StuckAt(c, "S2B") /\ n = x /\ StuckAt(x, "B2S")
  <2>1. Settled(c)
    BY <1>5 DEF Settled, Directions
  <2> QED
    BY <1>1, <1>3, <1>5, <2>1
<1>6. CASE x = c /\ ListLen(n, "B2S") + 1 = ListLen(x, "B2S")
  <2>1. ListLen(n, "S2B") = ListLen(c, "S2B")
    BY <1>0, <1>2, <1>6 DEF Shrinks
  <2> QED
    BY <1>2, <1>3, <1>4, <1>6, <2>1
<1>7. CASE ListLen(x, "S2B") + 1 = ListLen(c, "S2B")
  <2>1. ListLen(n, "S2B") = ListLen(x, "S2B") /\ ListLen(x, "B2S") = ListLen(c, "B2S")
    BY <1>0, <1>1, <1>2 DEF Shrinks
  <2>2. n = x \/ ListLen(n, "B2S") + 1 = ListLen(x, "B2S")
    BY <1>2 DEF Shrinks
  <2>3. ListLen(n, "B2S") <= ListLen(x, "B2S")
    BY <1>4, <2>2
  <2> QED
    BY <1>2, <1>3, <1>4, <1>7, <2>1, <2>3
<1>8. \/ x = c /\ StuckAt(c, "S2B") /\ n = x /\ StuckAt(x, "B2S")
      \/ x = c /\ ListLen(n, "B2S") + 1 = ListLen(x, "B2S")
      \/ ListLen(x, "S2B") + 1 = ListLen(c, "S2B")
  BY <1>1, <1>2 DEF Shrinks
<1> QED
  BY <1>5, <1>6, <1>7, <1>8

LEMMA SettledTurn ==
  ASSUME NEW Q \in SUBSET Packet, NEW c \in Conns(Q), Settled(c)
  PROVE  Turn(c) = c
<1>1. ASSUME NEW d \in Directions PROVE ProcOneCached(c, d) = c
  <2> DEFINE p == Head(c.half[d].cached)
  <2>1. c.half[d].cached = <<>> \/ PktOrderType(c, p) = "out_of_order"
    BY DEF Settled, StuckAt
  <2> QED
    BY <2>1, ProcOneCachedIs
<1> QED
  BY <1>1 DEF Turn, Directions

LEMMA TryProcCachedSettles ==
  ASSUME NEW Q \in SUBSET Packet, NEW c \in Conns(Q)
  PROVE  Settled(TryProcCached(c))
<1> DEFINE S == Conns(Q)
           N == TotalCached(c)
<1>1. \A x \in S : Turn(x) \in S
  BY TurnSettles
<1>2. N \in Nat /\ \E g \in [0 .. N -> S] :
                     /\ g[0] = c /\ \A n \in 1 .. N : g[n] = Turn(g[n - 1])
                     /\ TryProcCached(c) = g[N]
  BY <1>1, TryProcCachedIs
<1> HIDE DEF N
<1>3. PICK g \in [0 .. N -> S] :
             /\ g[0] = c /\ \A n \in 1 .. N : g[n] = Turn(g[n - 1])
             /\ TryProcCached(c) = g[N]
  BY <1>2
<1>4. \A x \in S : TotalCached(x) \in Nat
  <2>1. "S2B" \in Directions /\ "B2S" \in Directions
    BY DEF Directions
  <2>2. \A x \in S : ListLen(x, "S2B") \in Nat /\ ListLen(x, "B2S") \in Nat
                     /\ TotalCached(x) = ListLen(x, "S2B") + ListLen(x, "B2S")
    BY <2>1, ListLenIs
  <2> QED
    BY <2>2
<1> DEFINE Good == {n \in Nat : n <= N => Settled(g[n]) \/ TotalCached(g[n]) + n <= N}
<1>5. 0 \in Good
  <2>1. TotalCached(g[0]) = N
    BY <1>3 DEF N
  <2> QED
    BY <1>2, <2>1
<1>6. ASSUME NEW n \in Good PROVE n + 1 \in Good
  <2>1. CASE n + 1 <= N
    <3>1. n \in 0 .. N /\ n + 1 \in 1 .. N /\ (n + 1) - 1 = n
      BY <1>2, <2>1
    <3>2. g[n + 1] = Turn(g[n]) /\ g[n] \in S
      BY <1>3, <3>1
    <3>3. Settled(g[n]) \/ TotalCached(g[n]) + n <= N
      BY <3>1
    <3>4. \/ g[n + 1] = g[n] /\ Settled(g[n])
          \/ TotalCached(g[n + 1]) + 1 <= TotalCached(g[n])
      BY <3>2, TurnSettles
    <3>5. CASE g[n + 1] = g[n] /\ Settled(g[n])
      BY <3>5
    <3>6. CASE TotalCached(g[n + 1]) + 1 <= TotalCached(g[n]) /\ Settled(g[n])
      <4>1. Turn(g[n]) = g[n]
        BY <3>2, <3>6, SettledTurn
      <4> QED
        BY <3>2, <3>6, <4>1
    <3>7. CASE TotalCached(g[n + 1]) + 1 <= TotalCached(g[n]) /\ TotalCached(g[n]) + n <= N
      <4>1. g[n + 1] \in S
        BY <1>3, <3>1
      <4>2. TotalCached(g[n + 1]) \in Nat /\ TotalCached(g[n]) \in Nat
        BY <1>4, <3>2, <4>1
      <4>3. TotalCached(g[n + 1]) + (n + 1) <= N
        BY <1>2, <3>1, <3>7, <4>2
      <4> QED
        BY <4>3
    <3> QED
      BY <3>3, <3>4, <3>5, <3>6, <3>7
  <2>2. CASE ~ (n + 1 <= N)
    BY <2>2
  <2> QED
    BY <2>1, <2>2
<1>7. N \in Good
  <2>1. Good \in SUBSET Nat
    OBVIOUS
  <2> HIDE DEF Good
  <2>2. Good = Nat
    BY <1>5, <1>6, <2>1, NatInd
  <2> QED
    BY <1>2, <2>2
<1>8. N \in 0 .. N /\ g[N] \in S
  BY <1>2, <1>3
<1>9. CASE TotalCached(g[N]) + N <= N
  <2> DEFINE x == g[N]
  <2>1. x \in S
    BY <1>8
  <2>2. TotalCached(x) + N <= N
    BY <1>9
  <2> HIDE DEF x
  <2>3. TotalCached(x) = 0
    BY <1>2, <1>4, <2>1, <2>2
  <2>4. ASSUME NEW d \in Directions PROVE StuckAt(x, d)
    <3>1. ListLen(x, "S2B") \in Nat /\ ListLen(x, "B2S") \in Nat /\ d \in {"S2B", "B2S"}
          /\ ListLen(x, "S2B") + ListLen(x, "B2S") = 0
      BY <2>1, <2>3, ListLenIs DEF Directions
    <3>2. ListLen(x, d) = 0
      BY <3>1
    <3>3. x.half[d].cached \in Seq(Q)
      BY <2>1, ConnIs
    <3>4. x.half[d].cached = <<>>
      BY <3>2, <3>3, EmptySeq DEF ListLen
    <3> QED
      BY <3>4 DEF StuckAt
  <2> QED
    BY <1>3, <2>4 DEF Settled, x
<1> QED
  BY <1>2, <1>3, <1>7, <1>9

LEMMA StuckSame ==
  ASSUME NEW Q \in SUBSET Packet, NEW c \in Conns(Q), NEW d \in Directions, StuckAt(c, d), NEW n,
         n.started = c.started, SameNumbers(n.half[d], c.half[d]),
         n.half[d].cached = c.half[d].cached
  PROVE  StuckAt(n, d)
<1>1. CASE c.half[d].cached = <<>>
  BY <1>1 DEF StuckAt
<1>2. CASE c.half[d].cached # <<>>
  <2> DEFINE p == Head(c.half[d].cached)
  <2>1. c.half[d].cached \in Seq(Of(Q, d))
    BY ConnIs
  <2>2. p \in Of(Q, d)
    BY <1>2, <2>1, HeadTailProperties
  <2>3. p.dir = d
    BY <2>2 DEF Of
  <2> HIDE DEF p
  <2>4. PktOrderType(n, p) = PktOrderType(c, p)
    BY <2>3, OrderTypeSame
  <2> QED
    BY <1>2, <2>4 DEF StuckAt, p
<1> QED
  BY <1>1, <1>2

LEMMA SettledInsert ==
  ASSUME NEW Q \in SUBSET Packet, NEW c \in Conns(Q), Settled(c), NEW p \in Q,
         PktOrderType(c, p) = "out_of_order"
  PROVE  Settled(Insert(c, p))
<1> DEFINE d    == p.dir
           list == c.half[d].cached
           new  == InsertUnordered(list, p)
           n    == Insert(c, p)
<1>1. d \in Directions /\ p \in Of(Q, d)
  BY PacketIs DEF Of
<1>2. n \in Conns(Q) /\ Relisted(c, n, d, new) /\ list \in Seq(Of(Q, d))
  BY <1>1, InsertIs, ConnIs
<1>3. new \in Seq(Of(Q, d)) /\ (new = list \/ \E pos \in Nat : InsertedAt(list, p, new, pos))
  BY <1>1, <1>2, InsertUnorderedIs
<1> HIDE DEF n, new
<1>4. n.started = c.started /\ n.half[d].cached = new /\ SameNumbers(n.half[d], c.half[d])
      /\ n.half[Other(d)] = c.half[Other(d)]
  BY <1>2 DEF Relisted, Like
<1>5. StuckAt(n, Other(d))
  <2>1. Other(d) \in Directions /\ StuckAt(c, Other(d))
    BY <1>1, DirectionsAre DEF Settled
  <2> QED
    BY <1>4, <2>1, StuckSame DEF SameNumbers
<1>6. StuckAt(n, d)
  <2>1. CASE new = list
    <3>1. StuckAt(c, d)
      BY <1>1 DEF Settled
    <3> QED
      BY <1>1, <1>4, <2>1, <3>1, StuckSame
  <2>2. ASSUME NEW pos \in Nat, InsertedAt(list, p, new, pos) PROVE StuckAt(n, d)
    <3>1. /\ pos \in 1 .. Len(list) + 1 /\ Len(new) = Len(list) + 1 /\ Len(list) \in Nat
          /\ \A k \in 1 .. Len(list) + 1 :
               new[k] = IF k < pos THEN list[k] ELSE IF k = pos THEN p ELSE list[k - 1]
      BY <1>2, <2>2, LenProperties DEF InsertedAt
    <3>2. new # <<>> /\ Head(new) = new[1]
      BY <1>3, <3>1, HeadTailProperties, EmptySeq
    <3>3. PktOrderType(n, p) = "out_of_order"
      BY <1>4, OrderTypeSame
    <3>4. CASE pos = 1
      BY <1>4, <3>1, <3>2, <3>3, <3>4 DEF StuckAt
    <3>5. CASE pos # 1
      <4>1. Head(new) = list[1] /\ Len(list) > 0
        <5>1. 1 \in 1 .. Len(list) + 1 /\ 1 < pos /\ Len(list) > 0
          BY <3>1, <3>5
        <5>2. new[1] = list[1]
          BY <3>1, <5>1
        <5> QED
          BY <3>2, <5>1, <5>2
      <4>2. list # <<>> /\ Head(list) = list[1]
        BY <1>2, <4>1, EmptySeq
      <4>3. PktOrderType(c, list[1]) = "out_of_order"
        BY <1>1, <4>2 DEF Settled, StuckAt
      <4>4. list[1].dir = d
        <5>1. list[1] \in Of(Q, d)
          BY <1>2, <4>1, ElementOfSeq
        <5> QED
          BY <5>1 DEF Of
      <4>5. PktOrderType(n, list[1]) = "out_of_order"
        BY <1>4, <4>3, <4>4, OrderTypeSame
      <4> QED
        BY <1>4, <4>1, <4>5 DEF StuckAt
    <3> QED
      BY <3>4, <3>5
  <2> QED
    BY <1>3, <2>1, <2>2
<1>7. Settled(n)
  BY <1>1, <1>5, <1>6, DirectionsAre DEF Settled
<1> QED
  BY <1>7 DEF n

LEMMA SettledHandled ==
  ASSUME NEW Q \in SUBSET Packet, NEW c \in Conns(Q), Settled(c), NEW p \in Q
  PROVE  Settled(Handled(c, p))
<1>1. CASE Handled(c, p) = TryProcCached(ProcessOrdered(c, p))
  BY <1>1, ProcessOrderedIs, TryProcCachedSettles
<1>2. CASE Handled(c, p) = Retransmit(c, p)
  <2> DEFINE n == Retransmit(c, p)
  <2>1. n.started = c.started /\ n.half = c.half
    BY RetransmitIs DEF Retransmitted
  <2> HIDE DEF n
  <2>2. ASSUME NEW d \in Directions PROVE StuckAt(n, d)
    <3>1. StuckAt(c, d) /\ SameNumbers(n.half[d], c.half[d])
      BY <2>1 DEF Settled, SameNumbers
    <3> QED
      BY <2>1, <3>1, StuckSame
  <2> QED
    BY <1>2, <2>2 DEF Settled, n
<1>3. CASE Handled(c, p) = c
  BY <1>3
<1>4. CASE Handled(c, p) = HandshakeFailed(c)
  <2>1. \A d \in Directions : HandshakeFailed(c).half[d].cached = <<>>
    BY HandshakeFailedIs DEF Emptied
  <2> QED
    BY <1>4, <2>1 DEF Settled, StuckAt
<1>5. CASE Handled(c, p) = TryProcCached(MakeCachedOrdered(Insert(c, p)))
  <2>1. MakeCachedOrdered(Insert(c, p)) \in Conns(Q)
    BY InsertIs, MakeCachedOrderedIs
  <2> QED
    BY <1>5, <2>1, TryProcCachedSettles
<1>6. CASE PktOrderType(c, p) = "out_of_order" /\ Handled(c, p) = Insert(c, p)
  BY <1>6, SettledInsert
<1> QED
  BY <1>1, <1>2, <1>3, <1>4, <1>5, <1>6, HandledIs

(* A packet was passed on or is cached.  A set of packets that stand for   *)
(* one another is accounted for if one of them is.                         *)
Carries(c, q) == q \in Range(c.log) \/ q \in Range(c.half[q.dir].cached)

AccountedOrSkipped(c, E) == c.refactored \/ \E q \in E : Carries(c, q)

(* None of the packets E gets lost, but for another of them: what one of   *)
(* them repeats is one of them, and none comes too late unless one of them *)
(* was passed on.                                                          *)
NeverLost(Q, E) ==
  /\ E \in SUBSET Q
  /\ \A p \in E : \A q \in Q : p.dir = q.dir /\ Repeats(p, q) => q \in E
  /\ \A c \in Conns(Q) : Known(Q, c) => \A p \in E :
       /\ PktOrderType(c, p) # "ignore"
       /\ PktOrderType(c, p) = "retransmit" => \E q \in E : q \in Range(c.log)

LEMMA PureAckTakesNone ==
  ASSUME NEW p \in Packet, PureAck(p)
  PROVE  Space(p) = 0
<1>1. p.len = 0 /\ p.flags \cap {"syn", "fin"} = {}
  BY DEF PureAck
<1> QED
  BY <1>1 DEF Space

LEMMA RepeatsSame ==
  ASSUME NEW Q \in SUBSET Packet, InTurn(Q), NEW p \in Q, NEW q \in Q, p.dir = q.dir,
         Repeats(p, q), Space(p) > 0
  PROVE  p = q
<1>1. p.seq \in Nat /\ p.seq < End(p) /\ End(p) \in Nat /\ q.len \in Nat /\ p.len \in Nat
  BY PacketIs
<1>2. p.seq = q.seq
  BY DEF Repeats
<1>3. Space(q) > 0
  <2>1. CASE p.len > 0 /\ q.len > 0
    <3>1. \A x \in {0, 1} : q.len + x > 0
      BY <1>1, <2>1
    <3> QED
      BY <3>1 DEF Space
  <2>2. CASE p.len = 0 /\ q.len = 0 /\ Same(p, q, {"syn", "fin"})
    <3>1. p.flags \cap {"syn", "fin"} # {}
      BY <2>2 DEF Space
    <3>2. q.flags \cap {"syn", "fin"} # {}
      BY <2>2, <3>1 DEF Same
    <3> QED
      BY <2>2, <3>2 DEF Space
  <2> QED
    BY <2>1, <2>2 DEF Repeats
<1>4. p = q \/ End(p) <= q.seq
  BY <1>2, <1>1, <1>3 DEF InTurn
<1> QED
  BY <1>1, <1>2, <1>4

(* A packet that takes a number does not get lost. *)
LEMMA NumberNeverLost ==
  ASSUME NEW Q \in SUBSET Packet, InTurn(Q), NEW p \in Q, Space(p) > 0
  PROVE  NeverLost(Q, {p})
<1>1. \A q \in Q : p.dir = q.dir /\ Repeats(p, q) => q \in {p}
  BY RepeatsSame
<1>2. ASSUME NEW c \in Conns(Q), Known(Q, c)
      PROVE  /\ PktOrderType(c, p) # "ignore"
             /\ PktOrderType(c, p) = "retransmit" => p \in Range(c.log)
  <2>1. PktOrderType(c, p) # "ignore"
    <3>1. ~ PureAck(p)
      BY PureAckTakesNone
    <3> QED
      BY <3>1, OrderTypeIs
  <2> QED
    BY <1>2, <2>1, RetransmitPassedOn
<1> QED
  BY <1>1, <1>2 DEF NeverLost

LEMMA InsertKeeps ==
  ASSUME NEW T, NEW list \in Seq(T), NEW p \in T
  PROVE  /\ Range(list) \subseteq Range(InsertUnordered(list, p))
         /\ \/ p \in Range(InsertUnordered(list, p))
            \/ \E q \in Range(list) : Repeats(p, q) /\ q \in Range(InsertUnordered(list, p))
<1> DEFINE new == InsertUnordered(list, p)
<1>1. /\ new \in Seq(T)
      /\ \/ new = list /\ \E pos \in Nat : RepeatedAt(list, p, pos)
         \/ \E pos \in Nat : InsertedAt(list, p, new, pos)
  BY InsertUnorderedIs
<1> HIDE DEF new
<1>2. DOMAIN list = 1 .. Len(list) /\ DOMAIN new = 1 .. Len(new) /\ Len(list) \in Nat
  BY <1>1, LenProperties
<1>3. ASSUME new = list, NEW pos \in Nat, RepeatedAt(list, p, pos)
      PROVE  /\ Range(list) \subseteq Range(new)
             /\ \E q \in Range(list) : Repeats(p, q) /\ q \in Range(new)
  <2>1. list[pos] \in Range(list) /\ Repeats(p, list[pos])
    BY <1>2, <1>3 DEF RepeatedAt, Range
  <2> QED
    BY <1>3, <2>1
<1>4. ASSUME NEW pos \in Nat, InsertedAt(list, p, new, pos)
      PROVE  Range(list) \subseteq Range(new) /\ p \in Range(new)
  <2>1. /\ pos \in 1 .. Len(list) + 1 /\ DOMAIN new = 1 .. Len(list) + 1
        /\ \A k \in 1 .. Len(list) + 1 :
             new[k] = IF k < pos THEN list[k] ELSE IF k = pos THEN p ELSE list[k - 1]
    BY <1>2, <1>4 DEF InsertedAt
  <2>2. p \in Range(new)
    <3>1. new[pos] = p /\ pos \in DOMAIN new
      BY <2>1
    <3> QED
      BY <3>1 DEF Range
  <2>3. ASSUME NEW k \in 1 .. Len(list) PROVE list[k] \in Range(new)
    <3>1. CASE k < pos
      <4>1. new[k] = list[k] /\ k \in DOMAIN new
        BY <1>2, <2>1, <3>1
      <4> QED
        BY <4>1 DEF Range
    <3>2. CASE ~ (k < pos)
      <4>1. new[k + 1] = list[k] /\ k + 1 \in DOMAIN new
        BY <1>2, <2>1, <3>2
      <4> QED
        BY <4>1 DEF Range
    <3> QED
      BY <3>1, <3>2
  <2>4. Range(list) \subseteq Range(new)
    BY <1>2, <2>3 DEF Range
  <2> QED
    BY <2>2, <2>4
<1> QED
  BY <1>1, <1>3, <1>4 DEF new

LEMMA AccountedOne ==
  ASSUME NEW Q \in SUBSET Packet, NEW E, NeverLost(Q, E),
         NEW x \in Conns(Q), KnownOrSkipped(Q, x), AccountedOrSkipped(x, E), NEW d \in Directions
  PROVE  AccountedOrSkipped(ProcOneCached(x, d), E)
<1> DEFINE list == x.half[d].cached
           p    == Head(list)
           rest == Drop(x, d)
           n    == ProcOneCached(x, d)
<1>1. CASE n = x
  BY <1>1
<1>2. CASE /\ list # <<>> /\ p \in Of(Q, d) /\ rest \in Conns(Q)
           /\ PktOrderType(x, p) = PktOrderType(rest, p)
           /\ \/ PktOrderType(x, p) = "in_order" /\ n = ProcessOrdered(rest, p)
              \/ PktOrderType(x, p) = "retransmit" /\ n = Retransmit(rest, p)
              \/ PktOrderType(x, p) = "ignore" /\ n = rest
  <2>1. Relisted(x, rest, d, Tail(list)) /\ p \in Q /\ p.dir = d
    BY <1>2, DropIs DEF Of
  <2>2. list \in Seq(Q)
    BY ConnIs
  <2>3. Range(list) \subseteq Range(Tail(list)) \cup {p}
    BY <1>2, <2>2, HeadTailRange
  <2>4. \A q \in Q : q.dir = d \/ q.dir = Other(d)
    BY PacketIs, DirectionsAre
  <2>5. ASSUME NEW q \in Q, Carries(x, q) PROVE Carries(rest, q) \/ q = p
    <3>1. CASE q.dir = d
      BY <2>1, <2>3, <2>5, <3>1 DEF Carries, Relisted, Like
    <3>2. CASE q.dir = Other(d)
      BY <2>1, <2>5, <3>2 DEF Carries, Relisted, Like
    <3> QED
      BY <2>4, <3>1, <3>2
  <2> HIDE DEF list, p, rest, n
  <2>51. x.refactored \/ \E q \in E : Carries(rest, q) \/ q = p
    BY <2>5 DEF AccountedOrSkipped, NeverLost
  <2>6. CASE PktOrderType(x, p) = "in_order" /\ n = ProcessOrdered(rest, p)
    <3>1. Passed(rest, n, p, d, Other(d))
      BY <1>2, <2>1, <2>6, ProcessOrderedIs
    <3>2. rest.log \in Seq(Q)
      BY <1>2, ConnIs
    <3>3. Range(n.log) = Range(rest.log) \cup {p}
      BY <2>1, <3>1, <3>2, AppendRange DEF Passed
    <3>4. n.refactored = x.refactored
          /\ \A q \in Q : n.half[q.dir].cached = rest.half[q.dir].cached
      BY <2>1, <2>4, <3>1 DEF Passed, Relisted, Like
    <3>5. \A q \in Q : Carries(rest, q) \/ q = p => Carries(n, q)
      BY <3>3, <3>4 DEF Carries
    <3> QED
      BY <2>51, <3>4, <3>5 DEF AccountedOrSkipped, NeverLost, n
  <2>7. CASE PktOrderType(x, p) = "retransmit" /\ n = Retransmit(rest, p)
    <3>1. Retransmitted(rest, n, p)
      BY <1>2, <2>1, <2>7, RetransmitIs
    <3>2. n.log = x.log /\ n.half = rest.half /\ n.refactored = x.refactored
          /\ rest.log = x.log
      BY <2>1, <3>1 DEF Retransmitted, Relisted, Like
    <3>3. \A q : Carries(rest, q) => Carries(n, q)
      BY <3>2 DEF Carries
    <3>4. Known(Q, x) /\ p \in E => \E q \in E : Carries(n, q)
      BY <2>7, <3>2 DEF NeverLost, Carries
    <3> QED
      BY <2>51, <3>2, <3>3, <3>4 DEF AccountedOrSkipped, KnownOrSkipped, n
  <2>8. CASE PktOrderType(x, p) = "ignore" /\ n = rest
    <3>1. Known(Q, x) => p \notin E
      BY <2>8 DEF NeverLost
    <3>2. rest.refactored = x.refactored
      BY <2>1 DEF Relisted, Like
    <3> QED
      BY <2>51, <2>8, <3>1, <3>2 DEF AccountedOrSkipped, KnownOrSkipped, n
  <2> QED
    BY <1>2, <2>6, <2>7, <2>8 DEF n, p, rest
<1> QED
  BY <1>1, <1>2, ProcOneCachedIs

LEMMA AccountedDrained ==
  ASSUME NEW Q \in SUBSET Packet, InTurn(Q), NEW E, NeverLost(Q, E),
         NEW c \in Conns(Q), KnownOrSkipped(Q, c), AccountedOrSkipped(c, E)
  PROVE  AccountedOrSkipped(TryProcCached(c), E)
<1> DEFINE K == {x \in Conns(Q) : KnownOrSkipped(Q, x)}
           S == {x \in K : AccountedOrSkipped(x, E)}
<1>1. Keeps(Q, K)
  BY KnownClosed
<1>2. ASSUME NEW x \in S, NEW d \in Directions PROVE ProcOneCached(x, d) \in S
  <2>1. ProcOneCached(x, d) \in K
    <3>1. x \in K
      OBVIOUS
    <3> HIDE DEF K
    <3> QED
      BY <1>1, <3>1, ProcOneCachedStays
  <2>2. AccountedOrSkipped(ProcOneCached(x, d), E)
    BY AccountedOne
  <2> QED
    BY <2>1, <2>2
<1>3. c \in S /\ S \in SUBSET Conns(Q)
  OBVIOUS
<1> HIDE DEF S
<1>4. TryProcCached(c) \in S
  BY <1>2, <1>3, TryProcCachedWithin
<1> QED
  BY <1>4 DEF S

LEMMA AccountedInsert ==
  ASSUME NEW Q \in SUBSET Packet, NEW E, NeverLost(Q, E), NEW p \in Q,
         NEW c \in Conns(Q), AccountedOrSkipped(c, E) \/ p \in E
  PROVE  AccountedOrSkipped(Insert(c, p), E)
<1> DEFINE d    == p.dir
           list == c.half[d].cached
           new  == InsertUnordered(list, p)
           n    == Insert(c, p)
<1>1. d \in Directions /\ p \in Of(Q, d) /\ \A q \in Q : q.dir = d \/ q.dir = Other(d)
  BY PacketIs, DirectionsAre DEF Of
<1>2. n \in Conns(Q) /\ Relisted(c, n, d, new) /\ list \in Seq(Of(Q, d))
  BY <1>1, InsertIs, ConnIs
<1>3. /\ Range(list) \subseteq Range(new)
      /\ p \in Range(new) \/ \E r \in Range(list) : Repeats(p, r) /\ r \in Range(new)
  BY <1>1, <1>2, InsertKeeps
<1>4. Range(list) \subseteq Of(Q, d)
  BY <1>2, RangeOfSeq
<1> HIDE DEF n, new
<1>5. n.log = c.log /\ n.half[d].cached = new /\ n.half[Other(d)] = c.half[Other(d)]
      /\ n.refactored = c.refactored
  BY <1>2 DEF Relisted, Like
<1>6. \A q \in Q : Carries(c, q) => Carries(n, q)
  BY <1>1, <1>3, <1>5 DEF Carries
<1>7. CASE p \in E
  <2>1. ASSUME NEW r \in Range(list), Repeats(p, r), r \in Range(new) PROVE r \in E /\ r.dir = d
    <3>1. r \in Q /\ r.dir = p.dir
      BY <1>4 DEF Of
    <3> QED
      BY <1>7, <2>1, <3>1 DEF NeverLost
  <2>2. \E r \in E : r \in Range(new) /\ r.dir = d
    BY <1>3, <1>7, <2>1
  <2> QED
    BY <1>5, <2>2 DEF Carries, AccountedOrSkipped, n
<1>8. CASE AccountedOrSkipped(c, E)
  BY <1>5, <1>6, <1>8 DEF AccountedOrSkipped, NeverLost, n
<1> QED
  BY <1>7, <1>8

LEMMA AccountedHandled ==
  ASSUME NEW Q \in SUBSET Packet, InTurn(Q), NEW E, NeverLost(Q, E), NEW p \in Q,
         NEW c \in Conns(Q), KnownOrSkipped(Q, c), AccountedOrSkipped(c, E) \/ p \in E
  PROVE  AccountedOrSkipped(Handled(c, p), E) \/ Handled(c, p).abandoned
<1> DEFINE K == {x \in Conns(Q) : KnownOrSkipped(Q, x)}
<1>0. Keeps(Q, K) /\ c \in K
  BY KnownClosed
<1> HIDE DEF K
<1>1. CASE PktOrderType(c, p) = "in_order" /\ Handled(c, p) = TryProcCached(ProcessOrdered(c, p))
  <2> DEFINE n == ProcessOrdered(c, p)
  <2>1. n \in Conns(Q) /\ KnownOrSkipped(Q, n)
    <3>1. n \in K
      BY <1>0, <1>1 DEF Keeps
    <3> QED
      BY <3>1 DEF K
  <2>2. Passed(c, n, p, p.dir, Other(p.dir))
    BY ProcessOrderedIs
  <2> HIDE DEF n
  <2>3. Range(n.log) = Range(c.log) \cup {p}
    BY <2>2, ConnIs, AppendRange DEF Passed
  <2>4. \A q \in Q : q.dir = p.dir \/ q.dir = Other(p.dir)
    BY PacketIs, DirectionsAre
  <2>5. n.refactored = c.refactored
        /\ \A q \in Q : n.half[q.dir].cached = c.half[q.dir].cached
    BY <2>2, <2>4 DEF Passed
  <2>51. Carries(n, p) /\ \A q \in Q : Carries(c, q) => Carries(n, q)
    BY <2>3, <2>5 DEF Carries
  <2>6. AccountedOrSkipped(n, E)
    BY <2>5, <2>51 DEF AccountedOrSkipped, NeverLost
  <2> QED
    BY <1>1, <2>1, <2>6, AccountedDrained DEF n
<1>2. CASE PktOrderType(c, p) = "retransmit" /\ Handled(c, p) = Retransmit(c, p)
  <2> DEFINE n == Retransmit(c, p)
  <2>1. Retransmitted(c, n, p)
    BY RetransmitIs
  <2> HIDE DEF n
  <2>2. Known(Q, c) /\ p \in E => \E q \in E : q \in Range(c.log)
    BY <1>2 DEF NeverLost
  <2>3. n.log = c.log /\ n.half = c.half /\ n.refactored = c.refactored
    BY <2>1 DEF Retransmitted
  <2>4. AccountedOrSkipped(n, E)
    BY <2>2, <2>3 DEF AccountedOrSkipped, Carries, KnownOrSkipped
  <2> QED
    BY <1>2, <2>4 DEF n
<1>3. CASE PktOrderType(c, p) = "ignore" /\ Handled(c, p) = c
  <2>1. Known(Q, c) => p \notin E
    BY <1>3 DEF NeverLost
  <2> QED
    BY <1>3, <2>1 DEF AccountedOrSkipped, KnownOrSkipped
<1>4. CASE Handled(c, p) = HandshakeFailed(c)
  BY <1>4, HandshakeFailedIs DEF Emptied
<1>5. CASE Handled(c, p) = TryProcCached(MakeCachedOrdered(Insert(c, p)))
  <2> DEFINE x == Insert(c, p)
             n == MakeCachedOrdered(x)
  <2>1. x \in Conns(Q)
    BY InsertIs
  <2> HIDE DEF x
  <2>2. n \in Conns(Q) /\ n.refactored
    BY <2>1, MakeCachedOrderedIs DEF FrontOrdered
  <2> HIDE DEF n
  <2>3. KnownOrSkipped(Q, n) /\ AccountedOrSkipped(n, E)
    BY <2>2 DEF KnownOrSkipped, AccountedOrSkipped
  <2> QED
    BY <1>5, <2>2, <2>3, AccountedDrained DEF n, x
<1>6. CASE Handled(c, p) = Insert(c, p)
  BY <1>6, AccountedInsert
<1> QED
  BY <1>1, <1>2, <1>3, <1>4, <1>5, <1>6, HandledIs

(* The packet that opens the connection starts it whenever it comes. *)
LEMMA StartedHandled ==
  ASSUME NEW Q \in SUBSET Packet, NEW p \in Q, NEW c \in Conns(Q), c.started \/ IsFirst(p)
  PROVE  Handled(c, p).started
<1> DEFINE S == {x \in Conns(Q) : x.started}
<1>1. Keeps(Q, S)
  <2>1. S \in SUBSET Conns(Q)
    OBVIOUS
  <2>2. Progress(Q, S)
    BY DEF Progress, Idle, FrontOrdered, Passed, Retransmitted
  <2> HIDE DEF S
  <2> QED
    BY <2>1, <2>2, ClosedIf
<1>2. CASE c.started
  <2>1. c \in S
    BY <1>2
  <2> HIDE DEF S
  <2>2. Handled(c, p) \in S
    BY <1>1, <2>1, HandledStays
  <2> QED
    BY <2>2 DEF S
<1>3. CASE ~ c.started /\ IsFirst(p)
  <2>1. Handled(c, p) = TryProcCached(ProcessOrdered(c, p))
    BY <1>3, OrderTypeIs, HandledIs
  <2>2. ProcessOrdered(c, p) \in S
    BY ProcessOrderedIs DEF Passed
  <2> HIDE DEF S
  <2>3. TryProcCached(ProcessOrdered(c, p)) \in S
    BY <1>1, <2>2, TryProcCachedStays
  <2> QED
    BY <2>1, <2>3 DEF S
<1> QED
  BY <1>2, <1>3

(* The inductive invariant. *)
ArrivedAccounted ==
  conn.abandoned \/ \A i \in DOMAIN packets : arrived[i] > 0 =>
    /\ \A E : NeverLost(Pkts, E) /\ packets[i] \in E => AccountedOrSkipped(conn, E)
    /\ IsFirst(packets[i]) => conn.started

SettledOK == KnownOK /\ Settled(conn) /\ SortedLists(conn) /\ ArrivedAccounted

LEMMA SettledInit ==
  ASSUME \A conv \in Conversations : Conforms(conv)
  PROVE  Init => SettledOK
<1>1. Init => KnownOK
  BY KnownInit
<1>2. ASSUME Init PROVE Settled(conn) /\ SortedLists(conn)
  <2>1. \A d \in Directions : conn.half[d].cached = <<>>
    BY <1>2, NewConnIs DEF Init
  <2> QED
    BY <2>1 DEF Settled, StuckAt, SortedLists, Sorted
<1>3. ASSUME Init PROVE ArrivedAccounted
  BY <1>3 DEF Init, NoneArrived, ArrivedAccounted
<1> QED
  BY <1>1, <1>2, <1>3 DEF SettledOK

LEMMA SettledNext ==
  ASSUME \A conv \in Conversations : Conforms(conv)
  PROVE  SettledOK /\ [Next]_vars => SettledOK'
<1> SUFFICES ASSUME SettledOK, [Next]_vars PROVE SettledOK'
  OBVIOUS
<1>1. KnownOK'
  BY KnownNext DEF SettledOK
<1>2. Pkts \in SUBSET Packet /\ InTurn(Pkts) /\ conn \in Conns(Pkts) /\ ConnOK
      /\ KnownOrSkipped(Pkts, conn) /\ Settled(conn) /\ SortedLists(conn)
  BY PacketsAre, ConformsInTurn DEF SettledOK, KnownOK, ConnOK, Pkts
<1>3. ASSUME NEW k \in DOMAIN packets, Captures(k)
      PROVE  Settled(conn') /\ SortedLists(conn') /\ ArrivedAccounted'
  <2> DEFINE p == packets[k]
  <2>1. p \in Pkts /\ conn' = Handled(conn, p) /\ ~ conn.abandoned /\ packets' = packets
        /\ arrived' = [arrived EXCEPT ![k] = @ + 1]
        /\ \A i \in DOMAIN packets : packets[i] \in Pkts
    BY <1>3, PacketsAre DEF Captures, Pkts, SettledOK, KnownOK, ConnOK
  <2>2. Settled(conn')
    BY <1>2, <2>1, SettledHandled
  <2>3. SortedLists(conn')
    <3> DEFINE S == {c \in Conns(Pkts) : SortedLists(c)}
    <3>1. Keeps(Pkts, S) /\ conn \in S
      BY <1>2, SortedClosed
    <3> HIDE DEF S
    <3>2. conn' \in S
      BY <1>2, <1>3, <3>1, ConnStays
    <3> QED
      BY <3>2 DEF S
  <2>4. ASSUME NEW i \in DOMAIN packets, arrived'[i] > 0, ~ conn'.abandoned
        PROVE  /\ \A E : NeverLost(Pkts, E) /\ packets[i] \in E => AccountedOrSkipped(conn', E)
               /\ IsFirst(packets[i]) => conn'.started
    <3>1. i = k \/ arrived[i] > 0
      BY <2>1, <2>4 DEF SettledOK, KnownOK, ConnOK
    <3>2. ASSUME NEW E, NeverLost(Pkts, E), packets[i] \in E PROVE AccountedOrSkipped(conn', E)
      <4>1. AccountedOrSkipped(conn, E) \/ p \in E
        BY <2>1, <3>1, <3>2 DEF SettledOK, ArrivedAccounted
      <4> HIDE DEF p
      <4> QED
        BY <1>2, <2>1, <2>4, <3>2, <4>1, AccountedHandled
    <3>3. ASSUME IsFirst(packets[i]) PROVE conn'.started
      <4>1. conn.started \/ IsFirst(p)
        BY <2>1, <3>1, <3>3 DEF SettledOK, ArrivedAccounted
      <4> HIDE DEF p
      <4> QED
        BY <1>2, <2>1, <4>1, StartedHandled
    <3> QED
      BY <3>2, <3>3
  <2>5. ArrivedAccounted'
    <3>1. Pkts' = Pkts
      BY <2>1 DEF Pkts
    <3> QED
      BY <2>1, <2>4, <3>1 DEF ArrivedAccounted
  <2> QED
    BY <2>2, <2>3, <2>5
<1>4. ASSUME Restarts PROVE Settled(conn') /\ SortedLists(conn') /\ ArrivedAccounted'
  <2>1. \A d \in Directions : conn'.half[d].cached = <<>>
    BY <1>4, NewConnIs DEF Restarts
  <2>2. Settled(conn') /\ SortedLists(conn')
    BY <2>1 DEF Settled, StuckAt, SortedLists, Sorted
  <2>3. ArrivedAccounted'
    BY <1>4 DEF Restarts, NoneArrived, ArrivedAccounted
  <2> QED
    BY <2>2, <2>3
<1>5. CASE Next
  BY <1>1, <1>2, <1>3, <1>4, <1>5, NextIs DEF SettledOK
<1>6. CASE UNCHANGED vars
  <2>1. conn' = conn /\ packets' = packets /\ arrived' = arrived
    BY <1>6 DEF vars
  <2>2. Pkts' = Pkts
    BY <2>1 DEF Pkts
  <2>3. Settled(conn') /\ SortedLists(conn') /\ ArrivedAccounted'
    BY <1>2, <2>1, <2>2 DEF SettledOK, ArrivedAccounted
  <2> QED
    BY <1>1, <2>3 DEF SettledOK
<1> QED
  BY <1>5, <1>6

(* A conversation that conforms starts with the packet that opens it; no   *)
(* other end opens, and an end's SYN is before all else that it sends.     *)
Begun(conv) ==
  /\ 1 \in DOMAIN conv => IsFirst(conv[1])
  /\ \A i, j \in DOMAIN conv : IsFirst(conv[i]) /\ IsFirst(conv[j]) => conv[i].dir = conv[j].dir
  /\ \A i \in DOMAIN conv : "syn" \in conv[i].flags => IsFirst(conv[i]) \/ IsSecond(conv[i])
  /\ \A i, j \in DOMAIN conv :
       "syn" \in conv[i].flags /\ conv[i].dir = conv[j].dir
         => conv[i] = conv[j] \/ End(conv[i]) <= conv[j].seq

LEMMA ConformsBegun ==
  ASSUME NEW conv \in Conversations, Conforms(conv)
  PROVE  Begun(conv)
<1>1. conv \in Seq(Packet) /\ DOMAIN conv \subseteq Nat /\ \A i \in DOMAIN conv : 1 <= i
  <2>1. conv \in Seq(Packet)
    BY ReorderAssumption
  <2> QED
    BY <2>1
<1>2. PICK d \in Directions : \A j \in DOMAIN conv : "syn" \in conv[j].flags =>
        IF conv[j].dir = d THEN IsFirst(conv[j])
        ELSE /\ IsSecond(conv[j]) /\ conv[j].ack > 0
             /\ \A i \in DOMAIN conv : Acknowledges(conv[j], conv[i]) => "syn" \in conv[i].flags
  BY DEF Conforms, Opening
<1>3. ASSUME NEW j \in DOMAIN conv
      PROVE  LET before == {i \in 1 .. j - 1 : conv[i].dir = conv[j].dir} IN
             /\ \A i \in before : End(conv[i]) <= conv[j].seq
             /\ IF "syn" \in conv[j].flags THEN before = {}
                ELSE \E i \in before : Space(conv[i]) > 0 /\ End(conv[i]) = conv[j].seq
  BY DEF Conforms, InSequence
<1>4. ASSUME 1 \in DOMAIN conv PROVE IsFirst(conv[1])
  <2>1. 1 .. 1 - 1 = {}
    OBVIOUS
  <2>2. "syn" \in conv[1].flags
    BY <1>3, <1>4, <2>1
  <2>3. ~ (conv[1].ack > 0)
    BY <1>4, <2>1 DEF Conforms, Acknowledging
  <2> QED
    BY <1>2, <1>4, <2>2, <2>3
<1>5. ASSUME NEW i \in DOMAIN conv, IsFirst(conv[i]) PROVE conv[i].dir = d
  <2>1. "syn" \in conv[i].flags /\ "ack" \notin conv[i].flags
    BY <1>5 DEF IsFirst
  <2>2. ~ IsSecond(conv[i])
    BY <2>1 DEF IsSecond
  <2> QED
    BY <1>2, <2>1, <2>2
<1>6. \A i \in DOMAIN conv : "syn" \in conv[i].flags => IsFirst(conv[i]) \/ IsSecond(conv[i])
  BY <1>2
<1>7. ASSUME NEW i \in DOMAIN conv, NEW j \in DOMAIN conv,
             "syn" \in conv[i].flags, conv[i].dir = conv[j].dir
      PROVE  conv[i] = conv[j] \/ End(conv[i]) <= conv[j].seq
  <2>1. CASE i < j
    <3>1. i \in 1 .. j - 1
      BY <1>1, <2>1
    <3> QED
      BY <1>3, <1>7, <3>1
  <2>2. CASE j < i
    <3>1. j \in 1 .. i - 1
      BY <1>1, <2>2
    <3> QED
      BY <1>3, <1>7, <3>1
  <2>3. CASE i = j
    BY <2>3
  <2> QED
    BY <1>1, <2>1, <2>2, <2>3
<1> QED
  BY <1>4, <1>5, <1>6, <1>7 DEF Begun

(* When what comes before a packet was passed on, and so what it           *)
(* acknowledges, then neither it nor what is before it in its list is      *)
(* early: it does not wait there.                                          *)
LEMMA NotWaiting ==
  ASSUME \A conv \in Conversations : Conforms(conv), SettledOK,
         ~ conn.abandoned, ~ conn.refactored, \A i \in DOMAIN packets : arrived[i] > 0,
         NEW m \in DOMAIN packets, packets[m] \notin Range(conn.log),
         \A k \in DOMAIN packets : k < m /\ Space(packets[k]) > 0 => packets[k] \in Range(conn.log)
  PROVE  packets[m] \notin Range(conn.half[packets[m].dir].cached)
<1> SUFFICES ASSUME packets[m] \in Range(conn.half[packets[m].dir].cached) PROVE FALSE
  OBVIOUS
<1> DEFINE p    == packets[m]
           d    == p.dir
           o    == Other(d)
           list == conn.half[d].cached
           h    == Head(list)
<1>1. /\ packets \in Conversations /\ Conforms(packets) /\ Begun(packets)
      /\ Pkts \in SUBSET Packet /\ InTurn(Pkts) /\ conn \in Conns(Pkts)
      /\ \A i \in DOMAIN packets : packets[i] \in Pkts /\ packets[i] \in Packet
  BY PacketsAre, ConformsInTurn, ConformsBegun DEF SettledOK, KnownOK, ConnOK, Pkts
<1>2. packets \in Seq(Packet) /\ m \in Nat /\ 1 \in DOMAIN packets
      /\ \A k \in 1 .. m - 1 : k \in DOMAIN packets /\ k < m
  <2>1. packets \in Seq(Packet)
    BY <1>1, ReorderAssumption
  <2> QED
    BY <2>1
<1>3. Known(Pkts, conn) /\ Settled(conn) /\ SortedLists(conn)
  BY DEF SettledOK, KnownOK, KnownOrSkipped
<1>4. p \in Pkts /\ p.seq \in Nat /\ p.ack \in Nat /\ End(p) \in Nat /\ p.seq <= End(p)
      /\ d \in Directions /\ o \in Directions /\ o # d /\ p \in Of(Pkts, d)
      /\ \A e \in Directions : e = d \/ e = o
  BY <1>1, PacketIs, DirectionsAre DEF Of
<1>5. p \in Range(list)
  OBVIOUS
<1>6. list \in Seq(Of(Pkts, d))
  BY <1>1, <1>4, ConnIs
<1> HIDE DEF list
<1>7. PICK k \in 1 .. Len(list) : p = list[k]
  <2>1. DOMAIN list = 1 .. Len(list)
    BY <1>6, LenProperties
  <2> QED
    BY <1>5, <2>1 DEF Range
<1>8. list # <<>>
  BY <1>5, <1>6 DEF Range
<1>9. h \in Of(Pkts, d) /\ h = list[1]
  BY <1>6, <1>8, HeadTailProperties
<1>10. h \in Pkts /\ h.dir = d /\ h.seq \in Nat /\ h.ack \in Nat
  BY <1>1, <1>9, PacketIs DEF Of
<1>11. h = p \/ NotAfter(h, p)
  <2>1. Sorted(list)
    BY <1>3, <1>4 DEF SortedLists, list
  <2>2. k = 1 \/ NotAfter(h, list[k])
    BY <1>6, <1>8, <2>1, SortedTail
  <2> QED
    BY <1>7, <1>9, <2>2
<1>12. PktOrderType(conn, h) = "out_of_order"
  BY <1>3, <1>4, <1>8 DEF Settled, StuckAt, list
<1>13. conn.started
  <2>1. IsFirst(packets[1])
    BY <1>1, <1>2 DEF Begun
  <2> QED
    BY <1>2, <2>1 DEF SettledOK, ArrivedAccounted
<1>14. conn.half[d].next_seq \in Nat /\ conn.half[d].next_ack \in Nat /\ conn.half[o].next_seq \in Nat
       /\ conn.half[d].sent \in BOOLEAN
  <2>1. \A e \in Directions : /\ conn.half[e].next_seq \in Nat /\ conn.half[e].next_ack \in Nat
                              /\ conn.half[e].sent \in BOOLEAN
    BY <1>1, ConnIs, NumbersAre
  <2> QED
    BY <1>4, <2>1
<1> HIDE DEF h
<1>15. CASE "syn" \in p.flags
  <2>0. p.seq < End(p)
    BY <1>1, <1>15, PacketIs DEF Space
  <2>1. h = p
    <3>1. \E j \in DOMAIN packets : h = packets[j]
      BY <1>10 DEF Pkts, Range
    <3>2. p = h \/ End(p) <= h.seq
      BY <1>1, <1>10, <1>15, <3>1 DEF Begun
    <3> QED
      BY <1>4, <1>10, <1>11, <2>0, <3>2 DEF NotAfter
  <2>2. ~ conn.half[d].sent
    <3>1. ASSUME conn.half[d].sent PROVE FALSE
      <4>1. Reached(Pkts, conn, d)
        BY <1>3, <1>4, <3>1 DEF Known
      <4> QED
        BY <1>1, <1>4, <1>15, <4>1, SynPassedOn
    <3> QED
      BY <3>1
  <2>3. CASE IsFirst(p)
    <3>1. PICK q \in Range(conn.log) : IsFirst(q)
      BY <1>3, <1>13 DEF Known
    <3>2. conn.half[q.dir].sent
      BY <1>3 DEF Known
    <3>3. q \in Pkts
      BY <1>1, ConnIs, RangeOfSeq
    <3>4. \E j \in DOMAIN packets : q = packets[j]
      BY <3>3 DEF Pkts, Range
    <3>5. q.dir = d
      BY <1>1, <2>3, <3>1, <3>4 DEF Begun
    <3> QED
      BY <2>2, <3>2, <3>5
  <2>4. CASE IsSecond(p)
    <3>1. PktOrderType(conn, p) = "in_order"
      BY <1>1, <1>4, <1>13, <2>2, <2>4, OrderTypeIs
    <3> QED
      BY <1>12, <2>1, <3>1
  <2> QED
    BY <1>1, <1>15, <2>3, <2>4 DEF Begun
<1>16. CASE "syn" \notin p.flags
  <2>1. PICK i \in 1 .. m - 1 : packets[i].dir = d /\ Space(packets[i]) > 0 /\ End(packets[i]) = p.seq
    BY <1>1, <1>16 DEF Conforms, InSequence
  <2>2. packets[i] \in Range(conn.log)
    BY <1>2, <2>1
  <2>3. conn.half[d].sent /\ p.seq <= conn.half[d].next_seq
    BY <1>3, <2>1, <2>2 DEF Known
  <2>4. p.ack <= conn.half[d].next_ack
    <3>1. CASE p.ack > 0
      <4>1. PICK j \in 1 .. m - 1 : Acknowledges(p, packets[j]) /\ p.ack <= End(packets[j])
        BY <1>1, <3>1 DEF Conforms, Acknowledging
      <4>2. j \in DOMAIN packets /\ packets[j] \in Packet /\ packets[j] \in Range(conn.log)
        BY <1>1, <1>2, <4>1 DEF Acknowledges
      <4>3. packets[j].dir = o /\ End(packets[j]) \in Nat
        BY <1>4, <4>1, <4>2, PacketIs DEF Acknowledges
      <4>4. End(packets[j]) <= conn.half[o].next_seq
        BY <1>3, <4>2, <4>3 DEF Known
      <4>5. conn.half[d].next_ack = conn.half[o].next_seq
        BY <1>3, <1>4 DEF Known
      <4> QED
        BY <1>4, <1>14, <4>1, <4>3, <4>4, <4>5
    <3>2. CASE ~ (p.ack > 0)
      BY <1>4, <1>14, <3>2
    <3> QED
      BY <3>1, <3>2
  <2>5. h.seq <= conn.half[d].next_seq
        /\ (h.seq = conn.half[d].next_seq => h.ack <= conn.half[d].next_ack)
    BY <1>4, <1>10, <1>11, <1>14, <2>3, <2>4 DEF NotAfter
  <2>6. \/ h.seq > conn.half[d].next_seq
        \/ h.seq = conn.half[d].next_seq /\ h.ack > conn.half[d].next_ack
    BY <1>1, <1>10, <1>12, <1>13, <2>3, OrderTypeIs
  <2> QED
    BY <1>10, <1>14, <2>5, <2>6
<1> QED
  BY <1>15, <1>16

(* The first packet of the conversation to be missing cannot be.           *)
LEMMA NoFirstMissing ==
  ASSUME \A conv \in Conversations : Conforms(conv), SettledOK,
         ~ conn.abandoned, ~ conn.refactored, \A i \in DOMAIN packets : arrived[i] > 0,
         NEW m \in DOMAIN packets, Space(packets[m]) > 0,
         \A k \in DOMAIN packets : k < m /\ Space(packets[k]) > 0 => packets[k] \in Range(conn.log)
  PROVE  packets[m] \in Range(conn.log)
<1>1. Pkts \in SUBSET Packet /\ InTurn(Pkts) /\ packets[m] \in Pkts
  BY PacketsAre, ConformsInTurn DEF SettledOK, KnownOK, ConnOK, Pkts
<1>2. NeverLost(Pkts, {packets[m]})
  BY <1>1, NumberNeverLost
<1>3. Carries(conn, packets[m])
  BY <1>2 DEF SettledOK, ArrivedAccounted, AccountedOrSkipped
<1> QED
  BY <1>3, NotWaiting DEF Carries

(* If the two ends follow the protocol and all their packets have arrived, *)
(* in whatever order and however often, then all of them that carry bytes, *)
(* a SYN or a FIN have gone to the analyzer, unless the connection was     *)
(* given up or a gap was skipped.                                          *)
THEOREM ReorderAllPassedOn ==
  ASSUME \A conv \in Conversations : Conforms(conv)
  PROVE  Spec => []AllPassedOn
<1>1. SettledOK => AllPassedOn
  <2> SUFFICES ASSUME SettledOK, ~ conn.abandoned, ~ conn.refactored,
                      \A i \in DOMAIN packets : arrived[i] > 0
               PROVE  \A i \in DOMAIN packets :
                        Space(packets[i]) > 0 => packets[i] \in Range(conn.log)
    BY DEF AllPassedOn
  <2> DEFINE Missing == {i \in DOMAIN packets :
                           Space(packets[i]) > 0 /\ packets[i] \notin Range(conn.log)}
  <2>1. DOMAIN packets \subseteq Nat
    BY PacketsAre DEF SettledOK, KnownOK, ConnOK
  <2>2. Missing \in SUBSET Nat
    BY <2>1
  <2>3. ASSUME Missing # {} PROVE FALSE
    <3>1. PICK m \in Missing : \A k \in Missing : m <= k
      <4> HIDE DEF Missing
      <4> QED
        BY <2>2, <2>3, LeastOf
    <3>2. \A k \in DOMAIN packets : k < m /\ Space(packets[k]) > 0 => packets[k] \in Range(conn.log)
      BY <2>1, <3>1
    <3> QED
      BY <3>1, <3>2, NoFirstMissing
  <2> QED
    BY <2>3
<1> QED
  BY <1>1, SettledInit, SettledNext, PTL DEF Spec

-----------------------------------------------------------------------------
(* Folds. *)

(* What the analyzer makes of the packets of a sequence, and its states g  *)
(* on the way.                                                             *)
Analysis(base, seq, now) == FoldLeft(LAMBDA a, p : AnalyzePkt(a, p, now), base, seq)

Feeds(A, Q, now) == \A a \in A : \A p \in Q : AnalyzePkt(a, p, now) \in A

AnalyzedBy(g, A, base, seq, now) ==
  /\ g \in [0 .. Len(seq) -> A] /\ g[0] = base
  /\ \A n \in 1 .. Len(seq) : g[n] = AnalyzePkt(g[n - 1], seq[n], now)
  /\ Analysis(base, seq, now) = g[Len(seq)]

LEMMA AnalysisIs ==
  ASSUME NEW Q, NEW A, NEW now, NEW base \in A, NEW seq \in Seq(Q), Feeds(A, Q, now)
  PROVE  \E g : AnalyzedBy(g, A, base, seq, now)
<1> DEFINE L     == Len(seq)
           Eq(f) == f = [s \in SUBSET (DOMAIN seq) |->
                           IF s = {} THEN base
                           ELSE AnalyzePkt(f[s \ {Max(s)}], seq[Max(s)], now)]
           iter  == CHOOSE f : Eq(f)
           step  == [na \in (1 .. L) \X A |-> AnalyzePkt(na[2], seq[na[1]], now)]
<1>1. L \in Nat /\ DOMAIN seq = 1 .. L /\ \A n \in 1 .. L : seq[n] \in Q
  OBVIOUS
<1>2. Analysis(base, seq, now) = iter[DOMAIN seq]
  BY DEF Analysis, FoldLeft, MapThenFoldSet
<1>3. step \in [(1 .. L) \X A -> A]
  BY <1>1 DEF Feeds
<1>4. \A n \in 1 .. L : \A a \in A : step[<<n, a>>] = AnalyzePkt(a, seq[n], now)
  OBVIOUS
<1> HIDE DEF step, L
<1>51. PICK f \in [SUBSET (1 .. L) -> A] : FoldsOver(f, L, base, step)
  BY <1>1, <1>3, MaskedFold
<1>5. /\ f[{}] = base
      /\ \A x \in SUBSET (1 .. L) :
           x # {} => Max(x) \in x /\ f[x] = step[<<Max(x), f[x \ {Max(x)}]>>]
  BY <1>51 DEF FoldsOver
<1>6. ASSUME NEW x \in SUBSET (1 .. L), x # {}
      PROVE  f[x] = AnalyzePkt(f[x \ {Max(x)}], seq[Max(x)], now)
  <2>1. Max(x) \in 1 .. L /\ f[x \ {Max(x)}] \in A
    BY <1>5, <1>6
  <2> QED
    BY <1>4, <1>5, <1>6, <2>1
<1>7. Eq(f)
  <2>1. f = [s \in SUBSET (1 .. L) |->
               IF s = {} THEN base ELSE AnalyzePkt(f[s \ {Max(s)}], seq[Max(s)], now)]
    BY <1>5, <1>6
  <2> QED
    BY <1>1, <2>1
<1>8. Eq(iter)
  BY <1>7
<1> DEFINE i == iter
<1>9. i = [s \in SUBSET (1 .. L) |->
             IF s = {} THEN base ELSE AnalyzePkt(i[s \ {Max(s)}], seq[Max(s)], now)]
  BY <1>1, <1>8
<1>10. Analysis(base, seq, now) = i[1 .. L]
  BY <1>1, <1>2
<1> HIDE DEF i
<1>11. Unfolds(i, A, L, base, step)
  <2>1. i[{}] = base
    BY <1>9
  <2>2. ASSUME NEW n \in 1 .. L, i[1 .. n - 1] \in A
        PROVE  i[1 .. n] = step[<<n, i[1 .. n - 1]>>]
    <3> DEFINE x == 1 .. n
    <3>1. x \in SUBSET (1 .. L) /\ x # {} /\ Max(x) = n /\ x \ {n} = 1 .. n - 1
      BY <1>1, UpToIs
    <3>2. i[x] = AnalyzePkt(i[x \ {Max(x)}], seq[Max(x)], now)
      BY <1>9, <3>1
    <3> QED
      BY <1>4, <2>2, <3>1, <3>2
  <2> QED
    BY <2>1, <2>2 DEF Unfolds
<1>12. FoldTyped(A, L, base, step)
  BY <1>1, <1>3 DEF FoldTyped
<1>13. PICK g : Passes(g, i, A, L, base, step)
  BY <1>11, <1>12, Unfolded
<1>14. ASSUME NEW n \in 1 .. L PROVE g[n] = AnalyzePkt(g[n - 1], seq[n], now)
  <2>1. g[n - 1] \in A
    BY <1>1, <1>13 DEF Passes
  <2>2. g[n] = step[<<n, g[n - 1]>>]
    BY <1>13 DEF Passes, StepsFrom
  <2> QED
    BY <1>4, <2>1, <2>2
<1>15. g[0] = base
  BY <1>13 DEF Passes, StepsFrom
<1> QED
  BY <1>10, <1>13, <1>14, <1>15 DEF L, Passes, AnalyzedBy

-----------------------------------------------------------------------------
(* The analyzer's methods. *)

Roles == {"unknown", "client", "server"}

ConnStates == {"established", "closed", "failed"}

Recordable == [event : {"TCE_CONN_ABORT", "TCE_CONN_CLOSE", "TCE_HS_TIMEOUT"}, delay : Nat]

Analyzers(Q) ==
  [role : [Directions -> Roles], fsm : [Directions -> FsmStates], state : SUBSET ConnStates,
   total : Nat, first_time : Nat, measured : BOOLEAN, delay : Nat, records : Seq(Recordable),
   up : Seq(Q), abandoned : BOOLEAN, removed : BOOLEAN]

(* What a state says of the FINs seen, fins being the ends that sent one. *)
Agrees(f, d, fins) ==
  /\ f \in {"FIN_WAIT_1", "FIN_WAIT_2"}              => d \in fins /\ Other(d) \notin fins
  /\ f = "CLOSE_WAIT"                                => Other(d) \in fins /\ d \notin fins
  /\ f \in {"CLOSING", "TIME_WAIT", "LAST_ACK"}      => d \in fins /\ Other(d) \in fins
  /\ f \in {"SYN_SENT", "SYN_RCV", "ESTABLISHED"}    => d \notin fins /\ Other(d) \notin fins

Sides == {"send", "recv"}

(* Who sent the packet. *)
By(side, d) == IF side = "send" THEN d ELSE Other(d)

Fins(fins, flags, d) == IF "fin" \in flags THEN fins \cup {d} ELSE fins

LEMMA FsmMoves ==
  ASSUME NEW role \in Roles, NEW side \in Sides, NEW flags \in SUBSET {"syn", "ack", "fin"},
         NEW f \in FsmStates \ {"CLOSED"}
  PROVE  /\ ProcessTcpFsm(role, Event(side, flags), f) \in (FsmStates \cup {"error"}) \ {"INIT"}
         /\ ProcessTcpFsm(role, Event(side, flags), f) = "CLOSED" => f = "LAST_ACK"
<1> DEFINE e == Event(side, flags)
           n == ProcessTcpFsm(role, e, f)
<1>1. CASE f = "INIT"
  <2>1. n \in {"SYN_SENT", "SYN_RCV"}
    BY <1>1 DEF ProcessTcpFsm, ProcInitState
  <2> QED
    BY <2>1 DEF FsmStates
<1>2. CASE f = "SYN_SENT"
  <2>1. n \in {"ESTABLISHED", "SYN_RCV", "SYN_SENT", "error"}
    BY <1>2 DEF ProcessTcpFsm, ProcSynSentState
  <2> QED
    BY <2>1 DEF FsmStates
<1>3. CASE f = "SYN_RCV"
  <2>1. n \in {"FIN_WAIT_1", "ESTABLISHED", "SYN_RCV", "CLOSE_WAIT", "error"}
    BY <1>3 DEF ProcessTcpFsm, ProcSynRcvState
  <2> QED
    BY <2>1 DEF FsmStates
<1>4. CASE f = "ESTABLISHED"
  <2>1. n \in {"FIN_WAIT_1", "ESTABLISHED", "CLOSE_WAIT"}
    BY <1>4 DEF ProcessTcpFsm, ProcEstablishedState
  <2> QED
    BY <2>1 DEF FsmStates
<1>5. CASE f = "FIN_WAIT_1"
  <2>1. n \in {"CLOSING", "TIME_WAIT", "FIN_WAIT_2", "FIN_WAIT_1", "error"}
    BY <1>5 DEF ProcessTcpFsm, ProcFinWait1State
  <2> QED
    BY <2>1 DEF FsmStates
<1>6. CASE f = "FIN_WAIT_2"
  <2>1. n \in {"TIME_WAIT", "FIN_WAIT_2", "error"}
    BY <1>6 DEF ProcessTcpFsm, ProcFinWait2State
  <2> QED
    BY <2>1 DEF FsmStates
<1>7. CASE f = "TIME_WAIT"
  <2>1. n = "TIME_WAIT"
    BY <1>7 DEF ProcessTcpFsm
  <2> QED
    BY <2>1 DEF FsmStates
<1>8. CASE f = "CLOSING"
  <2>1. n \in {"TIME_WAIT", "error"}
    BY <1>8 DEF ProcessTcpFsm, ProcClosingState
  <2> QED
    BY <2>1 DEF FsmStates
<1>9. CASE f = "CLOSE_WAIT"
  <2>1. n \in {"LAST_ACK", "CLOSE_WAIT", "error"}
    BY <1>9 DEF ProcessTcpFsm, ProcCloseWaitState
  <2> QED
    BY <2>1 DEF FsmStates
<1>10. CASE f = "LAST_ACK"
  <2>1. n \in {"CLOSED", "LAST_ACK"}
    BY <1>10 DEF ProcessTcpFsm, ProcLastAckState
  <2> QED
    BY <1>10, <2>1 DEF FsmStates
<1> QED
  BY <1>1, <1>2, <1>3, <1>4, <1>5, <1>6, <1>7, <1>8, <1>9, <1>10 DEF FsmStates

(* Each state function moves to a state that counts in the packet's FIN. *)
LEMMA FsmCounts ==
  ASSUME NEW role \in Roles, NEW side \in Sides, NEW flags \in SUBSET {"syn", "ack", "fin"},
         NEW f \in FsmStates \ {"CLOSED", "INIT"}, NEW d \in Directions, NEW fins \in SUBSET Directions,
         Agrees(f, d, fins)
  PROVE  Agrees(ProcessTcpFsm(role, Event(side, flags), f), d, Fins(fins, flags, By(side, d)))
<1> DEFINE e    == Event(side, flags)
           o    == Other(d)
           n    == ProcessTcpFsm(role, e, f)
           more == Fins(fins, flags, By(side, d))
<1>1. /\ side \in {"send", "recv"}
      /\ d \in more <=> d \in fins \/ (side = "send" /\ "fin" \in flags)
      /\ o \in more <=> o \in fins \/ (side = "recv" /\ "fin" \in flags)
  BY DirectionsAre DEF Fins, By, Sides
<1>2. e.side = side /\ e.flags = flags
  BY DEF Event
<1>3. ASSUME NEW s \in Sides, NEW t \in SUBSET {"syn", "ack", "fin"}, Is(e, s, t)
      PROVE  side = s /\ flags = t
  BY <1>3 DEF Is, Event
<1>4. \A s, t : Has(e, s, t) <=> side = s /\ t \in flags
  BY <1>2 DEF Has
<1> HIDE DEF more, e
<1>5. CASE f = "SYN_SENT"
  <2>1. d \notin fins /\ o \notin fins
    BY <1>5 DEF Agrees
  <2>2. \/ n = "ESTABLISHED" /\ Is(e, "recv", {"syn", "ack"})
        \/ n = "SYN_RCV" /\ Is(e, "recv", {"syn"})
        \/ n = "SYN_SENT" /\ Is(e, "send", {"ack"})
        \/ n = "error"
    BY <1>5 DEF ProcessTcpFsm, ProcSynSentState
  <2>3. n = "error" \/ (n \in {"ESTABLISHED", "SYN_RCV", "SYN_SENT"} /\ "fin" \notin flags)
    BY <1>3, <2>2 DEF Sides
  <2> HIDE DEF n
  <2>4. Agrees(n, d, more)
    BY <1>1, <2>1, <2>3 DEF Agrees
  <2> QED
    BY <2>4 DEF n, more, e
<1>6. CASE f = "SYN_RCV"
  <2>1. d \notin fins /\ o \notin fins
    BY <1>6 DEF Agrees
  <2>2. \/ n = "FIN_WAIT_1" /\ Has(e, "send", "fin")
        \/ n = "ESTABLISHED" /\ Is(e, "recv", {"ack"})
        \/ n = "SYN_RCV" /\ (Is(e, "send", {"syn", "ack"}) \/ Is(e, "send", {"ack"}))
        \/ n = "CLOSE_WAIT" /\ Has(e, "recv", "fin")
        \/ n = "SYN_RCV" /\ Has(e, "recv", "syn") /\ ~ Has(e, "recv", "fin")
        \/ n = "error"
    BY <1>6 DEF ProcessTcpFsm, ProcSynRcvState
  <2>3. \/ n = "error"
        \/ n = "FIN_WAIT_1" /\ side = "send" /\ "fin" \in flags
        \/ n = "CLOSE_WAIT" /\ side = "recv" /\ "fin" \in flags
        \/ n \in {"ESTABLISHED", "SYN_RCV"} /\ "fin" \notin flags
    BY <1>3, <1>4, <2>2 DEF Sides
  <2> HIDE DEF n
  <2>4. Agrees(n, d, more)
    BY <1>1, <2>1, <2>3 DEF Agrees
  <2> QED
    BY <2>4 DEF n, more, e
<1>7. CASE f = "ESTABLISHED"
  <2>1. d \notin fins /\ o \notin fins
    BY <1>7 DEF Agrees
  <2>2. \/ n = "CLOSE_WAIT" /\ Has(e, "recv", "fin")
        \/ n = "FIN_WAIT_1" /\ Has(e, "send", "fin")
        \/ n = "ESTABLISHED" /\ ~ Has(e, "send", "fin") /\ ~ Has(e, "recv", "fin")
    BY <1>7 DEF ProcessTcpFsm, ProcEstablishedState
  <2>3. \/ n = "FIN_WAIT_1" /\ side = "send" /\ "fin" \in flags
        \/ n = "CLOSE_WAIT" /\ side = "recv" /\ "fin" \in flags
        \/ n = "ESTABLISHED" /\ "fin" \notin flags
    BY <1>1, <1>4, <2>2
  <2> HIDE DEF n
  <2>4. Agrees(n, d, more)
    BY <1>1, <2>1, <2>3 DEF Agrees
  <2> QED
    BY <2>4 DEF n, more, e
<1>8. CASE f \in {"FIN_WAIT_1", "FIN_WAIT_2"}
  <2>1. d \in fins /\ o \notin fins
    BY <1>8 DEF Agrees
  <2>2. \/ n = "error"
        \/ n \in {"CLOSING", "TIME_WAIT"} /\ side = "recv" /\ "fin" \in flags
        \/ n \in {"FIN_WAIT_1", "FIN_WAIT_2"} /\ ~ (side = "recv" /\ "fin" \in flags)
    <3>1. CASE f = "FIN_WAIT_1"
      <4>1. \/ n = "CLOSING" /\ Is(e, "recv", {"fin"})
            \/ n = "TIME_WAIT" /\ Is(e, "recv", {"fin", "ack"})
            \/ n = "FIN_WAIT_2" /\ Is(e, "recv", {"ack"})
            \/ n = "FIN_WAIT_1" /\ Is(e, "send", {"ack"})
            \/ n = "error"
        BY <3>1 DEF ProcessTcpFsm, ProcFinWait1State
      <4> QED
        BY <1>3, <4>1 DEF Sides
    <3>2. CASE f = "FIN_WAIT_2"
      <4>1. \/ n = "TIME_WAIT" /\ Has(e, "recv", "fin")
            \/ n = "FIN_WAIT_2" /\ ~ Has(e, "recv", "fin")
            \/ n = "error"
        BY <1>4, <3>2 DEF ProcessTcpFsm, ProcFinWait2State
      <4> QED
        BY <1>4, <4>1
    <3> QED
      BY <1>8, <3>1, <3>2
  <2> HIDE DEF n
  <2>3. Agrees(n, d, more)
    BY <1>1, <2>1, <2>2 DEF Agrees
  <2> QED
    BY <2>3 DEF n, more, e
<1>9. CASE f = "CLOSE_WAIT"
  <2>1. o \in fins /\ d \notin fins
    BY <1>9 DEF Agrees
  <2>2. \/ n = "LAST_ACK" /\ Has(e, "send", "fin")
        \/ n = "CLOSE_WAIT" /\ (Is(e, "recv", {"ack"}) \/ Is(e, "send", {"ack"}))
        \/ n = "error"
    BY <1>9 DEF ProcessTcpFsm, ProcCloseWaitState
  <2>3. \/ n = "error"
        \/ n = "LAST_ACK" /\ side = "send" /\ "fin" \in flags
        \/ n = "CLOSE_WAIT" /\ "fin" \notin flags
    BY <1>3, <1>4, <2>2 DEF Sides
  <2> HIDE DEF n
  <2>4. Agrees(n, d, more)
    BY <1>1, <2>1, <2>3 DEF Agrees
  <2> QED
    BY <2>4 DEF n, more, e
<1>10. CASE f \in {"CLOSING", "TIME_WAIT", "LAST_ACK"}
  <2>1. d \in more /\ o \in more
    BY <1>1, <1>10 DEF Agrees
  <2>2. n \in {"CLOSING", "TIME_WAIT", "LAST_ACK", "CLOSED", "error"}
    BY <1>10 DEF ProcessTcpFsm, ProcClosingState, ProcLastAckState
  <2> HIDE DEF n
  <2>3. Agrees(n, d, more)
    BY <2>1, <2>2 DEF Agrees
  <2> QED
    BY <2>3 DEF n, more, e
<1> QED
  BY <1>5, <1>6, <1>7, <1>8, <1>9, <1>10 DEF FsmStates

(* How one analyzer n differs from another, a. *)
SameCounts(a, n) == n.total = a.total /\ n.up = a.up

Ends(a, n, event, what) ==
  /\ \A d \in Directions : n.fsm[d] = "CLOSED"
  /\ n.state = a.state \cup {what}
  /\ \E r \in Recordable : r.event = event /\ n.records = Append(a.records, r)

Moves(a, n, d, f) ==
  /\ n.fsm[d] = f /\ n.fsm[Other(d)] = a.fsm[Other(d)] /\ n.role = a.role
  /\ n.state = a.state /\ n.records = a.records

LEMMA AnalyzerIs ==
  ASSUME NEW Q, NEW a \in Analyzers(Q)
  PROVE  /\ a.role \in [Directions -> Roles] /\ a.fsm \in [Directions -> FsmStates]
         /\ a.state \in SUBSET ConnStates /\ a.total \in Nat /\ a.first_time \in Nat
         /\ a.measured \in BOOLEAN /\ a.delay \in Nat /\ a.records \in Seq(Recordable)
         /\ a.up \in Seq(Q) /\ a.abandoned \in BOOLEAN /\ a.removed \in BOOLEAN
         /\ \A d \in Directions : a.role[d] \in Roles /\ a.fsm[d] \in FsmStates
BY DEF Analyzers

LEMMA ClosedIs ==
  ASSUME NEW Q, NEW a \in Analyzers(Q)
  PROVE  /\ Closed(a) \in Analyzers(Q) /\ \A d \in Directions : Closed(a).fsm[d] = "CLOSED"
         /\ SameCounts(a, Closed(a)) /\ Closed(a).state = a.state /\ Closed(a).records = a.records
<1> DEFINE fsm == [d \in Directions |-> "CLOSED"]
           n   == [a EXCEPT !.fsm = fsm]
<1>1. fsm \in [Directions -> FsmStates] /\ \A d \in Directions : fsm[d] = "CLOSED"
  BY DEF FsmStates
<1>2. Closed(a) = n
  BY DEF Closed, Directions
<1> HIDE DEF fsm
<1>3. n \in Analyzers(Q) /\ n.fsm = fsm /\ n.total = a.total /\ n.up = a.up
      /\ n.state = a.state /\ n.records = a.records
  BY <1>1 DEF Analyzers
<1> QED
  BY <1>1, <1>2, <1>3 DEF SameCounts

LEMMA RecordIs ==
  ASSUME NEW Q, NEW a \in Analyzers(Q), NEW event \in {"TCE_CONN_ABORT", "TCE_CONN_CLOSE"}
  PROVE  /\ Record(a, event) \in Seq(Recordable)
         /\ \E r \in Recordable : r.event = event /\ Record(a, event) = Append(a.records, r)
<1> DEFINE r == [event |-> event, delay |-> a.delay]
<1>1. r \in Recordable /\ r.event = event
  BY AnalyzerIs DEF Recordable
<1>2. Record(a, event) = Append(a.records, r)
  BY DEF Record
<1> HIDE DEF r
<1>3. Append(a.records, r) \in Seq(Recordable)
  BY <1>1, AnalyzerIs, AppendProperties
<1> QED
  BY <1>1, <1>2, <1>3

LEMMA ConnectionFailedIs ==
  ASSUME NEW Q, NEW a \in Analyzers(Q)
  PROVE  /\ ConnectionFailed(a) \in Analyzers(Q) /\ SameCounts(a, ConnectionFailed(a))
         /\ Ends(a, ConnectionFailed(a), "TCE_CONN_ABORT", "failed")
<1> DEFINE b    == Closed(a)
           recs == Record(a, "TCE_CONN_ABORT")
           yes  == TRUE
           st   == a.state \cup {"failed"}
           n    == [b EXCEPT !.state = st, !.abandoned = yes, !.records = recs]
<1>1. b \in Analyzers(Q) /\ (\A d \in Directions : b.fsm[d] = "CLOSED") /\ SameCounts(a, b)
      /\ b.state = a.state
  BY ClosedIs
<1>2. recs \in Seq(Recordable) /\ \E r \in Recordable : r.event = "TCE_CONN_ABORT" /\ recs = Append(a.records, r)
  BY RecordIs
<1>3. yes \in BOOLEAN /\ st \in SUBSET ConnStates
  BY AnalyzerIs DEF ConnStates
<1>4. ConnectionFailed(a) = [b EXCEPT !.state = b.state \cup {"failed"}, !.abandoned = yes, !.records = recs]
  BY DEF ConnectionFailed
<1>5. ConnectionFailed(a) = n
  BY <1>1, <1>4
<1> HIDE DEF b, recs, yes, st
<1>6. n \in Analyzers(Q) /\ n.fsm = b.fsm /\ n.total = b.total /\ n.up = b.up
      /\ n.state = st /\ n.records = recs
  BY <1>1, <1>2, <1>3 DEF Analyzers
<1> HIDE DEF n
<1>7. SameCounts(a, n)
  BY <1>1, <1>6 DEF SameCounts
<1>8. Ends(a, n, "TCE_CONN_ABORT", "failed")
  BY <1>1, <1>2, <1>6 DEF Ends, st
<1> QED
  BY <1>5, <1>6, <1>7, <1>8

LEMMA ConnectionClosedIs ==
  ASSUME NEW Q, NEW a \in Analyzers(Q)
  PROVE  /\ ConnectionClosed(a) \in Analyzers(Q) /\ SameCounts(a, ConnectionClosed(a))
         /\ Ends(a, ConnectionClosed(a), "TCE_CONN_CLOSE", "closed")
<1> DEFINE b    == Closed(a)
           recs == Record(a, "TCE_CONN_CLOSE")
           yes  == TRUE
           st   == a.state \cup {"closed"}
           n    == [b EXCEPT !.state = st, !.removed = yes, !.records = recs]
<1>1. b \in Analyzers(Q) /\ (\A d \in Directions : b.fsm[d] = "CLOSED") /\ SameCounts(a, b)
      /\ b.state = a.state
  BY ClosedIs
<1>2. recs \in Seq(Recordable) /\ \E r \in Recordable : r.event = "TCE_CONN_CLOSE" /\ recs = Append(a.records, r)
  BY RecordIs
<1>3. yes \in BOOLEAN /\ st \in SUBSET ConnStates
  BY AnalyzerIs DEF ConnStates
<1>4. ConnectionClosed(a) = [b EXCEPT !.state = b.state \cup {"closed"}, !.removed = yes, !.records = recs]
  BY DEF ConnectionClosed
<1>5. ConnectionClosed(a) = n
  BY <1>1, <1>4
<1> HIDE DEF b, recs, yes, st
<1>6. n \in Analyzers(Q) /\ n.fsm = b.fsm /\ n.total = b.total /\ n.up = b.up
      /\ n.state = st /\ n.records = recs
  BY <1>1, <1>2, <1>3 DEF Analyzers
<1> HIDE DEF n
<1>7. SameCounts(a, n)
  BY <1>1, <1>6 DEF SameCounts
<1>8. Ends(a, n, "TCE_CONN_CLOSE", "closed")
  BY <1>1, <1>2, <1>6 DEF Ends, st
<1> QED
  BY <1>5, <1>6, <1>7, <1>8

WithFsm(a, d, f) == [a EXCEPT !.fsm[d] = f]

LEMMA WithFsmIs ==
  ASSUME NEW Q, NEW a \in Analyzers(Q), NEW d \in Directions, NEW f \in FsmStates
  PROVE  /\ WithFsm(a, d, f) \in Analyzers(Q) /\ SameCounts(a, WithFsm(a, d, f))
         /\ Moves(a, WithFsm(a, d, f), d, f)
<1> DEFINE fsm == [a.fsm EXCEPT ![d] = f]
           n   == [a EXCEPT !.fsm = fsm]
<1>1. Other(d) \in Directions /\ Other(d) # d
  BY DirectionsAre
<1>2. fsm \in [Directions -> FsmStates] /\ fsm[d] = f /\ fsm[Other(d)] = a.fsm[Other(d)]
  BY <1>1, AnalyzerIs
<1>3. WithFsm(a, d, f) = n
  BY DEF WithFsm
<1> HIDE DEF fsm
<1>4. n \in Analyzers(Q) /\ n.fsm = fsm /\ n.total = a.total /\ n.up = a.up /\ n.role = a.role
      /\ n.state = a.state /\ n.records = a.records
  BY <1>2 DEF Analyzers
<1> HIDE DEF n
<1> QED
  BY <1>2, <1>3, <1>4 DEF SameCounts, Moves

(* ProcHalfConnFsm, on an end that is not closed. *)
LEMMA ProcHalfConnFsmIs ==
  ASSUME NEW Q, NEW a \in Analyzers(Q), NEW d \in Directions, NEW e,
         a.fsm[d] # "CLOSED",
         NEW f \in FsmStates \cup {"error"}, f = ProcessTcpFsm(a.role[d], e, a.fsm[d])
  PROVE  /\ ProcHalfConnFsm(a, d, e) \in Analyzers(Q) /\ SameCounts(a, ProcHalfConnFsm(a, d, e))
         /\ \/ f = "error" /\ Ends(a, ProcHalfConnFsm(a, d, e), "TCE_CONN_ABORT", "failed")
            \/ f = "CLOSED" /\ Ends(a, ProcHalfConnFsm(a, d, e), "TCE_CONN_CLOSE", "closed")
            \/ f \notin {"error", "CLOSED"} /\ Moves(a, ProcHalfConnFsm(a, d, e), d, f)
<1> DEFINE n == ProcHalfConnFsm(a, d, e)
<1>1. n = CASE a.fsm[d] = "CLOSED"                    -> a
            [] a.fsm[d] # "CLOSED" /\ f = "error"     -> ConnectionFailed(a)
            [] a.fsm[d] # "CLOSED" /\ f = "CLOSED"    -> ConnectionClosed(WithFsm(a, d, f))
            [] OTHER                                  -> WithFsm(a, d, f)
  BY DEF ProcHalfConnFsm, WithFsm
<1> HIDE DEF n
<1>2. CASE f = "error"
  <2>1. n = ConnectionFailed(a)
    BY <1>1, <1>2
  <2> QED
    BY <1>2, <2>1, ConnectionFailedIs DEF n
<1>3. CASE f = "CLOSED"
  <2> DEFINE m == WithFsm(a, d, f)
  <2>1. n = ConnectionClosed(m)
    BY <1>1, <1>3
  <2>2. m \in Analyzers(Q) /\ SameCounts(a, m) /\ Moves(a, m, d, f)
    BY <1>3, WithFsmIs DEF FsmStates
  <2> HIDE DEF m
  <2>3. n \in Analyzers(Q) /\ SameCounts(m, n) /\ Ends(m, n, "TCE_CONN_CLOSE", "closed")
    BY <2>1, <2>2, ConnectionClosedIs
  <2>4. SameCounts(a, n)
    BY <2>2, <2>3 DEF SameCounts
  <2>5. Ends(a, n, "TCE_CONN_CLOSE", "closed")
    BY <2>2, <2>3 DEF Ends, Moves
  <2> QED
    BY <1>3, <2>3, <2>4, <2>5 DEF n
<1>4. CASE f \notin {"error", "CLOSED"}
  <2>1. n = WithFsm(a, d, f)
    BY <1>1, <1>4
  <2>2. f \in FsmStates
    BY <1>4
  <2>3. n \in Analyzers(Q) /\ SameCounts(a, n) /\ Moves(a, n, d, f)
    BY <2>1, <2>2, WithFsmIs
  <2> QED
    BY <1>4, <2>3 DEF n
<1> QED
  BY <1>2, <1>3, <1>4

(* What a packet means to a state machine, and where it takes the one of   *)
(* the end d.                                                              *)
Kind(p) == p.flags \cap {"syn", "ack", "fin"}

After(role, p, d, f) ==
  ProcessTcpFsm(role, Event(IF d = p.dir THEN "send" ELSE "recv", Kind(p)), f)

(* Neither end is closed. *)
Open(a) == \A d \in Directions : a.fsm[d] # "CLOSED"

(* Both state machines go on, each counting the packet's FIN. *)
FsmGoesOn(f, n, d, p) ==
  /\ n \in FsmStates \ {"INIT", "CLOSED"}
  /\ f = "INIT" => n \in {"SYN_SENT", "SYN_RCV"}
  /\ f # "INIT" => \A fins \in SUBSET Directions :
                     Agrees(f, d, fins) => Agrees(n, d, Fins(fins, p.flags, p.dir))

RunsOn(a, p, n) ==
  /\ \A d \in Directions : /\ FsmGoesOn(a.fsm[d], n.fsm[d], d, p)
                            /\ n.fsm[d] = After(a.role[d], p, d, a.fsm[d])
  /\ n.role = a.role
  /\ n.state = a.state /\ n.records = a.records

(* What makes the connection fail. *)
Refused(a, p) ==
  "rst" \in p.flags \/ \E d \in Directions : After(a.role[d], p, d, a.fsm[d]) = "error"

(* One end's state machine moves on the packet p, which that end sent if   *)
(* side = "send".                                                          *)
LEMMA ProcessTcpFsmIs ==
  ASSUME NEW role \in Roles, NEW p \in Packet, NEW side \in Sides, NEW d \in Directions,
         By(side, d) = p.dir, NEW f \in FsmStates \ {"CLOSED"}
  PROVE  LET n == ProcessTcpFsm(role, Event(side, p.flags \cap {"syn", "ack", "fin"}), f) IN
         /\ n \in FsmStates \cup {"error"}
         /\ n = "CLOSED" => f = "LAST_ACK"
         /\ n \notin {"error", "CLOSED"} => FsmGoesOn(f, n, d, p)
<1> DEFINE flags == p.flags \cap {"syn", "ack", "fin"}
           n     == ProcessTcpFsm(role, Event(side, flags), f)
<1>1. flags \in SUBSET {"syn", "ack", "fin"} /\ ("fin" \in flags <=> "fin" \in p.flags)
  OBVIOUS
<1>2. n \in (FsmStates \cup {"error"}) \ {"INIT"} /\ (n = "CLOSED" => f = "LAST_ACK")
  BY <1>1, FsmMoves
<1>3. f = "INIT" => n \in {"SYN_SENT", "SYN_RCV"}
  BY DEF ProcessTcpFsm, ProcInitState
<1>4. ASSUME f # "INIT", NEW fins \in SUBSET Directions, Agrees(f, d, fins)
      PROVE  Agrees(n, d, Fins(fins, p.flags, p.dir))
  <2>1. Agrees(n, d, Fins(fins, flags, By(side, d)))
    BY <1>1, <1>4, FsmCounts
  <2>2. Fins(fins, flags, By(side, d)) = Fins(fins, p.flags, p.dir)
    BY <1>1 DEF Fins
  <2> QED
    BY <2>1, <2>2
<1> HIDE DEF n
<1>5. n \notin {"error", "CLOSED"} => FsmGoesOn(f, n, d, p)
  BY <1>2, <1>3, <1>4 DEF FsmGoesOn
<1> QED
  BY <1>2, <1>5 DEF n

LEMMA ProcessFsmIs ==
  ASSUME NEW Q, NEW a \in Analyzers(Q), NEW p \in Packet, Open(a)
  PROVE  /\ ProcessFsm(a, p) \in Analyzers(Q) /\ SameCounts(a, ProcessFsm(a, p))
         /\ \/ Ends(a, ProcessFsm(a, p), "TCE_CONN_ABORT", "failed") /\ Refused(a, p)
            \/ /\ \E d \in Directions : a.fsm[d] = "LAST_ACK"
               /\ Ends(a, ProcessFsm(a, p), "TCE_CONN_CLOSE", "closed")
            \/ RunsOn(a, p, ProcessFsm(a, p))
<1> DEFINE d     == p.dir
           o     == Other(p.dir)
           flags == p.flags \cap {"syn", "ack", "fin"}
           n     == ProcessFsm(a, p)
           m     == ProcHalfConnFsm(a, d, Event("send", flags))
<1>1. d \in Directions /\ o \in Directions /\ o # d /\ Other(o) = d
      /\ \A e \in Directions : e = d \/ e = o
  BY PacketIs, DirectionsAre
<1>2. Opposite(d) = o
  BY DEF Opposite, Other
<1>3. CASE "rst" \in p.flags
  <2>1. n = ConnectionFailed(a)
    BY <1>3 DEF ProcessFsm
  <2> QED
    BY <1>3, <2>1, ConnectionFailedIs DEF Refused
<1>4. CASE "rst" \notin p.flags
  <2>1. n = ProcHalfConnFsm(m, o, Event("recv", flags))
    BY <1>2, <1>4 DEF ProcessFsm
  <2> DEFINE f == ProcessTcpFsm(a.role[d], Event("send", flags), a.fsm[d])
             g == ProcessTcpFsm(a.role[o], Event("recv", flags), a.fsm[o])
  <2>2. /\ a.role[d] \in Roles /\ a.role[o] \in Roles
        /\ a.fsm[d] \in FsmStates \ {"CLOSED"} /\ a.fsm[o] \in FsmStates \ {"CLOSED"}
    BY <1>1, AnalyzerIs DEF Open
  <2>3. /\ f \in FsmStates \cup {"error"} /\ (f = "CLOSED" => a.fsm[d] = "LAST_ACK")
        /\ f \notin {"error", "CLOSED"} => FsmGoesOn(a.fsm[d], f, d, p)
    <3>1. By("send", d) = p.dir /\ "send" \in Sides
      BY DEF By, Sides
    <3> QED
      BY <1>1, <2>2, <3>1, ProcessTcpFsmIs
  <2>4. /\ g \in FsmStates \cup {"error"} /\ (g = "CLOSED" => a.fsm[o] = "LAST_ACK")
        /\ g \notin {"error", "CLOSED"} => FsmGoesOn(a.fsm[o], g, o, p)
    <3>1. By("recv", o) = p.dir /\ "recv" \in Sides
      BY <1>1 DEF By, Sides
    <3> QED
      BY <1>1, <2>2, <3>1, ProcessTcpFsmIs
  <2>41. f = After(a.role[d], p, d, a.fsm[d]) /\ g = After(a.role[o], p, o, a.fsm[o])
    BY <1>1 DEF After, Kind
  <2>42. f = "error" \/ g = "error" => Refused(a, p)
    BY <1>1, <2>41 DEF Refused
  <2> HIDE DEF n
  <2>5. /\ m \in Analyzers(Q) /\ SameCounts(a, m)
        /\ \/ f = "error" /\ Ends(a, m, "TCE_CONN_ABORT", "failed")
           \/ f = "CLOSED" /\ Ends(a, m, "TCE_CONN_CLOSE", "closed")
           \/ f \notin {"error", "CLOSED"} /\ Moves(a, m, d, f)
    <3>1. a.fsm[d] # "CLOSED"
      BY <2>2
    <3> HIDE DEF f
    <3> QED
      BY <1>1, <2>3, <3>1, ProcHalfConnFsmIs DEF f
  <2> HIDE DEF m
  <2>6. CASE \E event, what : Ends(a, m, event, what)
    <3>1. m.fsm[o] = "CLOSED"
      BY <1>1, <2>6 DEF Ends
    <3>2. n = m
      BY <2>1, <3>1 DEF ProcHalfConnFsm
    <3> HIDE DEF f
    <3> QED
      BY <1>1, <2>3, <2>42, <2>5, <2>6, <3>2 DEF n, Moves, Ends
  <2>7. CASE f \notin {"error", "CLOSED"} /\ Moves(a, m, d, f)
    <3>1. m.fsm[o] = a.fsm[o] /\ m.fsm[d] = f /\ m.role = a.role
          /\ m.state = a.state /\ m.records = a.records
      BY <2>7 DEF Moves
    <3>2. g = ProcessTcpFsm(m.role[o], Event("recv", flags), m.fsm[o])
      BY <3>1
    <3>3. m.fsm[o] # "CLOSED"
      BY <2>2, <3>1
    <3> HIDE DEF f, g
    <3>4. /\ n \in Analyzers(Q) /\ SameCounts(m, n)
          /\ \/ g = "error" /\ Ends(m, n, "TCE_CONN_ABORT", "failed")
             \/ g = "CLOSED" /\ Ends(m, n, "TCE_CONN_CLOSE", "closed")
             \/ g \notin {"error", "CLOSED"} /\ Moves(m, n, o, g)
      BY <1>1, <2>1, <2>4, <2>5, <3>2, <3>3, ProcHalfConnFsmIs
    <3>5. SameCounts(a, n)
      BY <2>5, <3>4 DEF SameCounts
    <3>6. CASE g = "error" /\ Ends(m, n, "TCE_CONN_ABORT", "failed")
      <4>1. Ends(a, n, "TCE_CONN_ABORT", "failed")
        BY <3>1, <3>6 DEF Ends
      <4> QED
        BY <2>42, <3>4, <3>5, <3>6, <4>1 DEF n
    <3>7. CASE g = "CLOSED" /\ Ends(m, n, "TCE_CONN_CLOSE", "closed")
      <4>1. Ends(a, n, "TCE_CONN_CLOSE", "closed")
        BY <3>1, <3>7 DEF Ends
      <4> QED
        BY <1>1, <2>4, <3>4, <3>5, <3>7, <4>1 DEF n
    <3>8. CASE g \notin {"error", "CLOSED"} /\ Moves(m, n, o, g)
      <4>1. /\ n.fsm[o] = g /\ n.fsm[d] = f /\ n.role = a.role
            /\ n.state = a.state /\ n.records = a.records
        BY <1>1, <3>1, <3>8 DEF Moves
      <4>2. FsmGoesOn(a.fsm[o], n.fsm[o], o, p) /\ FsmGoesOn(a.fsm[d], n.fsm[d], d, p)
        BY <2>3, <2>4, <2>7, <3>8, <4>1
      <4>3. RunsOn(a, p, n)
        BY <1>1, <2>41, <4>1, <4>2 DEF RunsOn
      <4> QED
        BY <3>4, <3>5, <4>3 DEF n
    <3> QED
      BY <3>4, <3>6, <3>7, <3>8
  <2> QED
    BY <2>5, <2>6, <2>7
<1> QED
  BY <1>3, <1>4

(* The role of an end once p is counted. *)
RoleAt(a, p, d) ==
  IF a.total > 0 THEN a.role[d] ELSE IF d = p.dir THEN "client" ELSE "server"

LEMMA ProcessConnStatIs ==
  ASSUME NEW Q, NEW a \in Analyzers(Q), NEW p \in Packet, NEW now \in Nat
  PROVE  LET n == ProcessConnStat(a, p, now) IN
         /\ n \in Analyzers(Q) /\ n.total = a.total + 1
         /\ n.fsm = a.fsm /\ n.state = a.state /\ n.records = a.records /\ n.up = a.up
         /\ \A d \in Directions : n.role[d] = RoleAt(a, p, d)
<1> DEFINE n    == ProcessConnStat(a, p, now)
           role == [d \in Directions |-> IF d = p.dir THEN "client" ELSE "server"]
           more == a.total + 1
<1>1. a.total \in Nat /\ more \in Nat
  BY AnalyzerIs
<1>2. role \in [Directions -> Roles]
  BY DEF Roles
<1>3. CASE a.total > 0
  <2>1. n = [a EXCEPT !.total = more]
    BY <1>3 DEF ProcessConnStat
  <2> HIDE DEF more, n
  <2>2. n \in Analyzers(Q) /\ n.total = more /\ n.fsm = a.fsm /\ n.state = a.state
        /\ n.records = a.records /\ n.up = a.up /\ n.role = a.role
    BY <1>1, <2>1 DEF Analyzers
  <2> QED
    BY <1>3, <2>2 DEF n, more, RoleAt
<1>4. CASE ~ (a.total > 0)
  <2>1. n = [a EXCEPT !.total = 1, !.first_time = now, !.role = role]
    BY <1>4 DEF ProcessConnStat, Directions
  <2>2. more = 1
    BY <1>1, <1>4
  <2> HIDE DEF more, n, role
  <2>3. n \in Analyzers(Q) /\ n.total = 1 /\ n.fsm = a.fsm /\ n.state = a.state
        /\ n.records = a.records /\ n.up = a.up /\ n.role = role
    BY <1>2, <2>1 DEF Analyzers
  <2>4. \A d \in Directions : n.role[d] = RoleAt(a, p, d)
    BY <1>4, <2>3 DEF role, RoleAt
  <2> QED
    BY <2>2, <2>3, <2>4 DEF n, more
<1> QED
  BY <1>3, <1>4

(* What CheckHandShakeTimeOut may add: nothing, or that the connection is  *)
(* established, and an event that does not end it.                         *)
Checks(a, n) ==
  /\ n.role = a.role /\ n.fsm = a.fsm /\ n.total = a.total /\ n.up = a.up
  /\ \/ n.state = a.state /\ n.records = a.records
     \/ /\ \A d \in Directions : a.fsm[d] = "ESTABLISHED"
        /\ n.state = a.state \cup {"established"}
        /\ \/ n.records = a.records
           \/ \E r \in Recordable : r.event = "TCE_HS_TIMEOUT" /\ n.records = Append(a.records, r)

LEMMA CheckHandshakeIs ==
  ASSUME NEW Q, NEW a \in Analyzers(Q), NEW now \in Nat
  PROVE  CheckHandshake(a, now) \in Analyzers(Q) /\ Checks(a, CheckHandshake(a, now))
<1> DEFINE n     == CheckHandshake(a, now)
           delay == IF now >= a.first_time THEN now - a.first_time ELSE a.first_time - now
           slow  == delay > HandshakeTimeout
           r     == [event |-> "TCE_HS_TIMEOUT", delay |-> 0]
           yes   == TRUE
           given == a.abandoned \/ slow
           st    == a.state \cup {"established"}
           recs  == IF slow THEN Append(a.records, r) ELSE a.records
<1>1. CASE a.measured \/ \E d \in Directions : a.fsm[d] # "ESTABLISHED"
  <2>1. n = a
    BY <1>1 DEF CheckHandshake, Directions
  <2> QED
    BY <2>1 DEF Checks
<1>2. CASE ~ (a.measured \/ \E d \in Directions : a.fsm[d] # "ESTABLISHED")
  <2>1. delay \in Nat
    BY AnalyzerIs
  <2>2. r \in Recordable /\ r.event = "TCE_HS_TIMEOUT"
    BY DEF Recordable
  <2>3. yes \in BOOLEAN /\ given \in BOOLEAN /\ st \in SUBSET ConnStates
    BY AnalyzerIs DEF ConnStates
  <2>4. n = [a EXCEPT !.delay = delay, !.measured = yes, !.state = st, !.abandoned = given,
                      !.records = recs]
    BY <1>2 DEF CheckHandshake, Directions
  <2>5. recs \in Seq(Recordable) /\ (recs = a.records \/ recs = Append(a.records, r))
    <3> HIDE DEF r, slow
    <3>1. Append(a.records, r) \in Seq(Recordable) /\ a.records \in Seq(Recordable)
      BY <2>2, AnalyzerIs, AppendProperties
    <3> QED
      BY <3>1
  <2> HIDE DEF n, delay, slow, r, yes, given, st, recs
  <2>6. n \in Analyzers(Q) /\ n.role = a.role /\ n.fsm = a.fsm /\ n.total = a.total /\ n.up = a.up
        /\ n.state = st /\ n.records = recs
    BY <2>1, <2>3, <2>4, <2>5 DEF Analyzers
  <2>7. n.state = a.state \cup {"established"}
    BY <2>6 DEF st
  <2>8. n.records = a.records \/ \E x \in Recordable : x.event = "TCE_HS_TIMEOUT" /\ n.records = Append(a.records, x)
    BY <2>2, <2>5, <2>6
  <2>9. Checks(a, n)
    BY <1>2, <2>6, <2>7, <2>8 DEF Checks
  <2> QED
    BY <2>6, <2>9 DEF n
<1> QED
  BY <1>1, <1>2

Ended(a) == a.state \cap {"failed", "closed"} # {}

Concludes(a, n, event) ==
  /\ Ended(n) /\ \A d \in Directions : n.fsm[d] = "CLOSED"
  /\ \E r \in Recordable : r.event = event /\ n.records = Append(a.records, r)

Continues(a, p, n) ==
  /\ ~ Ended(n)
  /\ \A d \in Directions : /\ FsmGoesOn(a.fsm[d], n.fsm[d], d, p)
                            /\ n.role[d] = RoleAt(a, p, d)
                            /\ n.fsm[d] = After(n.role[d], p, d, a.fsm[d])
  /\ \/ n.records = a.records
     \/ \E r \in Recordable : r.event = "TCE_HS_TIMEOUT" /\ n.records = Append(a.records, r)

Unexpected(a, p) ==
  \/ "rst" \in p.flags
  \/ \E d \in Directions : After(RoleAt(a, p, d), p, d, a.fsm[d]) = "error"

(* What one packet makes of a connection that has not ended. *)
Takes(a, p, n) ==
  /\ n.total = a.total + 1 /\ n.up = IF p.len > 0 THEN Append(a.up, p) ELSE a.up
  /\ \/ Concludes(a, n, "TCE_CONN_ABORT") /\ Unexpected(a, p)
     \/ Concludes(a, n, "TCE_CONN_CLOSE") /\ \E d \in Directions : a.fsm[d] = "LAST_ACK"
     \/ Continues(a, p, n)

LEMMA CheckedIs ==
  ASSUME NEW Q, NEW a \in Analyzers(Q), ~ Ended(a), NEW p \in Packet, a.total > 0,
         NEW m \in Analyzers(Q), NEW n \in Analyzers(Q), Checks(m, n),
         \/ Ends(a, m, "TCE_CONN_ABORT", "failed") /\ Refused(a, p)
         \/ /\ \E d \in Directions : a.fsm[d] = "LAST_ACK"
            /\ Ends(a, m, "TCE_CONN_CLOSE", "closed")
         \/ RunsOn(a, p, m)
  PROVE  \/ Concludes(a, n, "TCE_CONN_ABORT") /\ Unexpected(a, p)
         \/ Concludes(a, n, "TCE_CONN_CLOSE") /\ \E d \in Directions : a.fsm[d] = "LAST_ACK"
         \/ Continues(a, p, n)
<1>0. "S2B" \in Directions
  BY DEF Directions
<1>1. ASSUME NEW event, NEW what \in {"failed", "closed"}, Ends(a, m, event, what)
      PROVE  Concludes(a, n, event)
  <2>1. m.fsm["S2B"] = "CLOSED" /\ m.state = a.state \cup {what}
    BY <1>0, <1>1 DEF Ends
  <2>2. n.fsm = m.fsm /\ n.state = m.state /\ n.records = m.records
    BY <1>0, <2>1 DEF Checks
  <2>3. Ended(n)
    BY <2>1, <2>2 DEF Ended
  <2> QED
    BY <1>1, <2>2, <2>3 DEF Ends, Concludes
<1>2. CASE RunsOn(a, p, m)
  <2>1. n.fsm = m.fsm /\ m.state = a.state /\ m.records = a.records
    BY <1>2 DEF RunsOn, Checks
  <2>2. n.state = a.state \/ n.state = a.state \cup {"established"}
    BY <2>1 DEF Checks
  <2>3. ~ Ended(n)
    BY <2>2 DEF Ended
  <2>4. n.records = a.records \/ \E r \in Recordable : r.event = "TCE_HS_TIMEOUT" /\ n.records = Append(a.records, r)
    BY <2>1 DEF Checks
  <2>5. \A d \in Directions : n.role[d] = RoleAt(a, p, d) /\ RoleAt(a, p, d) = a.role[d]
    BY <1>2 DEF RunsOn, Checks, RoleAt
  <2> QED
    BY <1>2, <2>1, <2>3, <2>4, <2>5 DEF RunsOn, Continues
<1>3. Refused(a, p) => Unexpected(a, p)
  BY DEF Refused, Unexpected, RoleAt
<1> QED
  BY <1>1, <1>2, <1>3

LEMMA AnalyzePktIs ==
  ASSUME NEW a \in Analyzers(Packet), ~ Ended(a), Open(a), NEW p \in Packet, NEW now \in Nat
  PROVE  AnalyzePkt(a, p, now) \in Analyzers(Packet) /\ Takes(a, p, AnalyzePkt(a, p, now))
<1> DEFINE b    == ProcessConnStat(a, p, now)
           m    == ProcessFsm(b, p)
           done == CheckHandshake(m, now)
           up   == IF p.len > 0 THEN Append(done.up, p) ELSE done.up
           n    == [done EXCEPT !.up = up]
<1>1. AnalyzePkt(a, p, now) = n
  BY DEF AnalyzePkt, Ended
<1>2. /\ b \in Analyzers(Packet) /\ b.total = a.total + 1
      /\ b.fsm = a.fsm /\ b.state = a.state /\ b.records = a.records /\ b.up = a.up
      /\ \A d \in Directions : b.role[d] = RoleAt(a, p, d)
  BY ProcessConnStatIs
<1>21. b.total > 0 /\ \A d \in Directions : RoleAt(b, p, d) = RoleAt(a, p, d)
  <2>1. a.total \in Nat
    BY AnalyzerIs
  <2>2. b.total > 0
    BY <1>2, <2>1
  <2> HIDE DEF b
  <2>3. \A d \in Directions : RoleAt(b, p, d) = b.role[d]
    BY <2>2 DEF RoleAt
  <2> QED
    BY <1>2, <2>2, <2>3
<1>3. Open(b)
  BY <1>2 DEF Open
<1> HIDE DEF b
<1>4. /\ m \in Analyzers(Packet) /\ SameCounts(b, m)
      /\ \/ Ends(b, m, "TCE_CONN_ABORT", "failed") /\ Refused(b, p)
         \/ /\ \E d \in Directions : b.fsm[d] = "LAST_ACK"
            /\ Ends(b, m, "TCE_CONN_CLOSE", "closed")
         \/ RunsOn(b, p, m)
  BY <1>2, <1>3, ProcessFsmIs
<1> HIDE DEF m
<1>5. done \in Analyzers(Packet) /\ Checks(m, done)
  BY <1>4, CheckHandshakeIs
<1> HIDE DEF done
<1>6. up \in Seq(Packet) /\ up = IF p.len > 0 THEN Append(a.up, p) ELSE a.up
  <2>1. done.up = a.up /\ done.up \in Seq(Packet)
    BY <1>2, <1>4, <1>5, AnalyzerIs DEF SameCounts, Checks
  <2>2. Append(done.up, p) \in Seq(Packet)
    BY <2>1, AppendProperties
  <2> QED
    BY <2>1, <2>2
<1> HIDE DEF up
<1>7. n \in Analyzers(Packet) /\ n.role = done.role /\ n.fsm = done.fsm /\ n.state = done.state /\ n.records = done.records
      /\ n.total = done.total /\ n.up = up
  BY <1>5, <1>6 DEF Analyzers
<1> HIDE DEF n
<1>8. Checks(m, done) /\ n.total = a.total + 1
  BY <1>2, <1>4, <1>5, <1>7 DEF SameCounts, Checks
<1>9. ~ Ended(b)
  BY <1>2 DEF Ended
<1>10. \/ Concludes(b, done, "TCE_CONN_ABORT") /\ Unexpected(b, p)
       \/ Concludes(b, done, "TCE_CONN_CLOSE") /\ \E d \in Directions : b.fsm[d] = "LAST_ACK"
       \/ Continues(b, p, done)
  BY <1>2, <1>21, <1>4, <1>5, <1>9, CheckedIs
<1>11. ASSUME NEW event, Concludes(b, done, event) PROVE Concludes(a, n, event)
  BY <1>2, <1>7, <1>11 DEF Concludes, Ended
<1>12. Continues(b, p, done) => Continues(a, p, n)
  BY <1>2, <1>21, <1>7 DEF Continues, Ended
<1>121. Unexpected(b, p) => Unexpected(a, p)
  BY <1>2, <1>21 DEF Unexpected
<1>13. \/ Concludes(a, n, "TCE_CONN_ABORT") /\ Unexpected(a, p)
       \/ Concludes(a, n, "TCE_CONN_CLOSE") /\ \E d \in Directions : a.fsm[d] = "LAST_ACK"
       \/ Continues(a, p, n)
  BY <1>2, <1>10, <1>11, <1>12, <1>121
<1>14. Takes(a, p, n)
  BY <1>6, <1>7, <1>8, <1>13 DEF Takes
<1> QED
  BY <1>1, <1>7, <1>14

LEMMA AnalyzeEnded ==
  ASSUME NEW a, Ended(a), NEW p, NEW now
  PROVE  AnalyzePkt(a, p, now) = a
BY DEF AnalyzePkt, Ended

-----------------------------------------------------------------------------
(* What the analyzer knows of the packets it was given, the first k of the *)
(* log.                                                                    *)

FinsOf(log, k) ==
  {d \in Directions : \E i \in 1 .. k : log[i].dir = d /\ "fin" \in log[i].flags}

DataUp(log, k, a) == \A i \in 1 .. k : log[i].len > 0 => log[i] \in Range(a.up)

(* The first packet is no more than a SYN. *)
OpensOnly(log) == log # <<>> => "fin" \notin log[1].flags

CompleteAt(log, k, a) ==
  /\ DataUp(log, k, a)
  /\ OpensOnly(log) => \A d \in Directions : d \in FinsOf(log, k)

Conclusive(a, i) ==
  i \in 1 .. Len(a.records) /\ a.records[i].event \in {"TCE_CONN_ABORT", "TCE_CONN_CLOSE"}

GoingOn(log, k, a) ==
  /\ Open(a) /\ DataUp(log, k, a) /\ \A i : ~ Conclusive(a, i)
  /\ \A d \in Directions :
       /\ a.fsm[d] = "INIT" => k = 0
       /\ OpensOnly(log) => Agrees(a.fsm[d], d, FinsOf(log, k))

Over(log, k, a) ==
  /\ \A d \in Directions : a.fsm[d] = "CLOSED"
  /\ \A i, j : Conclusive(a, i) /\ Conclusive(a, j) => i = j
  /\ \A i \in 1 .. Len(a.records) :
       a.records[i].event = "TCE_CONN_CLOSE" => \E m \in 0 .. k : CompleteAt(log, m, a)

Follows(log, k, a) ==
  /\ a \in Analyzers(Packet) /\ a.total <= k
  /\ IF Ended(a) THEN Over(log, k, a) ELSE GoingOn(log, k, a)

LEMMA FinsOfNext ==
  ASSUME NEW log \in Seq(Packet), NEW k \in Nat, k < Len(log)
  PROVE  FinsOf(log, k + 1) = Fins(FinsOf(log, k), log[k + 1].flags, log[k + 1].dir)
<1> DEFINE p == log[k + 1]
<1>1. k + 1 \in 1 .. Len(log) /\ p \in Packet /\ p.dir \in Directions
  BY PacketIs
<1>2. \A i : i \in 1 .. k + 1 <=> i \in 1 .. k \/ i = k + 1
  OBVIOUS
<1>3. \A d \in Directions : d \in FinsOf(log, k + 1) <=> d \in FinsOf(log, k) \/ (p.dir = d /\ "fin" \in p.flags)
  BY <1>2 DEF FinsOf
<1>4. FinsOf(log, k) \subseteq Directions /\ FinsOf(log, k + 1) \subseteq Directions
  BY DEF FinsOf
<1> QED
  BY <1>1, <1>3, <1>4 DEF Fins

LEMMA DataUpNext ==
  ASSUME NEW log \in Seq(Packet), NEW k \in Nat, k < Len(log), NEW a \in Analyzers(Packet),
         DataUp(log, k, a), NEW n \in Analyzers(Packet),
         n.up = IF log[k + 1].len > 0 THEN Append(a.up, log[k + 1]) ELSE a.up
  PROVE  DataUp(log, k + 1, n)
<1> DEFINE p == log[k + 1]
<1>1. k + 1 \in 1 .. Len(log) /\ p \in Packet
  OBVIOUS
<1>2. a.up \in Seq(Packet)
  BY AnalyzerIs
<1>3. Range(Append(a.up, p)) = Range(a.up) \cup {p}
  BY <1>1, <1>2, AppendRange
<1> HIDE DEF p
<1>4. Range(a.up) \subseteq Range(n.up) /\ (p.len > 0 => p \in Range(n.up))
  BY <1>3 DEF p
<1>5. \A i : i \in 1 .. k + 1 <=> i \in 1 .. k \/ i = k + 1
  OBVIOUS
<1> QED
  BY <1>4, <1>5 DEF DataUp, p

(* The records after one more, r. *)
LEMMA RecordsNext ==
  ASSUME NEW a \in Analyzers(Packet), NEW n \in Analyzers(Packet), NEW r \in Recordable,
         n.records = Append(a.records, r)
  PROVE  /\ Len(a.records) \in Nat /\ Len(n.records) = Len(a.records) + 1
         /\ n.records[Len(a.records) + 1] = r
         /\ \A i \in 1 .. Len(a.records) : n.records[i] = a.records[i]
         /\ \A i : Conclusive(n, i) =>
              Conclusive(a, i) \/ (i = Len(a.records) + 1 /\ r.event \in {"TCE_CONN_ABORT", "TCE_CONN_CLOSE"})
<1> DEFINE L == Len(a.records)
<1>1. a.records \in Seq(Recordable)
  BY AnalyzerIs
<1>2. /\ L \in Nat /\ Len(n.records) = L + 1 /\ n.records[L + 1] = r
      /\ \A i \in 1 .. L : n.records[i] = a.records[i]
  BY <1>1, AppendProperties, LenProperties
<1> HIDE DEF L
<1>3. \A i : i \in 1 .. L + 1 <=> i \in 1 .. L \/ i = L + 1
  BY <1>2
<1>4. \A i : Conclusive(n, i) =>
        Conclusive(a, i) \/ (i = L + 1 /\ r.event \in {"TCE_CONN_ABORT", "TCE_CONN_CLOSE"})
  BY <1>2, <1>3 DEF Conclusive, L
<1> QED
  BY <1>2, <1>4 DEF L

LEMMA ContinuesGoesOn ==
  ASSUME NEW log \in Seq(Packet), NEW k \in Nat, k < Len(log),
         NEW a \in Analyzers(Packet), GoingOn(log, k, a),
         NEW n \in Analyzers(Packet), DataUp(log, k + 1, n), Continues(a, log[k + 1], n)
  PROVE  GoingOn(log, k + 1, n)
<1> DEFINE p == log[k + 1]
<1>1. \A d \in Directions : FsmGoesOn(a.fsm[d], n.fsm[d], d, p)
  BY DEF Continues
<1>2. Open(n) /\ \A d \in Directions : n.fsm[d] # "INIT"
  BY <1>1 DEF FsmGoesOn, Open
<1>3. \A i : ~ Conclusive(n, i)
  <2>1. CASE n.records = a.records
    BY <2>1 DEF GoingOn, Conclusive
  <2>2. CASE \E r \in Recordable : r.event = "TCE_HS_TIMEOUT" /\ n.records = Append(a.records, r)
    <3>1. PICK r \in Recordable : r.event = "TCE_HS_TIMEOUT" /\ n.records = Append(a.records, r)
      BY <2>2
    <3>2. \A i : Conclusive(n, i) => Conclusive(a, i)
      BY <3>1, RecordsNext
    <3> QED
      BY <3>2 DEF GoingOn
  <2> QED
    BY <2>1, <2>2 DEF Continues
<1>4. ASSUME NEW d \in Directions, OpensOnly(log)
      PROVE  Agrees(n.fsm[d], d, FinsOf(log, k + 1))
  <2>1. FinsOf(log, k + 1) = Fins(FinsOf(log, k), p.flags, p.dir) /\ FinsOf(log, k) \in SUBSET Directions
    BY FinsOfNext DEF FinsOf
  <2>2. CASE a.fsm[d] = "INIT"
    <3>1. k = 0 /\ log # <<>>
      BY <2>2 DEF GoingOn
    <3>2. FinsOf(log, k) = {} /\ "fin" \notin p.flags
      BY <1>4, <3>1 DEF FinsOf, OpensOnly
    <3>3. FinsOf(log, k + 1) = {}
      BY <2>1, <3>2 DEF Fins
    <3>4. n.fsm[d] \in {"SYN_SENT", "SYN_RCV"}
      BY <1>1, <2>2 DEF FsmGoesOn
    <3> QED
      BY <3>3, <3>4 DEF Agrees
  <2>3. CASE a.fsm[d] # "INIT"
    <3>1. Agrees(a.fsm[d], d, FinsOf(log, k))
      BY <1>4 DEF GoingOn
    <3> QED
      BY <1>1, <2>1, <2>3, <3>1 DEF FsmGoesOn
  <2> QED
    BY <2>2, <2>3
<1> QED
  BY <1>2, <1>3, <1>4 DEF GoingOn

LEMMA ConcludesIsOver ==
  ASSUME NEW log \in Seq(Packet), NEW k \in Nat, k < Len(log),
         NEW a \in Analyzers(Packet), GoingOn(log, k, a),
         NEW n \in Analyzers(Packet), DataUp(log, k + 1, n), NEW event, Concludes(a, n, event),
         event = "TCE_CONN_CLOSE" => \E d \in Directions : a.fsm[d] = "LAST_ACK"
  PROVE  Over(log, k + 1, n)
<1>1. PICK r \in Recordable : r.event = event /\ n.records = Append(a.records, r)
  BY DEF Concludes
<1> DEFINE L == Len(a.records)
<1>2. /\ L \in Nat /\ Len(n.records) = L + 1 /\ n.records[L + 1] = r
      /\ \A i \in 1 .. L : n.records[i] = a.records[i]
      /\ \A i : Conclusive(n, i) => Conclusive(a, i) \/ i = L + 1
  BY <1>1, RecordsNext
<1> HIDE DEF L
<1>3. \A i : Conclusive(n, i) => i = L + 1
  BY <1>2 DEF GoingOn
<1>4. ASSUME NEW i \in 1 .. Len(n.records), n.records[i].event = "TCE_CONN_CLOSE"
      PROVE  \E m \in 0 .. k + 1 : CompleteAt(log, m, n)
  <2>1. i = L + 1
    BY <1>3, <1>4 DEF Conclusive
  <2>2. event = "TCE_CONN_CLOSE"
    BY <1>1, <1>2, <1>4, <2>1
  <2>3. PICK e \in Directions : a.fsm[e] = "LAST_ACK"
    BY <2>2
  <2>4. ASSUME OpensOnly(log), NEW d \in Directions PROVE d \in FinsOf(log, k + 1)
    <3>1. Agrees(a.fsm[e], e, FinsOf(log, k))
      BY <2>4 DEF GoingOn
    <3>2. e \in FinsOf(log, k) /\ Other(e) \in FinsOf(log, k)
      BY <2>3, <3>1 DEF Agrees
    <3>3. d \in FinsOf(log, k)
      BY <3>2, DirectionsAre
    <3> QED
      BY <3>3 DEF FinsOf
  <2>5. CompleteAt(log, k + 1, n)
    BY <2>4 DEF CompleteAt
  <2> QED
    BY <2>5
<1> QED
  BY <1>3, <1>4 DEF Concludes, Over

LEMMA FollowsNext ==
  ASSUME NEW log \in Seq(Packet), NEW k \in Nat, k < Len(log), NEW a, Follows(log, k, a),
         NEW now \in Nat
  PROVE  Follows(log, k + 1, AnalyzePkt(a, log[k + 1], now))
<1> DEFINE p == log[k + 1]
           n == AnalyzePkt(a, p, now)
<1>1. p \in Packet /\ a \in Analyzers(Packet) /\ a.total \in Nat /\ a.total <= k
  BY AnalyzerIs DEF Follows
<1>2. CASE Ended(a)
  <2>1. n = a
    BY <1>2, AnalyzeEnded
  <2>2. \A m : m \in 0 .. k => m \in 0 .. k + 1
    OBVIOUS
  <2>3. Over(log, k + 1, a)
    BY <1>2, <2>2 DEF Follows, Over
  <2> QED
    BY <1>1, <1>2, <2>1, <2>3 DEF Follows
<1>3. CASE ~ Ended(a)
  <2>1. GoingOn(log, k, a) /\ Open(a)
    BY <1>3 DEF Follows, GoingOn
  <2>2. n \in Analyzers(Packet) /\ Takes(a, p, n)
    BY <1>1, <1>3, <2>1, AnalyzePktIs
  <2> HIDE DEF n
  <2>3. n.total <= k + 1 /\ n.up = IF p.len > 0 THEN Append(a.up, p) ELSE a.up
    BY <1>1, <2>2 DEF Takes
  <2>4. DataUp(log, k + 1, n)
    <3>1. DataUp(log, k, a)
      BY <2>1 DEF GoingOn
    <3> QED
      BY <1>1, <2>2, <2>3, <3>1, DataUpNext
  <2>5. CASE Continues(a, p, n)
    <3>1. GoingOn(log, k + 1, n) /\ ~ Ended(n)
      BY <1>1, <2>1, <2>2, <2>4, <2>5, ContinuesGoesOn DEF Continues
    <3> QED
      BY <2>2, <2>3, <3>1 DEF Follows, n
  <2>6. ASSUME NEW event, Concludes(a, n, event),
               event = "TCE_CONN_CLOSE" => \E d \in Directions : a.fsm[d] = "LAST_ACK"
        PROVE  Follows(log, k + 1, n)
    <3>1. Over(log, k + 1, n) /\ Ended(n)
      BY <1>1, <2>1, <2>2, <2>4, <2>6, ConcludesIsOver DEF Concludes
    <3> QED
      BY <2>2, <2>3, <3>1 DEF Follows
  <2> QED
    BY <2>2, <2>5, <2>6 DEF Takes, n
<1> QED
  BY <1>2, <1>3

(* A log that has grown begins as it did. *)
Grown(old, new) == Len(old) <= Len(new) /\ \A i \in 1 .. Len(old) : new[i] = old[i]

LEMMA FollowsGrown ==
  ASSUME NEW old \in Seq(Packet), NEW new \in Seq(Packet), Grown(old, new),
         NEW k \in Nat, k <= Len(old), NEW a, Follows(old, k, a)
  PROVE  Follows(new, k, a)
<1>1. \A i \in 1 .. k : new[i] = old[i]
  BY DEF Grown
<1>2. ASSUME NEW m \in 0 .. k
      PROVE  FinsOf(new, m) = FinsOf(old, m) /\ (DataUp(old, m, a) => DataUp(new, m, a))
  <2>1. \A i \in 1 .. m : new[i] = old[i]
    BY <1>1
  <2> QED
    BY <2>1 DEF FinsOf, DataUp
<1>3. OpensOnly(new) => OpensOnly(old)
  <2>1. CASE old = <<>>
    BY <2>1 DEF OpensOnly
  <2>2. CASE old # <<>>
    <3>1. 1 \in 1 .. Len(old) /\ new # <<>>
      BY <2>2 DEF Grown
    <3>2. new[1] = old[1]
      BY <3>1 DEF Grown
    <3> QED
      BY <3>1, <3>2 DEF OpensOnly
  <2> QED
    BY <2>1, <2>2
<1>4. k \in 0 .. k
  OBVIOUS
<1>5. GoingOn(old, k, a) => GoingOn(new, k, a)
  BY <1>2, <1>3, <1>4 DEF GoingOn
<1>6. \A m \in 0 .. k : CompleteAt(old, m, a) => CompleteAt(new, m, a)
  BY <1>2, <1>3 DEF CompleteAt
<1>7. Over(old, k, a) => Over(new, k, a)
  BY <1>6 DEF Over
<1> QED
  BY <1>5, <1>7 DEF Follows

(* The packets after the first k of the log, one after the other: what     *)
(* each of them keeps, all of them keep.                                   *)
KeepsOn(S, A, log, k, now) ==
  \A m \in Nat : \A a \in A :
    k <= m /\ m < Len(log) /\ <<m, a>> \in S => <<m + 1, AnalyzePkt(a, log[m + 1], now)>> \in S

LEMMA AnalysisKeeps ==
  ASSUME NEW log \in Seq(Packet), NEW k \in Nat, k <= Len(log), NEW A, NEW base \in A,
         NEW now, Feeds(A, Packet, now), NEW S, <<k, base>> \in S, KeepsOn(S, A, log, k, now)
  PROVE  <<Len(log), Analysis(base, SubSeq(log, k + 1, Len(log)), now)>> \in S
<1> DEFINE seq == SubSeq(log, k + 1, Len(log))
           L   == Len(log)
<1>1. L \in Nat /\ k <= L /\ seq \in Seq(Packet) /\ Len(seq) = L - k
      /\ \A n \in 1 .. Len(seq) : seq[n] = log[k + n]
  <2>1. /\ seq \in Seq(Packet)
        /\ Len(seq) = (IF k + 1 <= L THEN L - (k + 1) + 1 ELSE 0)
        /\ \A n \in 1 .. Len(seq) : seq[n] = log[(k + 1) + n - 1]
    BY SubSeqProperties, LenProperties
  <2>2. L \in Nat
    BY LenProperties
  <2> HIDE DEF seq, L
  <2>3. Len(seq) = L - k
    BY <2>1, <2>2 DEF L
  <2>4. \A n \in 1 .. Len(seq) : (k + 1) + n - 1 = k + n
    OBVIOUS
  <2> QED
    BY <2>1, <2>2, <2>3, <2>4 DEF L
<1> HIDE DEF seq, L
<1>2. PICK g : AnalyzedBy(g, A, base, seq, now)
  BY <1>1, AnalysisIs
<1>3. /\ g[0] = base /\ Analysis(base, seq, now) = g[Len(seq)]
      /\ \A n \in 0 .. Len(seq) : g[n] \in A
      /\ \A n \in 1 .. Len(seq) : g[n] = AnalyzePkt(g[n - 1], seq[n], now)
  BY <1>2 DEF AnalyzedBy
<1> DEFINE Good == {n \in 0 .. L - k : <<k + n, g[n]>> \in S}
<1>4. 0 \in Good
  BY <1>1, <1>3
<1>5. ASSUME NEW n \in 0 .. L - k, n < L - k, n \in Good PROVE n + 1 \in Good
  <2>1. n + 1 \in 1 .. Len(seq) /\ n \in 0 .. Len(seq) /\ k + n \in Nat /\ k <= k + n /\ k + n < L
        /\ k + (n + 1) = (k + n) + 1 /\ n + 1 \in 0 .. L - k /\ (n + 1) - 1 = n
    BY <1>1, <1>5
  <2>2. g[n + 1] = AnalyzePkt(g[n], seq[n + 1], now) /\ seq[n + 1] = log[(k + n) + 1] /\ g[n] \in A
    BY <1>1, <1>3, <2>1
  <2> DEFINE m == k + n
             b == g[n]
  <2>3. <<m, b>> \in S
    BY <1>5
  <2>4. m \in Nat /\ k <= m /\ m < Len(log) /\ b \in A
    BY <2>1, <2>2 DEF L
  <2> HIDE DEF m, b
  <2>5. <<m + 1, AnalyzePkt(b, log[m + 1], now)>> \in S
    BY <2>3, <2>4 DEF KeepsOn
  <2> QED
    BY <2>1, <2>2, <2>5 DEF m, b
<1> HIDE DEF Good
<1>6. L - k \in Nat
  BY <1>1
<1>7. \A n \in 0 .. L - k : n \in Good
  BY <1>4, <1>5, <1>6, NatIndUpTo
<1>8. L - k \in Good /\ k + (L - k) = L /\ Len(seq) = L - k
  BY <1>1, <1>6, <1>7
<1>9. <<L, g[Len(seq)]>> \in S
  BY <1>8 DEF Good
<1> QED
  BY <1>3, <1>9 DEF L, seq

(* The analyzers a call may leave behind. *)
Sound == {a \in Analyzers(Packet) : Ended(a) \/ Open(a)}

LEMMA SoundFeeds ==
  ASSUME NEW now \in Nat
  PROVE  Feeds(Sound, Packet, now)
<1>1. ASSUME NEW a \in Sound, NEW p \in Packet PROVE AnalyzePkt(a, p, now) \in Sound
  <2>1. CASE Ended(a)
    BY <2>1, AnalyzeEnded
  <2>2. CASE ~ Ended(a)
    <3> DEFINE n == AnalyzePkt(a, p, now)
    <3>0. a \in Analyzers(Packet) /\ Open(a)
      BY <2>2 DEF Sound
    <3>1. n \in Analyzers(Packet) /\ Takes(a, p, n)
      BY <2>2, <3>0, AnalyzePktIs
    <3> HIDE DEF n
    <3>2. Ended(n) \/ Open(n)
      BY <3>1 DEF Takes, Concludes, Continues, FsmGoesOn, Open
    <3> QED
      BY <3>1, <3>2 DEF n, Sound
  <2> QED
    BY <2>1, <2>2
<1> QED
  BY <1>1 DEF Feeds

LEMMA FollowsSound ==
  ASSUME NEW log, NEW k, NEW a, Follows(log, k, a)
  PROVE  a \in Sound
BY DEF Follows, GoingOn, Sound

LEMMA FollowsAnalysis ==
  ASSUME NEW log \in Seq(Packet), NEW k \in Nat, k <= Len(log), NEW base, Follows(log, k, base),
         NEW now \in Nat
  PROVE  Follows(log, Len(log), Analysis(base, SubSeq(log, k + 1, Len(log)), now))
<1> DEFINE S == {s \in Nat \X Sound : Follows(log, s[1], s[2])}
<1>1. <<k, base>> \in S /\ base \in Sound
  BY FollowsSound
<1>2. ASSUME NEW m \in Nat, NEW a \in Sound, m < Len(log), <<m, a>> \in S
      PROVE  <<m + 1, AnalyzePkt(a, log[m + 1], now)>> \in S
  <2> DEFINE n == AnalyzePkt(a, log[m + 1], now)
  <2>1. Follows(log, m + 1, n)
    BY <1>2, FollowsNext
  <2>2. n \in Sound
    BY <2>1, FollowsSound
  <2> QED
    BY <2>1, <2>2
<1> DEFINE result == Analysis(base, SubSeq(log, k + 1, Len(log)), now)
<1>3. \A s \in S : Follows(log, s[1], s[2])
  OBVIOUS
<1> HIDE DEF S
<1>4. KeepsOn(S, Sound, log, k, now)
  BY <1>2 DEF KeepsOn
<1>5. <<Len(log), result>> \in S
  BY <1>1, <1>4, SoundFeeds, AnalysisKeeps
<1> HIDE DEF result
<1>6. Follows(log, Len(log), result)
  BY <1>3, <1>5
<1> QED
  BY <1>6 DEF result

LEMMA FollowsNone ==
  ASSUME NEW a \in Analyzers(Packet), a.total = 0, a.state = {}, a.records = <<>>,
         \A d \in Directions : a.fsm[d] = "INIT"
  PROVE  Follows(<<>>, 0, a)
<1>1. ~ Ended(a) /\ Open(a)
  BY DEF Ended, Open
<1>2. \A i : ~ Conclusive(a, i)
  BY DEF Conclusive
<1>3. DataUp(<<>>, 0, a)
  BY DEF DataUp
<1>4. \A d \in Directions : Agrees(a.fsm[d], d, FinsOf(<<>>, 0))
  BY DEF Agrees
<1> QED
  BY <1>1, <1>2, <1>3, <1>4 DEF Follows, GoingOn

-----------------------------------------------------------------------------
(* What TcpConnReorder passes on, from the analyzer's end of it.           *)

(* It begins with the packet that opens the connection. *)
Opened(c) ==
  /\ c.started <=> c.log # <<>>
  /\ c.log # <<>> => IsFirst(c.log[1])

LEMMA OpenedPassed ==
  ASSUME NEW Q \in SUBSET Packet, NEW c \in Conns(Q), Opened(c), NEW p \in Q,
         PktOrderType(c, p) = "in_order", NEW n \in Conns(Q), Passed(c, n, p, p.dir, Other(p.dir))
  PROVE  Opened(n)
<1> DEFINE log == c.log
           new == n.log
<1>1. log \in Seq(Q) /\ new = Append(log, p) /\ n.started
  BY ConnIs DEF Passed
<1>2. ~ c.started => IsFirst(p)
  BY OrderTypeIs
<1>21. c.started <=> log # <<>>
  BY DEF Opened
<1>22. log # <<>> => IsFirst(log[1])
  BY DEF Opened
<1> HIDE DEF log, new
<1>3. Len(log) \in Nat /\ Len(new) = Len(log) + 1 /\ new[Len(log) + 1] = p
      /\ \A i \in 1 .. Len(log) : new[i] = log[i]
  BY <1>1, AppendProperties, LenProperties
<1>4. new # <<>>
  BY <1>3
<1>7. IsFirst(new[1])
  <2>1. CASE log = <<>>
    <3>1. Len(log) = 0
      BY <2>1
    <3> QED
      BY <1>2, <1>21, <1>3, <2>1, <3>1
  <2>2. CASE log # <<>>
    <3>1. Len(log) > 0
      BY <1>1, <2>2
    <3> QED
      BY <1>22, <1>3, <2>2, <3>1
  <2> QED
    BY <2>1, <2>2
<1> QED
  BY <1>1, <1>4, <1>7 DEF Opened, new

LEMMA GrownAppend ==
  ASSUME NEW T, NEW old \in Seq(T), NEW log \in Seq(T), NEW p \in T, Grown(old, log)
  PROVE  Grown(old, Append(log, p))
<1> DEFINE new == Append(log, p)
<1>1. Len(log) \in Nat /\ Len(new) = Len(log) + 1 /\ \A i \in 1 .. Len(log) : new[i] = log[i]
  BY AppendProperties, LenProperties
<1>2. Len(old) \in Nat
  BY LenProperties
<1> HIDE DEF new
<1> QED
  BY <1>1, <1>2 DEF Grown, new

(* The log of a connection that began as c has grown, if nothing in it     *)
(* changed.                                                                *)
LEMMA OpenedClosed ==
  ASSUME NEW Q \in SUBSET Packet, NEW old \in Seq(Q)
  PROVE  Keeps(Q, {c \in Conns(Q) : Opened(c) /\ Grown(old, c.log)})
<1> DEFINE S == {c \in Conns(Q) : Opened(c) /\ Grown(old, c.log)}
<1>1. ASSUME NEW c \in S, NEW n \in Conns(Q), n.started = c.started, n.log = c.log PROVE n \in S
  BY <1>1 DEF Opened
<1>3. ASSUME NEW c \in S, NEW n \in Conns(Q), NEW p \in Q, PktOrderType(c, p) = "in_order",
             Passed(c, n, p, p.dir, Other(p.dir))
      PROVE  n \in S
  <2>1. Opened(n)
    BY <1>3, OpenedPassed
  <2>2. c.log \in Seq(Q) /\ n.log = Append(c.log, p)
    BY <1>3, ConnIs DEF Passed
  <2>3. Grown(old, n.log)
    BY <2>2, GrownAppend
  <2> QED
    BY <2>1, <2>3
<1>5. S \in SUBSET Conns(Q)
  OBVIOUS
<1> HIDE DEF S
<1>6. ASSUME NEW c \in S, NEW n \in Conns(Q), NEW p \in Q
      PROVE  /\ PktOrderType(c, p) = "in_order" /\ Passed(c, n, p, p.dir, Other(p.dir)) => n \in S
             /\ PktOrderType(c, p) = "retransmit" /\ Retransmitted(c, n, p) => n \in S
  BY <1>1, <1>3 DEF Retransmitted
<1>7. ASSUME NEW c \in S, NEW n \in Conns(Q)
      PROVE  (Idle(c, n) => n \in S) /\ (FrontOrdered(c, n) => n \in S)
  BY <1>1 DEF Idle, FrontOrdered
<1>8. Progress(Q, S)
  BY <1>6, <1>7 DEF Progress
<1>9. Keeps(Q, S)
  BY <1>5, <1>8, ClosedIf
<1> QED
  BY <1>9 DEF S

(* What one end sent comes in turn. *)
Advancing(log) ==
  \A i, j \in DOMAIN log : i < j /\ log[i].dir = log[j].dir => End(log[i]) <= log[j].seq

KnownInTurn(Q, c) == c.refactored \/ (Known(Q, c) /\ Advancing(c.log))

LEMMA AdvancingPassed ==
  ASSUME NEW Q \in SUBSET Packet, NEW c \in Conns(Q), Known(Q, c), Advancing(c.log), NEW p \in Q,
         PktOrderType(c, p) = "in_order", NEW n \in Conns(Q), Passed(c, n, p, p.dir, Other(p.dir))
  PROVE  Advancing(n.log)
<1> DEFINE log == c.log
           new == n.log
<1>1. log \in Seq(Q) /\ new = Append(log, p)
  BY ConnIs DEF Passed
<1>2. ASSUME NEW q \in Range(log), q.dir = p.dir PROVE End(q) <= p.seq
  <2>1. c.half[p.dir].sent /\ End(q) <= c.half[p.dir].next_seq
    BY <1>2 DEF Known
  <2>2. c.started
    BY <2>1, PacketIs DEF Known
  <2> QED
    BY <2>1, <2>2, OrderTypeIs
<1>3. Advancing(log)
  OBVIOUS
<1>4. DOMAIN log = 1 .. Len(log)
  BY <1>1
<1> HIDE DEF log, new
<1>5. /\ Len(log) \in Nat /\ Len(new) = Len(log) + 1 /\ new[Len(log) + 1] = p
      /\ \A i \in 1 .. Len(log) : new[i] = log[i]
      /\ new \in Seq(Q)
  BY <1>1, AppendProperties, LenProperties
<1>6. DOMAIN new = 1 .. Len(log) + 1
  BY <1>5
<1>7. ASSUME NEW i \in DOMAIN new, NEW j \in DOMAIN new, i < j, new[i].dir = new[j].dir
      PROVE  End(new[i]) <= new[j].seq
  <2>1. i \in DOMAIN log /\ new[i] = log[i] /\ log[i] \in Range(log)
    BY <1>4, <1>5, <1>6, <1>7 DEF Range
  <2>2. CASE j \in DOMAIN log
    BY <1>3, <1>4, <1>5, <1>7, <2>1, <2>2 DEF Advancing
  <2>3. CASE j = Len(log) + 1
    BY <1>2, <1>5, <1>7, <2>1, <2>3
  <2> QED
    BY <1>4, <1>5, <1>6, <2>2, <2>3
<1> QED
  BY <1>7 DEF Advancing, new

LEMMA KnownInTurnClosed ==
  ASSUME NEW Q \in SUBSET Packet, InTurn(Q)
  PROVE  Keeps(Q, {c \in Conns(Q) : KnownInTurn(Q, c)})
<1> DEFINE S == {c \in Conns(Q) : KnownInTurn(Q, c)}
<1>1. ASSUME NEW c \in S, NEW n \in Conns(Q), Idle(c, n) PROVE n \in S
  <2>1. Known(Q, c) => n.retransmits \subseteq Range(c.log)
    BY <1>1 DEF Idle, Known
  <2>2. Known(Q, c) => Known(Q, n)
    BY <1>1, <2>1, KnownSame DEF Idle
  <2> QED
    BY <1>1, <2>2 DEF Idle, KnownInTurn
<1>2. ASSUME NEW c \in S, NEW n \in Conns(Q), FrontOrdered(c, n) PROVE n \in S
  BY <1>2 DEF FrontOrdered, KnownInTurn
<1>3. ASSUME NEW c \in S, NEW n \in Conns(Q), NEW p \in Q, PktOrderType(c, p) = "in_order",
             Passed(c, n, p, p.dir, Other(p.dir))
      PROVE  n \in S
  <2>1. Known(Q, c) => Known(Q, n)
    BY <1>3, KnownPassed
  <2>2. Known(Q, c) /\ Advancing(c.log) => Advancing(n.log)
    BY <1>3, AdvancingPassed
  <2>3. n.refactored = c.refactored
    BY <1>3 DEF Passed
  <2> QED
    BY <2>1, <2>2, <2>3 DEF KnownInTurn
<1>4. ASSUME NEW c \in S, NEW n \in Conns(Q), NEW p \in Q, PktOrderType(c, p) = "retransmit",
             Retransmitted(c, n, p)
      PROVE  n \in S
  <2>1. \A d \in Directions : SameNumbers(n.half[d], c.half[d])
    BY <1>4 DEF Retransmitted, SameNumbers
  <2>2. Known(Q, c) => n.retransmits \subseteq Range(c.log)
    BY <1>4, RetransmitPassedOn DEF Known, Retransmitted
  <2>3. Known(Q, c) => Known(Q, n)
    BY <1>4, <2>1, <2>2, KnownSame DEF Retransmitted
  <2> QED
    BY <1>4, <2>3 DEF Retransmitted, KnownInTurn
<1>5. S \in SUBSET Conns(Q)
  OBVIOUS
<1> HIDE DEF S
<1>6. ASSUME NEW c \in S, NEW n \in Conns(Q), NEW p \in Q
      PROVE  /\ PktOrderType(c, p) = "in_order" /\ Passed(c, n, p, p.dir, Other(p.dir)) => n \in S
             /\ PktOrderType(c, p) = "retransmit" /\ Retransmitted(c, n, p) => n \in S
  BY <1>3, <1>4
<1>7. Progress(Q, S)
  BY <1>1, <1>2, <1>6 DEF Progress
<1>8. Keeps(Q, S)
  BY <1>5, <1>7, ClosedIf
<1> QED
  BY <1>8 DEF S

-----------------------------------------------------------------------------
(* The connection object. *)

LEMMA ConnImplements ==
  /\ ConnInit => Init
  /\ [ConnNext]_connVars => [Next]_vars
BY DEF ConnInit, ConnNext, ProcessTcpPkt, Reuse, Next, connVars, vars

(* With the analyzer behind it, TcpConnReorder does nothing it would not   *)
(* do alone: what was shown of it holds for the connection object.         *)
THEOREM ConnectionImplementsReorder == ConnSpec => Spec
BY ConnImplements, PTL DEF ConnSpec, Spec

FollowOK ==
  /\ ConnOK /\ Opened(conn) /\ clock \in 0 .. MaxClock
  /\ Follows(conn.log, Len(conn.log), analyzer)

LEMMA NewAnalyzerFollows ==
  /\ Follows(<<>>, 0, NewAnalyzer)
  /\ \A a \in Analyzers(Packet) : Follows(<<>>, 0, ReInitialized(a))
<1> DEFINE role == [d \in Directions |-> "unknown"]
           fsm  == [d \in Directions |-> "INIT"]
           no   == FALSE
           none == {}
           new(t, y) == [role |-> role, fsm |-> fsm, state |-> none, total |-> 0, first_time |-> t,
                         measured |-> no, delay |-> y, records |-> <<>>, up |-> <<>>,
                         abandoned |-> no, removed |-> no]
<1>1. role \in [Directions -> Roles] /\ fsm \in [Directions -> FsmStates] /\ no \in BOOLEAN
      /\ none \in SUBSET ConnStates /\ (\A d \in Directions : fsm[d] = "INIT") /\ none = {}
  BY DEF Roles, FsmStates
<1>2. <<>> \in Seq(Recordable) /\ <<>> \in Seq(Packet)
  BY EmptySeq
<1>3. NewAnalyzer = new(0, 0)
  BY DEF NewAnalyzer, Directions
<1>4. ASSUME NEW a PROVE ReInitialized(a) = new(a.first_time, a.delay)
  <2> DEFINE t == a.first_time
             y == a.delay
  <2>1. ReInitialized(a) = [new(0, 0) EXCEPT !.first_time = t, !.delay = y]
    BY <1>3 DEF ReInitialized
  <2> HIDE DEF role, fsm, no, none, t, y
  <2>2. ReInitialized(a) = new(t, y)
    BY <2>1
  <2> QED
    BY <2>2 DEF t, y
<1> HIDE DEF role, fsm, no, none
<1>5. ASSUME NEW t \in Nat, NEW y \in Nat PROVE Follows(<<>>, 0, new(t, y))
  <2> DEFINE n == new(t, y)
  <2>1. n \in Analyzers(Packet) /\ n.total = 0 /\ n.state = none /\ n.records = <<>> /\ n.fsm = fsm
    BY <1>1, <1>2 DEF Analyzers
  <2> HIDE DEF n
  <2> QED
    BY <1>1, <2>1, FollowsNone DEF n
<1> HIDE DEF new
<1>6. \A a \in Analyzers(Packet) : a.first_time \in Nat /\ a.delay \in Nat
  BY AnalyzerIs
<1> QED
  BY <1>3, <1>4, <1>5, <1>6

LEMMA FollowInit == ConnInit => FollowOK
<1> SUFFICES ASSUME ConnInit PROVE FollowOK
  OBVIOUS
<1>1. ConnOK /\ conn = NewConn
  BY ConnImplements, ConnOKInit DEF Init
<1>2. conn.log = <<>> /\ ~ conn.started
  BY <1>1, NewConnIs
<1>3. Len(conn.log) = 0
  BY <1>2
<1>4. clock \in 0 .. MaxClock /\ analyzer = NewAnalyzer
  BY ConnectionAssumption DEF ConnInit
<1> QED
  BY <1>1, <1>2, <1>3, <1>4, NewAnalyzerFollows DEF FollowOK, Opened

LEMMA PktMsgProcIs ==
  ASSUME ConnOK, NEW i \in DOMAIN packets, PktMsgProc(i)
  PROVE  Captures(i)
<1>1. packets[i] \in Pkts
  BY PacketsAre DEF ConnOK, Pkts
<1>2. conn' = Handled(conn, packets[i])
  BY DEF PktMsgProc, Handled
<1>3. packets' = packets /\ Pkts' = Pkts
  BY DEF PktMsgProc, Pkts
<1> QED
  BY <1>1, <1>2, <1>3 DEF PktMsgProc, Captures

LEMMA SeqOfPackets ==
  ASSUME ConnOK, NEW c \in Conns(Pkts)
  PROVE  c.log \in Seq(Pkts) /\ c.log \in Seq(Packet) /\ Len(c.log) \in Nat
<1>1. c.log \in Seq(Pkts) /\ Pkts \in SUBSET Packet
  BY ConnIs, PacketsAre DEF ConnOK, Pkts
<1>2. c.log \in Seq(Packet)
  BY <1>1
<1> QED
  BY <1>1, <1>2, LenProperties

(* What a packet makes TcpConnReorder pass on is added to the log, and the *)
(* analyzer folds over it.                                                 *)
LEMMA Releases ==
  ASSUME FollowOK, ConnOK', NEW i \in DOMAIN packets, ProcessTcpPkt(i)
  PROVE  /\ Opened(conn') /\ Grown(conn.log, conn'.log)
         /\ conn.log \in Seq(Packet) /\ Len(conn.log) \in Nat
         /\ conn'.log \in Seq(Packet) /\ Len(conn'.log) \in Nat /\ Len(conn.log) <= Len(conn'.log)
         /\ clock' \in 0 .. MaxClock /\ clock' \in Nat
         /\ analyzer' = Analysis(analyzer, SubSeq(conn'.log, Len(conn.log) + 1, Len(conn'.log)), clock')
<1>1. Captures(i)
  BY PktMsgProcIs DEF FollowOK, ProcessTcpPkt
<1> DEFINE old == conn.log
           S   == {c \in Conns(Pkts) : Opened(c) /\ Grown(old, c.log)}
<1>2. conn \in Conns(Pkts) /\ Pkts \in SUBSET Packet
  BY PacketsAre DEF FollowOK, ConnOK, Pkts
<1>3. old \in Seq(Pkts) /\ old \in Seq(Packet) /\ Len(old) \in Nat
  BY <1>2, SeqOfPackets DEF FollowOK
<1>4. conn \in S
  <2>1. Grown(old, old)
    BY <1>3 DEF Grown
  <2> QED
    BY <1>2, <2>1 DEF FollowOK
<1> HIDE DEF old
<1>5. Keeps(Pkts, S)
  BY <1>2, <1>3, OpenedClosed
<1> HIDE DEF S
<1>6. conn' \in S
  BY <1>1, <1>4, <1>5, ConnStays DEF FollowOK
<1>7. conn' \in Conns(Pkts) /\ Opened(conn') /\ Grown(old, conn'.log)
  BY <1>6 DEF S
<1>8. conn'.log \in Seq(Packet) /\ Len(conn'.log) \in Nat
  BY <1>7, SeqOfPackets DEF FollowOK
<1>9. analyzer' = Analysis(analyzer, SubSeq(conn'.log, Len(old) + 1, Len(conn'.log)), clock')
  BY DEF ProcessTcpPkt, Released, Analysis, old
<1>10. clock' \in 0 .. MaxClock /\ clock' \in Nat
  <2>1. clock \in 0 .. MaxClock
    BY DEF FollowOK
  <2>2. clock' \in clock .. MaxClock
    BY DEF ProcessTcpPkt
  <2> QED
    BY <2>1, <2>2, ConnectionAssumption
<1>11. Len(old) <= Len(conn'.log)
  BY <1>7 DEF Grown
<1> QED
  BY <1>3, <1>7, <1>8, <1>9, <1>10, <1>11 DEF old

LEMMA FollowProcess ==
  ASSUME FollowOK, ConnOK', NEW i \in DOMAIN packets, ProcessTcpPkt(i)
  PROVE  FollowOK'
<1> DEFINE old == conn.log
           new == conn'.log
           now == clock'
<1>1. /\ Opened(conn') /\ Grown(old, new) /\ old \in Seq(Packet) /\ Len(old) \in Nat
      /\ new \in Seq(Packet) /\ Len(new) \in Nat /\ Len(old) <= Len(new)
      /\ now \in 0 .. MaxClock /\ now \in Nat
      /\ analyzer' = Analysis(analyzer, SubSeq(new, Len(old) + 1, Len(new)), now)
  BY Releases
<1>2. Follows(old, Len(old), analyzer)
  BY DEF FollowOK
<1> HIDE DEF old, new, now
<1>3. Follows(new, Len(old), analyzer)
  BY <1>1, <1>2, FollowsGrown
<1>4. Follows(new, Len(new), analyzer')
  BY <1>1, <1>3, FollowsAnalysis
<1> QED
  BY <1>1, <1>4 DEF FollowOK, new, now

LEMMA FollowNext == FollowOK /\ [ConnNext]_connVars => FollowOK'
<1> SUFFICES ASSUME FollowOK, [ConnNext]_connVars PROVE FollowOK'
  OBVIOUS
<1>1. ConnOK'
  BY ConnImplements, ConnOKNext DEF FollowOK
<1>2. CASE \E i \in DOMAIN packets : ProcessTcpPkt(i)
  BY <1>1, <1>2, FollowProcess
<1>3. CASE Reuse
  <2>1. conn' = NewConn
    BY <1>3, ReinitializeIs DEF Reuse, FollowOK, ConnOK
  <2>2. conn'.log = <<>> /\ ~ conn'.started
    BY <2>1, NewConnIs
  <2>3. Len(conn'.log) = 0
    BY <2>2
  <2>4. analyzer \in Analyzers(Packet)
    BY DEF FollowOK, Follows
  <2>5. clock' \in 0 .. MaxClock /\ analyzer' = ReInitialized(analyzer)
    BY <1>3, ConnectionAssumption DEF Reuse
  <2> QED
    BY <1>1, <2>2, <2>3, <2>4, <2>5, NewAnalyzerFollows DEF FollowOK, Opened
<1>4. CASE UNCHANGED connVars
  BY <1>1, <1>4 DEF connVars, FollowOK
<1> QED
  BY <1>2, <1>3, <1>4 DEF ConnNext

LEMMA FollowAlways == ConnSpec => []FollowOK
BY FollowInit, FollowNext, PTL DEF ConnSpec

(* A connection's state machines keep to their states, its roles and marks *)
(* to theirs, and it has counted no more packets than were passed on.      *)
THEOREM ConnectionTypeOK == ConnSpec => []ConnTypeOK
<1>1. FollowOK /\ TypeOK => ConnTypeOK
  <2> SUFFICES ASSUME FollowOK, TypeOK PROVE ConnTypeOK
    OBVIOUS
  <2>1. analyzer \in Analyzers(Packet) /\ analyzer.total <= Len(conn.log)
    BY DEF FollowOK, Follows
  <2>2. /\ \A d \in Directions : analyzer.role[d] \in Roles /\ analyzer.fsm[d] \in FsmStates
        /\ analyzer.state \in SUBSET ConnStates
    BY <2>1, AnalyzerIs
  <2> QED
    BY <2>1, <2>2 DEF ConnTypeOK, FollowOK, Roles, ConnStates
<1> QED
  BY <1>1, FollowAlways, ConnectionImplementsReorder, ReorderTypeOK, PTL

(* However many packets one call releases, and whatever comes later, a     *)
(* connection is recorded as closed or aborted once at most.               *)
THEOREM ConnectionRecordedOnce == ConnSpec => []RecordedOnce
<1>1. FollowOK => RecordedOnce
  <2> SUFFICES ASSUME FollowOK PROVE RecordedOnce
    OBVIOUS
  <2> DEFINE E == {i \in DOMAIN Events : Events[i] \in {"TCE_CONN_CLOSE", "TCE_CONN_ABORT"}}
  <2>1. analyzer \in Analyzers(Packet)
    BY DEF FollowOK, Follows
  <2>2. DOMAIN Events = 1 .. Len(analyzer.records)
        /\ \A i \in DOMAIN Events : Events[i] = analyzer.records[i].event
    <3>1. analyzer.records \in Seq(Recordable)
      BY <2>1, AnalyzerIs
    <3> QED
      BY <3>1 DEF Events
  <2>3. \A i \in E : Conclusive(analyzer, i)
    BY <2>2 DEF Conclusive
  <2>4. \A i, j \in E : i = j
    <3>1. CASE Ended(analyzer)
      BY <2>3, <3>1 DEF FollowOK, Follows, Over
    <3>2. CASE ~ Ended(analyzer)
      BY <2>3, <3>2 DEF FollowOK, Follows, GoingOn
    <3> QED
      BY <3>1, <3>2
  <2> HIDE DEF E
  <2>5. Cardinality(E) <= 1
    <3>1. CASE E = {}
      <4>1. Cardinality({}) = 0
        BY FS_EmptySet
      <4> QED
        BY <3>1, <4>1
    <3>2. CASE E # {}
      <4>1. PICK i \in E : TRUE
        BY <3>2
      <4>2. E = {i}
        BY <2>4, <4>1
      <4>3. Cardinality({i}) = 1
        BY FS_Singleton
      <4> QED
        BY <4>2, <4>3
    <3> QED
      BY <3>1, <3>2
  <2> QED
    BY <2>5 DEF RecordedOnce, E
<1> QED
  BY <1>1, FollowAlways, PTL

LEMMA SentIs ==
  ASSUME FollowOK, NEW d \in Directions
  PROVE  Sent("fin", d) <=> d \in FinsOf(conn.log, Len(conn.log))
<1>1. conn.log \in Seq(Packet)
  BY SeqOfPackets DEF FollowOK, ConnOK
<1>2. DOMAIN conn.log = 1 .. Len(conn.log)
  BY <1>1
<1> QED
  BY <1>2 DEF Sent, FinsOf, Range

LEMMA OpensWithSyn ==
  ASSUME FollowOK, \A conv \in Conversations : FinApart(conv)
  PROVE  OpensOnly(conn.log)
<1> SUFFICES ASSUME conn.log # <<>> PROVE "fin" \notin conn.log[1].flags
  BY DEF OpensOnly
<1>1. IsFirst(conn.log[1])
  BY DEF FollowOK, Opened
<1>2. conn.log \in Seq(Pkts)
  BY SeqOfPackets DEF FollowOK, ConnOK
<1>3. conn.log[1] \in Pkts
  BY <1>2
<1>4. PICK j \in DOMAIN packets : conn.log[1] = packets[j]
  BY <1>3 DEF Pkts, Range
<1> QED
  BY <1>1, <1>4 DEF FollowOK, ConnOK, FinApart

(* While a connection lasts, the state of either end tells whether its own *)
(* FIN and its peer's have been seen, provided that no opening SYN is a    *)
(* FIN as well.                                                            *)
THEOREM ConnectionFsmAgrees ==
  ASSUME \A conv \in Conversations : FinApart(conv)
  PROVE  ConnSpec => []FsmAgrees
<1>1. FollowOK => FsmAgrees
  <2> SUFFICES ASSUME FollowOK, NEW d \in Directions
               PROVE  LET own  == Sent("fin", d)
                          peer == Sent("fin", Other(d))
                      IN /\ analyzer.fsm[d] \in {"FIN_WAIT_1", "FIN_WAIT_2"} => own /\ ~ peer
                         /\ analyzer.fsm[d] = "CLOSE_WAIT" => peer /\ ~ own
                         /\ analyzer.fsm[d] \in {"CLOSING", "TIME_WAIT", "LAST_ACK"} => own /\ peer
                         /\ analyzer.fsm[d] \in {"SYN_SENT", "SYN_RCV", "ESTABLISHED"} => ~ own /\ ~ peer
    BY DEF FsmAgrees
  <2> DEFINE fins == FinsOf(conn.log, Len(conn.log))
  <2>1. (Sent("fin", d) <=> d \in fins) /\ (Sent("fin", Other(d)) <=> Other(d) \in fins)
    BY SentIs, DirectionsAre
  <2>2. Agrees(analyzer.fsm[d], d, fins)
    <3>1. CASE Ended(analyzer)
      <4>1. analyzer.fsm[d] = "CLOSED"
        BY <3>1 DEF FollowOK, Follows, Over
      <4> QED
        BY <4>1 DEF Agrees
    <3>2. CASE ~ Ended(analyzer)
      BY <3>2, OpensWithSyn DEF FollowOK, Follows, GoingOn
    <3> QED
      BY <3>1, <3>2
  <2> HIDE DEF fins
  <2> QED
    BY <2>1, <2>2 DEF Agrees
<1> QED
  BY <1>1, FollowAlways, PTL

KnownTurnOK == ConnOK /\ KnownInTurn(Pkts, conn)

LEMMA KnownInTurnNew ==
  ASSUME NEW Q
  PROVE  KnownInTurn(Q, NewConn)
<1>1. NewConn.log = <<>> /\ ~ NewConn.refactored
  BY NewConnIs
<1>2. Known(Q, NewConn)
  BY <1>1, KnownNew DEF KnownOrSkipped
<1>3. DOMAIN NewConn.log = {}
  BY <1>1
<1> QED
  BY <1>2, <1>3 DEF KnownInTurn, Advancing

LEMMA KnownTurnAlways ==
  ASSUME \A conv \in Conversations : Conforms(conv)
  PROVE  Spec => []KnownTurnOK
<1>1. Init => KnownTurnOK
  BY KnownInTurnNew, ConnOKInit DEF KnownTurnOK, Init
<1>2. KnownTurnOK /\ [Next]_vars => KnownTurnOK'
  <2> SUFFICES ASSUME KnownTurnOK, [Next]_vars PROVE KnownTurnOK'
    OBVIOUS
  <2>1. ConnOK'
    BY ConnOKNext DEF KnownTurnOK
  <2>2. CASE Next
    <3>1. ASSUME NEW i \in DOMAIN packets, Captures(i) PROVE KnownInTurn(Pkts', conn')
      <4> DEFINE S == {c \in Conns(Pkts) : KnownInTurn(Pkts, c)}
      <4>1. InTurn(Pkts) /\ Pkts \in SUBSET Packet
        BY ConformsInTurn, PacketsAre DEF KnownTurnOK, ConnOK, Pkts
      <4>2. Keeps(Pkts, S) /\ conn \in S
        BY <4>1, KnownInTurnClosed DEF KnownTurnOK, ConnOK
      <4> HIDE DEF S
      <4>3. conn' \in S
        BY <3>1, <4>2, ConnStays DEF KnownTurnOK
      <4>4. Pkts' = Pkts
        BY <3>1 DEF Captures
      <4> QED
        BY <4>3, <4>4 DEF S
    <3>2. ASSUME Restarts PROVE KnownInTurn(Pkts', conn')
      BY <3>2, KnownInTurnNew DEF Restarts
    <3>3. KnownInTurn(Pkts', conn')
      BY <2>2, <3>1, <3>2, NextIs DEF KnownTurnOK
    <3> QED
      BY <2>1, <3>3 DEF KnownTurnOK
  <2>3. CASE UNCHANGED vars
    <3>1. conn' = conn /\ Pkts' = Pkts
      BY <2>3 DEF vars, Pkts
    <3> QED
      BY <2>1, <3>1 DEF KnownTurnOK
  <2> QED
    BY <2>2, <2>3
<1> QED
  BY <1>1, <1>2, PTL DEF Spec

(* An end's data comes before its FIN. *)
LEMMA DataBeforeFin ==
  ASSUME NEW conv \in Conversations, Conforms(conv), FinLast(conv),
         NEW q \in Range(conv), NEW f \in Range(conv), q.dir = f.dir, q.len > 0, "fin" \in f.flags
  PROVE  q = f \/ End(q) <= f.seq
<1>1. PICK i \in DOMAIN conv : q = conv[i]
  BY DEF Range
<1>2. PICK j \in DOMAIN conv : f = conv[j]
  BY DEF Range
<1>3. i \in Nat /\ j \in Nat /\ 1 <= i /\ 1 <= j
  <2>1. conv \in Seq(Packet)
    BY ReorderAssumption
  <2> QED
    BY <2>1
<1>4. CASE i = j
  BY <1>1, <1>2, <1>4
<1>5. CASE i < j
  <2>1. i \in 1 .. j - 1 /\ conv[i].dir = conv[j].dir
    BY <1>1, <1>2, <1>3, <1>5
  <2>2. End(conv[i]) <= conv[j].seq
    BY <2>1 DEF Conforms, InSequence
  <2> QED
    BY <1>1, <1>2, <2>2
<1>6. CASE j < i
  <2>1. j \in 1 .. i - 1
    BY <1>3, <1>6
  <2>2. Space(conv[i]) = 0
    BY <1>1, <1>2, <2>1 DEF FinLast
  <2>3. q \in Packet
    BY <1>1, PacketsAre
  <2>4. q.len \in Nat /\ Space(q) = 0
    BY <1>1, <2>2, <2>3, PacketIs
  <2> QED
    BY <2>4 DEF Space
<1> QED
  BY <1>3, <1>4, <1>5, <1>6

(* Once an end's FIN is among the first m packets of the log, so is every  *)
(* packet of its own that carries data.                                    *)
LEMMA DataPassedOn ==
  ASSUME NEW conv \in Conversations, Conforms(conv), FinLast(conv),
         NEW c \in Conns(Range(conv)), Known(Range(conv), c), Advancing(c.log),
         NEW m \in 0 .. Len(c.log), NEW q \in Range(conv), q.len > 0, q.dir \in FinsOf(c.log, m)
  PROVE  \E k \in 1 .. m : c.log[k] = q
<1> DEFINE Q   == Range(conv)
           log == c.log
<1>1. Q \in SUBSET Packet /\ log \in Seq(Q)
  BY PacketsAre, ConnIs
<1>2. PICK j \in 1 .. m : log[j].dir = q.dir /\ "fin" \in log[j].flags
  BY DEF FinsOf
<1>3. DOMAIN log = 1 .. Len(log) /\ Len(log) \in Nat
  BY <1>1
<1> DEFINE f == log[j]
<1>4. j \in DOMAIN log /\ f \in Q /\ f \in Range(log) /\ j \in Nat /\ m \in Nat /\ m <= Len(log)
  BY <1>1, <1>3 DEF Range
<1>5. q = f \/ End(q) <= f.seq
  BY <1>2, <1>4, DataBeforeFin
<1>6. q \in Packet /\ f \in Packet /\ Space(q) > 0
  BY <1>1, <1>4, PacketIs DEF Space
<1>7. q.seq \in Nat /\ End(q) \in Nat /\ q.seq < End(q) /\ f.seq \in Nat /\ End(f) \in Nat
      /\ f.seq <= End(f) /\ q.dir \in Directions
  BY <1>6, PacketIs
<1> HIDE DEF log, f
<1>8. CASE q = f
  BY <1>2, <1>8 DEF f, log
<1>9. CASE End(q) <= f.seq
  <2>1. c.half[q.dir].sent /\ End(f) <= c.half[q.dir].next_seq
    BY <1>2, <1>4 DEF Known, f, log
  <2>2. c.half[q.dir].next_seq \in Nat
    BY <1>7, ConnIs, NumbersAre
  <2>3. Reached(Q, c, q.dir) /\ q.seq < c.half[q.dir].next_seq
    BY <1>7, <1>9, <2>1, <2>2 DEF Known
  <2>4. q \in Range(log)
    BY <1>6, <2>3 DEF Reached, Of, log
  <2>5. PICK k \in DOMAIN log : log[k] = q
    BY <2>4 DEF Range
  <2>6. ~ (j < k)
    <3> SUFFICES ASSUME j < k PROVE FALSE
      OBVIOUS
    <3>1. End(log[j]) <= log[k].seq
      BY <1>2, <1>4, <2>5 DEF Advancing, log
    <3> QED
      BY <1>7, <1>9, <2>5, <3>1 DEF f
  <2>7. k \in 1 .. m
    BY <1>3, <1>4, <2>5, <2>6
  <2> QED
    BY <2>5, <2>7 DEF log
<1> QED
  BY <1>5, <1>8, <1>9

(* A connection recorded as closed is one: both ends have sent their FIN,  *)
(* and all their data went up, unless a gap was skipped.  It supposes two  *)
(* ends that follow the protocol, a FIN ending what its sender has to say. *)
THEOREM ConnectionCloseComplete ==
  ASSUME \A conv \in Conversations : Conforms(conv) /\ FinApart(conv) /\ FinLast(conv)
  PROVE  ConnSpec => []CloseComplete
<1>1. FollowOK /\ KnownTurnOK => CloseComplete
  <2> SUFFICES ASSUME FollowOK, KnownTurnOK, ~ conn.refactored, "TCE_CONN_CLOSE" \in Range(Events)
               PROVE  /\ \A d \in Directions : Sent("fin", d)
                      /\ \A i \in DOMAIN packets :
                           packets[i].len > 0 => packets[i] \in Range(analyzer.up)
    BY DEF CloseComplete
  <2> DEFINE log == conn.log
  <2>0. packets \in Conversations /\ Conforms(packets) /\ FinLast(packets) /\ conn \in Conns(Pkts)
    BY DEF FollowOK, ConnOK
  <2>1. analyzer \in Analyzers(Packet) /\ analyzer.records \in Seq(Recordable)
    BY AnalyzerIs DEF FollowOK, Follows
  <2>2. PICK i \in 1 .. Len(analyzer.records) : analyzer.records[i].event = "TCE_CONN_CLOSE"
    <3>1. PICK i \in DOMAIN Events : Events[i] = "TCE_CONN_CLOSE"
      BY DEF Range
    <3>2. DOMAIN Events = 1 .. Len(analyzer.records) /\ Events[i] = analyzer.records[i].event
      BY <2>1, <3>1 DEF Events
    <3> QED
      BY <3>1, <3>2
  <2>3. Ended(analyzer)
    BY <2>2 DEF FollowOK, Follows, GoingOn, Conclusive
  <2>4. PICK m \in 0 .. Len(log) : CompleteAt(log, m, analyzer)
    BY <2>2, <2>3 DEF FollowOK, Follows, Over
  <2>5. \A d \in Directions : d \in FinsOf(log, m)
    BY <2>4, OpensWithSyn DEF CompleteAt
  <2>6. log \in Seq(Packet) /\ Len(log) \in Nat
    BY <2>0, SeqOfPackets DEF FollowOK
  <2>7. ASSUME NEW d \in Directions PROVE Sent("fin", d)
    <3>1. d \in FinsOf(log, Len(log))
      BY <2>5, <2>6 DEF FinsOf
    <3> QED
      BY <3>1, SentIs
  <2>8. ASSUME NEW q \in Pkts, q.len > 0 PROVE q \in Range(analyzer.up)
    <3>1. q.dir \in Directions
      BY <2>0, PacketsAre, PacketIs DEF Pkts
    <3>2. Known(Pkts, conn) /\ Advancing(log)
      BY DEF KnownTurnOK, KnownInTurn
    <3>3. \E k \in 1 .. m : log[k] = q
      BY <2>0, <2>5, <2>8, <3>1, <3>2, DataPassedOn DEF Pkts
    <3> QED
      BY <2>4, <2>8, <3>3 DEF CompleteAt, DataUp
  <2>9. \A j \in DOMAIN packets : packets[j] \in Pkts
    BY <2>0, PacketsAre DEF Pkts
  <2> QED
    BY <2>7, <2>8, <2>9
<1>2. \A conv \in Conversations : Conforms(conv)
  OBVIOUS
<1>3. Spec => []KnownTurnOK
  BY <1>2, KnownTurnAlways
<1> QED
  BY <1>1, <1>3, FollowAlways, ConnectionImplementsReorder, PTL

-----------------------------------------------------------------------------
(* The packets passed on of two ends that follow the protocol: a SYN, one  *)
(* that answers it, and then nothing that a state machine does not expect. *)

Step(log, k) ==
  /\ "rst" \notin log[k].flags
  /\ k = 1 => Kind(log[k]) = {"syn"}
  /\ k = 2 => log[k].dir # log[1].dir /\ Kind(log[k]) = {"syn", "ack"}
  /\ k > 2 => Kind(log[k]) \in {{"ack"}, {"ack", "fin"}}
  /\ "fin" \in log[k].flags => log[k].dir \notin FinsOf(log, k - 1)

Legal(log) == \A k \in 1 .. Len(log) : Step(log, k)

(* What a conversation has to say of its packets for that.                 *)
WellFlagged(Q) ==
  /\ \A p \in Q :
       /\ "rst" \notin p.flags
       /\ ~ IsFirst(p) => "ack" \in p.flags /\ \E q \in Q : Acknowledges(p, q)
       /\ "syn" \in p.flags => "fin" \notin p.flags
       /\ "syn" \notin p.flags => \E q \in Q : q.dir = p.dir /\ Space(q) > 0 /\ End(q) = p.seq
  /\ \A p, q \in Q :
       /\ IsFirst(p) /\ IsFirst(q) => p.dir = q.dir
       /\ p.dir = q.dir /\ "fin" \in p.flags /\ "fin" \in q.flags => p = q

LEMMA FinTakesSpace ==
  ASSUME NEW p \in Packet, "fin" \in p.flags
  PROVE  Space(p) > 0
<1>1. p.len \in Nat
  BY PacketIs
<1>2. p.flags \cap {"syn", "fin"} # {}
  OBVIOUS
<1> QED
  BY <1>1, <1>2 DEF Space

LEMMA ConformsFlagged ==
  ASSUME NEW conv \in Conversations, Conforms(conv), Flagged(conv), FinLast(conv), NoReset(conv)
  PROVE  WellFlagged(Range(conv))
<1> DEFINE Q == Range(conv)
<1>1. \A i \in DOMAIN conv : conv[i] \in Q /\ conv[i] \in Packet /\ i \in Nat /\ 1 <= i
                            /\ \A k \in 1 .. i - 1 : k \in DOMAIN conv
  <2>1. conv \in Seq(Packet)
    BY ReorderAssumption
  <2> QED
    BY <2>1, PacketsAre
<1>2. \A p \in Q : \E i \in DOMAIN conv : p = conv[i]
  BY DEF Range
<1> HIDE DEF Q
<1>3. ASSUME NEW i \in DOMAIN conv, ~ IsFirst(conv[i])
      PROVE  "ack" \in conv[i].flags /\ \E q \in Q : Acknowledges(conv[i], q)
  <2>1. "ack" \in conv[i].flags /\ conv[i].ack > 0
    BY <1>3 DEF Flagged
  <2>2. \E k \in 1 .. i - 1 : Acknowledges(conv[i], conv[k])
    BY <2>1 DEF Conforms, Acknowledging
  <2> QED
    BY <1>1, <2>1, <2>2
<1>4. ASSUME NEW i \in DOMAIN conv, "syn" \notin conv[i].flags
      PROVE  \E q \in Q : q.dir = conv[i].dir /\ Space(q) > 0 /\ End(q) = conv[i].seq
  <2> DEFINE before == {k \in 1 .. i - 1 : conv[k].dir = conv[i].dir}
  <2>1. \E k \in before : Space(conv[k]) > 0 /\ End(conv[k]) = conv[i].seq
    BY <1>4 DEF Conforms, InSequence
  <2> QED
    BY <1>1, <2>1
<1>5. ASSUME NEW i \in DOMAIN conv, NEW j \in DOMAIN conv, IsFirst(conv[i]), IsFirst(conv[j])
      PROVE  conv[i].dir = conv[j].dir
  <2>1. PICK d \in Directions : \A k \in DOMAIN conv : "syn" \in conv[k].flags =>
                                   conv[k].dir = d \/ IsSecond(conv[k])
    BY DEF Conforms, Opening
  <2>2. conv[i].dir = d /\ conv[j].dir = d
    BY <1>5, <2>1 DEF IsFirst, IsSecond
  <2> QED
    BY <2>2
<1>6. ASSUME NEW i \in DOMAIN conv, NEW j \in DOMAIN conv, conv[i].dir = conv[j].dir,
             "fin" \in conv[i].flags, "fin" \in conv[j].flags
      PROVE  i = j
  <2>1. ~ (i \in 1 .. j - 1)
    BY <1>1, <1>6, FinTakesSpace DEF FinLast
  <2>2. ~ (j \in 1 .. i - 1)
    BY <1>1, <1>6, FinTakesSpace DEF FinLast
  <2> QED
    BY <1>1, <2>1, <2>2
<1>7. ASSUME NEW p \in Q
      PROVE  /\ "rst" \notin p.flags
             /\ ~ IsFirst(p) => "ack" \in p.flags /\ \E q \in Q : Acknowledges(p, q)
             /\ "syn" \in p.flags => "fin" \notin p.flags
             /\ "syn" \notin p.flags =>
                  \E q \in Q : q.dir = p.dir /\ Space(q) > 0 /\ End(q) = p.seq
  <2>1. PICK i \in DOMAIN conv : p = conv[i]
    BY <1>2
  <2>2. "rst" \notin p.flags /\ ("syn" \in p.flags => "fin" \notin p.flags)
    BY <2>1 DEF NoReset, Flagged
  <2> QED
    BY <1>3, <1>4, <2>1, <2>2
<1>8. ASSUME NEW p \in Q, NEW q \in Q
      PROVE  /\ IsFirst(p) /\ IsFirst(q) => p.dir = q.dir
             /\ p.dir = q.dir /\ "fin" \in p.flags /\ "fin" \in q.flags => p = q
  <2>1. PICK i \in DOMAIN conv : p = conv[i]
    BY <1>2
  <2>2. PICK j \in DOMAIN conv : q = conv[j]
    BY <1>2
  <2> QED
    BY <1>5, <1>6, <2>1, <2>2
<1> QED
  BY <1>7, <1>8 DEF WellFlagged, Q

(* An end's SYN comes first of its packets, among those passed on too. *)
LEMMA SynComesFirst ==
  ASSUME NEW Q \in SUBSET Packet, InTurn(Q), WellFlagged(Q), NEW x \in Q, NEW p \in Q,
         x.dir = p.dir, End(x) <= p.seq
  PROVE  "syn" \notin p.flags
<1> SUFFICES ASSUME "syn" \in p.flags PROVE FALSE
  OBVIOUS
<1>1. /\ p.seq \in Nat /\ End(p) \in Nat /\ x.seq \in Nat /\ End(x) \in Nat
      /\ p.seq < End(p) /\ x.seq <= End(x)
  BY PacketIs, SynTakesSpace
<1>2. CASE "syn" \in x.flags
  <2>1. Space(x) > 0 /\ x.seq < End(x)
    BY <1>2, PacketIs, SynTakesSpace
  <2>2. p = x \/ End(p) <= x.seq
    BY <2>1 DEF InTurn
  <2> QED
    BY <1>1, <2>1, <2>2
<1>3. CASE "syn" \notin x.flags
  <2>1. PICK q \in Q : q.dir = x.dir /\ Space(q) > 0 /\ End(q) = x.seq
    BY <1>3 DEF WellFlagged
  <2>2. p = q \/ End(p) <= q.seq
    BY <2>1 DEF InTurn
  <2>3. q.seq \in Nat /\ q.seq < End(q)
    BY <2>1, PacketIs
  <2> QED
    BY <1>1, <2>1, <2>2, <2>3
<1> QED
  BY <1>2, <1>3

LEMMA LogLegal ==
  ASSUME NEW Q \in SUBSET Packet, InTurn(Q), WellFlagged(Q), NEW c \in Conns(Q),
         Known(Q, c), Advancing(c.log), Opened(c)
  PROVE  Legal(c.log)
<1> DEFINE log == c.log
<1>1. log \in Seq(Q) /\ Len(log) \in Nat /\ DOMAIN log = 1 .. Len(log)
      /\ \A k \in 1 .. Len(log) : log[k] \in Q /\ log[k] \in Packet /\ log[k] \in Range(log)
  BY ConnIs DEF Range
<1>2. \A i, j \in 1 .. Len(log) : i < j /\ log[i].dir = log[j].dir => End(log[i]) <= log[j].seq
  BY <1>1 DEF Advancing
<1>3. log # <<>> => IsFirst(log[1])
  BY DEF Opened
<1>4. \A q \in Range(log) : c.half[q.dir].sent /\ End(q) <= c.half[q.dir].next_seq
  BY DEF Known
<1>5. \A k \in 1 .. Len(log) : AcksInLog(Q, log, k)
  BY <1>1 DEF Known
<1>6. \A d \in Directions : c.half[d].sent => Reached(Q, c, d)
  BY DEF Known
<1>7. \A d \in Directions : \A q \in Q :
        Reached(Q, c, d) /\ q.dir = d /\ Space(q) > 0 /\ q.seq < c.half[d].next_seq => q \in Range(log)
  BY DEF Reached, Of
<1>8. \A d \in Directions : c.half[d].next_seq \in Nat
  BY ConnIs, NumbersAre
<1> HIDE DEF log
<1>9. ASSUME NEW k \in 1 .. Len(log), NEW j \in 1 .. k - 1, log[j].dir = log[k].dir
      PROVE  "syn" \notin log[k].flags
  <2>1. j \in 1 .. Len(log) /\ j < k
    BY <1>1
  <2>2. End(log[j]) <= log[k].seq
    BY <1>2, <1>9, <2>1
  <2> QED
    BY <1>1, <1>9, <2>1, <2>2, SynComesFirst
<1>10. ASSUME NEW k \in 2 .. Len(log)
       PROVE  "ack" \in log[k].flags /\ \E j \in 1 .. k - 1 : log[j].dir # log[k].dir
  <2>1. 1 \in 1 .. Len(log) /\ k \in 1 .. Len(log) /\ 1 \in 1 .. k - 1 /\ log # <<>>
    BY <1>1
  <2>2. ~ IsFirst(log[k])
    <3>1. CASE log[1].dir = log[k].dir
      <4>1. "syn" \notin log[k].flags
        BY <1>9, <2>1, <3>1
      <4> QED
        BY <4>1 DEF IsFirst
    <3>2. CASE log[1].dir # log[k].dir
      BY <1>1, <1>3, <2>1, <3>2 DEF WellFlagged
    <3> QED
      BY <3>1, <3>2
  <2>3. PICK q \in Q : "ack" \in log[k].flags /\ Acknowledges(log[k], q)
    BY <1>1, <2>1, <2>2 DEF WellFlagged
  <2>4. InLogBefore(log, k, q)
    BY <1>5, <2>1, <2>3 DEF AcksInLog
  <2> QED
    BY <2>3, <2>4 DEF InLogBefore, Acknowledges
<1>11. ASSUME 2 \in 1 .. Len(log), "syn" \notin log[2].flags, log[1].dir # log[2].dir PROVE FALSE
  <2> DEFINE p == log[2]
             d == p.dir
  <2>1. p \in Q /\ p \in Packet /\ p \in Range(log) /\ d \in Directions
    BY <1>1, <1>11, PacketIs
  <2>2. PICK q \in Q : q.dir = d /\ Space(q) > 0 /\ End(q) = p.seq
    BY <1>11, <2>1 DEF WellFlagged
  <2>3. /\ p.seq \in Nat /\ End(p) \in Nat /\ q.seq \in Nat /\ End(q) \in Nat
        /\ p.seq <= End(p) /\ q.seq < End(q)
    BY <2>1, <2>2, PacketIs
  <2>4. c.half[d].sent /\ End(p) <= c.half[d].next_seq
    BY <1>4, <2>1
  <2>5. q.seq < c.half[d].next_seq
    BY <1>8, <2>1, <2>2, <2>3, <2>4
  <2>6. q \in Range(log)
    BY <1>6, <1>7, <2>1, <2>2, <2>4, <2>5
  <2>7. PICK j \in 1 .. Len(log) : log[j] = q
    BY <1>1, <2>6 DEF Range
  <2>8. CASE j = 1
    BY <1>11, <2>2, <2>7, <2>8
  <2>9. CASE j = 2
    BY <2>2, <2>3, <2>7, <2>9
  <2>10. CASE j > 2
    <3>1. End(p) <= q.seq
      BY <1>2, <1>11, <2>2, <2>7, <2>10
    <3> QED
      BY <2>2, <2>3, <3>1
  <2> QED
    BY <1>1, <2>7, <2>8, <2>9, <2>10
<1>12. ASSUME 2 \in 1 .. Len(log)
       PROVE  log[2].dir # log[1].dir /\ "syn" \in log[2].flags
  <2>1. 2 \in 2 .. Len(log) /\ 1 .. 2 - 1 = {1}
    BY <1>1, <1>12 DEF Passes
  <2>2. log[1].dir # log[2].dir
    BY <1>10, <2>1
  <2> QED
    BY <1>11, <1>12, <2>2
<1>13. ASSUME NEW k \in 1 .. Len(log), k > 2
       PROVE  "syn" \notin log[k].flags
  <2>1. 1 \in 1 .. Len(log) /\ 2 \in 1 .. Len(log) /\ 1 \in 1 .. k - 1 /\ 2 \in 1 .. k - 1
    BY <1>1, <1>13
  <2>2. log[1].dir \in Directions /\ log[2].dir \in Directions /\ log[k].dir \in Directions
    BY <1>1, <2>1, PacketIs
  <2>3. log[1].dir = log[k].dir \/ log[2].dir = log[k].dir
    BY <1>12, <2>1, <2>2 DEF Directions
  <2> QED
    BY <1>9, <2>1, <2>3
<1>14. ASSUME NEW k \in 1 .. Len(log), "fin" \in log[k].flags
       PROVE  log[k].dir \notin FinsOf(log, k - 1)
  <2> SUFFICES ASSUME log[k].dir \in FinsOf(log, k - 1) PROVE FALSE
    OBVIOUS
  <2>1. PICK j \in 1 .. k - 1 : log[j].dir = log[k].dir /\ "fin" \in log[j].flags
    BY DEF FinsOf
  <2>2. j \in 1 .. Len(log) /\ j < k
    BY <1>1
  <2>3. log[j] = log[k]
    BY <1>1, <1>14, <2>1, <2>2 DEF WellFlagged
  <2>4. End(log[k]) <= log[k].seq
    BY <1>2, <2>1, <2>2, <2>3
  <2>5. log[k].seq < End(log[k]) /\ log[k].seq \in Nat /\ End(log[k]) \in Nat
    BY <1>1, <1>14, FinTakesSpace, PacketIs
  <2> QED
    BY <2>4, <2>5
<1>15. ASSUME NEW k \in 1 .. Len(log) PROVE Step(log, k)
  <2>1. "rst" \notin log[k].flags /\ ("syn" \in log[k].flags => "fin" \notin log[k].flags)
    BY <1>1, <1>15 DEF WellFlagged
  <2>2. k = 1 => Kind(log[k]) = {"syn"}
    <3> SUFFICES ASSUME k = 1 PROVE Kind(log[k]) = {"syn"}
      OBVIOUS
    <3>1. "syn" \in log[k].flags /\ "ack" \notin log[k].flags
      BY <1>3, <1>15 DEF IsFirst
    <3> QED
      BY <2>1, <3>1 DEF Kind
  <2>3. k = 2 => log[k].dir # log[1].dir /\ Kind(log[k]) = {"syn", "ack"}
    <3> SUFFICES ASSUME k = 2 PROVE log[k].dir # log[1].dir /\ Kind(log[k]) = {"syn", "ack"}
      OBVIOUS
    <3>1. "syn" \in log[k].flags /\ log[k].dir # log[1].dir
      BY <1>12
    <3>2. "ack" \in log[k].flags
      BY <1>10
    <3> QED
      BY <2>1, <3>1, <3>2 DEF Kind
  <2>4. k > 2 => Kind(log[k]) \in {{"ack"}, {"ack", "fin"}}
    <3> SUFFICES ASSUME k > 2 PROVE Kind(log[k]) \in {{"ack"}, {"ack", "fin"}}
      OBVIOUS
    <3>1. "syn" \notin log[k].flags
      BY <1>13
    <3>2. "ack" \in log[k].flags
      BY <1>10
    <3> QED
      BY <3>1, <3>2 DEF Kind
  <2> QED
    BY <1>14, <2>1, <2>2, <2>3, <2>4 DEF Step
<1> QED
  BY <1>15 DEF Legal, log

(* The states between the handshake and the end. *)
Late == {"ESTABLISHED", "FIN_WAIT_1", "FIN_WAIT_2", "TIME_WAIT", "CLOSE_WAIT", "LAST_ACK"}

LateOf(role) == IF role = "server" THEN Late \cup {"SYN_RCV"} ELSE Late

(* The state machines take a handshake, ... *)
LEMMA FsmTakesOpening ==
  /\ ProcessTcpFsm("client", Event("send", {"syn"}), "INIT") = "SYN_SENT"
  /\ ProcessTcpFsm("server", Event("recv", {"syn"}), "INIT") = "SYN_RCV"
  /\ ProcessTcpFsm("client", Event("recv", {"syn", "ack"}), "SYN_SENT") = "ESTABLISHED"
  /\ ProcessTcpFsm("server", Event("send", {"syn", "ack"}), "SYN_RCV") = "SYN_RCV"
<1>1. /\ ProcInitState("client", Event("send", {"syn"})) = "SYN_SENT"
      /\ ProcInitState("server", Event("recv", {"syn"})) = "SYN_RCV"
  BY DEF ProcInitState
<1> DEFINE r == Event("recv", {"syn", "ack"})
<1>11. Is(r, "recv", {"syn", "ack"}) /\ ~ Is(r, "recv", {"syn"}) /\ ~ Is(r, "send", {"ack"})
  BY DEF Is, Event
<1> HIDE DEF r
<1>2. ProcSynSentState("client", r) = "ESTABLISHED"
  BY <1>11 DEF ProcSynSentState
<1> DEFINE e == Event("send", {"syn", "ack"})
<1>3. /\ ~ Has(e, "send", "fin") /\ ~ Has(e, "recv", "fin") /\ ~ Has(e, "recv", "syn")
      /\ ~ Is(e, "recv", {"ack"}) /\ ~ Is(e, "send", {"ack"}) /\ Is(e, "send", {"syn", "ack"})
  BY DEF Has, Is, Event
<1> HIDE DEF e
<1>4. ProcSynRcvState("server", e) = "SYN_RCV"
  BY <1>3 DEF ProcSynRcvState
<1> QED
  BY <1>1, <1>2, <1>4 DEF ProcessTcpFsm, e, r

(* ... and then anything that acknowledges, if no FIN comes twice. *)
LEMMA FsmTakes ==
  ASSUME NEW role \in {"client", "server"}, NEW f \in LateOf(role), NEW side \in Sides,
         NEW flags \in {{"ack"}, {"ack", "fin"}}, NEW d \in Directions, NEW fins \in SUBSET Directions,
         Agrees(f, d, fins), "fin" \in flags => By(side, d) \notin fins
  PROVE  ProcessTcpFsm(role, Event(side, flags), f) \in LateOf(role) \cup {"CLOSED"}
<1> DEFINE e == Event(side, flags)
           n == ProcessTcpFsm(role, e, f)
<1>1. e.side = side /\ e.flags = flags
  BY DEF Event
<1>2. \A w \in Sides : /\ Is(e, w, {"ack"}) <=> side = w /\ "fin" \notin flags
                       /\ Is(e, w, {"fin", "ack"}) <=> side = w /\ "fin" \in flags
                       /\ ~ Is(e, w, {"fin"}) /\ ~ Is(e, w, {"syn", "ack"})
  BY DEF Is, Event
<1>3. \A w \in Sides : \A g : Has(e, w, g) <=> side = w /\ g \in flags
  BY <1>1 DEF Has
<1>4. "send" \in Sides /\ "recv" \in Sides /\ (side = "send" \/ side = "recv")
  BY DEF Sides
<1>6. "ack" \in flags /\ "syn" \notin flags
  OBVIOUS
<1> SUFFICES n \in LateOf(role) \cup {"CLOSED"}
  OBVIOUS
<1> HIDE DEF e
<1>7. CASE f = "SYN_RCV"
  <2>1. role = "server"
    BY <1>7 DEF LateOf, Late
  <2>2. n = ProcSynRcvState(role, e)
    BY <1>7 DEF ProcessTcpFsm
  <2>3. n \in {"FIN_WAIT_1", "ESTABLISHED", "SYN_RCV", "CLOSE_WAIT"}
    BY <1>2, <1>3, <1>4, <1>6, <2>1, <2>2 DEF ProcSynRcvState
  <2> QED
    BY <2>1, <2>3 DEF LateOf, Late
<1>8. CASE f = "ESTABLISHED"
  <2>1. n \in {"FIN_WAIT_1", "ESTABLISHED", "CLOSE_WAIT"}
    BY <1>8 DEF ProcessTcpFsm, ProcEstablishedState
  <2> QED
    BY <2>1 DEF LateOf, Late
<1>9. CASE f = "FIN_WAIT_1"
  <2>1. ~ (side = "send" /\ "fin" \in flags)
    BY <1>9 DEF Agrees, By
  <2>2. n = ProcFinWait1State(role, e)
    BY <1>9 DEF ProcessTcpFsm
  <2>3. n \in {"TIME_WAIT", "FIN_WAIT_2", "FIN_WAIT_1"}
    BY <1>2, <1>4, <2>1, <2>2 DEF ProcFinWait1State
  <2> QED
    BY <2>3 DEF LateOf, Late
<1>10. CASE f = "FIN_WAIT_2"
  <2>1. n = ProcFinWait2State(role, e)
    BY <1>10 DEF ProcessTcpFsm
  <2>2. n \in {"TIME_WAIT", "FIN_WAIT_2"}
    BY <1>3, <1>4, <1>6, <2>1 DEF ProcFinWait2State
  <2> QED
    BY <2>2 DEF LateOf, Late
<1>11. CASE f = "TIME_WAIT"
  BY <1>11 DEF ProcessTcpFsm, LateOf, Late
<1>12. CASE f = "CLOSE_WAIT"
  <2>1. ~ (side = "recv" /\ "fin" \in flags)
    BY <1>12 DEF Agrees, By
  <2>2. n = ProcCloseWaitState(role, e)
    BY <1>12 DEF ProcessTcpFsm
  <2>3. n \in {"LAST_ACK", "CLOSE_WAIT"}
    BY <1>2, <1>3, <1>4, <2>1, <2>2 DEF ProcCloseWaitState
  <2> QED
    BY <2>3 DEF LateOf, Late
<1>13. CASE f = "LAST_ACK"
  <2>1. n \in {"LAST_ACK", "CLOSED"}
    BY <1>13 DEF ProcessTcpFsm, ProcLastAckState
  <2> QED
    BY <2>1 DEF LateOf, Late
<1>14. f \in Late \cup {"SYN_RCV"}
  BY DEF LateOf
<1> QED
  BY <1>7, <1>8, <1>9, <1>10, <1>11, <1>12, <1>13, <1>14 DEF Late

-----------------------------------------------------------------------------
(* The state machines of both ends, k packets after the connection began.  *)

Running(log, k, a) ==
  /\ k = 0 => a.total = 0 /\ \A d \in Directions : a.fsm[d] = "INIT"
  /\ k > 0 => a.total > 0 /\ a.role[log[1].dir] = "client" /\ a.role[Other(log[1].dir)] = "server"
  /\ k = 1 => a.fsm[log[1].dir] = "SYN_SENT" /\ a.fsm[Other(log[1].dir)] = "SYN_RCV"
  /\ k > 1 => \A d \in Directions : a.fsm[d] \in LateOf(a.role[d])

Unaborted(log, k, a) ==
  /\ \A i \in 1 .. Len(a.records) : a.records[i].event # "TCE_CONN_ABORT"
  /\ Ended(a) \/ Running(log, k, a)

LEMMA OpensLegally ==
  ASSUME NEW log \in Seq(Packet), Legal(log)
  PROVE  OpensOnly(log)
<1> SUFFICES ASSUME log # <<>> PROVE "fin" \notin log[1].flags
  BY DEF OpensOnly
<1>1. Step(log, 1)
  BY DEF Legal
<1> QED
  BY <1>1 DEF Step, Kind

(* Where the next packet takes them. *)
LEMMA ExpectedNext ==
  ASSUME NEW log \in Seq(Packet), NEW k \in Nat, k < Len(log), Legal(log), NEW a,
         Follows(log, k, a), ~ Ended(a), Running(log, k, a), NEW d \in Directions
  PROVE  LET p    == log[k + 1]
             role == RoleAt(a, p, d)
             n    == After(role, p, d, a.fsm[d])
         IN /\ role = IF d = log[1].dir THEN "client" ELSE "server"
            /\ k = 0 => n = IF d = log[1].dir THEN "SYN_SENT" ELSE "SYN_RCV"
            /\ k > 0 => n \in LateOf(role) \cup {"CLOSED"}
<1> DEFINE p    == log[k + 1]
           role == RoleAt(a, p, d)
           side == IF d = p.dir THEN "send" ELSE "recv"
           n    == After(role, p, d, a.fsm[d])
           c    == log[1].dir
<1>1. Len(log) \in Nat /\ k + 1 \in 1 .. Len(log) /\ 1 \in 1 .. Len(log) /\ p \in Packet /\ log[1] \in Packet
  OBVIOUS
<1>2. Step(log, k + 1)
  BY <1>1 DEF Legal
<1>3. c \in Directions /\ p.dir \in Directions /\ (d = c \/ d = Other(c)) /\ Other(c) # c
  BY <1>1, PacketIs, DirectionsAre
<1>4. side \in Sides /\ By(side, d) = p.dir
  BY <1>3, DirectionsAre DEF Sides, By
<1>5. n = ProcessTcpFsm(role, Event(side, Kind(p)), a.fsm[d])
  BY DEF After
<1>6. CASE k = 0
  <2>1. a.total = 0 /\ a.fsm[d] = "INIT" /\ p = log[1] /\ Kind(p) = {"syn"}
    BY <1>2, <1>6 DEF Running, Step
  <2>2. role = (IF d = c THEN "client" ELSE "server") /\ side = IF d = c THEN "send" ELSE "recv"
    BY <2>1 DEF RoleAt
  <2> HIDE DEF role, side, n
  <2>3. n = IF d = c THEN "SYN_SENT" ELSE "SYN_RCV"
    BY <1>5, <2>1, <2>2, FsmTakesOpening
  <2> QED
    BY <1>6, <2>2, <2>3 DEF role, n
<1>7. CASE k > 0
  <2>1. role = IF d = c THEN "client" ELSE "server"
    BY <1>3, <1>7 DEF Running, RoleAt
  <2>2. role = a.role[d]
    BY <1>7 DEF Running, RoleAt
  <2> HIDE DEF role, n
  <2>3. n \in LateOf(role) \cup {"CLOSED"}
    <3>1. CASE k = 1
      <4>1. a.fsm[d] = IF d = c THEN "SYN_SENT" ELSE "SYN_RCV"
        BY <1>3, <3>1 DEF Running
      <4>2. p.dir # c /\ Kind(p) = {"syn", "ack"}
        BY <1>2, <3>1 DEF Step
      <4>3. side = IF d = c THEN "recv" ELSE "send"
        BY <1>3, <4>2, DirectionsAre
      <4> HIDE DEF side
      <4>4. n = IF d = c THEN "ESTABLISHED" ELSE "SYN_RCV"
        BY <1>5, <2>1, <4>1, <4>2, <4>3, FsmTakesOpening
      <4> QED
        BY <2>1, <4>4 DEF LateOf, Late
    <3>2. CASE k > 1
      <4> DEFINE fins == FinsOf(log, k)
      <4>1. a.fsm[d] \in LateOf(role)
        BY <2>2, <3>2 DEF Running
      <4>2. Kind(p) \in {{"ack"}, {"ack", "fin"}}
        BY <1>2, <3>2 DEF Step
      <4>3. Agrees(a.fsm[d], d, fins) /\ fins \in SUBSET Directions
        BY OpensLegally DEF Follows, GoingOn, FinsOf
      <4>4. "fin" \in Kind(p) => By(side, d) \notin fins
        <5>1. "fin" \in p.flags => p.dir \notin FinsOf(log, (k + 1) - 1)
          BY <1>2 DEF Step
        <5>2. (k + 1) - 1 = k
          OBVIOUS
        <5> QED
          BY <1>4, <5>1, <5>2 DEF Kind
      <4>5. role \in {"client", "server"}
        BY <2>1
      <4> HIDE DEF side, fins
      <4> QED
        BY <1>4, <1>5, <4>1, <4>2, <4>3, <4>4, <4>5, FsmTakes
    <3> QED
      BY <1>7, <3>1, <3>2
  <2> QED
    BY <1>7, <2>1, <2>3 DEF role, n
<1> QED
  BY <1>6, <1>7

LEMMA UnabortedNext ==
  ASSUME NEW log \in Seq(Packet), NEW k \in Nat, k < Len(log), Legal(log), NEW a,
         Follows(log, k, a), Unaborted(log, k, a), NEW now \in Nat
  PROVE  Unaborted(log, k + 1, AnalyzePkt(a, log[k + 1], now))
<1> DEFINE p == log[k + 1]
           n == AnalyzePkt(a, p, now)
<1>1. CASE Ended(a)
  <2>1. n = a
    BY <1>1, AnalyzeEnded
  <2> QED
    BY <1>1, <2>1 DEF Unaborted
<1>2. CASE ~ Ended(a)
  <2>1. Running(log, k, a)
    BY <1>2 DEF Unaborted
  <2>2. a \in Analyzers(Packet) /\ Open(a)
    BY <1>2 DEF Follows, GoingOn
  <2>3. k + 1 \in 1 .. Len(log) /\ p \in Packet /\ 1 \in 1 .. Len(log) /\ log[1] \in Packet
    OBVIOUS
  <2>4. Takes(a, p, n) /\ n \in Analyzers(Packet)
    BY <1>2, <2>2, <2>3, AnalyzePktIs
  <2> HIDE DEF n
  <2>5. \A d \in Directions :
          LET role == RoleAt(a, p, d)
              m    == After(role, p, d, a.fsm[d])
          IN /\ role = IF d = log[1].dir THEN "client" ELSE "server"
             /\ k = 0 => m = IF d = log[1].dir THEN "SYN_SENT" ELSE "SYN_RCV"
             /\ k > 0 => m \in LateOf(role) \cup {"CLOSED"}
    BY <1>2, <2>1, ExpectedNext
  <2>6. Step(log, k + 1) /\ "rst" \notin p.flags
    BY <2>3 DEF Legal, Step
  <2> HIDE DEF p
  <2>7. \A d \in Directions : After(RoleAt(a, p, d), p, d, a.fsm[d]) # "error"
    BY <2>5 DEF LateOf, Late
  <2>8. ~ Unexpected(a, p)
    BY <2>6, <2>7 DEF Unexpected
  <2>9. /\ a.records \in Seq(Recordable) /\ a.total \in Nat
        /\ \A i \in 1 .. Len(a.records) : a.records[i].event # "TCE_CONN_ABORT"
    BY <2>2, AnalyzerIs DEF Unaborted
  <2>10. ASSUME NEW r \in Recordable, r.event # "TCE_CONN_ABORT", n.records = Append(a.records, r)
         PROVE  \A i \in 1 .. Len(n.records) : n.records[i].event # "TCE_CONN_ABORT"
    <3> DEFINE old == a.records
               new == n.records
    <3>1. Len(old) \in Nat /\ Len(new) = Len(old) + 1 /\ new[Len(old) + 1] = r
          /\ \A i \in 1 .. Len(old) : new[i] = old[i]
      BY <2>9, <2>10, AppendProperties, LenProperties
    <3> HIDE DEF old, new
    <3>2. \A i \in 1 .. Len(old) : old[i].event # "TCE_CONN_ABORT"
      BY <2>9 DEF old
    <3>3. \A i \in 1 .. Len(new) : new[i].event # "TCE_CONN_ABORT"
      BY <2>10, <3>1, <3>2
    <3> QED
      BY <3>3 DEF new
  <2>11. CASE Concludes(a, n, "TCE_CONN_CLOSE")
    <3>1. \E r \in Recordable : r.event = "TCE_CONN_CLOSE" /\ n.records = Append(a.records, r)
      BY <2>11 DEF Concludes
    <3> QED
      BY <2>10, <2>11, <3>1 DEF Concludes, Unaborted, n, p
  <2>12. CASE Continues(a, p, n)
    <3>1. \A i \in 1 .. Len(n.records) : n.records[i].event # "TCE_CONN_ABORT"
      BY <2>9, <2>10, <2>12 DEF Continues
    <3>2. n.total > 0
      BY <2>4, <2>9 DEF Takes
    <3>3. \A d \in Directions : /\ n.role[d] = RoleAt(a, p, d)
                                /\ n.fsm[d] = After(RoleAt(a, p, d), p, d, a.fsm[d])
                                /\ n.fsm[d] # "CLOSED"
      BY <2>12 DEF Continues, FsmGoesOn
    <3>4. log[1].dir \in Directions /\ Other(log[1].dir) \in Directions /\ Other(log[1].dir) # log[1].dir
      BY <2>3, PacketIs, DirectionsAre
    <3>5. n.role[log[1].dir] = "client" /\ n.role[Other(log[1].dir)] = "server"
      BY <2>5, <3>3, <3>4
    <3>6. k + 1 = 1 => n.fsm[log[1].dir] = "SYN_SENT" /\ n.fsm[Other(log[1].dir)] = "SYN_RCV"
      BY <2>5, <3>3, <3>4
    <3>7. k + 1 > 1 => \A d \in Directions : n.fsm[d] \in LateOf(n.role[d])
      BY <2>5, <3>3
    <3>8. Running(log, k + 1, n)
      BY <3>2, <3>5, <3>6, <3>7 DEF Running
    <3> QED
      BY <3>1, <3>8 DEF Unaborted, n, p
  <2> QED
    BY <2>4, <2>8, <2>11, <2>12 DEF Takes
<1> QED
  BY <1>1, <1>2

LEMMA UnabortedAnalysis ==
  ASSUME NEW log \in Seq(Packet), NEW k \in Nat, k <= Len(log), Legal(log), NEW base,
         Follows(log, k, base), Unaborted(log, k, base), NEW now \in Nat
  PROVE  Unaborted(log, Len(log), Analysis(base, SubSeq(log, k + 1, Len(log)), now))
<1> DEFINE S == {s \in Nat \X Sound : Follows(log, s[1], s[2]) /\ Unaborted(log, s[1], s[2])}
<1>1. <<k, base>> \in S /\ base \in Sound
  BY FollowsSound
<1>2. ASSUME NEW m \in Nat, NEW a \in Sound, m < Len(log), <<m, a>> \in S
      PROVE  <<m + 1, AnalyzePkt(a, log[m + 1], now)>> \in S
  <2> DEFINE n == AnalyzePkt(a, log[m + 1], now)
  <2>1. Follows(log, m + 1, n)
    BY <1>2, FollowsNext
  <2>2. Unaborted(log, m + 1, n)
    BY <1>2, UnabortedNext
  <2>3. n \in Sound
    BY <2>1, FollowsSound
  <2> QED
    BY <2>1, <2>2, <2>3
<1> DEFINE result == Analysis(base, SubSeq(log, k + 1, Len(log)), now)
<1>3. \A s \in S : Unaborted(log, s[1], s[2])
  OBVIOUS
<1> HIDE DEF S
<1>4. KeepsOn(S, Sound, log, k, now)
  BY <1>2 DEF KeepsOn
<1>5. <<Len(log), result>> \in S
  BY <1>1, <1>4, SoundFeeds, AnalysisKeeps
<1> HIDE DEF result
<1>6. Unaborted(log, Len(log), result)
  BY <1>3, <1>5
<1> QED
  BY <1>6 DEF result

LEMMA UnabortedGrown ==
  ASSUME NEW old \in Seq(Packet), NEW new \in Seq(Packet), Grown(old, new),
         NEW k \in Nat, k <= Len(old), NEW a, Unaborted(old, k, a)
  PROVE  Unaborted(new, k, a)
<1>1. k > 0 => new[1] = old[1]
  BY DEF Grown
<1> QED
  BY <1>1 DEF Unaborted, Running

LEMMA UnabortedNone ==
  ASSUME NEW a, a.total = 0, a.records = <<>>, \A d \in Directions : a.fsm[d] = "INIT"
  PROVE  Unaborted(<<>>, 0, a)
BY DEF Unaborted, Running

LEMMA NewAnalyzerUnaborted ==
  /\ Unaborted(<<>>, 0, NewAnalyzer)
  /\ \A a \in Analyzers(Packet) : Unaborted(<<>>, 0, ReInitialized(a))
<1>1. /\ NewAnalyzer.total = 0 /\ NewAnalyzer.records = <<>>
      /\ \A d \in Directions : NewAnalyzer.fsm[d] = "INIT"
  BY DEF NewAnalyzer, Directions
<1>2. ASSUME NEW a \in Analyzers(Packet)
      PROVE  /\ ReInitialized(a).total = 0 /\ ReInitialized(a).records = <<>>
             /\ \A d \in Directions : ReInitialized(a).fsm[d] = "INIT"
  BY DEF ReInitialized, NewAnalyzer, Directions
<1> QED
  BY <1>1, <1>2, UnabortedNone

(* A connection that has skipped a gap has done so for good. *)
LEMMA RefactoredClosed ==
  ASSUME NEW Q \in SUBSET Packet
  PROVE  Keeps(Q, {c \in Conns(Q) : c.refactored})
<1> DEFINE S == {c \in Conns(Q) : c.refactored}
<1>1. ASSUME NEW c \in S, NEW n \in Conns(Q)
      PROVE  /\ Idle(c, n) => n \in S
             /\ FrontOrdered(c, n) => n \in S
             /\ \A p : Passed(c, n, p, p.dir, Other(p.dir)) => n \in S
             /\ \A p : Retransmitted(c, n, p) => n \in S
  BY DEF Idle, FrontOrdered, Passed, Retransmitted
<1>2. S \in SUBSET Conns(Q)
  OBVIOUS
<1> HIDE DEF S
<1>3. Progress(Q, S)
  BY <1>1 DEF Progress
<1>4. Keeps(Q, S)
  BY <1>2, <1>3, ClosedIf
<1> QED
  BY <1>4 DEF S

LEMMA LegalIf ==
  ASSUME NEW conv \in Conversations, Conforms(conv), Flagged(conv), FinLast(conv), NoReset(conv),
         NEW c \in Conns(Range(conv)), KnownInTurn(Range(conv), c), ~ c.refactored, Opened(c)
  PROVE  Legal(c.log)
<1> DEFINE Q == Range(conv)
<1>1. Q \in SUBSET Packet /\ InTurn(Q) /\ WellFlagged(Q)
  BY PacketsAre, ConformsInTurn, ConformsFlagged
<1>2. c \in Conns(Q) /\ Known(Q, c) /\ Advancing(c.log)
  BY DEF KnownInTurn
<1> HIDE DEF Q
<1> QED
  BY <1>1, <1>2, LogLegal

UnabortedOK ==
  ~ conn.refactored /\ NoReset(packets) => Unaborted(conn.log, Len(conn.log), analyzer)

LEMMA UnabortedProcess ==
  ASSUME \A conv \in Conversations : Conforms(conv) /\ Flagged(conv) /\ FinLast(conv),
         FollowOK, UnabortedOK, FollowOK', KnownTurnOK', NEW i \in DOMAIN packets, ProcessTcpPkt(i)
  PROVE  UnabortedOK'
<1> SUFFICES ASSUME ~ conn'.refactored, NoReset(packets)
             PROVE  Unaborted(conn'.log, Len(conn'.log), analyzer')
  <2>1. packets' = packets
    BY DEF ProcessTcpPkt, PktMsgProc
  <2> QED
    BY <2>1 DEF UnabortedOK
<1>1. Captures(i)
  BY PktMsgProcIs DEF FollowOK, ProcessTcpPkt
<1> DEFINE old == conn.log
           new == conn'.log
           now == clock'
<1>2. /\ packets \in Conversations /\ conn \in Conns(Pkts) /\ Pkts \in SUBSET Packet
      /\ Opened(conn) /\ Follows(old, Len(old), analyzer)
  BY PacketsAre DEF FollowOK, ConnOK, Pkts
<1>3. Pkts' = Pkts /\ packets' = packets
  BY <1>1 DEF Captures
<1>4. conn' \in Conns(Pkts) /\ Opened(conn') /\ KnownInTurn(Pkts, conn')
  <2>1. KnownInTurn(Pkts', conn') /\ conn' \in Conns(Pkts') /\ Opened(conn')
    BY DEF KnownTurnOK, FollowOK, ConnOK
  <2> QED
    BY <1>3, <2>1
<1>5. ~ conn.refactored
  <2> SUFFICES ASSUME conn.refactored PROVE FALSE
    OBVIOUS
  <2> DEFINE S == {c \in Conns(Pkts) : c.refactored}
  <2>1. conn \in S
    BY <1>2
  <2>2. Keeps(Pkts, S)
    BY <1>2, RefactoredClosed
  <2> HIDE DEF S
  <2>3. conn' \in S
    BY <1>1, <2>1, <2>2, ConnStays DEF FollowOK
  <2> QED
    BY <2>3 DEF S
<1>6. /\ Grown(old, new) /\ old \in Seq(Packet) /\ Len(old) \in Nat
      /\ new \in Seq(Packet) /\ Len(new) \in Nat /\ Len(old) <= Len(new) /\ now \in Nat
      /\ analyzer' = Analysis(analyzer, SubSeq(new, Len(old) + 1, Len(new)), now)
  BY Releases DEF FollowOK
<1>7. Legal(new)
  <2>1. Conforms(packets) /\ Flagged(packets) /\ FinLast(packets)
    BY <1>2
  <2> QED
    BY <1>2, <1>4, <2>1, LegalIf DEF Pkts
<1>8. Unaborted(old, Len(old), analyzer)
  BY <1>5 DEF UnabortedOK
<1> HIDE DEF old, new, now
<1>9. Follows(new, Len(old), analyzer) /\ Unaborted(new, Len(old), analyzer)
  BY <1>2, <1>6, <1>8, FollowsGrown, UnabortedGrown
<1>10. Unaborted(new, Len(new), analyzer')
  BY <1>6, <1>7, <1>9, UnabortedAnalysis
<1> QED
  BY <1>10 DEF new

(* No connection of two ends that follow the protocol is recorded as       *)
(* aborted without a reset, in whatever order their packets were captured: *)
(* the state machine of either end takes each of them, until a gap is      *)
(* skipped.                                                                *)
THEOREM ConnectionNotAborted ==
  ASSUME \A conv \in Conversations : Conforms(conv) /\ Flagged(conv) /\ FinLast(conv)
  PROVE  ConnSpec => []NotAborted
<1>1. ConnInit => UnabortedOK
  <2> SUFFICES ASSUME ConnInit PROVE UnabortedOK
    OBVIOUS
  <2>1. conn = NewConn /\ analyzer = NewAnalyzer
    BY DEF ConnInit, Init
  <2>2. conn.log = <<>> /\ Len(conn.log) = 0
    BY <2>1, NewConnIs
  <2> QED
    BY <2>1, <2>2, NewAnalyzerUnaborted DEF UnabortedOK
<1>2. FollowOK /\ FollowOK' /\ KnownTurnOK' /\ UnabortedOK /\ [ConnNext]_connVars => UnabortedOK'
  <2> SUFFICES ASSUME FollowOK, FollowOK', KnownTurnOK', UnabortedOK, [ConnNext]_connVars
               PROVE  UnabortedOK'
    OBVIOUS
  <2>1. CASE \E i \in DOMAIN packets : ProcessTcpPkt(i)
    BY <2>1, UnabortedProcess
  <2>2. CASE Reuse
    <3>1. conn' = NewConn
      BY <2>2, ReinitializeIs DEF Reuse, FollowOK, ConnOK
    <3>2. conn'.log = <<>> /\ Len(conn'.log) = 0
      BY <3>1, NewConnIs
    <3>3. analyzer \in Analyzers(Packet) /\ analyzer' = ReInitialized(analyzer)
      BY <2>2 DEF FollowOK, Follows, Reuse
    <3> QED
      BY <3>2, <3>3, NewAnalyzerUnaborted DEF UnabortedOK
  <2>3. CASE UNCHANGED connVars
    BY <2>3 DEF connVars, UnabortedOK
  <2> QED
    BY <2>1, <2>2, <2>3 DEF ConnNext
<1>3. UnabortedOK /\ FollowOK => NotAborted
  <2> SUFFICES ASSUME UnabortedOK, FollowOK, ~ conn.refactored, NoReset(packets)
               PROVE  "TCE_CONN_ABORT" \notin Range(Events)
    BY DEF NotAborted
  <2>1. analyzer.records \in Seq(Recordable)
    BY AnalyzerIs DEF FollowOK, Follows
  <2>2. DOMAIN Events = 1 .. Len(analyzer.records)
        /\ \A i \in DOMAIN Events : Events[i] = analyzer.records[i].event
    BY <2>1 DEF Events
  <2> QED
    BY <2>2 DEF UnabortedOK, Unaborted, Range
<1>4. \A conv \in Conversations : Conforms(conv)
  OBVIOUS
<1>5. Spec => []KnownTurnOK
  BY <1>4, KnownTurnAlways
<1> QED
  BY <1>1, <1>2, <1>3, <1>5, FollowAlways, ConnectionImplementsReorder, PTL DEF ConnSpec

-----------------------------------------------------------------------------
(* The end of a conversation reaches the analyzer. *)

(* What is an end's last word, or looks like it, never comes too late.     *)
LEMMA LastWordNeverLost ==
  ASSUME NEW Q \in SUBSET Packet, NEW p \in Q, Space(p) = 0,
         \A q \in Q : q.dir = p.dir /\ Space(q) > 0 => End(q) <= p.seq
  PROVE  NeverLost(Q, {q \in Q : Alike(p, q)})
<1> DEFINE E == {q \in Q : Alike(p, q)}
<1>1. ASSUME NEW q \in E, NEW r \in Q, q.dir = r.dir, Repeats(q, r) PROVE r \in E
  <2>1. q \in Packet /\ r \in Packet /\ Alike(p, q) /\ q.len \in Nat
    BY PacketIs
  <2>2. q.len = 0 /\ q.flags \cap {"syn", "fin"} = {}
    <3>1. Space(q) = 0
      BY <2>1 DEF Alike
    <3>2. \A x \in {0, 1} : q.len + x = 0 => q.len = 0 /\ x = 0
      BY <2>1
    <3> QED
      BY <3>1, <3>2 DEF Space
  <2>3. r.seq = q.seq /\ r.ack = q.ack /\ r.len = 0 /\ r.flags \cap {"syn", "fin"} = {}
    BY <1>1, <2>2 DEF Repeats, Same
  <2>4. Space(r) = 0
    BY <2>3 DEF Space
  <2> QED
    BY <1>1, <2>1, <2>3, <2>4 DEF Alike
<1>2. ASSUME NEW c \in Conns(Q), Known(Q, c), NEW q \in E
      PROVE  PktOrderType(c, q) \notin {"ignore", "retransmit"}
  <2>1. q \in Q /\ q \in Packet /\ q.seq = p.seq /\ q.dir = p.dir
    BY DEF Alike
  <2>2. ASSUME c.half[q.dir].sent PROVE c.half[q.dir].next_seq <= q.seq
    <3>1. q.dir \in Directions
      BY <2>1, PacketIs
    <3>2. Reached(Q, c, q.dir)
      BY <1>2, <2>2, <3>1 DEF Known
    <3>3. PICK r \in Of(Q, q.dir) : Space(r) > 0 /\ c.half[q.dir].next_seq = End(r)
      BY <3>2 DEF Reached
    <3>4. r \in Q /\ r.dir = p.dir
      BY <2>1 DEF Of
    <3> QED
      BY <2>1, <3>3, <3>4
  <2>3. q.dir \in Directions /\ q.seq \in Nat /\ c.half[q.dir].next_seq \in Nat
    BY <2>1, PacketIs, ConnIs, NumbersAre
  <2>4. ~ (c.half[q.dir].sent /\ q.seq < c.half[q.dir].next_seq)
    BY <2>2, <2>3
  <2> QED
    BY <2>1, <2>4, OrderTypeIs
<1>3. E \in SUBSET Q
  OBVIOUS
<1> HIDE DEF E
<1>4. NeverLost(Q, E)
  BY <1>1, <1>2, <1>3 DEF NeverLost
<1> QED
  BY <1>4 DEF E

(* Once everything has arrived, an end's last word has been passed on, or  *)
(* another packet that looks like it.                                      *)
LEMMA LastWordPassedOn ==
  ASSUME \A conv \in Conversations : Conforms(conv), SettledOK, AllPassedOn,
         ~ conn.abandoned, ~ conn.refactored, \A i \in DOMAIN packets : arrived[i] > 0,
         NEW p \in Pkts, LastWord(packets, p)
  PROVE  \E q \in Pkts : Alike(p, q) /\ q \in Range(conn.log)
<1>1. Pkts \in SUBSET Packet /\ packets \in Conversations
  BY PacketsAre DEF SettledOK, KnownOK, ConnOK, Pkts
<1> DEFINE E == {q \in Pkts : Alike(p, q)}
<1>2. NeverLost(Pkts, E) /\ p \in E
  <2>1. Space(p) = 0 /\ \A q \in Pkts : q.dir = p.dir /\ Space(q) > 0 => End(q) <= p.seq
    BY DEF LastWord, Pkts
  <2>2. NeverLost(Pkts, E)
    BY <1>1, <2>1, LastWordNeverLost
  <2> QED
    BY <2>1, <2>2 DEF Alike
<1>3. \A q \in E : q \in Pkts /\ Alike(p, q)
  OBVIOUS
<1> HIDE DEF E
<1>4. PICK i \in DOMAIN packets : p = packets[i]
  BY DEF Pkts, Range
<1>5. AccountedOrSkipped(conn, E)
  <2>1. arrived[i] > 0 /\ packets[i] \in E
    BY <1>2, <1>4
  <2> QED
    BY <1>2, <2>1 DEF SettledOK, ArrivedAccounted
<1>6. PICK q \in E : Carries(conn, q)
  BY <1>5 DEF AccountedOrSkipped
<1>7. PICK m \in DOMAIN packets : q = packets[m]
  BY <1>3 DEF Pkts, Range
<1>8. \A k \in DOMAIN packets : k < m /\ Space(packets[k]) > 0 => packets[k] \in Range(conn.log)
  BY DEF AllPassedOn
<1>9. q \in Range(conn.log)
  <2> SUFFICES ASSUME q \notin Range(conn.log) PROVE FALSE
    OBVIOUS
  <2>1. q \notin Range(conn.half[q.dir].cached)
    BY <1>7, <1>8, NotWaiting
  <2> QED
    BY <1>6, <2>1 DEF Carries
<1> QED
  BY <1>3, <1>9

(* Whatever the states of its ends, a RST ends a connection. *)
LEMMA ResetEnds ==
  ASSUME NEW a \in Analyzers(Packet), ~ Ended(a), NEW p \in Packet, "rst" \in p.flags, NEW now \in Nat
  PROVE  Ended(AnalyzePkt(a, p, now))
<1> DEFINE b    == ProcessConnStat(a, p, now)
           m    == ProcessFsm(b, p)
           done == CheckHandshake(m, now)
           up   == IF p.len > 0 THEN Append(done.up, p) ELSE done.up
           n    == [done EXCEPT !.up = up]
<1>1. AnalyzePkt(a, p, now) = n
  BY DEF AnalyzePkt, Ended
<1>2. b \in Analyzers(Packet)
  BY ProcessConnStatIs
<1>3. m = ConnectionFailed(b)
  BY DEF ProcessFsm
<1> HIDE DEF b, m
<1>4. m \in Analyzers(Packet) /\ Ended(m)
  <2>1. m \in Analyzers(Packet) /\ Ends(b, m, "TCE_CONN_ABORT", "failed")
    BY <1>2, <1>3, ConnectionFailedIs
  <2> QED
    BY <2>1 DEF Ends, Ended
<1>5. done \in Analyzers(Packet) /\ Checks(m, done)
  BY <1>4, CheckHandshakeIs
<1> HIDE DEF done
<1>6. Ended(done)
  BY <1>4, <1>5 DEF Checks, Ended
<1> HIDE DEF up
<1>7. n.state = done.state
  BY <1>5 DEF Analyzers
<1> QED
  BY <1>1, <1>6, <1>7 DEF Ended

(* The end d is the second to send a FIN. *)
SecondFin(log, k, d) ==
  \E i \in 1 .. k : /\ log[i].dir = d /\ "fin" \in log[i].flags
                    /\ d \notin FinsOf(log, i - 1) /\ Other(d) \in FinsOf(log, i - 1)

(* What an analyzer is waiting for that has not ended: it has seen no RST, *)
(* and nothing that acknowledges the second FIN.                           *)
Lingers(log, k, a) ==
  /\ \A i \in 1 .. k : "rst" \notin log[i].flags
  /\ \A d \in Directions : SecondFin(log, k, d) => a.fsm[d] = "LAST_ACK"
  /\ \A i \in 1 .. k :
       Kind(log[i]) = {"ack"} => ~ SecondFin(log, i - 1, Other(log[i].dir))

WindsUp(log, k, a) == IF Ended(a) THEN \E i : Conclusive(a, i) ELSE Lingers(log, k, a)

LEMMA LastAckTakes ==
  ASSUME NEW role, NEW p \in Packet, NEW d \in Directions
  PROVE  /\ After(role, p, d, "LAST_ACK") \in {"LAST_ACK", "CLOSED"}
         /\ d # p.dir /\ Kind(p) = {"ack"} => After(role, p, d, "LAST_ACK") = "CLOSED"
         /\ d = p.dir /\ "fin" \in p.flags => After(role, p, d, "CLOSE_WAIT") = "LAST_ACK"
<1>1. After(role, p, d, "LAST_ACK") \in {"LAST_ACK", "CLOSED"}
  BY DEF After, ProcessTcpFsm, ProcLastAckState
<1>2. ASSUME d # p.dir, Kind(p) = {"ack"} PROVE After(role, p, d, "LAST_ACK") = "CLOSED"
  BY <1>2 DEF After, ProcessTcpFsm, ProcLastAckState, Is
<1>3. ASSUME d = p.dir, "fin" \in p.flags PROVE After(role, p, d, "CLOSE_WAIT") = "LAST_ACK"
  <2> DEFINE e == Event("send", Kind(p))
  <2>1. Has(e, "send", "fin") /\ ~ Is(e, "recv", {"ack"}) /\ ~ Is(e, "send", {"ack"})
    BY <1>3 DEF Has, Is, Event, Kind
  <2>2. After(role, p, d, "CLOSE_WAIT") = ProcCloseWaitState(role, e)
    BY <1>3 DEF After, ProcessTcpFsm
  <2> HIDE DEF e
  <2> QED
    BY <2>1, <2>2 DEF ProcCloseWaitState
<1> QED
  BY <1>1, <1>2, <1>3

(* One more packet, after which the connection goes on. *)
LEMMA LingersOn ==
  ASSUME NEW log \in Seq(Packet), OpensOnly(log), NEW k \in Nat, k < Len(log),
         NEW a \in Analyzers(Packet), GoingOn(log, k, a), Lingers(log, k, a),
         NEW n \in Analyzers(Packet), Continues(a, log[k + 1], n), "rst" \notin log[k + 1].flags
  PROVE  Lingers(log, k + 1, n)
<1> DEFINE p == log[k + 1]
<1>1. p \in Packet /\ p.dir \in Directions /\ (k + 1) - 1 = k
      /\ \A i : i \in 1 .. k + 1 <=> i \in 1 .. k \/ i = k + 1
  BY PacketIs
<1>2. \A d \in Directions : /\ n.fsm[d] = After(n.role[d], p, d, a.fsm[d])
                            /\ n.fsm[d] # "CLOSED"
  BY DEF Continues, FsmGoesOn
<1>3. \A i \in 1 .. k + 1 : "rst" \notin log[i].flags
  BY <1>1 DEF Lingers
<1>4. ASSUME NEW d \in Directions, SecondFin(log, k, d)
      PROVE  n.fsm[d] = "LAST_ACK" /\ ~ (d # p.dir /\ Kind(p) = {"ack"})
  <2>1. a.fsm[d] = "LAST_ACK"
    BY <1>4 DEF Lingers
  <2> HIDE DEF p
  <2> QED
    BY <1>1, <1>2, <2>1, LastAckTakes
<1>5. ASSUME NEW d \in Directions, SecondFin(log, k + 1, d) PROVE n.fsm[d] = "LAST_ACK"
  <2>1. CASE SecondFin(log, k, d)
    BY <1>4, <2>1
  <2>2. CASE ~ SecondFin(log, k, d)
    <3> DEFINE fins == FinsOf(log, k)
    <3>1. p.dir = d /\ "fin" \in p.flags /\ d \notin fins /\ Other(d) \in fins
      BY <1>1, <1>5, <2>2 DEF SecondFin
    <3>2. a.fsm[d] # "INIT"
      <4>1. k = 0 => fins = {}
        BY DEF FinsOf
      <4> QED
        BY <3>1, <4>1 DEF GoingOn
    <3>3. Agrees(a.fsm[d], d, fins) /\ a.fsm[d] # "CLOSED" /\ a.fsm[d] \in FsmStates
      BY AnalyzerIs DEF GoingOn, Open
    <3> HIDE DEF fins
    <3>4. a.fsm[d] = "CLOSE_WAIT"
      BY <3>1, <3>2, <3>3 DEF Agrees, FsmStates
    <3> HIDE DEF p
    <3> QED
      BY <1>1, <1>2, <3>1, <3>4, LastAckTakes
  <2> QED
    BY <2>1, <2>2
<1>6. ASSUME NEW i \in 1 .. k + 1, Kind(log[i]) = {"ack"}
      PROVE  ~ SecondFin(log, i - 1, Other(log[i].dir))
  <2>1. CASE i \in 1 .. k
    BY <1>6, <2>1 DEF Lingers
  <2>2. CASE i = k + 1
    <3>1. Other(p.dir) \in Directions /\ Other(p.dir) # p.dir
      BY <1>1, DirectionsAre
    <3>2. ~ SecondFin(log, k, Other(p.dir))
      BY <1>4, <1>6, <2>2, <3>1
    <3> QED
      BY <1>1, <2>2, <3>2
  <2> QED
    BY <1>1, <2>1, <2>2
<1> QED
  BY <1>3, <1>5, <1>6 DEF Lingers

LEMMA WindsUpNext ==
  ASSUME NEW log \in Seq(Packet), OpensOnly(log), NEW k \in Nat, k < Len(log), NEW a,
         Follows(log, k, a), WindsUp(log, k, a), NEW now \in Nat
  PROVE  WindsUp(log, k + 1, AnalyzePkt(a, log[k + 1], now))
<1> DEFINE p == log[k + 1]
           n == AnalyzePkt(a, p, now)
<1>1. CASE Ended(a)
  <2>1. n = a
    BY <1>1, AnalyzeEnded
  <2> QED
    BY <1>1, <2>1 DEF WindsUp
<1>2. CASE ~ Ended(a)
  <2>1. Lingers(log, k, a) /\ GoingOn(log, k, a) /\ a \in Analyzers(Packet) /\ Open(a)
    BY <1>2 DEF WindsUp, Follows, GoingOn
  <2>2. p \in Packet
    OBVIOUS
  <2>3. n \in Analyzers(Packet) /\ Takes(a, p, n) /\ ("rst" \in p.flags => Ended(n))
    BY <1>2, <2>1, <2>2, AnalyzePktIs, ResetEnds
  <2> HIDE DEF n
  <2>4. CASE Continues(a, p, n)
    <3>1. ~ Ended(n) /\ "rst" \notin p.flags
      BY <2>3, <2>4 DEF Continues
    <3>2. Lingers(log, k + 1, n)
      BY <2>1, <2>3, <2>4, <3>1, LingersOn
    <3> QED
      BY <3>1, <3>2 DEF WindsUp, n
  <2>5. ASSUME NEW event \in {"TCE_CONN_ABORT", "TCE_CONN_CLOSE"}, Concludes(a, n, event)
        PROVE  WindsUp(log, k + 1, n)
    <3>1. PICK r \in Recordable : r.event = event /\ n.records = Append(a.records, r)
      BY <2>5 DEF Concludes
    <3>2. Len(a.records) \in Nat /\ Len(n.records) = Len(a.records) + 1
          /\ n.records[Len(a.records) + 1] = r
      BY <2>1, <2>3, <3>1, RecordsNext
    <3>3. Conclusive(n, Len(a.records) + 1)
      BY <3>1, <3>2 DEF Conclusive
    <3> QED
      BY <2>5, <3>3 DEF Concludes, WindsUp
  <2> QED
    BY <2>3, <2>4, <2>5 DEF Takes, n
<1> QED
  BY <1>1, <1>2

LEMMA WindsUpAnalysis ==
  ASSUME NEW log \in Seq(Packet), OpensOnly(log), NEW k \in Nat, k <= Len(log), NEW base,
         Follows(log, k, base), WindsUp(log, k, base), NEW now \in Nat
  PROVE  WindsUp(log, Len(log), Analysis(base, SubSeq(log, k + 1, Len(log)), now))
<1> DEFINE S == {s \in Nat \X Sound : Follows(log, s[1], s[2]) /\ WindsUp(log, s[1], s[2])}
<1>1. <<k, base>> \in S /\ base \in Sound
  BY FollowsSound
<1>2. ASSUME NEW m \in Nat, NEW a \in Sound, m < Len(log), <<m, a>> \in S
      PROVE  <<m + 1, AnalyzePkt(a, log[m + 1], now)>> \in S
  <2> DEFINE n == AnalyzePkt(a, log[m + 1], now)
  <2>1. Follows(log, m + 1, n)
    BY <1>2, FollowsNext
  <2>2. WindsUp(log, m + 1, n)
    BY <1>2, WindsUpNext
  <2>3. n \in Sound
    BY <2>1, FollowsSound
  <2> QED
    BY <2>1, <2>2, <2>3
<1> DEFINE result == Analysis(base, SubSeq(log, k + 1, Len(log)), now)
<1>3. \A s \in S : WindsUp(log, s[1], s[2])
  OBVIOUS
<1> HIDE DEF S
<1>4. KeepsOn(S, Sound, log, k, now)
  BY <1>2 DEF KeepsOn
<1>5. <<Len(log), result>> \in S
  BY <1>1, <1>4, SoundFeeds, AnalysisKeeps
<1> HIDE DEF result
<1>6. WindsUp(log, Len(log), result)
  BY <1>3, <1>5
<1> QED
  BY <1>6 DEF result

LEMMA WindsUpGrown ==
  ASSUME NEW old \in Seq(Packet), NEW new \in Seq(Packet), Grown(old, new),
         NEW k \in Nat, k <= Len(old), NEW a, WindsUp(old, k, a)
  PROVE  WindsUp(new, k, a)
<1>1. \A i \in 1 .. k : new[i] = old[i]
  BY DEF Grown
<1>2. ASSUME NEW m \in 0 .. k PROVE FinsOf(new, m) = FinsOf(old, m)
  <2>1. \A i \in 1 .. m : new[i] = old[i]
    BY <1>1
  <2> QED
    BY <2>1 DEF FinsOf
<1>3. ASSUME NEW m \in 0 .. k, NEW d PROVE SecondFin(new, m, d) <=> SecondFin(old, m, d)
  <2>1. \A i \in 1 .. m : new[i] = old[i] /\ i - 1 \in 0 .. k
    BY <1>1
  <2>2. \A i \in 1 .. m : FinsOf(new, i - 1) = FinsOf(old, i - 1)
    BY <1>2, <2>1
  <2> QED
    BY <2>1, <2>2 DEF SecondFin
<1>4. k \in 0 .. k /\ \A i \in 1 .. k : i - 1 \in 0 .. k
  OBVIOUS
<1>5. Lingers(old, k, a) => Lingers(new, k, a)
  BY <1>1, <1>3, <1>4 DEF Lingers
<1> QED
  BY <1>5 DEF WindsUp

LEMMA NewAnalyzerWindsUp ==
  /\ WindsUp(<<>>, 0, NewAnalyzer)
  /\ \A a \in Analyzers(Packet) : WindsUp(<<>>, 0, ReInitialized(a))
<1>1. \A d : ~ SecondFin(<<>>, 0, d)
  BY DEF SecondFin
<1>2. \A a : a.state = {} => WindsUp(<<>>, 0, a)
  BY <1>1 DEF WindsUp, Lingers, Ended
<1>3. NewAnalyzer.state = {} /\ \A a : ReInitialized(a).state = {}
  BY DEF NewAnalyzer, ReInitialized
<1> QED
  BY <1>2, <1>3

WindsUpOK == WindsUp(conn.log, Len(conn.log), analyzer)

LEMMA WindsUpProcess ==
  ASSUME \A conv \in Conversations : FinApart(conv),
         FollowOK, WindsUpOK, FollowOK', NEW i \in DOMAIN packets, ProcessTcpPkt(i)
  PROVE  WindsUpOK'
<1> DEFINE old == conn.log
           new == conn'.log
           now == clock'
<1>1. /\ Grown(old, new) /\ old \in Seq(Packet) /\ Len(old) \in Nat
      /\ new \in Seq(Packet) /\ Len(new) \in Nat /\ Len(old) <= Len(new) /\ now \in Nat
      /\ analyzer' = Analysis(analyzer, SubSeq(new, Len(old) + 1, Len(new)), now)
  BY Releases DEF FollowOK
<1>2. OpensOnly(new)
  <2>1. FollowOK' => OpensOnly(conn.log)'
    <3> SUFFICES ASSUME conn'.log # <<>> PROVE "fin" \notin conn'.log[1].flags
      BY DEF OpensOnly
    <3>1. IsFirst(conn'.log[1]) /\ conn' \in Conns(Pkts') /\ Pkts' \in SUBSET Packet
      BY PacketsAre DEF FollowOK, Opened, ConnOK, Pkts
    <3>2. conn'.log[1] \in Pkts'
      BY <3>1, ConnIs
    <3>3. PICK j \in DOMAIN packets' : conn'.log[1] = packets'[j]
      BY <3>2 DEF Pkts, Range
    <3> QED
      BY <3>1, <3>3 DEF FollowOK, ConnOK, FinApart
  <2> QED
    BY <2>1
<1>3. Follows(old, Len(old), analyzer) /\ WindsUp(old, Len(old), analyzer)
  BY DEF FollowOK, WindsUpOK
<1> HIDE DEF old, new, now
<1>4. Follows(new, Len(old), analyzer) /\ WindsUp(new, Len(old), analyzer)
  BY <1>1, <1>3, FollowsGrown, WindsUpGrown
<1>5. WindsUp(new, Len(new), analyzer')
  BY <1>1, <1>2, <1>4, WindsUpAnalysis
<1> QED
  BY <1>5 DEF WindsUpOK, new

LEMMA WindsUpAlways ==
  ASSUME \A conv \in Conversations : FinApart(conv)
  PROVE  ConnSpec => []WindsUpOK
<1>1. ConnInit => WindsUpOK
  <2> SUFFICES ASSUME ConnInit PROVE WindsUpOK
    OBVIOUS
  <2>1. conn = NewConn /\ analyzer = NewAnalyzer
    BY DEF ConnInit, Init
  <2>2. conn.log = <<>> /\ Len(conn.log) = 0
    BY <2>1, NewConnIs
  <2> QED
    BY <2>1, <2>2, NewAnalyzerWindsUp DEF WindsUpOK
<1>2. FollowOK /\ FollowOK' /\ WindsUpOK /\ [ConnNext]_connVars => WindsUpOK'
  <2> SUFFICES ASSUME FollowOK, FollowOK', WindsUpOK, [ConnNext]_connVars
               PROVE  WindsUpOK'
    OBVIOUS
  <2>1. CASE \E i \in DOMAIN packets : ProcessTcpPkt(i)
    BY <2>1, WindsUpProcess
  <2>2. CASE Reuse
    <3>1. conn' = NewConn
      BY <2>2, ReinitializeIs DEF Reuse, FollowOK, ConnOK
    <3>2. conn'.log = <<>> /\ Len(conn'.log) = 0
      BY <3>1, NewConnIs
    <3>3. analyzer \in Analyzers(Packet) /\ analyzer' = ReInitialized(analyzer)
      BY <2>2 DEF FollowOK, Follows, Reuse
    <3> QED
      BY <3>2, <3>3, NewAnalyzerWindsUp DEF WindsUpOK
  <2>3. CASE UNCHANGED connVars
    BY <2>3 DEF connVars, WindsUpOK
  <2> QED
    BY <2>1, <2>2, <2>3 DEF ConnNext
<1> QED
  BY <1>1, <1>2, FollowAlways, PTL DEF ConnSpec

(* Both FINs are in the log, one of them first. *)
LEMMA OneFinSecond ==
  ASSUME NEW log \in Seq(Packet), \A d \in Directions : d \in FinsOf(log, Len(log))
  PROVE  \E d \in Directions : \E i, j \in 1 .. Len(log) :
           /\ i < j /\ d \notin FinsOf(log, j - 1)
           /\ log[i].dir = Other(d) /\ "fin" \in log[i].flags
           /\ log[j].dir = d /\ "fin" \in log[j].flags
<1> DEFINE At(d) == {i \in 1 .. Len(log) : log[i].dir = d /\ "fin" \in log[i].flags}
<1>1. ASSUME NEW d \in Directions
      PROVE  \E i \in At(d) : d \notin FinsOf(log, i - 1)
  <2>1. At(d) # {} /\ At(d) \in SUBSET Nat
    BY <1>1 DEF FinsOf
  <2>2. PICK i \in At(d) : \A k \in At(d) : i <= k
    <3> HIDE DEF At
    <3> QED
      BY <2>1, LeastOf
  <2>3. d \notin FinsOf(log, i - 1)
    <3> SUFFICES ASSUME d \in FinsOf(log, i - 1) PROVE FALSE
      OBVIOUS
    <3>1. PICK k \in 1 .. i - 1 : log[k].dir = d /\ "fin" \in log[k].flags
      BY DEF FinsOf
    <3>2. k \in At(d) /\ k < i
      BY <3>1
    <3> QED
      BY <2>2, <3>2
  <2> QED
    BY <2>3
<1>2. "S2B" \in Directions /\ "B2S" \in Directions /\ Other("S2B") = "B2S" /\ Other("B2S") = "S2B"
  BY DEF Directions, Other
<1>3. PICK i \in At("S2B") : "S2B" \notin FinsOf(log, i - 1)
  BY <1>1, <1>2
<1>4. PICK j \in At("B2S") : "B2S" \notin FinsOf(log, j - 1)
  BY <1>1, <1>2
<1>5. i < j \/ j < i
  BY <1>3, <1>4
<1> QED
  BY <1>2, <1>3, <1>4, <1>5

(* An end has one FIN, if nothing follows it that takes a number. *)
LEMMA OneFin ==
  ASSUME NEW conv \in Conversations, FinLast(conv), NEW p \in Range(conv), NEW q \in Range(conv),
         p.dir = q.dir, "fin" \in p.flags, "fin" \in q.flags
  PROVE  p = q
<1>1. PICK i \in DOMAIN conv : p = conv[i]
  BY DEF Range
<1>2. PICK j \in DOMAIN conv : q = conv[j]
  BY DEF Range
<1>3. conv \in Seq(Packet)
  BY ReorderAssumption
<1>4. i \in Nat /\ j \in Nat /\ 1 <= i /\ 1 <= j
  BY <1>3
<1>5. Space(p) > 0 /\ Space(q) > 0
  BY <1>1, <1>2, <1>3, FinTakesSpace
<1>6. ~ (Space(p) = 0) /\ ~ (Space(q) = 0)
  BY <1>5
<1>7. ~ (i < j)
  <2> SUFFICES ASSUME i < j PROVE FALSE
    OBVIOUS
  <2>1. i \in 1 .. j - 1
    BY <1>4
  <2> QED
    BY <1>1, <1>2, <1>6, <2>1 DEF FinLast
<1>8. ~ (j < i)
  <2> SUFFICES ASSUME j < i PROVE FALSE
    OBVIOUS
  <2>1. j \in 1 .. i - 1
    BY <1>4
  <2> QED
    BY <1>1, <1>2, <1>6, <2>1 DEF FinLast
<1> QED
  BY <1>1, <1>2, <1>4, <1>7, <1>8

(* A log that has all of a conversation that finishes leaves no analyzer   *)
(* waiting.                                                                *)
LEMMA NoneLingers ==
  ASSUME NEW conv \in Conversations, Flagged(conv), FinLast(conv), Finishes(conv),
         NEW log \in Seq(Range(conv)), NEW a, Lingers(log, Len(log), a),
         \A i \in DOMAIN log : AcksInLog(Range(conv), log, i),
         \A p \in Range(conv) : Space(p) > 0 => p \in Range(log),
         \A p \in Range(conv) : LastWord(conv, p) =>
           \E q \in Range(conv) : Alike(p, q) /\ q \in Range(log)
  PROVE  FALSE
<1> DEFINE Q == Range(conv)
<1>1. Q \in SUBSET Packet /\ \A p \in Q : \E i \in DOMAIN conv : p = conv[i]
  BY PacketsAre DEF Range
<1>2. /\ DOMAIN log = 1 .. Len(log) /\ Len(log) \in Nat /\ \A i \in 1 .. Len(log) : log[i] \in Q
      /\ log \in Seq(Packet)
  BY <1>1, LenProperties
<1>3. \A p \in Q : "syn" \notin p.flags => "ack" \in p.flags
  <2>1. \A i \in DOMAIN conv : "syn" \notin conv[i].flags => "ack" \in conv[i].flags
    BY DEF Flagged, IsFirst
  <2> QED
    BY <1>1, <2>1
<1>4. ASSUME Resets(conv) PROVE FALSE
  <2>1. PICK p \in Q : LastWord(conv, p) /\ \A q \in Q : Alike(p, q) => "rst" \in q.flags
    BY <1>4 DEF Resets
  <2>2. PICK q \in Q : Alike(p, q) /\ q \in Range(log)
    BY <2>1
  <2>3. PICK i \in 1 .. Len(log) : log[i] = q
    BY <1>2, <2>2 DEF Range
  <2> QED
    BY <2>1, <2>2, <2>3 DEF Lingers
<1>5. ASSUME Closes(conv) PROVE FALSE
  <2>1. \A d \in Directions : d \in FinsOf(log, Len(log))
    <3> SUFFICES ASSUME NEW d \in Directions PROVE d \in FinsOf(log, Len(log))
      OBVIOUS
    <3>1. PICK p \in Q : p.dir = d /\ "fin" \in p.flags
      BY <1>5 DEF Closes
    <3>2. p \in Range(log)
      BY <1>1, <3>1, FinTakesSpace
    <3>3. PICK i \in 1 .. Len(log) : log[i] = p
      BY <1>2, <3>2 DEF Range
    <3> QED
      BY <3>1, <3>3 DEF FinsOf
  <2>2. PICK d \in Directions, i \in 1 .. Len(log), j \in 1 .. Len(log) :
          /\ i < j /\ d \notin FinsOf(log, j - 1)
          /\ log[i].dir = Other(d) /\ "fin" \in log[i].flags
          /\ log[j].dir = d /\ "fin" \in log[j].flags
    BY <1>2, <2>1, OneFinSecond
  <2>3. PICK p \in Q, q \in Q : /\ p.dir = d /\ "fin" \in p.flags /\ Acknowledges(q, p)
                                /\ "fin" \in q.flags \/ LastWord(conv, q)
    BY <1>5 DEF Closes
  <2>4. p = log[j] /\ Other(d) \in Directions /\ Other(d) # d /\ Other(Other(d)) = d
    <3>1. log[j] \in Q
      BY <1>2
    <3> QED
      BY <2>2, <2>3, <3>1, OneFin, DirectionsAre
  <2>5. q.dir = Other(d)
    <3>1. q.dir # d /\ q.dir \in Directions
      BY <1>1, <2>3, PacketIs DEF Acknowledges
    <3> QED
      BY <3>1, DirectionsAre
  <2>6. ASSUME NEW k \in 1 .. Len(log), Acknowledges(log[k], p), "ack" \in log[k].flags
        PROVE  j < k
    <3>1. InLogBefore(log, k, p)
      BY <1>2, <2>6 DEF AcksInLog
    <3>2. PICK m \in 1 .. k - 1 : log[m] = p
      BY <3>1 DEF InLogBefore
    <3>3. ~ (m <= j - 1)
      <4> SUFFICES ASSUME m <= j - 1 PROVE FALSE
        OBVIOUS
      <4>1. m \in 1 .. j - 1
        BY <1>2, <3>2
      <4> QED
        BY <2>2, <2>3, <3>2, <4>1 DEF FinsOf
    <3> QED
      BY <1>2, <3>2, <3>3
  <2>7. CASE "fin" \in q.flags
    <3>1. q = log[i]
      <4>1. log[i] \in Q
        BY <1>2
      <4> QED
        BY <2>2, <2>5, <2>7, <4>1, OneFin
    <3>2. "ack" \in q.flags
      <4>1. \A k \in DOMAIN conv : "fin" \in conv[k].flags => "syn" \notin conv[k].flags
        BY DEF Flagged
      <4>2. "syn" \notin q.flags
        BY <1>1, <2>7, <4>1
      <4> QED
        BY <1>3, <4>2
    <3>3. j < i
      BY <2>3, <2>6, <3>1, <3>2
    <3> QED
      BY <2>2, <3>3
  <2>8. CASE LastWord(conv, q)
    <3>1. PICK r \in Q : Alike(q, r) /\ r \in Range(log)
      BY <2>8
    <3>2. PICK k \in 1 .. Len(log) : log[k] = r
      BY <1>2, <3>1 DEF Range
    <3>3. r \in Packet /\ Space(r) = 0 /\ r.dir = Other(d) /\ r.ack = q.ack
      BY <1>1, <2>5, <3>1 DEF Alike
    <3>4. "syn" \notin r.flags /\ "fin" \notin r.flags
      BY <3>3, SynTakesSpace, FinTakesSpace
    <3>5. "ack" \in r.flags /\ Kind(r) = {"ack"}
      BY <1>3, <3>4 DEF Kind
    <3>6. Acknowledges(r, p)
      BY <2>3, <2>4, <3>3 DEF Acknowledges
    <3>7. j < k
      BY <2>6, <3>2, <3>5, <3>6
    <3>8. j \in 1 .. k - 1 /\ i \in 1 .. j - 1
      BY <1>2, <2>2, <3>7
    <3>9. SecondFin(log, k - 1, d)
      <4>1. Other(d) \in FinsOf(log, j - 1)
        BY <2>2, <2>4, <3>8 DEF FinsOf
      <4> QED
        BY <2>2, <3>8, <4>1 DEF SecondFin
    <3>10. ~ SecondFin(log, k - 1, Other(r.dir))
      BY <3>2, <3>5 DEF Lingers
    <3> QED
      BY <2>4, <3>3, <3>9, <3>10
  <2> QED
    BY <2>3, <2>7, <2>8
<1> QED
  BY <1>4, <1>5 DEF Finishes

(* Once a conversation that finishes has been captured whole, in whatever  *)
(* order and however often, its end is recorded, unless the connection was *)
(* given up or a gap was skipped.  It supposes two ends that follow the    *)
(* protocol, a FIN ending what its sender has to say.                      *)
THEOREM ConnectionEndRecorded ==
  ASSUME \A conv \in Conversations :
           Conforms(conv) /\ FinApart(conv) /\ FinLast(conv) /\ Flagged(conv) /\ Finishes(conv)
  PROVE  ConnSpec => []EndRecorded
<1>1. \A conv \in Conversations : Conforms(conv)
  OBVIOUS
<1>2. \A conv \in Conversations : FinApart(conv)
  OBVIOUS
<1>3. FollowOK /\ KnownTurnOK /\ WindsUpOK /\ SettledOK /\ AllPassedOn => EndRecorded
  <2> SUFFICES ASSUME FollowOK, KnownTurnOK, WindsUpOK, SettledOK, AllPassedOn,
                      ~ conn.refactored, ~ conn.abandoned, \A i \in DOMAIN packets : arrived[i] > 0
               PROVE  Range(Events) \cap {"TCE_CONN_CLOSE", "TCE_CONN_ABORT"} # {}
    BY DEF EndRecorded
  <2>1. /\ packets \in Conversations /\ Flagged(packets) /\ FinLast(packets) /\ Finishes(packets)
        /\ conn \in Conns(Pkts) /\ Known(Pkts, conn) /\ conn.log \in Seq(Pkts)
        /\ \A p \in Pkts : \E i \in DOMAIN packets : p = packets[i]
    BY ConnIs DEF FollowOK, ConnOK, KnownTurnOK, KnownInTurn, Pkts, Range
  <2>2. \A p \in Pkts : Space(p) > 0 => p \in Range(conn.log)
    BY <2>1 DEF AllPassedOn
  <2>3. \A p \in Pkts : LastWord(packets, p) => \E q \in Pkts : Alike(p, q) /\ q \in Range(conn.log)
    BY <1>1, LastWordPassedOn
  <2>4. \A i \in DOMAIN conn.log : AcksInLog(Pkts, conn.log, i)
    BY <2>1 DEF Known
  <2>5. Ended(analyzer)
    <3> SUFFICES ASSUME ~ Ended(analyzer) PROVE FALSE
      OBVIOUS
    <3>1. Lingers(conn.log, Len(conn.log), analyzer)
      BY DEF WindsUpOK, WindsUp
    <3> QED
      BY <2>1, <2>2, <2>3, <2>4, <3>1, NoneLingers DEF Pkts
  <2>6. PICK i : Conclusive(analyzer, i)
    BY <2>5 DEF WindsUpOK, WindsUp
  <2>7. analyzer.records \in Seq(Recordable)
    BY AnalyzerIs DEF FollowOK, Follows
  <2>8. DOMAIN Events = 1 .. Len(analyzer.records)
        /\ \A k \in DOMAIN Events : Events[k] = analyzer.records[k].event
    BY <2>7 DEF Events
  <2> QED
    BY <2>6, <2>8 DEF Conclusive, Range
<1>4. Spec => []KnownTurnOK
  BY <1>1, KnownTurnAlways
<1>5. Spec => []SettledOK
  BY <1>1, SettledInit, SettledNext, PTL DEF Spec
<1>6. Spec => []AllPassedOn
  BY <1>1, ReorderAllPassedOn
<1>7. ConnSpec => []WindsUpOK
  BY <1>2, WindsUpAlways
<1> QED
  BY <1>3, <1>4, <1>5, <1>6, <1>7, FollowAlways, ConnectionImplementsReorder, PTL

=============================================================================
