-------------------------- MODULE Ipv4MonitorProofs --------------------------
(***************************************************************************)
(* Proofs about Ipv4Monitor, for any packets and fragments (that           *)
(* MonitorAssumption allows), any number of arrivals and any lengths.      *)
(***************************************************************************)
EXTENDS Ipv4Monitor, LeftFolds, SequenceTheorems, FiniteSetTheorems

-----------------------------------------------------------------------------
(* Sequences put together. *)

(* What FlattenSeq goes through. *)
Flattens(g, A, s) ==
  /\ g \in [0 .. Len(s) -> Seq(A)] /\ g[0] = <<>>
  /\ \A n \in 1 .. Len(s) : g[n] = g[n - 1] \o s[n]
  /\ FlattenSeq(s) = g[Len(s)]

LEMMA FlattenIs ==
  ASSUME NEW A, NEW s \in Seq(Seq(A))
  PROVE  \E g : Flattens(g, A, s)
<1> DEFINE L     == Len(s)
           Eq(f) == f = [n \in 1 .. L |-> IF n = 1 THEN s[n] ELSE f[n - 1] \o s[n]]
           all   == CHOOSE f : Eq(f)
           step  == [na \in (1 .. L) \X Seq(A) |-> na[2] \o s[na[1]]]
<1>1. L \in Nat /\ \A n \in 1 .. L : s[n] \in Seq(A)
  OBVIOUS
<1>2. <<>> \in Seq(A) /\ step \in [(1 .. L) \X Seq(A) -> Seq(A)]
  BY <1>1
<1>3. \A n \in 1 .. L : \A a \in Seq(A) : step[<<n, a>>] = a \o s[n]
  OBVIOUS
<1> HIDE DEF step
<1>4. CASE L = 0
  <2>1. s = <<>> /\ FlattenSeq(s) = <<>>
    BY <1>4 DEF FlattenSeq
  <2> DEFINE g == [n \in 0 .. 0 |-> <<>>]
  <2>2. g \in [0 .. L -> Seq(A)] /\ g[0] = <<>> /\ FlattenSeq(s) = g[L]
    BY <1>2, <1>4, <2>1
  <2>3. Flattens(g, A, s)
    BY <1>4, <2>2 DEF Flattens
  <2> QED
    BY <2>3
<1>5. CASE L # 0
  <2>1. FlattenSeq(s) = all[L]
    BY <1>5 DEF FlattenSeq
  <2>2. PICK g \in [0 .. L -> Seq(A)] : StepsFrom(g, <<>>, step, L)
    BY <1>1, <1>2, IterateWith
  <2>3. g[0] = <<>> /\ \A n \in 1 .. L : g[n] = g[n - 1] \o s[n]
    BY <1>1, <1>3, <2>2 DEF StepsFrom
  <2> HIDE DEF L
  <2>4. g[1] = s[1]
    <3>1. g[1] = g[0] \o s[1]
      <4>1. 1 \in 1 .. L /\ 1 - 1 = 0
        BY <1>1, <1>5
      <4> QED
        BY <2>3, <4>1
    <3>2. s[1] \in Seq(A)
      BY <1>1, <1>5
    <3> QED
      BY <2>3, <3>1, <3>2
  <2>5. Eq([n \in 1 .. L |-> g[n]])
    <3>1. ASSUME NEW n \in 1 .. L
          PROVE  g[n] = IF n = 1 THEN s[n] ELSE [m \in 1 .. L |-> g[m]][n - 1] \o s[n]
      <4>1. CASE n = 1
        BY <2>4, <4>1
      <4>2. CASE n # 1
        <5>1. n - 1 \in 1 .. L
          BY <1>1, <4>2
        <5>2. [m \in 1 .. L |-> g[m]][n - 1] = g[n - 1]
          BY <5>1
        <5>3. g[n] = g[n - 1] \o s[n]
          BY <2>3
        <5> QED
          BY <4>2, <5>2, <5>3
      <4> QED
        BY <4>1, <4>2
    <3> QED
      BY <3>1
  <2>6. Eq(all)
    BY <2>5
  <2> DEFINE f == all
  <2>7. \A n \in 1 .. L : f[n] = IF n = 1 THEN s[n] ELSE f[n - 1] \o s[n]
    BY <2>6
  <2> HIDE DEF f
  <2> DEFINE S == {n \in 0 .. L : n = 0 \/ f[n] = g[n]}
  <2>8. 0 \in S
    BY <1>1
  <2>9. ASSUME NEW n \in 0 .. L, n < L, n \in S PROVE n + 1 \in S
    <3>1. n + 1 \in 1 .. L /\ (n + 1) - 1 = n
      BY <1>1, <2>9
    <3>2. f[n + 1] = IF n + 1 = 1 THEN s[n + 1] ELSE f[(n + 1) - 1] \o s[n + 1]
      BY <2>7, <3>1
    <3>3. g[n + 1] = g[n] \o s[n + 1]
      BY <2>3, <3>1
    <3>4. CASE n = 0
      BY <2>4, <3>1, <3>2, <3>4
    <3>5. CASE n # 0
      <4>1. f[n] = g[n]
        BY <2>9, <3>5
      <4>2. f[n + 1] = f[n] \o s[n + 1]
        <5>1. n + 1 # 1
          BY <1>1, <3>5
        <5> QED
          BY <3>1, <3>2, <5>1
      <4>3. f[n + 1] = g[n + 1]
        BY <3>3, <4>1, <4>2
      <4> QED
        BY <3>1, <4>3
    <3> QED
      BY <3>4, <3>5
  <2>10. \A n \in 0 .. L : n \in S
    <3> HIDE DEF S
    <3> QED
      BY <1>1, <2>8, <2>9, NatIndUpTo
  <2>11. f[L] = g[L]
    BY <1>1, <1>5, <2>10
  <2> QED
    BY <1>1, <2>1, <2>2, <2>3, <2>11 DEF Flattens, f, L
<1> QED
  BY <1>4, <1>5

LEMMA FlattenAppend ==
  ASSUME NEW A, NEW s \in Seq(Seq(A)), NEW x \in Seq(A)
  PROVE  /\ FlattenSeq(<<>>) = <<>>
         /\ FlattenSeq(s) \in Seq(A)
         /\ FlattenSeq(Append(s, x)) = FlattenSeq(s) \o x
<1> DEFINE t == Append(s, x)
           L == Len(s)
<1>1. /\ t \in Seq(Seq(A)) /\ L \in Nat /\ Len(t) = L + 1 /\ t[L + 1] = x
      /\ \A n \in 1 .. L : t[n] = s[n]
  OBVIOUS
<1>2. PICK g : Flattens(g, A, s)
  BY FlattenIs
<1>3. PICK h : Flattens(h, A, t)
  BY <1>1, FlattenIs
<1> HIDE DEF t
<1> DEFINE S == {n \in 0 .. L : g[n] = h[n]}
<1>4. 0 \in S
  BY <1>1, <1>2, <1>3 DEF Flattens
<1>5. ASSUME NEW n \in 0 .. L, n < L, n \in S PROVE n + 1 \in S
  <2>1. n + 1 \in 1 .. L /\ n + 1 \in 1 .. Len(t) /\ (n + 1) - 1 = n
    BY <1>1, <1>5
  <2>2. g[n + 1] = g[n] \o s[n + 1] /\ h[n + 1] = h[n] \o t[n + 1]
    BY <1>2, <1>3, <2>1 DEF Flattens
  <2>3. g[n] = h[n] /\ t[n + 1] = s[n + 1]
    BY <1>1, <1>5, <2>1
  <2>4. g[n + 1] = h[n + 1]
    BY <2>2, <2>3
  <2> QED
    BY <1>1, <1>5, <2>4
<1>6. \A n \in 0 .. L : n \in S
  <2> HIDE DEF S
  <2> QED
    BY <1>1, <1>4, <1>5, NatIndUpTo
<1>7. h[L + 1] = h[L] \o x
  <2>1. L + 1 \in 1 .. Len(t) /\ (L + 1) - 1 = L
    BY <1>1
  <2> QED
    BY <1>1, <1>3, <2>1 DEF Flattens
<1>8. FlattenSeq(<<>>) = <<>>
  BY DEF FlattenSeq
<1>9. FlattenSeq(s) = g[L] /\ g[L] \in Seq(A) /\ FlattenSeq(t) = h[L + 1]
  <2>1. FlattenSeq(s) = g[L] /\ FlattenSeq(t) = h[L + 1]
    BY <1>1, <1>2, <1>3 DEF Flattens
  <2>2. L \in 0 .. L /\ g \in [0 .. L -> Seq(A)]
    BY <1>1, <1>2 DEF Flattens
  <2>3. g[L] \in Seq(A)
    BY <2>2
  <2> QED
    BY <2>1, <2>3
<1>10. g[L] = h[L]
  BY <1>1, <1>6
<1> QED
  BY <1>7, <1>8, <1>9, <1>10 DEF t

-----------------------------------------------------------------------------
(* The data of a list of elements. *)

Byte == 0 .. MaxPktLen
Elem == [off : Byte, data : Seq(Byte)]

LEMMA DataAppend ==
  ASSUME NEW l \in Seq(Elem), NEW x \in Elem
  PROVE  /\ DataOf(<<>>) = <<>> /\ DataOf(l) \in Seq(Byte)
         /\ DataOf(Append(l, x)) = DataOf(l) \o x.data
<1> DEFINE d(s) == [i \in DOMAIN s |-> s[i].data]
<1>1. d(l) \in Seq(Seq(Byte)) /\ x.data \in Seq(Byte)
  <2>1. ASSUME NEW i \in 1 .. Len(l) PROVE l[i].data \in Seq(Byte)
    <3>1. l[i] \in Elem
      OBVIOUS
    <3> QED
      BY <3>1 DEF Elem
  <2>2. Len(l) \in Nat /\ DOMAIN l = 1 .. Len(l)
    OBVIOUS
  <2> QED
    BY <2>1, <2>2 DEF Elem
<1>2. d(Append(l, x)) = Append(d(l), x.data)
  <2>1. \A i \in 1 .. Len(l) + 1 : Append(l, x)[i].data = IF i = Len(l) + 1 THEN x.data ELSE l[i].data
    BY DEF Elem
  <2>2. DOMAIN Append(l, x) = 1 .. Len(l) + 1 /\ DOMAIN l = 1 .. Len(l) /\ Len(l) \in Nat
    OBVIOUS
  <2>3. Len(d(l)) = Len(l)
    BY <2>2
  <2>4. d(Append(l, x)) = [i \in 1 .. Len(l) + 1 |-> IF i = Len(l) + 1 THEN x.data ELSE l[i].data]
    BY <2>1, <2>2
  <2>5. Append(d(l), x.data) = [i \in 1 .. Len(l) + 1 |-> IF i = Len(l) + 1 THEN x.data ELSE d(l)[i]]
    BY <1>1, <2>3
  <2>6. \A i \in 1 .. Len(l) : d(l)[i] = l[i].data
    BY <2>2
  <2> HIDE DEF d
  <2>7. \A i \in 1 .. Len(l) + 1 : (IF i = Len(l) + 1 THEN x.data ELSE d(l)[i]) = (IF i = Len(l) + 1 THEN x.data ELSE l[i].data)
    BY <2>2, <2>6
  <2> QED
    BY <2>4, <2>5, <2>7
<1>3. d(<<>>) = <<>>
  OBVIOUS
<1> HIDE DEF d
<1>4. /\ FlattenSeq(<<>>) = <<>> /\ FlattenSeq(d(l)) \in Seq(Byte)
      /\ FlattenSeq(Append(d(l), x.data)) = FlattenSeq(d(l)) \o x.data
  BY <1>1, FlattenAppend
<1>5. \A s : DataOf(s) = FlattenSeq(d(s))
  BY DEF DataOf, d
<1> QED
  BY <1>2, <1>3, <1>4, <1>5

LEMMA DataTyped ==
  ASSUME NEW l \in Seq(Elem)
  PROVE  DataOf(l) \in Seq(Byte) /\ DataOf(<<>>) = <<>>
<1>1. CASE Elem = {}
  <2>1. l = <<>>
    BY <1>1
  <2>2. DataOf(<<>>) = <<>>
    <3>1. [i \in DOMAIN <<>> |-> <<>>[i].data] = <<>>
      OBVIOUS
    <3> QED
      BY <3>1 DEF DataOf, FlattenSeq
  <2>3. <<>> \in Seq(Byte)
    OBVIOUS
  <2> QED
    BY <2>1, <2>2, <2>3, Zenon
<1>2. CASE Elem # {}
  BY <1>2, DataAppend
<1> QED
  BY <1>1, <1>2

LEMMA DataConcat ==
  ASSUME NEW a \in Seq(Elem), NEW b \in Seq(Elem)
  PROVE  DataOf(a \o b) = DataOf(a) \o DataOf(b)
<1> DEFINE p(n) == SubSeq(b, 1, n)
           S    == {n \in 0 .. Len(b) : DataOf(a \o p(n)) = DataOf(a) \o DataOf(p(n))}
<1>0. Len(b) \in Nat
  OBVIOUS
<1>1. 0 \in S
  <2>1. p(0) = <<>> /\ a \o <<>> = a
    OBVIOUS
  <2>2. DataOf(a) \o <<>> = DataOf(a) /\ DataOf(<<>>) = <<>>
    BY DataTyped
  <2>3. 0 \in 0 .. Len(b)
    BY <1>0
  <2> HIDE DEF p
  <2>4. DataOf(a \o p(0)) = DataOf(a) \o DataOf(p(0))
    BY <2>1, <2>2, Zenon
  <2> QED
    BY <2>3, <2>4
<1>2. ASSUME NEW n \in 0 .. Len(b), n < Len(b), n \in S PROVE n + 1 \in S
  <2> DEFINE x == b[n + 1]
  <2>1. n + 1 \in 1 .. Len(b) /\ x \in Elem /\ p(n) \in Seq(Elem)
    BY <1>0, <1>2
  <2>2. p(n + 1) = Append(p(n), x)
    BY <1>0, <1>2
  <2>3. a \o p(n) \in Seq(Elem) /\ a \o Append(p(n), x) = Append(a \o p(n), x)
    BY <2>1
  <2> HIDE DEF x, p
  <2>4. DataOf(Append(a \o p(n), x)) = DataOf(a \o p(n)) \o x.data
    BY <2>1, <2>3, DataAppend
  <2>5. DataOf(Append(p(n), x)) = DataOf(p(n)) \o x.data
    BY <2>1, DataAppend
  <2>6. DataOf(a) \in Seq(Byte) /\ DataOf(p(n)) \in Seq(Byte) /\ x.data \in Seq(Byte)
    BY <2>1, DataTyped DEF Elem
  <2>7. (DataOf(a) \o DataOf(p(n))) \o x.data = DataOf(a) \o (DataOf(p(n)) \o x.data)
    <3>1. \A s, t, u \in Seq(Byte) : (s \o t) \o u = s \o (t \o u)
      BY ConcatAssociative
    <3> QED
      BY <2>6, <3>1, Zenon
  <2>8. DataOf(a \o p(n + 1)) = DataOf(a) \o DataOf(p(n + 1))
    BY <1>2, <2>2, <2>3, <2>4, <2>5, <2>7
  <2> QED
    BY <2>1, <2>8
<1>3. \A n \in 0 .. Len(b) : n \in S
  <2> HIDE DEF S
  <2> QED
    BY <1>0, <1>1, <1>2, NatIndUpTo
<1>4. p(Len(b)) = b
  OBVIOUS
<1> HIDE DEF p
<1> QED
  BY <1>0, <1>3, <1>4

(* An element is inserted: its data stands between what it parts. *)
Parted(d, u, v) == u \in Seq(Byte) /\ v \in Seq(Byte) /\ d = u \o v

LEMMA DataInserted ==
  ASSUME NEW l \in Seq(Elem), NEW x \in Elem, NEW at \in 0 .. Len(l)
  PROVE  /\ InsertAt(l, at + 1, x) \in Seq(Elem)
         /\ Len(InsertAt(l, at + 1, x)) = Len(l) + 1
         /\ \E u, v : Parted(DataOf(l), u, v) /\ DataOf(InsertAt(l, at + 1, x)) = (u \o x.data) \o v
         /\ at = Len(l) => InsertAt(l, at + 1, x) = Append(l, x)
         /\ at = 0 => DataOf(InsertAt(l, at + 1, x)) = x.data \o DataOf(l)
<1> DEFINE a == SubSeq(l, 1, at)
           b == SubSeq(l, at + 1, Len(l))
<1>1. a \in Seq(Elem) /\ b \in Seq(Elem) /\ a \o b = l /\ Len(a) + Len(b) = Len(l)
  <2>1. a \in Seq(Elem) /\ b \in Seq(Elem) /\ Len(a) = at /\ Len(b) = Len(l) - at
    OBVIOUS
  <2>2. a \o b = l
    <3>1. 1 \in 1 .. Len(l) + 1 /\ at \in 0 .. Len(l) /\ Len(l) \in at .. Len(l) /\ 1 - 1 = 0
      OBVIOUS
    <3>2. SubSeq(l, 1, at) \o SubSeq(l, at + 1, Len(l)) = SubSeq(l, 1, Len(l))
      BY <3>1, ConcatAdjacentSubSeq
    <3> QED
      BY <3>2, SubSeqFull
  <2>3. Len(a) + Len(b) = Len(l)
    <3> HIDE DEF a, b
    <3> QED
      BY <2>1
  <2> QED
    BY <2>1, <2>2, <2>3
<1>2. InsertAt(l, at + 1, x) = Append(a, x) \o b
  <2>1. InsertAt(l, at + 1, x) = (a \o <<x>>) \o b
    <3>1. (at + 1) - 1 = at
      OBVIOUS
    <3> QED
      BY <3>1 DEF InsertAt
  <2>2. a \o <<x>> = Append(a, x)
    <3>1. a \in Seq(Elem)
      BY <1>1
    <3> HIDE DEF a
    <3> QED
      BY <3>1
  <2> QED
    BY <2>1, <2>2
<1>3. at = Len(l) => a = l /\ b = <<>>
  OBVIOUS
<1>31. at = 0 => a = <<>> /\ b = l
  OBVIOUS
<1> HIDE DEF a, b
<1>4. Append(a, x) \in Seq(Elem) /\ Len(Append(a, x)) = Len(a) + 1 /\ Len(a) \in Nat /\ Len(b) \in Nat
  BY <1>1
<1>5. Append(a, x) \o b \in Seq(Elem) /\ Len(Append(a, x) \o b) = Len(a) + 1 + Len(b)
  BY <1>1, <1>4, ConcatProperties
<1>6. DataOf(l) = DataOf(a) \o DataOf(b)
  BY <1>1, DataConcat
<1>7. DataOf(Append(a, x) \o b) = (DataOf(a) \o x.data) \o DataOf(b)
  BY <1>1, <1>4, DataConcat, DataAppend
<1>8. Parted(DataOf(l), DataOf(a), DataOf(b))
  BY <1>1, <1>6, DataTyped DEF Parted
<1>9. at = Len(l) => Append(a, x) \o b = Append(l, x)
  BY <1>3, <1>4, ConcatEmptySeq
<1>10. at = 0 => DataOf(Append(a, x) \o b) = x.data \o DataOf(l)
  <2> HAVE at = 0
  <2>1. DataOf(a) = <<>> /\ b = l
    BY <1>1, <1>31, DataTyped
  <2>2. x.data \in Seq(Byte) /\ <<>> \o x.data = x.data
    BY ConcatEmptySeq DEF Elem
  <2> QED
    BY <1>7, <2>1, <2>2
<1> DEFINE t == InsertAt(l, at + 1, x)
<1>11. t = Append(a, x) \o b
  BY <1>2
<1> HIDE DEF t
<1>12. t \in Seq(Elem)
  BY <1>5, <1>11
<1>13. Len(t) = Len(l) + 1
  <2>1. Len(Append(a, x) \o b) = Len(a) + 1 + Len(b)
    BY <1>5
  <2>2. Len(l) \in Nat /\ Len(a) + Len(b) = Len(l)
    BY <1>1
  <2>3. Len(t) = Len(a) + 1 + Len(b)
    BY <1>11, <2>1, Zenon
  <2> QED
    BY <1>4, <2>2, <2>3
<1>14. \E u, v : Parted(DataOf(l), u, v) /\ DataOf(t) = (u \o x.data) \o v
  BY <1>7, <1>8, <1>11, Zenon
<1>15. at = Len(l) => t = Append(l, x)
  BY <1>9, <1>11
<1>16. at = 0 => DataOf(t) = x.data \o DataOf(l)
  BY <1>10, <1>11
<1> QED
  BY <1>12, <1>13, <1>14, <1>15, <1>16 DEF t

LEMMA ConcatHolds ==
  ASSUME NEW u \in Seq(Byte), NEW v \in Seq(Byte)
  PROVE  /\ u \o v \in Seq(Byte) /\ Len(u \o v) = Len(u) + Len(v)
         /\ ToSet(u \o v) = ToSet(u) \cup ToSet(v)
         /\ IsInjective(u) /\ IsInjective(v) /\ ToSet(u) \cap ToSet(v) = {} => IsInjective(u \o v)
<1> DEFINE e == u \o v
<1>1. /\ e \in Seq(Byte) /\ Len(e) = Len(u) + Len(v)
      /\ \A i \in 1 .. Len(u) + Len(v) : e[i] = IF i <= Len(u) THEN u[i] ELSE v[i - Len(u)]
  BY ConcatProperties
<1>2. /\ Len(u) \in Nat /\ Len(v) \in Nat
      /\ DOMAIN u = 1 .. Len(u) /\ DOMAIN v = 1 .. Len(v) /\ DOMAIN e = 1 .. Len(u) + Len(v)
  BY <1>1, LenProperties
<1> HIDE DEF e
<1>3. ASSUME NEW i \in 1 .. Len(u) PROVE i \in DOMAIN e /\ e[i] = u[i]
  BY <1>1, <1>2, <1>3
<1>4. ASSUME NEW i \in 1 .. Len(v) PROVE i + Len(u) \in DOMAIN e /\ e[i + Len(u)] = v[i]
  <2>1. i + Len(u) \in 1 .. Len(u) + Len(v) /\ ~ (i + Len(u) <= Len(u)) /\ (i + Len(u)) - Len(u) = i
    BY <1>2, <1>4
  <2> QED
    BY <1>1, <1>2, <2>1
<1>5. ASSUME NEW i \in DOMAIN e
      PROVE  \/ i \in 1 .. Len(u) /\ e[i] = u[i]
             \/ i - Len(u) \in 1 .. Len(v) /\ e[i] = v[i - Len(u)]
  BY <1>1, <1>2, <1>5
<1>6. ToSet(e) = ToSet(u) \cup ToSet(v)
  <2>1. ToSet(u) \cup ToSet(v) \subseteq ToSet(e)
    BY <1>2, <1>3, <1>4 DEF ToSet
  <2>2. ToSet(e) \subseteq ToSet(u) \cup ToSet(v)
    BY <1>2, <1>5 DEF ToSet
  <2> QED
    BY <2>1, <2>2
<1>7. ASSUME IsInjective(u), IsInjective(v), ToSet(u) \cap ToSet(v) = {} PROVE IsInjective(e)
  <2>1. \A i \in 1 .. Len(u) : \A j \in 1 .. Len(v) : u[i] # v[j]
    BY <1>2, <1>7 DEF ToSet
  <2>2. \A i, j \in 1 .. Len(u) : u[i] = u[j] => i = j
    BY <1>2, <1>7 DEF IsInjective
  <2>3. \A i, j \in 1 .. Len(v) : v[i] = v[j] => i = j
    BY <1>2, <1>7 DEF IsInjective
  <2>4. ASSUME NEW i \in DOMAIN e, NEW j \in DOMAIN e, e[i] = e[j] PROVE i = j
    <3>1. CASE i \in 1 .. Len(u) /\ e[i] = u[i] /\ j \in 1 .. Len(u) /\ e[j] = u[j]
      BY <2>2, <2>4, <3>1
    <3>2. CASE i - Len(u) \in 1 .. Len(v) /\ e[i] = v[i - Len(u)] /\ j - Len(u) \in 1 .. Len(v) /\ e[j] = v[j - Len(u)]
      <4>1. i - Len(u) = j - Len(u)
        BY <2>3, <2>4, <3>2
      <4> QED
        BY <1>2, <4>1
    <3> QED
      BY <1>5, <2>1, <2>4, <3>1, <3>2
  <2> QED
    BY <2>4 DEF IsInjective
<1> QED
  BY <1>1, <1>6, <1>7 DEF e

LEMMA InsertedHolds ==
  ASSUME NEW d, NEW u, NEW v, Parted(d, u, v), NEW x \in Seq(Byte)
  PROVE  LET e == (u \o x) \o v IN
         /\ e \in Seq(Byte) /\ Len(e) = Len(d) + Len(x)
         /\ ToSet(e) = ToSet(d) \cup ToSet(x)
         /\ IsInjective(d) /\ IsInjective(x) /\ ToSet(d) \cap ToSet(x) = {} => IsInjective(e)
<1>1. u \in Seq(Byte) /\ v \in Seq(Byte) /\ d = u \o v
  BY DEF Parted
<1>2. /\ Len(d) = Len(u) + Len(v) /\ ToSet(d) = ToSet(u) \cup ToSet(v)
      /\ DOMAIN d = 1 .. Len(u) + Len(v) /\ Len(u) \in Nat /\ Len(v) \in Nat /\ Len(x) \in Nat
      /\ DOMAIN u = 1 .. Len(u) /\ DOMAIN v = 1 .. Len(v)
      /\ \A i \in 1 .. Len(u) + Len(v) : d[i] = IF i <= Len(u) THEN u[i] ELSE v[i - Len(u)]
  BY <1>1, ConcatHolds, ConcatProperties, LenProperties
<1>3. IsInjective(d) => IsInjective(u) /\ IsInjective(v) /\ ToSet(u) \cap ToSet(v) = {}
  <2> HAVE IsInjective(d)
  <2>1. \A i, j \in 1 .. Len(u) + Len(v) : d[i] = d[j] => i = j
    BY <1>2 DEF IsInjective
  <2>2. ASSUME NEW i \in 1 .. Len(u) PROVE i \in 1 .. Len(u) + Len(v) /\ d[i] = u[i]
    BY <1>2
  <2>3. ASSUME NEW i \in 1 .. Len(v) PROVE i + Len(u) \in 1 .. Len(u) + Len(v) /\ d[i + Len(u)] = v[i]
    BY <1>2
  <2>4. IsInjective(u)
    BY <1>2, <2>1, <2>2 DEF IsInjective
  <2>5. IsInjective(v)
    <3>1. ASSUME NEW i \in 1 .. Len(v), NEW j \in 1 .. Len(v), v[i] = v[j] PROVE i = j
      <4>1. i + Len(u) = j + Len(u)
        BY <2>1, <2>3, <3>1
      <4> QED
        BY <1>2, <4>1
    <3> QED
      BY <1>2, <3>1 DEF IsInjective
  <2>6. ASSUME NEW i \in 1 .. Len(u), NEW j \in 1 .. Len(v), u[i] = v[j] PROVE FALSE
    <3>1. i = j + Len(u)
      BY <2>1, <2>2, <2>3, <2>6
    <3> QED
      BY <1>2, <3>1
  <2>7. ToSet(u) \cap ToSet(v) = {}
    BY <1>2, <2>6 DEF ToSet
  <2> QED
    BY <2>4, <2>5, <2>7
<1> DEFINE w == u \o x
<1>4. /\ w \in Seq(Byte) /\ Len(w) = Len(u) + Len(x) /\ ToSet(w) = ToSet(u) \cup ToSet(x)
      /\ IsInjective(u) /\ IsInjective(x) /\ ToSet(u) \cap ToSet(x) = {} => IsInjective(w)
  BY <1>1, ConcatHolds
<1> HIDE DEF w
<1>5. /\ w \o v \in Seq(Byte) /\ Len(w \o v) = Len(w) + Len(v) /\ ToSet(w \o v) = ToSet(w) \cup ToSet(v)
      /\ IsInjective(w) /\ IsInjective(v) /\ ToSet(w) \cap ToSet(v) = {} => IsInjective(w \o v)
  BY <1>1, <1>4, ConcatHolds
<1> DEFINE e == w \o v
<1>6. /\ e \in Seq(Byte) /\ Len(e) = Len(w) + Len(v) /\ ToSet(e) = ToSet(w) \cup ToSet(v)
      /\ IsInjective(w) /\ IsInjective(v) /\ ToSet(w) \cap ToSet(v) = {} => IsInjective(e)
  BY <1>5
<1> HIDE DEF e
<1>7. /\ Len(e) = Len(d) + Len(x) /\ ToSet(e) = ToSet(d) \cup ToSet(x)
      /\ IsInjective(d) /\ IsInjective(x) /\ ToSet(d) \cap ToSet(x) = {} => IsInjective(e)
  BY <1>2, <1>3, <1>4, <1>6
<1> QED
  BY <1>6, <1>7 DEF e, w

Increasing(d) == \A a, b \in 1 .. Len(d) : a < b => d[a] < d[b]

LEMMA BytesOfIs ==
  ASSUME NEW off \in Nat, NEW len \in Nat, off + len <= MaxPktLen, ReassemblerAssumption
  PROVE  /\ BytesOf(off, len) \in Seq(Byte) /\ Len(BytesOf(off, len)) = len
         /\ ToSet(BytesOf(off, len)) = off .. off + len - 1
         /\ IsInjective(BytesOf(off, len)) /\ Increasing(BytesOf(off, len))
<1> DEFINE e == BytesOf(off, len)
<1>1. MaxPktLen \in Nat
  BY DEF ReassemblerAssumption
<1>2. e \in Seq(Byte) /\ Len(e) = len /\ DOMAIN e = 1 .. len
  <2>1. \A i \in 1 .. len : off + i - 1 \in Byte
    BY <1>1 DEF Byte
  <2> QED
    BY <2>1 DEF BytesOf
<1>3. \A i \in 1 .. len : e[i] = off + i - 1
  BY DEF BytesOf
<1> HIDE DEF e
<1>4. ToSet(e) = off .. off + len - 1
  <2>1. \A b \in off .. off + len - 1 : b - off + 1 \in 1 .. len /\ e[b - off + 1] = b
    BY <1>3
  <2>2. \A i \in 1 .. len : e[i] \in off .. off + len - 1
    BY <1>3
  <2> QED
    BY <1>2, <2>1, <2>2 DEF ToSet
<1>5. IsInjective(e) /\ Increasing(e)
  BY <1>2, <1>3 DEF IsInjective, Increasing
<1> QED
  BY <1>2, <1>4, <1>5 DEF e

-----------------------------------------------------------------------------
(* Elements of the list, and the loop over them. *)

(* The fragments of a packet that are not refused whatever came before. *)
Taken(i) == {f \in Frags[i] : f.len > 0 /\ f.off + f.len <= MaxPktLen}

End(x) == x.off + Len(x.data)

(* An element is a stretch of the packet.  One that does not start it ends *)
(* where a fragment ends that began no later.                              *)
Pieces(i) ==
  {x \in Elem :
     /\ Len(x.data) > 0 /\ End(x) <= MaxPktLen
     /\ x.data = BytesOf(x.off, Len(x.data))
     /\ x.off > 0 => \E g \in Taken(i) : 0 < g.off /\ g.off <= x.off /\ g.off + g.len = End(x)}

Scans(i) ==
  {s \in [list : Seq(Pieces(i)), left : Int, go : {"on", "stop", "return"}] :
     -1 <= s.left /\ s.left <= Len(s.list)}

Clear(x, f) == End(x) <= f.off \/ f.off + f.len <= x.off

LEMMA FragIs ==
  ASSUME MonitorAssumption, ReassemblerAssumption, NEW i \in PktIdx, NEW f \in Taken(i)
  PROVE  /\ f \in Frags[i] /\ f \in Fragment /\ f.off \in Nat /\ f.len \in Nat /\ f.mf \in BOOLEAN
         /\ f.off \in 0 .. MaxPktLen /\ f.len \in 1 .. MaxPktLen /\ f.off + f.len <= MaxPktLen
         /\ MaxPktLen \in Nat /\ Word \in Nat /\ MaxPktLen < Word
  BY DEF MonitorAssumption, ReassemblerAssumption, Taken, Fragment

LEMMA PieceIs ==
  ASSUME ReassemblerAssumption, NEW i, NEW x \in Pieces(i)
  PROVE  /\ x \in Elem /\ x.off \in Nat /\ x.off \in Byte /\ x.data \in Seq(Byte)
         /\ Len(x.data) \in Nat /\ Len(x.data) > 0
         /\ End(x) = x.off + Len(x.data) /\ End(x) \in Nat /\ End(x) <= MaxPktLen
         /\ ToSet(x.data) = x.off .. End(x) - 1 /\ IsInjective(x.data) /\ Increasing(x.data)
         /\ \A k \in 1 .. Len(x.data) : x.data[k] = x.off + k - 1
<1>1. x \in Elem /\ Len(x.data) > 0 /\ End(x) <= MaxPktLen /\ x.data = BytesOf(x.off, Len(x.data))
  BY DEF Pieces
<1>2. x.off \in Nat /\ x.off \in Byte /\ x.data \in Seq(Byte)
  BY <1>1 DEF Elem, Byte, ReassemblerAssumption
<1>3. Len(x.data) \in Nat /\ End(x) = x.off + Len(x.data) /\ End(x) \in Nat
  BY <1>2 DEF End
<1> DEFINE l == Len(x.data)
           o == x.off
<1>4. o \in Nat /\ l \in Nat /\ o + l <= MaxPktLen /\ End(x) = o + l
  BY <1>1, <1>2, <1>3
<1>5. x.data = BytesOf(o, l)
  BY <1>1
<1> HIDE DEF l, o
<1>6. /\ ToSet(x.data) = o .. o + l - 1 /\ IsInjective(x.data) /\ Increasing(x.data)
      /\ \A k \in 1 .. l : x.data[k] = o + k - 1
  <2>1. ToSet(BytesOf(o, l)) = o .. o + l - 1 /\ IsInjective(BytesOf(o, l)) /\ Increasing(BytesOf(o, l))
    BY <1>4, BytesOfIs
  <2>2. \A k \in 1 .. l : BytesOf(o, l)[k] = o + k - 1
    BY DEF BytesOf
  <2> QED
    BY <1>5, <2>1, <2>2
<1> QED
  BY <1>1, <1>2, <1>3, <1>4, <1>6 DEF l, o

(* A stretch of a stretch is one. *)
LEMMA Stretch ==
  ASSUME ReassemblerAssumption, NEW i, NEW x \in Pieces(i),
         NEW from \in Nat, NEW to \in Nat, from < to, to <= Len(x.data)
  PROVE  /\ SubSeq(x.data, from + 1, to) = BytesOf(x.off + from, to - from)
         /\ SubSeq(x.data, from + 1, to) \in Seq(Byte)
         /\ Len(SubSeq(x.data, from + 1, to)) = to - from
         /\ ToSet(SubSeq(x.data, from + 1, to)) \subseteq ToSet(x.data)
<1>1. /\ x.data \in Seq(Byte) /\ Len(x.data) \in Nat /\ x.off \in Nat
      /\ \A k \in 1 .. Len(x.data) : x.data[k] = x.off + k - 1
  BY PieceIs
<1> DEFINE d == x.data
           o == x.off
           s == SubSeq(d, from + 1, to)
<1>2. s \in Seq(Byte) /\ Len(s) = to - from /\ \A k \in 1 .. to - from : s[k] = d[from + k]
  <2>1. \A k \in from + 1 .. to : d[k] \in Byte
    BY <1>1
  <2>2. /\ SubSeq(d, from + 1, to) \in Seq(Byte)
        /\ Len(SubSeq(d, from + 1, to)) = IF from + 1 <= to THEN to - (from + 1) + 1 ELSE 0
        /\ \A k \in 1 .. to - (from + 1) + 1 : SubSeq(d, from + 1, to)[k] = d[from + 1 + k - 1]
    <3>1. from + 1 \in Int /\ to \in Int
      OBVIOUS
    <3> HIDE DEF d
    <3> QED
      BY <2>1, <3>1, SubSeqProperties
  <2>3. to - (from + 1) + 1 = to - from /\ from + 1 <= to /\ \A k \in 1 .. to - from : from + 1 + k - 1 = from + k
    OBVIOUS
  <2> HIDE DEF d
  <2> QED
    BY <2>2, <2>3
<1>3. ASSUME NEW k \in 1 .. to - from
      PROVE  from + k \in 1 .. Len(d) /\ d[from + k] = (o + from) + k - 1
  <2>1. from + k \in 1 .. Len(x.data)
    BY <1>1
  <2>2. x.data[from + k] = x.off + (from + k) - 1
    BY <1>1, <2>1
  <2> QED
    BY <1>1, <2>1, <2>2
<1> HIDE DEF d, o, s
<1>4. s = BytesOf(o + from, to - from)
  <2>1. s = [k \in 1 .. to - from |-> s[k]]
    BY <1>2
  <2>2. \A k \in 1 .. to - from : s[k] = (o + from) + k - 1
    BY <1>2, <1>3
  <2> QED
    BY <2>1, <2>2 DEF BytesOf
<1>5. ToSet(s) \subseteq ToSet(d)
  <2>1. DOMAIN s = 1 .. to - from /\ DOMAIN d = 1 .. Len(d)
    BY <1>1, <1>2 DEF d
  <2> QED
    BY <1>2, <1>3, <2>1 DEF ToSet
<1> QED
  BY <1>2, <1>4, <1>5 DEF d, o, s

Lesser(i, s, x, t) ==
  \/ t.list = s.list
  \/ \E y \in Pieces(i) : /\ t.list = Append(s.list, y)
                          /\ Len(y.data) <= Len(x.data) /\ ToSet(y.data) \subseteq ToSet(x.data)

(* The element that starts the packet, trimmed at its end: nothing of      *)
(* another one is.                                                         *)
LEMMA LeftTrimmed ==
  ASSUME MonitorAssumption, ReassemblerAssumption, NEW i \in PktIdx, NEW f \in Taken(i),
         NEW x \in Pieces(i), x.off < f.off, End(x) < f.off + f.len, End(x) > f.off
  PROVE  LET y == [off |-> x.off, data |-> EraseData(x.data, f.off, End(x) - f.off)] IN
         y \in Pieces(i) /\ Len(y.data) <= Len(x.data) /\ ToSet(y.data) \subseteq ToSet(x.data)
<1>1. x.off = 0
  <2>1. SUFFICES ASSUME x.off > 0 PROVE FALSE
    BY PieceIs
  <2>2. PICK g \in Taken(i) : 0 < g.off /\ g.off <= x.off /\ g.off + g.len = End(x)
    BY <2>1 DEF Pieces
  <2>3. g.off < f.off /\ f.off < g.off + g.len /\ g.off + g.len < f.off + f.len
    BY <2>2, FragIs, PieceIs
  <2>4. LeftOverlap(g, f)
    BY <2>3 DEF LeftOverlap
  <2>5. g \in Frags[i] /\ f \in Frags[i]
    BY FragIs
  <2> QED
    BY <2>2, <2>4, <2>5, FragIs DEF MonitorAssumption
<1> DEFINE d == x.data
           k == f.off
<1>2. /\ x \in Elem /\ d \in Seq(Byte) /\ Len(d) = End(x) /\ Len(d) \in Nat
      /\ k \in Nat /\ 0 < k /\ k < Len(d) /\ k <= MaxPktLen
  BY <1>1, PieceIs, FragIs
<1>3. /\ SubSeq(d, 0 + 1, k) = BytesOf(x.off + 0, k - 0) /\ SubSeq(d, 0 + 1, k) \in Seq(Byte)
      /\ Len(SubSeq(d, 0 + 1, k)) = k - 0 /\ ToSet(SubSeq(d, 0 + 1, k)) \subseteq ToSet(d)
  <2>1. 0 \in Nat /\ k \in Nat /\ 0 < k /\ k <= Len(d)
    BY <1>2
  <2> QED
    BY <2>1, Stretch
<1>4. EraseData(d, k, End(x) - k) = SubSeq(d, 1, k)
  <2>1. SubSeq(d, k + (End(x) - k) + 1, Len(d)) = <<>>
    <3>1. k + (End(x) - k) + 1 = Len(d) + 1
      BY <1>2
    <3>2. SubSeq(d, Len(d) + 1, Len(d)) = <<>>
      <4>1. Len(d) + 1 \in Int /\ Len(d) \in Int /\ Len(d) < Len(d) + 1
        BY <1>2
      <4> HIDE DEF d
      <4> QED
        BY <4>1, SubSeqEmpty
    <3> QED
      BY <3>1, <3>2
  <2>2. SubSeq(d, 1, k) \in Seq(Byte)
    BY <1>3
  <2>3. SubSeq(d, 1, k) \o <<>> = SubSeq(d, 1, k)
    BY <2>2, ConcatEmptySeq
  <2> QED
    BY <2>1, <2>3 DEF EraseData
<1> DEFINE e == SubSeq(d, 1, k)
           y == [off |-> x.off, data |-> EraseData(x.data, f.off, End(x) - f.off)]
<1>5. e = BytesOf(0, k) /\ e \in Seq(Byte) /\ Len(e) = k /\ ToSet(e) \subseteq ToSet(d)
  BY <1>1, <1>2, <1>3
<1>6. y = [off |-> 0, data |-> e]
  BY <1>1, <1>4
<1> HIDE DEF e, y, d, k
<1>7. y.off = 0 /\ y.data = e
  BY <1>6
<1>8. y \in Pieces(i)
  <2>1. y \in Elem
    BY <1>5, <1>6, ReassemblerAssumption DEF Elem, Byte, ReassemblerAssumption
  <2>2. End(y) = k
    BY <1>2, <1>5, <1>7 DEF End
  <2> QED
    BY <1>2, <1>5, <1>7, <2>1, <2>2 DEF Pieces
<1>9. Len(y.data) <= Len(d) /\ ToSet(y.data) \subseteq ToSet(d)
  BY <1>2, <1>5, <1>7
<1> QED
  BY <1>8, <1>9 DEF d, y

LEMMA RightTrimmed ==
  ASSUME MonitorAssumption, ReassemblerAssumption, NEW i \in PktIdx, NEW f \in Taken(i),
         NEW x \in Pieces(i), x.off > f.off, End(x) > f.off + f.len, x.off < f.off + f.len
  PROVE  LET y == [off |-> f.off + f.len, data |-> EraseData(x.data, 0, (f.off + f.len) - x.off)] IN
         y \in Pieces(i) /\ Len(y.data) <= Len(x.data) /\ ToSet(y.data) \subseteq ToSet(x.data)
<1> DEFINE d == x.data
           k == (f.off + f.len) - x.off
           last == f.off + f.len
<1>1. /\ x \in Elem /\ d \in Seq(Byte) /\ Len(d) = End(x) - x.off /\ Len(d) \in Nat
      /\ k \in Nat /\ 0 < k /\ k < Len(d) /\ last \in Nat /\ last <= MaxPktLen /\ last > 0
      /\ x.off \in Nat /\ x.off > 0 /\ x.off + k = last /\ End(x) \in Nat /\ End(x) <= MaxPktLen
  <2>1. /\ x \in Elem /\ d \in Seq(Byte) /\ Len(d) \in Nat /\ x.off \in Nat
        /\ End(x) = x.off + Len(d) /\ End(x) \in Nat /\ End(x) <= MaxPktLen
    BY PieceIs
  <2>2. f.off \in Nat /\ f.len \in Nat /\ f.off + f.len <= MaxPktLen
    BY FragIs
  <2> HIDE DEF d
  <2> QED
    <3>1. last \in Nat /\ last > 0 /\ last <= MaxPktLen /\ x.off + k = last /\ k \in Nat /\ 0 < k /\ x.off > 0
      BY <2>1, <2>2
    <3>2. Len(d) = End(x) - x.off /\ End(x) > last
      BY <2>1
    <3> HIDE DEF k, last
    <3>3. k < Len(d)
      BY <2>1, <3>1, <3>2
    <3> QED
      BY <2>1, <3>1, <3>2, <3>3
<1>2. /\ SubSeq(d, k + 1, Len(d)) = BytesOf(x.off + k, Len(d) - k) /\ SubSeq(d, k + 1, Len(d)) \in Seq(Byte)
      /\ Len(SubSeq(d, k + 1, Len(d))) = Len(d) - k /\ ToSet(SubSeq(d, k + 1, Len(d))) \subseteq ToSet(d)
  <2>1. Len(d) \in Nat /\ k \in Nat /\ k < Len(d) /\ Len(d) <= Len(x.data)
    BY <1>1
  <2> HIDE DEF k
  <2> QED
    BY <2>1, Stretch
<1> DEFINE e == SubSeq(d, k + 1, Len(d))
           y == [off |-> last, data |-> EraseData(x.data, 0, k)]
<1>3. EraseData(d, 0, k) = e
  <2>1. SubSeq(d, 1, 0) = <<>> /\ 0 + k + 1 = k + 1
    <3>1. SubSeq(d, 1, 0) = <<>>
      BY SubSeqEmpty
    <3> QED
      BY <1>1, <3>1
  <2>2. e \in Seq(Byte)
    BY <1>2
  <2> HIDE DEF k, d
  <2>3. <<>> \o e = e
    <3> HIDE DEF e
    <3> QED
      BY <2>2, ConcatEmptySeq
  <2> QED
    BY <2>1, <2>3 DEF EraseData
<1>4. e = BytesOf(last, Len(d) - k) /\ e \in Seq(Byte) /\ Len(e) = Len(d) - k /\ ToSet(e) \subseteq ToSet(d)
  BY <1>1, <1>2
<1>5. y.off = last /\ y.data = e /\ y = [off |-> last, data |-> e]
  BY <1>3
<1>6. PICK g \in Taken(i) : 0 < g.off /\ g.off <= x.off /\ g.off + g.len = End(x)
  BY <1>1 DEF Pieces
<1>7. g.off \in Nat
  BY FragIs
<1>8. x.off < last
  OBVIOUS
<1> HIDE DEF e, y, d, k, last
<1>9. y \in Pieces(i)
  <2>1. y \in Elem
    BY <1>1, <1>4, <1>5 DEF Elem, Byte
  <2>2. End(y) = End(x)
    <3>1. Len(y.data) = Len(d) - k /\ y.off = last
      BY <1>4, <1>5
    <3>2. End(y) = last + (Len(d) - k)
      BY <3>1 DEF End
    <3> QED
      BY <1>1, <3>2
  <2>3. Len(y.data) > 0
    BY <1>1, <1>4, <1>5
  <2>4. y.data = BytesOf(y.off, Len(y.data))
    BY <1>4, <1>5
  <2>5. 0 < g.off /\ g.off <= y.off /\ g.off + g.len = End(y)
    BY <1>1, <1>5, <1>6, <1>7, <1>8, <2>2
  <2> QED
    BY <1>1, <2>1, <2>2, <2>3, <2>4, <2>5 DEF Pieces
<1>10. Len(y.data) <= Len(d) /\ ToSet(y.data) \subseteq ToSet(d)
  BY <1>1, <1>4, <1>5
<1> QED
  BY <1>9, <1>10 DEF d, y, k, last

(* One turn of the loop. *)
LEMMA TurnIs ==
  ASSUME MonitorAssumption, ReassemblerAssumption, NEW i \in PktIdx, NEW f \in Taken(i),
         NEW x \in Pieces(i), NEW s \in Scans(i)
  PROVE  LET t == ScanFrag(s, x, f) IN
         /\ t \in Scans(i) /\ Lesser(i, s, x, t)
         /\ Clear(x, f) => t.list = Append(s.list, x) /\ (t.go = "return" => s.go = "return")
         /\ s.go = "on" /\ End(x) <= f.off => t.go = "stop" /\ t.left = s.left
         /\ s.go = "on" /\ f.off + f.len <= x.off => t.go = "on" /\ t.left = Len(s.list)
         /\ s.go # "on" => t.go = s.go /\ t.left = s.left
         /\ t.go = "return" /\ s.go # "return" => Len(t.list) > 0
<1> DEFINE t == ScanFrag(s, x, f)
           last == f.off + f.len
           keep == [s EXCEPT !.list = Append(@, x)]
           trim(y) == [s EXCEPT !.list = Append(@, y)]
<1>1. /\ f.off \in Nat /\ last \in Nat /\ f.off < last
      /\ x.off \in Nat /\ End(x) \in Nat /\ x.off < End(x)
  BY FragIs, PieceIs
<1>2. s.list \in Seq(Pieces(i)) /\ s.left \in Int /\ s.go \in {"on", "stop", "return"} /\ -1 <= s.left /\ s.left <= Len(s.list)
      /\ s = [list |-> s.list, left |-> s.left, go |-> s.go]
  BY DEF Scans
<1>3. ASSUME NEW y \in Pieces(i)
      PROVE  /\ Append(s.list, y) \in Seq(Pieces(i)) /\ Len(Append(s.list, y)) = Len(s.list) + 1
             /\ Len(s.list) \in Nat
  BY <1>2
<1>4. ASSUME NEW y \in Pieces(i), NEW l \in {s.left, Len(s.list)}, NEW go \in {"on", "stop", "return"}
      PROVE  [list |-> Append(s.list, y), left |-> l, go |-> go] \in Scans(i)
  <2>1. Append(s.list, y) \in Seq(Pieces(i)) /\ Len(Append(s.list, y)) = Len(s.list) + 1 /\ Len(s.list) \in Nat
    BY <1>3
  <2>2. l \in Int /\ -1 <= l /\ l <= Len(s.list) + 1
    BY <1>2, <2>1
  <2> QED
    BY <2>1, <2>2 DEF Scans
<1>5. keep = [list |-> Append(s.list, x), left |-> s.left, go |-> s.go]
  <2>1. \A l, n, g, z : [[list |-> l, left |-> n, go |-> g] EXCEPT !.list = z]
                         = [list |-> z, left |-> n, go |-> g]
    OBVIOUS
  <2>2. s = [list |-> s.list, left |-> s.left, go |-> s.go]
    BY <1>2
  <2>3. keep = [s EXCEPT !.list = Append(s.list, x)]
    OBVIOUS
  <2> HIDE DEF keep
  <2> DEFINE z == Append(s.list, x)
  <2>4. keep = [s EXCEPT !.list = z]
    BY <2>3
  <2> HIDE DEF z
  <2>5. keep = [list |-> z, left |-> s.left, go |-> s.go]
    BY <2>1, <2>2, <2>4
  <2> QED
    BY <2>5 DEF z
<1>6. Lesser(i, s, x, [list |-> Append(s.list, x), left |-> s.left, go |-> s.go])
  BY PieceIs DEF Lesser
<1>61. x.off + Len(x.data) = End(x)
  BY DEF End
<1>7. CASE s.go # "on"
  <2>1. t = keep
    BY <1>7, Zenon DEF ScanFrag
  <2> HIDE DEF t, keep
  <2>2. t \in Scans(i)
    BY <1>2, <1>4, <1>5, <2>1
  <2>3. t.list = Append(s.list, x) /\ t.go = s.go /\ t.left = s.left
    BY <1>5, <2>1
  <2> QED
    BY <1>6, <1>7, <2>2, <2>3 DEF Lesser, t
<1>8. CASE s.go = "on" /\ End(x) <= f.off
  <2>1. t = [keep EXCEPT !.go = "stop"]
    BY <1>1, <1>61, <1>8 DEF ScanFrag
  <2> HIDE DEF t, keep
  <2>2. t = [list |-> Append(s.list, x), left |-> s.left, go |-> "stop"]
    BY <1>5, <2>1
  <2>3. t \in Scans(i)
    BY <1>2, <1>4, <2>2
  <2>4. Lesser(i, s, x, t)
    BY <2>2, PieceIs DEF Lesser
  <2> QED
    BY <1>1, <1>8, <2>2, <2>3, <2>4 DEF t
<1>9. CASE s.go = "on" /\ x.off >= last
  <2>1. t = [keep EXCEPT !.left = Len(s.list)]
    BY <1>1, <1>61, <1>9 DEF ScanFrag
  <2> HIDE DEF t, keep
  <2>2. t = [list |-> Append(s.list, x), left |-> Len(s.list), go |-> "on"]
    BY <1>5, <1>9, <2>1
  <2>3. t \in Scans(i)
    BY <1>2, <1>4, <2>2
  <2>4. Lesser(i, s, x, t)
    BY <2>2, PieceIs DEF Lesser
  <2> QED
    BY <1>1, <1>9, <2>2, <2>3, <2>4 DEF t
<1>10. CASE s.go = "on" /\ End(x) > f.off /\ x.off < last
  <2>1. ~ Clear(x, f)
    BY <1>1, <1>10 DEF Clear
  <2> SUFFICES /\ t \in Scans(i) /\ Lesser(i, s, x, t)
               /\ t.go = "return" /\ s.go # "return" => Len(t.list) > 0
    BY <1>1, <1>10, <2>1
  <2>2. CASE x.off <= f.off /\ End(x) >= last
    <3>1. t = [keep EXCEPT !.go = "return"]
      BY <1>1, <1>61, <1>10, <2>2, SMTT(30) DEF ScanFrag
    <3> HIDE DEF t, keep
    <3>2. t = [list |-> Append(s.list, x), left |-> s.left, go |-> "return"]
      BY <1>5, <3>1
    <3>3. t \in Scans(i)
      BY <1>2, <1>4, <3>2
    <3>4. Len(t.list) > 0
      BY <1>3, <3>2
    <3> QED
      BY <3>2, <3>3, <3>4, PieceIs DEF Lesser
  <2>3. CASE f.off <= x.off /\ last >= End(x) /\ last - f.off > End(x) - x.off
    <3>1. t = s
      BY <1>1, <1>61, <1>10, <2>3 DEF ScanFrag
    <3> QED
      BY <1>10, <3>1 DEF Lesser
  <2>4. CASE x.off < f.off /\ End(x) < last
    <3> DEFINE y == [off |-> x.off, data |-> EraseData(x.data, f.off, End(x) - f.off)]
    <3>1. t = [s EXCEPT !.list = Append(@, y)]
      BY <1>1, <1>61, <1>10, <2>4 DEF ScanFrag, End
    <3>2. y \in Pieces(i) /\ Len(y.data) <= Len(x.data) /\ ToSet(y.data) \subseteq ToSet(x.data)
      BY <1>10, <2>4, LeftTrimmed
    <3> HIDE DEF t, y
    <3>3. t = [list |-> Append(s.list, y), left |-> s.left, go |-> s.go]
      BY <1>2, <3>1
    <3>4. t \in Scans(i)
      BY <1>2, <1>4, <3>2, <3>3
    <3> QED
      BY <1>10, <3>2, <3>3, <3>4 DEF Lesser
  <2>5. CASE x.off > f.off /\ End(x) > last
    <3> DEFINE y == [off |-> last, data |-> EraseData(x.data, 0, last - x.off)]
    <3>1. t = [s EXCEPT !.list = Append(@, y), !.left = Len(s.list)]
      BY <1>1, <1>61, <1>10, <2>5 DEF ScanFrag
    <3>2. y \in Pieces(i) /\ Len(y.data) <= Len(x.data) /\ ToSet(y.data) \subseteq ToSet(x.data)
      <4>1. x.off > f.off /\ End(x) > f.off + f.len /\ x.off < f.off + f.len
        BY <1>10, <2>5
      <4>2. y = [off |-> f.off + f.len, data |-> EraseData(x.data, 0, (f.off + f.len) - x.off)]
        OBVIOUS
      <4> HIDE DEF last, y
      <4> QED
        BY <4>1, <4>2, RightTrimmed
    <3> HIDE DEF t, y
    <3>3. t = [list |-> Append(s.list, y), left |-> Len(s.list), go |-> s.go]
      BY <1>2, <3>1
    <3>4. t \in Scans(i)
      BY <1>2, <1>4, <3>2, <3>3
    <3> QED
      BY <1>10, <3>2, <3>3, <3>4 DEF Lesser
  <2> QED
    BY <1>1, <2>2, <2>3, <2>4, <2>5
<1> QED
  BY <1>1, <1>2, <1>7, <1>8, <1>9, <1>10

-----------------------------------------------------------------------------
(* The loop. *)

ScanStart == [list |-> <<>>, left |-> -1, go |-> "on"]

(* The states of the loop. *)
ScannedBy(g, i, l, f) ==
  /\ g \in [0 .. Len(l) -> Scans(i)] /\ g[0] = ScanStart
  /\ \A n \in 1 .. Len(l) : g[n] = ScanFrag(g[n - 1], l[n], f)
  /\ ScanFrags(l, f) = g[Len(l)]

LEMMA ScanIs ==
  ASSUME MonitorAssumption, ReassemblerAssumption, NEW i \in PktIdx, NEW f \in Taken(i),
         NEW l \in Seq(Pieces(i))
  PROVE  \E g : ScannedBy(g, i, l, f)
<1> DEFINE A     == Scans(i)
           base  == ScanStart
           L     == Len(l)
           Eq(h) == h = [s \in SUBSET (DOMAIN l) |->
                           IF s = {} THEN base
                           ELSE ScanFrag(h[s \ {Max(s)}], l[Max(s)], f)]
           iter  == CHOOSE h : Eq(h)
           step  == [na \in (1 .. L) \X A |-> ScanFrag(na[2], l[na[1]], f)]
<1>0. base \in A
  BY DEF Scans, ScanStart
<1>1. L \in Nat /\ DOMAIN l = 1 .. L /\ \A n \in 1 .. L : l[n] \in Pieces(i)
  OBVIOUS
<1>2. ScanFrags(l, f) = iter[DOMAIN l]
  BY DEF ScanFrags, FoldLeft, MapThenFoldSet, ScanStart
<1>21. \A n \in 1 .. L : \A a \in A : ScanFrag(a, l[n], f) \in A
  BY <1>1, TurnIs
<1>3. step \in [(1 .. L) \X A -> A]
  BY <1>21
<1>4. \A n \in 1 .. L : \A a \in A : step[<<n, a>>] = ScanFrag(a, l[n], f)
  OBVIOUS
<1> HIDE DEF step, L, A, base
<1>51. PICK h \in [SUBSET (1 .. L) -> A] : FoldsOver(h, L, base, step)
  BY <1>0, <1>1, <1>3, MaskedFold
<1>5. /\ h[{}] = base
      /\ \A x \in SUBSET (1 .. L) :
           x # {} => Max(x) \in x /\ h[x] = step[<<Max(x), h[x \ {Max(x)}]>>]
  BY <1>51 DEF FoldsOver
<1>6. ASSUME NEW x \in SUBSET (1 .. L), x # {}
      PROVE  h[x] = ScanFrag(h[x \ {Max(x)}], l[Max(x)], f)
  <2>1. Max(x) \in 1 .. L /\ h[x \ {Max(x)}] \in A
    BY <1>5, <1>6
  <2> QED
    BY <1>4, <1>5, <1>6, <2>1
<1>7. Eq(h)
  <2>1. h = [s \in SUBSET (1 .. L) |->
               IF s = {} THEN base ELSE ScanFrag(h[s \ {Max(s)}], l[Max(s)], f)]
    BY <1>5, <1>6
  <2> QED
    BY <1>1, <2>1
<1>8. Eq(iter)
  BY <1>7
<1> DEFINE j == iter
<1>9. j = [s \in SUBSET (1 .. L) |->
             IF s = {} THEN base ELSE ScanFrag(j[s \ {Max(s)}], l[Max(s)], f)]
  BY <1>1, <1>8
<1>10. ScanFrags(l, f) = j[1 .. L]
  BY <1>1, <1>2
<1> HIDE DEF j
<1>11. Unfolds(j, A, L, base, step)
  <2>1. j[{}] = base
    BY <1>9
  <2>2. ASSUME NEW n \in 1 .. L, j[1 .. n - 1] \in A
        PROVE  j[1 .. n] = step[<<n, j[1 .. n - 1]>>]
    <3> DEFINE x == 1 .. n
    <3>1. x \in SUBSET (1 .. L) /\ x # {} /\ Max(x) = n /\ x \ {n} = 1 .. n - 1
      BY <1>1, UpToIs
    <3>2. j[x] = ScanFrag(j[x \ {Max(x)}], l[Max(x)], f)
      BY <1>9, <3>1
    <3> QED
      BY <1>4, <2>2, <3>1, <3>2
  <2> QED
    BY <2>1, <2>2 DEF Unfolds
<1>12. FoldTyped(A, L, base, step)
  BY <1>0, <1>1, <1>3 DEF FoldTyped
<1>13. PICK g : Passes(g, j, A, L, base, step)
  BY <1>11, <1>12, Unfolded
<1>14. ASSUME NEW n \in 1 .. L PROVE g[n] = ScanFrag(g[n - 1], l[n], f)
  <2>1. g[n - 1] \in A
    BY <1>1, <1>13 DEF Passes
  <2>2. g[n] = step[<<n, g[n - 1]>>]
    BY <1>13 DEF Passes, StepsFrom
  <2> QED
    BY <1>4, <2>1, <2>2
<1>15. g \in [0 .. L -> A] /\ g[0] = base /\ ScanFrags(l, f) = g[L]
  BY <1>10, <1>13 DEF Passes, StepsFrom
<1> QED
  BY <1>14, <1>15 DEF ScannedBy, A, L, base

(* What is left of the elements: none longer, no byte that was not there;  *)
(* all of them when the fragment is clear of each.                         *)
ScanHolds(i, l, f, s) ==
  /\ s \in Scans(i)
  /\ Len(DataOf(s.list)) <= Len(DataOf(l)) /\ ToSet(DataOf(s.list)) \subseteq ToSet(DataOf(l))
  /\ (\A n \in 1 .. Len(l) : Clear(l[n], f)) => s.list = l /\ s.go # "return"
  /\ s.go = "return" => Len(s.list) > 0

LEMMA Scanned ==
  ASSUME MonitorAssumption, ReassemblerAssumption, NEW i \in PktIdx, NEW f \in Taken(i),
         NEW l \in Seq(Pieces(i))
  PROVE  ScanHolds(i, l, f, ScanFrags(l, f))
<1>0. PICK g : ScannedBy(g, i, l, f)
  BY ScanIs
<1> DEFINE p(n) == SubSeq(l, 1, n)
           L    == Len(l)
           Fine(n) ==
             /\ Len(DataOf(g[n].list)) <= Len(DataOf(p(n)))
             /\ ToSet(DataOf(g[n].list)) \subseteq ToSet(DataOf(p(n)))
             /\ (\A m \in 1 .. L : Clear(l[m], f)) => g[n].list = p(n) /\ g[n].go # "return"
             /\ g[n].go = "return" => Len(g[n].list) > 0
           S == {n \in 0 .. L : Fine(n)}
<1>1. L \in Nat /\ \A n \in 0 .. L : g[n] \in Scans(i)
  <2>1. g \in [0 .. L -> Scans(i)]
    BY <1>0 DEF ScannedBy
  <2>2. L \in Nat
    OBVIOUS
  <2> HIDE DEF L
  <2> QED
    BY <2>1, <2>2
<1>2. \A x : x \in Pieces(i) => x \in Elem
  BY DEF Pieces
<1>3. \A s \in Seq(Pieces(i)) : s \in Seq(Elem)
  BY <1>2, SeqMonotonic
<1>4. 0 \in S
  <2>1. g[0].list = <<>> /\ g[0].go = "on" /\ p(0) = <<>> /\ 0 \in 0 .. L
    BY <1>0, <1>1 DEF ScannedBy, ScanStart
  <2>2. DataOf(<<>>) \in Seq(Byte)
    <3>1. <<>> \in Seq(Elem)
      OBVIOUS
    <3> QED
      BY <3>1, DataTyped
  <2>3. Len(DataOf(<<>>)) \in Nat
    BY <2>2
  <2> HIDE DEF p, L
  <2>4. Fine(0)
    BY <2>1, <2>3
  <2> QED
    BY <2>1, <2>4
<1>5. ASSUME NEW n \in 0 .. L, n < L, n \in S PROVE n + 1 \in S
  <2> DEFINE x == l[n + 1]
             s == g[n]
             t == g[n + 1]
  <2>1. /\ n + 1 \in 1 .. L /\ n + 1 \in 0 .. L /\ (n + 1) - 1 = n /\ x \in Pieces(i)
        /\ p(n) \in Seq(Pieces(i)) /\ p(n + 1) = Append(p(n), x)
    BY <1>1, <1>5
  <2>2. t = ScanFrag(s, x, f)
    BY <1>0, <2>1 DEF ScannedBy
  <2>3. s \in Scans(i) /\ t \in Scans(i)
    BY <1>1, <1>5, <2>1
  <2>4. Fine(n)
    BY <1>5
  <2> DEFINE q == p(n)
  <2>41. Fine(n) = (/\ Len(DataOf(s.list)) <= Len(DataOf(q))
                    /\ ToSet(DataOf(s.list)) \subseteq ToSet(DataOf(q))
                    /\ (\A m \in 1 .. L : Clear(l[m], f)) => s.list = q /\ s.go # "return"
                    /\ s.go = "return" => Len(s.list) > 0)
    OBVIOUS
  <2> HIDE DEF x, s, t, p, Fine
  <2>5. /\ t \in Scans(i) /\ Lesser(i, s, x, t)
        /\ Clear(x, f) => t.list = Append(s.list, x) /\ (t.go = "return" => s.go = "return")
        /\ t.go = "return" /\ s.go # "return" => Len(t.list) > 0
    BY <2>1, <2>2, <2>3, TurnIs
  <2>6. /\ Len(DataOf(s.list)) <= Len(DataOf(q)) /\ ToSet(DataOf(s.list)) \subseteq ToSet(DataOf(q))
        /\ (\A m \in 1 .. L : Clear(l[m], f)) => s.list = q /\ s.go # "return"
        /\ s.go = "return" => Len(s.list) > 0
    BY <2>4, <2>41
  <2>7. s.list \in Seq(Elem) /\ q \in Seq(Elem) /\ x \in Elem /\ x.data \in Seq(Byte)
    <3>1. s.list \in Seq(Pieces(i))
      BY <2>3 DEF Scans
    <3>2. s.list \in Seq(Elem) /\ q \in Seq(Elem) /\ x \in Elem
      BY <1>2, <1>3, <2>1, <3>1
    <3> QED
      BY <3>2 DEF Elem
  <2>8. /\ DataOf(s.list) \in Seq(Byte) /\ DataOf(q) \in Seq(Byte)
        /\ DataOf(p(n + 1)) = DataOf(q) \o x.data
    BY <2>1, <2>7, DataAppend
  <2>9. /\ Len(DataOf(p(n + 1))) = Len(DataOf(q)) + Len(x.data)
        /\ ToSet(DataOf(p(n + 1))) = ToSet(DataOf(q)) \cup ToSet(x.data)
        /\ Len(DataOf(q)) \in Nat /\ Len(x.data) \in Nat /\ Len(DataOf(s.list)) \in Nat
    BY <2>7, <2>8, ConcatHolds, LenProperties
  <2>10. /\ Len(DataOf(t.list)) <= Len(DataOf(p(n + 1)))
         /\ ToSet(DataOf(t.list)) \subseteq ToSet(DataOf(p(n + 1)))
    <3>1. CASE t.list = s.list
      BY <2>6, <2>9, <3>1
    <3>2. ASSUME NEW y \in Pieces(i), t.list = Append(s.list, y),
                 Len(y.data) <= Len(x.data), ToSet(y.data) \subseteq ToSet(x.data)
          PROVE  /\ Len(DataOf(t.list)) <= Len(DataOf(p(n + 1)))
                 /\ ToSet(DataOf(t.list)) \subseteq ToSet(DataOf(p(n + 1)))
      <4>1. y \in Elem /\ y.data \in Seq(Byte)
        BY <1>2 DEF Elem
      <4>2. DataOf(t.list) = DataOf(s.list) \o y.data
        BY <2>7, <3>2, <4>1, DataAppend
      <4>3. /\ Len(DataOf(t.list)) = Len(DataOf(s.list)) + Len(y.data)
            /\ ToSet(DataOf(t.list)) = ToSet(DataOf(s.list)) \cup ToSet(y.data) /\ Len(y.data) \in Nat
        BY <2>8, <4>1, <4>2, ConcatHolds, LenProperties
      <4>4. Len(DataOf(t.list)) <= Len(DataOf(p(n + 1)))
        <5> DEFINE c == Len(DataOf(s.list))
                   d == Len(DataOf(q))
        <5>1. c \in Nat /\ d \in Nat /\ c <= d /\ Len(y.data) \in Nat /\ Len(x.data) \in Nat /\ Len(y.data) <= Len(x.data)
          BY <2>6, <2>9, <3>2, <4>3
        <5>2. Len(DataOf(t.list)) = c + Len(y.data) /\ Len(DataOf(p(n + 1))) = d + Len(x.data)
          BY <2>9, <4>3
        <5> HIDE DEF c, d
        <5> QED
          BY <5>1, <5>2
      <4>5. ToSet(DataOf(t.list)) \subseteq ToSet(DataOf(p(n + 1)))
        BY <2>6, <2>9, <3>2, <4>3
      <4> QED
        BY <4>4, <4>5
    <3> QED
      BY <2>5, <3>1, <3>2 DEF Lesser
  <2>11. (\A m \in 1 .. L : Clear(l[m], f)) => t.list = p(n + 1) /\ t.go # "return"
    <3> HAVE \A m \in 1 .. L : Clear(l[m], f)
    <3>1. Clear(x, f)
      BY <2>1 DEF x
    <3> QED
      BY <2>1, <2>5, <2>6, <3>1
  <2>12. t.go = "return" => Len(t.list) > 0
    <3> HAVE t.go = "return"
    <3>1. CASE s.go # "return"
      BY <2>5, <3>1
    <3>2. CASE s.go = "return"
      <4>1. s.list \in Seq(Elem) /\ Len(s.list) > 0
        BY <2>6, <2>7, <3>2
      <4>2. \A y : Len(Append(s.list, y)) > 0
        BY <4>1
      <4> QED
        BY <2>5, <4>1, <4>2 DEF Lesser
    <3> QED
      BY <3>1, <3>2
  <2>13. Fine(n + 1)
    BY <2>10, <2>11, <2>12 DEF Fine, t
  <2> QED
    BY <2>1, <2>13
<1>6. \A n \in 0 .. L : n \in S
  <2> HIDE DEF S
  <2> QED
    BY <1>1, <1>4, <1>5, NatIndUpTo
<1>7. Fine(L)
  BY <1>1, <1>6
<1>8. p(L) = l /\ ScanFrags(l, f) = g[L] /\ g[L] \in Scans(i)
  BY <1>0, <1>1 DEF ScannedBy
<1> HIDE DEF p
<1> QED
  BY <1>7, <1>8 DEF ScanHolds

(* A fragment behind all elements goes behind them; one before the only    *)
(* element goes before it.                                                 *)
LEMMA ScanPlace ==
  ASSUME MonitorAssumption, ReassemblerAssumption, NEW i \in PktIdx, NEW f \in Taken(i),
         NEW l \in Seq(Pieces(i))
  PROVE  /\ (\A n \in 1 .. Len(l) : End(l[n]) <= f.off) => ScanFrags(l, f).left = -1
         /\ Len(l) = 1 /\ f.off + f.len <= l[1].off => ScanFrags(l, f).left = 0
<1>0. PICK g : ScannedBy(g, i, l, f)
  BY ScanIs
<1> DEFINE L == Len(l)
<1>1. L \in Nat
  OBVIOUS
<1>2. g \in [0 .. L -> Scans(i)] /\ g[0] = ScanStart /\ ScanFrags(l, f) = g[L]
  BY <1>0 DEF ScannedBy
<1>3. ASSUME NEW n \in 0 .. L, n < L
      PROVE  /\ n + 1 \in 1 .. L /\ n + 1 \in 0 .. L /\ l[n + 1] \in Pieces(i) /\ g[n] \in Scans(i)
             /\ g[n + 1] = ScanFrag(g[n], l[n + 1], f)
  <2>1. n + 1 \in 1 .. L /\ n + 1 \in 0 .. L /\ (n + 1) - 1 = n /\ l[n + 1] \in Pieces(i)
    BY <1>1, <1>3
  <2>2. g[n] \in Scans(i)
    BY <1>2
  <2>3. g[n + 1] = ScanFrag(g[(n + 1) - 1], l[n + 1], f)
    BY <1>0, <2>1 DEF ScannedBy
  <2> QED
    BY <2>1, <2>2, <2>3
<1> HIDE DEF L
<1>4. ASSUME \A n \in 1 .. L : End(l[n]) <= f.off PROVE ScanFrags(l, f).left = -1
  <2> DEFINE S == {n \in 0 .. L : g[n].left = -1}
  <2>1. 0 \in S
    BY <1>1, <1>2 DEF ScanStart
  <2>2. ASSUME NEW n \in 0 .. L, n < L, n \in S PROVE n + 1 \in S
    <3>1. /\ n + 1 \in 1 .. L /\ n + 1 \in 0 .. L /\ l[n + 1] \in Pieces(i) /\ g[n] \in Scans(i)
          /\ g[n + 1] = ScanFrag(g[n], l[n + 1], f)
      BY <1>3, <2>2
    <3>2. End(l[n + 1]) <= f.off
      BY <1>4, <3>1
    <3>3. g[n + 1].left = g[n].left
      BY <3>1, <3>2, TurnIs
    <3> QED
      BY <2>2, <3>1, <3>3
  <2>3. \A n \in 0 .. L : n \in S
    <3> HIDE DEF S
    <3> QED
      BY <1>1, <2>1, <2>2, NatIndUpTo
  <2> QED
    BY <1>1, <1>2, <2>3
<1>5. ASSUME L = 1, f.off + f.len <= l[1].off PROVE ScanFrags(l, f).left = 0
  <2>1. 0 \in 0 .. L /\ 0 < L /\ 0 + 1 = 1
    BY <1>5
  <2>2. l[1] \in Pieces(i) /\ g[0] \in Scans(i) /\ g[1] = ScanFrag(g[0], l[1], f)
    BY <1>3, <2>1
  <2>3. g[0].go = "on" /\ g[0].list = <<>>
    BY <1>2 DEF ScanStart
  <2>4. g[1].left = Len(g[0].list)
    BY <1>5, <2>2, <2>3, TurnIs
  <2> QED
    BY <1>2, <1>5, <2>3, <2>4
<1> QED
  BY <1>4, <1>5 DEF L

-----------------------------------------------------------------------------
(* What a reassembler makes of a fragment. *)

LEMMA ElementIs ==
  ASSUME MonitorAssumption, ReassemblerAssumption, NEW i \in PktIdx, NEW f \in Taken(i)
  PROVE  /\ Element(f) \in Pieces(i) /\ Element(f) \in Elem
         /\ Element(f).off = f.off /\ Element(f).data = BytesOf(f.off, f.len)
         /\ BytesOf(f.off, f.len) \in Seq(Byte) /\ Len(BytesOf(f.off, f.len)) = f.len
         /\ ToSet(BytesOf(f.off, f.len)) = f.off .. f.off + f.len - 1
         /\ Bytes(f) = f.off .. f.off + f.len - 1
         /\ IsInjective(BytesOf(f.off, f.len)) /\ Increasing(BytesOf(f.off, f.len))
<1>1. /\ f.off \in Nat /\ f.len \in Nat /\ f.len > 0 /\ f.off \in Byte /\ f.off + f.len <= MaxPktLen
  BY FragIs DEF Byte
<1> DEFINE b == BytesOf(f.off, f.len)
           e == Element(f)
<1>2. b \in Seq(Byte) /\ Len(b) = f.len /\ ToSet(b) = f.off .. f.off + f.len - 1 /\ IsInjective(b) /\ Increasing(b)
  BY <1>1, BytesOfIs
<1>3. e.off = f.off /\ e.data = b /\ e = [off |-> f.off, data |-> b]
  BY DEF Element
<1>4. Bytes(f) = ToSet(b)
  BY DEF Bytes, Range, ToSet
<1>5. End(e) = f.off + f.len
  BY <1>2, <1>3 DEF End
<1> HIDE DEF e
<1>6. b = BytesOf(e.off, Len(e.data))
  BY <1>2, <1>3
<1> HIDE DEF b
<1>7. e \in Elem
  BY <1>1, <1>2, <1>3 DEF Elem
<1>8. e \in Pieces(i)
  BY <1>1, <1>2, <1>3, <1>5, <1>6, <1>7 DEF Pieces
<1> QED
  BY <1>2, <1>3, <1>4, <1>7, <1>8 DEF e, b

(* The data a fragment's is put into: not more than there was. *)
PutInto(d, d1, f, d2) ==
  /\ Len(d1) <= Len(d) /\ ToSet(d1) \subseteq ToSet(d)
  /\ \E u, v : Parted(d1, u, v) /\ d2 = (u \o BytesOf(f.off, f.len)) \o v

(* The outcomes of DoInsertPktFrag. *)
Inserts(i, r, f, t) ==
  LET d  == DataOf(r.frags)
      d2 == DataOf(t.frags)
  IN
  /\ t.frags \in Seq(Pieces(i)) /\ t.frags # <<>>
  /\ t.end = r.end /\ t.flag = r.flag /\ t.seen = r.seen
  /\ t = [meat |-> t.meat, end |-> t.end, flag |-> t.flag, frags |-> t.frags, seen |-> t.seen]
  /\ \/ t.meat = (r.meat + f.len) % Word /\ \E d1 : PutInto(d, d1, f, d2)
     \/ t.meat = r.meat /\ Len(d2) <= Len(d) /\ ToSet(d2) \subseteq ToSet(d)
  /\ (\A n \in 1 .. Len(r.frags) : Clear(r.frags[n], f)) =>
       t.meat = (r.meat + f.len) % Word /\ PutInto(d, d, f, d2)
  /\ (\A n \in 1 .. Len(r.frags) : End(r.frags[n]) <= f.off) => d2 = d \o BytesOf(f.off, f.len)
  /\ Len(r.frags) = 1 /\ f.off + f.len <= r.frags[1].off => d2 = BytesOf(f.off, f.len) \o d

LEMMA DoInsertIs ==
  ASSUME MonitorAssumption, ReassemblerAssumption, NEW i \in PktIdx, NEW f \in Taken(i),
         NEW r \in Reassembler, r.frags \in Seq(Pieces(i)), r.frags # <<>>
  PROVE  Inserts(i, r, f, DoInsertPktFrag(r, f)) 
<1> DEFINE l == r.frags
           s == ScanFrags(l, f)
           e == Element(f)
           at == IF s.left = -1 THEN Len(s.list) ELSE s.left
           t == DoInsertPktFrag(r, f)
           b == BytesOf(f.off, f.len)
<1>1. ScanHolds(i, l, f, s)
  BY Scanned
<1>2. /\ e \in Pieces(i) /\ e \in Elem /\ e.data = b
  BY ElementIs
<1>3. \A x : x \in Pieces(i) => x \in Elem
  BY DEF Pieces
<1>4. \A q \in Seq(Pieces(i)) : q \in Seq(Elem)
  BY <1>3, SeqMonotonic
<1>5. l \in Seq(Elem) /\ s.list \in Seq(Pieces(i)) /\ s.list \in Seq(Elem)
  BY <1>1, <1>4 DEF ScanHolds, Scans
<1>6. at \in 0 .. Len(s.list) /\ Len(s.list) \in Nat
  <2>1. s.left \in Int /\ -1 <= s.left /\ s.left <= Len(s.list) /\ Len(s.list) \in Nat
    <3>1. s.left \in Int /\ -1 <= s.left /\ s.left <= Len(s.list)
      BY <1>1 DEF ScanHolds, Scans
    <3> QED
      BY <1>5, <3>1
  <2> HIDE DEF s
  <2> QED
    BY <2>1
<1>7. /\ Len(DataOf(s.list)) <= Len(DataOf(l)) /\ ToSet(DataOf(s.list)) \subseteq ToSet(DataOf(l))
      /\ (\A n \in 1 .. Len(l) : Clear(l[n], f)) => s.list = l /\ s.go # "return"
      /\ (\A n \in 1 .. Len(l) : End(l[n]) <= f.off) => s.left = -1
      /\ Len(l) = 1 /\ f.off + f.len <= l[1].off => s.left = 0
  BY <1>1, ScanPlace DEF ScanHolds
<1>8. Len(l) \in Nat /\ Len(l) > 0
  BY <1>5
<1>9. (\A n \in 1 .. Len(l) : End(l[n]) <= f.off) => \A n \in 1 .. Len(l) : Clear(l[n], f)
  BY DEF Clear
<1>10. Len(l) = 1 /\ f.off + f.len <= l[1].off => \A n \in 1 .. Len(l) : Clear(l[n], f)
  <2> HAVE Len(l) = 1 /\ f.off + f.len <= l[1].off
  <2>1. \A n \in 1 .. Len(l) : n = 1
    OBVIOUS
  <2> HIDE DEF l
  <2> QED
    BY <2>1 DEF Clear
<1>11. r = [meat |-> r.meat, end |-> r.end, flag |-> r.flag, frags |-> r.frags, seen |-> r.seen]
  BY DEF Reassembler
<1>12. CASE s.go = "return"
  <2>1. t = [r EXCEPT !.frags = s.list]
    BY <1>12 DEF DoInsertPktFrag
  <2>2. /\ t.frags = s.list /\ t.meat = r.meat /\ t.end = r.end /\ t.flag = r.flag /\ t.seen = r.seen
        /\ t = [meat |-> t.meat, end |-> t.end, flag |-> t.flag, frags |-> t.frags, seen |-> t.seen]
    BY <1>11, <2>1
  <2> HIDE DEF s, t
  <2>3. ~ \A n \in 1 .. Len(l) : Clear(l[n], f)
    BY <1>7, <1>12
  <2>4. t.frags # <<>>
    BY <1>1, <1>12, <2>2 DEF ScanHolds
  <2> QED
    BY <1>5, <1>7, <1>9, <1>10, <2>2, <2>3, <2>4 DEF Inserts, t
<1>13. CASE s.go # "return"
  <2> DEFINE z == InsertAt(s.list, at + 1, e)
  <2>1. t = [r EXCEPT !.meat = (@ + f.len) % Word, !.frags = z]
    BY <1>13 DEF DoInsertPktFrag
  <2>2. /\ t.frags = z /\ t.meat = (r.meat + f.len) % Word
        /\ t.end = r.end /\ t.flag = r.flag /\ t.seen = r.seen
        /\ t = [meat |-> t.meat, end |-> t.end, flag |-> t.flag, frags |-> t.frags, seen |-> t.seen]
    BY <1>11, <2>1
  <2> HIDE DEF z, t, at, s, e, l
  <2>3. /\ z \in Seq(Elem) /\ Len(z) = Len(s.list) + 1
        /\ \E u, v : Parted(DataOf(s.list), u, v) /\ DataOf(z) = (u \o b) \o v
        /\ at = Len(s.list) => z = Append(s.list, e)
        /\ at = 0 => DataOf(z) = b \o DataOf(s.list)
    <3>1. /\ InsertAt(s.list, at + 1, e) \in Seq(Elem)
          /\ Len(InsertAt(s.list, at + 1, e)) = Len(s.list) + 1
          /\ \E u, v : Parted(DataOf(s.list), u, v) /\ DataOf(InsertAt(s.list, at + 1, e)) = (u \o e.data) \o v
          /\ at = Len(s.list) => InsertAt(s.list, at + 1, e) = Append(s.list, e)
          /\ at = 0 => DataOf(InsertAt(s.list, at + 1, e)) = e.data \o DataOf(s.list)
      BY <1>2, <1>5, <1>6, DataInserted
    <3> HIDE DEF b
    <3> QED
      BY <1>2, <3>1 DEF z
  <2>4. z # <<>> 
    BY <1>6, <2>3
  <2>5. z \in Seq(Pieces(i))
    BY <1>2, <1>5, <1>6 DEF z, InsertAt
  <2>6. \E d1 : PutInto(DataOf(l), d1, f, DataOf(z))
    BY <1>7, <2>3 DEF PutInto
  <2>7. (\A n \in 1 .. Len(l) : Clear(l[n], f)) => PutInto(DataOf(l), DataOf(l), f, DataOf(z))
    BY <1>7, <2>3 DEF PutInto
  <2>8. (\A n \in 1 .. Len(l) : End(l[n]) <= f.off) => DataOf(z) = DataOf(l) \o b
    <3> HAVE \A n \in 1 .. Len(l) : End(l[n]) <= f.off
    <3>1. s.list = l /\ at = Len(s.list)
      BY <1>7, <1>9 DEF at
    <3>2. z = Append(l, e)
      BY <2>3, <3>1
    <3> QED
      BY <1>2, <1>5, <3>2, DataAppend
  <2>9. Len(l) = 1 /\ f.off + f.len <= l[1].off => DataOf(z) = b \o DataOf(l)
    <3> HAVE Len(l) = 1 /\ f.off + f.len <= l[1].off
    <3>1. s.list = l /\ at = 0
      BY <1>7, <1>10 DEF at
    <3> QED
      BY <2>3, <3>1
  <2> QED
    BY <2>2, <2>4, <2>5, <2>6, <2>7, <2>8, <2>9 DEF Inserts, l, t
<1> QED
  BY <1>12, <1>13

(* The bytes of an element are in the data. *)
LEMMA PieceInData ==
  ASSUME NEW l \in Seq(Elem), NEW n \in 1 .. Len(l)
  PROVE  ToSet(l[n].data) \subseteq ToSet(DataOf(l))
<1> DEFINE a == SubSeq(l, 1, n - 1)
           x == l[n]
           b == SubSeq(l, n + 1, Len(l))
<1>1. /\ a \in Seq(Elem) /\ x \in Elem /\ b \in Seq(Elem) /\ SubSeq(l, 1, n) \in Seq(Elem)
      /\ SubSeq(l, 1, n) = Append(a, x)
  OBVIOUS
<1>2. SubSeq(l, 1, n) \o b = l
  <2>1. 1 \in 1 .. Len(l) + 1 /\ n \in 1 - 1 .. Len(l) /\ Len(l) \in n .. Len(l)
    OBVIOUS
  <2>2. SubSeq(l, 1, n) \o SubSeq(l, n + 1, Len(l)) = SubSeq(l, 1, Len(l))
    BY <2>1, ConcatAdjacentSubSeq
  <2> QED
    BY <2>2, SubSeqFull
<1> HIDE DEF a, x, b
<1>3. DataOf(Append(a, x)) = DataOf(a) \o x.data /\ x.data \in Seq(Byte) /\ DataOf(a) \in Seq(Byte)
  BY <1>1, DataAppend DEF Elem
<1>4. DataOf(l) = DataOf(Append(a, x)) \o DataOf(b)
  BY <1>1, <1>2, DataConcat
<1>5. DataOf(Append(a, x)) \in Seq(Byte) /\ DataOf(b) \in Seq(Byte)
  BY <1>1, DataTyped
<1>6. ToSet(DataOf(Append(a, x))) = ToSet(DataOf(a)) \cup ToSet(x.data)
  BY <1>3, ConcatHolds
<1>7. ToSet(DataOf(l)) = ToSet(DataOf(Append(a, x))) \cup ToSet(DataOf(b))
  BY <1>4, <1>5, ConcatHolds
<1> QED
  BY <1>6, <1>7 DEF x

LEMMA IncreasingConcat ==
  ASSUME NEW u \in Seq(Byte), NEW v \in Seq(Byte), Increasing(u), Increasing(v),
         \A a \in ToSet(u) : \A b \in ToSet(v) : a < b
  PROVE  Increasing(u \o v)
<1> DEFINE e == u \o v
<1>1. /\ Len(u) \in Nat /\ Len(v) \in Nat /\ Len(e) = Len(u) + Len(v)
      /\ \A k \in 1 .. Len(u) + Len(v) : e[k] = IF k <= Len(u) THEN u[k] ELSE v[k - Len(u)]
  BY ConcatProperties, LenProperties
<1>2. \A j \in 1 .. Len(u) : \A k \in 1 .. Len(v) : u[j] < v[k]
  <2>1. \A j \in 1 .. Len(u) : u[j] \in ToSet(u)
    BY DEF ToSet
  <2>2. \A k \in 1 .. Len(v) : v[k] \in ToSet(v)
    BY DEF ToSet
  <2> QED
    BY <2>1, <2>2
<1> HIDE DEF e
<1>3. ASSUME NEW j \in 1 .. Len(e), NEW k \in 1 .. Len(e), j < k PROVE e[j] < e[k]
  <2>1. j \in Nat /\ k \in Nat /\ j <= Len(u) + Len(v) /\ k <= Len(u) + Len(v) /\ j >= 1 /\ k >= 1
    BY <1>1
  <2>2. CASE k <= Len(u)
    <3>1. e[j] = u[j] /\ e[k] = u[k] /\ j \in 1 .. Len(u) /\ k \in 1 .. Len(u)
      BY <1>1, <1>3, <2>1, <2>2
    <3> QED
      BY <1>3, <3>1 DEF Increasing
  <2>3. CASE j <= Len(u) /\ ~ (k <= Len(u))
    <3>1. e[j] = u[j] /\ e[k] = v[k - Len(u)] /\ j \in 1 .. Len(u) /\ k - Len(u) \in 1 .. Len(v)
      BY <1>1, <2>1, <2>3
    <3> QED
      BY <1>2, <3>1
  <2>4. CASE ~ (j <= Len(u))
    <3>1. ~ (k <= Len(u))
      BY <1>1, <1>3, <2>1, <2>4
    <3>2. /\ e[j] = v[j - Len(u)] /\ e[k] = v[k - Len(u)] /\ j - Len(u) < k - Len(u)
          /\ j - Len(u) \in 1 .. Len(v) /\ k - Len(u) \in 1 .. Len(v)
      BY <1>1, <1>3, <2>1, <2>4, <3>1
    <3> QED
      BY <3>2 DEF Increasing
  <2> QED
    BY <2>2, <2>3, <2>4
<1> QED
  BY <1>3 DEF Increasing, e

UnionOf(s) == UNION {Bytes(f) : f \in ToSet(s)}

(* One fragment more. *)
LEMMA OneMore ==
  ASSUME MonitorAssumption, ReassemblerAssumption, NEW i \in PktIdx, NEW f \in Taken(i),
         NEW s \in Seq(Taken(i))
  PROVE  LET t == Append(s, f) IN
         /\ t \in Seq(Taken(i)) /\ Len(t) = Len(s) + 1
         /\ UnionOf(t) = UnionOf(s) \cup Bytes(f)
         /\ Disjoint(t) => Disjoint(s) /\ UnionOf(s) \cap Bytes(f) = {}
         /\ DataOf(Elements(s)) \in Seq(Byte)
         /\ Len(DataOf(Elements(t))) = Len(DataOf(Elements(s))) + f.len
         /\ \A P : (\E k \in 1 .. Len(t) : t[k] \in P) <=> f \in P \/ \E k \in 1 .. Len(s) : s[k] \in P
<1> DEFINE t == Append(s, f)
<1>1. /\ t \in Seq(Taken(i)) /\ Len(t) = Len(s) + 1 /\ Len(s) \in Nat /\ t[Len(s) + 1] = f
      /\ \A k \in 1 .. Len(s) : t[k] = s[k]
      /\ DOMAIN t = 1 .. Len(s) + 1 /\ DOMAIN s = 1 .. Len(s)
  OBVIOUS
<1> HIDE DEF t
<1>2. \A k \in 1 .. Len(s) + 1 : k \in 1 .. Len(s) \/ k = Len(s) + 1
  BY <1>1
<1>3. \A k \in 1 .. Len(s) : k \in 1 .. Len(s) + 1 /\ k # Len(s) + 1
  BY <1>1
<1>4. Len(s) + 1 \in 1 .. Len(s) + 1
  BY <1>1
<1>5. ToSet(t) = ToSet(s) \cup {f}
  BY <1>1, <1>2, <1>3, <1>4 DEF ToSet
<1>6. UnionOf(t) = UnionOf(s) \cup Bytes(f)
  BY <1>5 DEF UnionOf
<1>7. ASSUME Disjoint(t) PROVE Disjoint(s) /\ UnionOf(s) \cap Bytes(f) = {}
  <2>1. \A j, k \in 1 .. Len(s) + 1 : j # k => Bytes(t[j]) \cap Bytes(t[k]) = {}
    BY <1>1, <1>7 DEF Disjoint
  <2>2. \A j, k \in 1 .. Len(s) : j # k => Bytes(s[j]) \cap Bytes(s[k]) = {}
    BY <1>1, <1>3, <2>1
  <2>3. \A k \in 1 .. Len(s) : Bytes(s[k]) \cap Bytes(f) = {}
    BY <1>1, <1>3, <1>4, <2>1
  <2>4. UnionOf(s) \cap Bytes(f) = {}
    BY <1>1, <2>3 DEF UnionOf, ToSet
  <2> QED
    BY <1>1, <2>2, <2>4 DEF Disjoint
<1>8. Elements(s) \in Seq(Elem) /\ Elements(t) = Append(Elements(s), Element(f))
  <2>1. \A k \in 1 .. Len(s) : s[k] \in Taken(i)
    OBVIOUS
  <2>2. \A k \in 1 .. Len(s) : Element(s[k]) \in Elem
    BY <2>1, ElementIs
  <2>3. Elements(s) = [k \in 1 .. Len(s) |-> Element(s[k])]
    BY <1>1 DEF Elements
  <2>4. Elements(s) \in Seq(Elem) /\ Len(Elements(s)) = Len(s)
    BY <1>1, <2>2, <2>3
  <2>5. Elements(t) = [k \in 1 .. Len(s) + 1 |-> Element(t[k])]
    BY <1>1 DEF Elements
  <2>6. Element(f) \in Elem
    BY ElementIs
  <2>7. /\ Append(Elements(s), Element(f)) \in Seq(Elem)
        /\ Len(Append(Elements(s), Element(f))) = Len(s) + 1
        /\ \A k \in 1 .. Len(s) : Append(Elements(s), Element(f))[k] = Elements(s)[k]
        /\ Append(Elements(s), Element(f))[Len(s) + 1] = Element(f)
    BY <2>4, <2>6, AppendProperties
  <2>8. ASSUME NEW k \in 1 .. Len(s) + 1
        PROVE  Elements(t)[k] = Append(Elements(s), Element(f))[k] /\ Elements(t)[k] \in Elem
    <3>1. CASE k \in 1 .. Len(s)
      <4>1. Elements(t)[k] = Element(s[k]) /\ Elements(s)[k] = Element(s[k])
        BY <1>1, <2>3, <2>5, <3>1
      <4> QED
        BY <2>2, <2>7, <3>1, <4>1
    <3>2. CASE k = Len(s) + 1
      <4>1. Elements(t)[k] = Element(f)
        BY <1>1, <2>5, <3>2
      <4> QED
        BY <2>6, <2>7, <3>2, <4>1
    <3> QED
      BY <1>2, <3>1, <3>2
  <2>9. Elements(t) \in Seq(Elem) /\ Len(Elements(t)) = Len(s) + 1
    <3> DEFINE et == Elements(t)
    <3>1. et = [k \in 1 .. Len(s) + 1 |-> Element(t[k])] /\ DOMAIN et = 1 .. Len(s) + 1
      BY <2>5
    <3>2. \A k \in 1 .. Len(s) + 1 : et[k] \in Elem
      BY <2>8
    <3>3. et = [k \in 1 .. Len(s) + 1 |-> et[k]]
      BY <3>1
    <3> HIDE DEF et
    <3>4. et \in [1 .. Len(s) + 1 -> Elem] /\ Len(s) + 1 \in Nat
      BY <1>1, <3>2, <3>3
    <3> QED
      BY <3>4 DEF et
  <2> QED
    BY <2>4, <2>7, <2>8, <2>9, SeqEqual
<1>9. /\ DataOf(Elements(s)) \in Seq(Byte)
      /\ Len(DataOf(Elements(t))) = Len(DataOf(Elements(s))) + f.len
  <2>1. DataOf(Elements(t)) = DataOf(Elements(s)) \o BytesOf(f.off, f.len) /\ DataOf(Elements(s)) \in Seq(Byte)
    BY <1>8, ElementIs, DataAppend
  <2>2. BytesOf(f.off, f.len) \in Seq(Byte) /\ Len(BytesOf(f.off, f.len)) = f.len
    BY ElementIs
  <2> QED
    BY <2>1, <2>2, ConcatHolds
<1>10. \A P : (\E k \in 1 .. Len(t) : t[k] \in P) <=> f \in P \/ \E k \in 1 .. Len(s) : s[k] \in P
  BY <1>1, <1>2, <1>3, <1>4
<1> QED
  BY <1>1, <1>6, <1>7, <1>9, <1>10 DEF t

(* After the second, each fragment is behind all before it. *)
LEMMA BehindAll ==
  ASSUME MonitorAssumption, ReassemblerAssumption, NEW i \in PktIdx, NEW f \in Taken(i),
         NEW s \in Seq(Taken(i)), NearlyInOrder(Append(s, f))
  PROVE  /\ NearlyInOrder(s)
         /\ Len(s) >= 2 /\ Disjoint(Append(s, f)) => \A b \in UnionOf(s) : b < f.off
<1> DEFINE t == Append(s, f)
           L == Len(s)
<1>1. /\ t \in Seq(Taken(i)) /\ Len(t) = L + 1 /\ L \in Nat /\ t[L + 1] = f
      /\ \A k \in 1 .. L : t[k] = s[k] /\ s[k] \in Taken(i)
      /\ DOMAIN t = 1 .. L + 1 /\ DOMAIN s = 1 .. L
  OBVIOUS
<1>2. /\ \A k \in 2 .. Len(t) - 1 : t[k].off < t[k + 1].off
      /\ Len(t) > 2 => t[1].off < t[3].off
  BY DEF NearlyInOrder, Ascending
<1> HIDE DEF t, L
<1>3. \A k \in 2 .. L : t[k].off < t[k + 1].off
  BY <1>1, <1>2
<1>4. NearlyInOrder(s)
  <2>1. ASSUME NEW k \in 2 .. L - 1 PROVE s[k].off < s[k + 1].off
    <3>1. k \in 1 .. L /\ k + 1 \in 1 .. L /\ k \in 2 .. L
      BY <1>1
    <3> QED
      BY <1>1, <1>3, <3>1
  <2>2. L > 2 => s[1].off < s[3].off
    BY <1>1, <1>2
  <2> QED
    BY <2>1, <2>2 DEF NearlyInOrder, Ascending, L
<1>5. ASSUME L >= 2, Disjoint(t), NEW b \in UnionOf(s) PROVE b < f.off
  <2>1. \A k \in 1 .. L + 1 : t[k].off \in Nat /\ t[k].len \in Nat /\ t[k].len > 0
    BY <1>1, FragIs DEF L
  <2> DEFINE U == {n \in 0 .. L - 2 : t[L - n].off < f.off}
  <2>2. 0 \in U
    <3>1. L \in 2 .. L /\ L - 0 = L /\ 0 \in 0 .. L - 2
      BY <1>1, <1>5
    <3> QED
      BY <1>1, <1>3, <3>1
  <2>3. ASSUME NEW n \in 0 .. L - 2, n < L - 2, n \in U PROVE n + 1 \in U
    <3> DEFINE k == L - (n + 1)
    <3>1. k \in 2 .. L /\ k + 1 = L - n /\ n + 1 \in 0 .. L - 2 /\ k \in 1 .. L + 1 /\ k + 1 \in 1 .. L + 1
      BY <1>1, <2>3
    <3>2. t[k].off < t[k + 1].off /\ t[k + 1].off < f.off
      BY <1>3, <2>3, <3>1
    <3>3. t[k].off \in Nat /\ t[k + 1].off \in Nat /\ f.off \in Nat
      BY <2>1, <3>1, FragIs
    <3>4. t[k].off < f.off
      <4> HIDE DEF k
      <4> QED
        BY <3>2, <3>3
    <3> QED
      BY <3>1, <3>4
  <2>4. \A n \in 0 .. L - 2 : n \in U
    <3>1. L - 2 \in Nat
      BY <1>1, <1>5
    <3> HIDE DEF U
    <3> QED
      BY <2>2, <2>3, <3>1, NatIndUpTo
  <2>5. ASSUME NEW k \in 2 .. L PROVE t[k].off < f.off
    <3>1. L - k \in 0 .. L - 2 /\ L - (L - k) = k
      BY <1>1
    <3> QED
      BY <2>4, <3>1
  <2>6. t[1].off < f.off
    <3>1. t[1].off < t[3].off
      BY <1>1, <1>2, <1>5
    <3>2. t[3].off <= f.off
      <4>1. CASE L = 2
        BY <1>1, <4>1, FragIs
      <4>2. CASE L # 2
        <5>1. 3 \in 2 .. L /\ 3 \in 1 .. L + 1
          BY <1>1, <1>5, <4>2
        <5>2. t[3].off < f.off /\ t[3].off \in Nat
          BY <2>1, <2>5, <5>1
        <5> QED
          BY <5>2, FragIs
      <4> QED
        BY <4>1, <4>2
    <3>3. t[1].off \in Nat /\ t[3].off \in Nat /\ f.off \in Nat
      BY <1>1, <1>5, <2>1, FragIs
    <3> QED
      BY <3>1, <3>2, <3>3
  <2>7. PICK k \in 1 .. L : b \in Bytes(s[k])
    BY <1>1, <1>5 DEF UnionOf, ToSet
  <2>8. t[k] = s[k] /\ t[k].off < f.off /\ k \in 1 .. L + 1 /\ k # L + 1 /\ L + 1 \in 1 .. L + 1
    <3>1. k = 1 \/ k \in 2 .. L
      BY <1>1
    <3>2. t[k].off < f.off
      BY <2>5, <2>6, <3>1
    <3>3. k \in 1 .. L + 1 /\ k # L + 1 /\ L + 1 \in 1 .. L + 1
      BY <1>1
    <3> QED
      BY <1>1, <3>2, <3>3
  <2>9. Bytes(t[k]) \cap Bytes(f) = {}
    BY <1>1, <1>5, <2>8 DEF Disjoint
  <2>10. s[k] \in Taken(i)
    BY <1>1
  <2> DEFINE g == s[k]
  <2>11. /\ Bytes(g) = g.off .. g.off + g.len - 1 /\ Bytes(f) = f.off .. f.off + f.len - 1
         /\ g.off \in Nat /\ g.len \in Nat /\ f.off \in Nat /\ f.len \in Nat /\ f.len > 0 /\ g.off < f.off
    <3>1. /\ Bytes(g) = g.off .. g.off + g.len - 1 /\ g.off \in Nat /\ g.len \in Nat
      BY <2>10, ElementIs, FragIs
    <3>2. Bytes(f) = f.off .. f.off + f.len - 1 /\ f.off \in Nat /\ f.len \in Nat /\ f.len > 0
      BY ElementIs, FragIs
    <3> QED
      BY <2>8, <3>1, <3>2
  <2> HIDE DEF g
  <2>12. ~ (f.off \in Bytes(g) /\ f.off \in Bytes(f)) /\ b \in Bytes(g)
    BY <2>7, <2>8, <2>9 DEF g
  <2> QED
    BY <2>11, <2>12
<1> QED
  BY <1>4, <1>5 DEF t, L

-----------------------------------------------------------------------------
(* What holds of a reassembler of packet i. *)

FlagsTell(r) ==
  /\ "first" \in r.flag <=> \E k \in 1 .. Len(r.seen) : r.seen[k].off = 0
  /\ "last" \in r.flag =>
       \E k \in 1 .. Len(r.seen) :
         LET f == r.seen[k] IN f.off # 0 /\ ~ f.mf /\ r.end = f.off + f.len

(* The bytes are among those that arrived, and counted. *)
DataCounted(r) ==
  /\ ToSet(DataOf(r.frags)) \subseteq UnionOf(r.seen)
  /\ \E c \in Nat : /\ Len(DataOf(r.frags)) <= c /\ c <= Len(DataOf(Elements(r.seen)))
                    /\ c < Word => r.meat = c

(* What holds when fragments do not overlap. *)
DataApart(r) ==
  Disjoint(r.seen) =>
    /\ IsInjective(DataOf(r.frags)) /\ ToSet(DataOf(r.frags)) = UnionOf(r.seen)
    /\ r.meat = Len(DataOf(r.frags))
    /\ NearlyInOrder(r.seen) => Increasing(DataOf(r.frags))

Listed(i, r) ==
  /\ r.frags \in Seq(Pieces(i)) /\ r.seen \in Seq(Taken(i))
  /\ r.frags = <<>> <=> r.seen = <<>>
  /\ r.frags = <<>> => r.meat = 0
  /\ Len(r.seen) = 1 => r.frags = <<Element(r.seen[1])>>

Sound(i, r) ==
  r \in Reassembler /\ Listed(i, r) /\ FlagsTell(r) /\ DataCounted(r) /\ DataApart(r)

(* Bytes that are all different are no more than there are. *)
LEMMA BytesFew ==
  ASSUME NEW d \in Seq(Byte), IsInjective(d), NEW m \in Nat, ToSet(d) \subseteq 0 .. m - 1
  PROVE  Len(d) <= m /\ (Len(d) = m => ToSet(d) = 0 .. m - 1) /\ (ToSet(d) = 0 .. m - 1 => Len(d) = m)
<1> DEFINE S == 1 .. Len(d)
           T == 0 .. m - 1
<1>1. Len(d) \in Nat /\ DOMAIN d = S /\ d \in [S -> T]
  <2>1. Len(d) \in Nat /\ DOMAIN d = S /\ d = [k \in S |-> d[k]]
    OBVIOUS
  <2>2. \A k \in S : d[k] \in T
    BY <2>1 DEF ToSet
  <2> HIDE DEF S, T
  <2> QED
    BY <2>1, <2>2
<1>2. IsFiniteSet(S) /\ Cardinality(S) = Len(d) /\ IsFiniteSet(T) /\ Cardinality(T) = m
  <2>1. 1 \in Int /\ Len(d) \in Int /\ 0 \in Int /\ m - 1 \in Int
    BY <1>1
  <2>2. /\ IsFiniteSet(S) /\ Cardinality(S) = IF 1 > Len(d) THEN 0 ELSE Len(d) - 1 + 1
        /\ IsFiniteSet(T) /\ Cardinality(T) = IF 0 > m - 1 THEN 0 ELSE m - 1 - 0 + 1
    BY <2>1, FS_Interval
  <2> HIDE DEF S, T
  <2> QED
    BY <1>1, <2>2
<1> HIDE DEF S, T
<1>3. d \in Injection(S, T)
  BY <1>1 DEF Injection, IsInjective
<1>4. Cardinality(S) <= Cardinality(T) /\ (Cardinality(S) = Cardinality(T) <=> d \in Surjection(S, T))
  BY <1>2, <1>3, FS_Injection
<1>5. d \in Surjection(S, T) <=> T \subseteq ToSet(d)
  BY <1>1 DEF Surjection, ToSet
<1> QED
  BY <1>2, <1>4, <1>5 DEF T

LEMMA NotedIs ==
  ASSUME MonitorAssumption, ReassemblerAssumption, NEW i \in PktIdx, NEW f \in Taken(i),
         NEW r, Sound(i, r), ~ Refused(r, f)
  PROVE  LET n == Noted(r, f) IN
         /\ n \in Reassembler /\ n.frags = r.frags /\ n.meat = r.meat /\ n.seen = Append(r.seen, f)
         /\ FlagsTell(n)
<1> DEFINE n == Noted(r, f)
           s == r.seen
           t == Append(s, f)
           L == Len(s)
<1>1. r \in Reassembler /\ s \in Seq(Taken(i)) /\ FlagsTell(r)
  BY DEF Sound, Listed
<1>2. r = [meat |-> r.meat, end |-> r.end, flag |-> r.flag, frags |-> r.frags, seen |-> s]
  BY <1>1 DEF Reassembler
<1>3. /\ t \in Seq(Taken(i)) /\ Len(t) = L + 1 /\ L \in Nat /\ t[L + 1] = f
      /\ \A k \in 1 .. L : t[k] = s[k] /\ k \in 1 .. L + 1
      /\ \A k \in 1 .. L + 1 : k \in 1 .. L \/ k = L + 1
      /\ L + 1 \in 1 .. L + 1
  BY <1>1
<1>4. f.off \in Nat /\ f.len \in Nat /\ f.off + f.len \in 0 .. MaxPktLen /\ f \in Fragment
  BY FragIs
<1>5. t \in Seq(Fragment)
  <2>1. Taken(i) \subseteq Fragment
    BY FragIs
  <2> QED
    BY <1>3, <2>1, SeqMonotonic
<1> HIDE DEF t, L
<1>6. CASE f.off = 0
  <2>1. n = [r EXCEPT !.seen = t, !.flag = r.flag \cup {"first"}]
    BY <1>2, <1>6 DEF Noted, t
  <2> HIDE DEF n
  <2>2. n = [meat |-> r.meat, end |-> r.end, flag |-> r.flag \cup {"first"}, frags |-> r.frags, seen |-> t]
    BY <1>2, <2>1
  <2>3. n \in Reassembler
    BY <1>1, <1>5, <2>2 DEF Reassembler
  <2>4. FlagsTell(n)
    <3>1. \E k \in 1 .. Len(n.seen) : n.seen[k].off = 0
      BY <1>3, <1>6, <2>2
    <3>2. "last" \in n.flag => \E k \in 1 .. Len(n.seen) :
             n.seen[k].off # 0 /\ ~ n.seen[k].mf /\ n.end = n.seen[k].off + n.seen[k].len
      <4>1. "last" \in n.flag => "last" \in r.flag
        BY <2>2
      <4> HAVE "last" \in n.flag
      <4>2. PICK k \in 1 .. L : s[k].off # 0 /\ ~ s[k].mf /\ r.end = s[k].off + s[k].len
        BY <1>1, <4>1 DEF FlagsTell, L
      <4>3. n.seen[k] = s[k] /\ k \in 1 .. Len(n.seen) /\ n.end = r.end
        BY <1>3, <2>2
      <4> QED
        BY <4>2, <4>3
    <3>3. "first" \in n.flag
      BY <2>2
    <3> QED
      BY <3>1, <3>2, <3>3 DEF FlagsTell
  <2> QED
    BY <2>2, <2>3, <2>4 DEF n, t
<1>7. CASE f.off # 0 /\ ~ f.mf
  <2>1. n = [r EXCEPT !.seen = t, !.flag = r.flag \cup {"last"}, !.end = f.off + f.len]
    BY <1>2, <1>7 DEF Noted, t
  <2> HIDE DEF n
  <2>2. n = [meat |-> r.meat, end |-> f.off + f.len, flag |-> r.flag \cup {"last"}, frags |-> r.frags, seen |-> t]
    BY <1>2, <2>1
  <2>3. n \in Reassembler
    BY <1>1, <1>4, <1>5, <2>2 DEF Reassembler
  <2>4. FlagsTell(n)
    <3>1. "first" \in n.flag <=> \E k \in 1 .. Len(n.seen) : n.seen[k].off = 0
      <4>1. "first" \in n.flag <=> "first" \in r.flag
        BY <2>2
      <4>2. (\E k \in 1 .. L + 1 : t[k].off = 0) <=> \E k \in 1 .. L : s[k].off = 0
        BY <1>3, <1>7
      <4> QED
        BY <1>1, <1>3, <2>2, <4>1, <4>2 DEF FlagsTell, L
    <3>2. n.seen[L + 1].off # 0 /\ ~ n.seen[L + 1].mf /\ n.end = n.seen[L + 1].off + n.seen[L + 1].len
      BY <1>3, <1>7, <2>2
    <3>3. L + 1 \in 1 .. Len(n.seen)
      BY <1>3, <2>2
    <3> QED
      BY <3>1, <3>2, <3>3 DEF FlagsTell
  <2> QED
    BY <2>2, <2>3, <2>4 DEF n, t
<1>8. CASE f.off # 0 /\ f.mf
  <2>1. n = [r EXCEPT !.seen = t]
    BY <1>2, <1>8 DEF Noted, t
  <2> HIDE DEF n
  <2>2. n = [meat |-> r.meat, end |-> r.end, flag |-> r.flag, frags |-> r.frags, seen |-> t]
    BY <1>2, <2>1
  <2>3. n \in Reassembler
    BY <1>1, <1>5, <2>2 DEF Reassembler
  <2>4. FlagsTell(n)
    <3>1. "first" \in n.flag <=> \E k \in 1 .. Len(n.seen) : n.seen[k].off = 0
      <4>2. (\E k \in 1 .. L + 1 : t[k].off = 0) <=> \E k \in 1 .. L : s[k].off = 0
        BY <1>3, <1>8
      <4> QED
        BY <1>1, <1>3, <2>2, <4>2 DEF FlagsTell, L
    <3>2. "last" \in n.flag => \E k \in 1 .. Len(n.seen) :
             n.seen[k].off # 0 /\ ~ n.seen[k].mf /\ n.end = n.seen[k].off + n.seen[k].len
      BY <1>1, <1>3, <2>2 DEF FlagsTell, L
    <3> QED
      BY <3>1, <3>2 DEF FlagsTell
  <2> QED
    BY <2>2, <2>3, <2>4 DEF n, t
<1> QED
  BY <1>6, <1>7, <1>8

(* What meat_ makes of a count. *)
LEMMA InWordIs ==
  ASSUME ReassemblerAssumption
  PROVE  (\A x \in Nat : x < Word => x % Word = x) /\ (\A x \in Nat : x % Word \in 0 .. Word - 1)
<1>1. Word \in Nat /\ Word > 0
  BY DEF ReassemblerAssumption
<1>2. ASSUME NEW w \in Nat, w > 0, NEW x \in Nat
      PROVE  (x < w => x % w = x) /\ x % w \in 0 .. w - 1
  BY <1>2
<1> QED
  BY <1>1, <1>2

(* What holds of the data holds when a fragment was put into it. *)
LEMMA InsertsSound ==
  ASSUME MonitorAssumption, ReassemblerAssumption, NEW i \in PktIdx, NEW f \in Taken(i),
         NEW r, Sound(i, r), NEW n \in Reassembler,
         n.frags = r.frags, n.meat = r.meat, n.seen = Append(r.seen, f), FlagsTell(n),
         NEW t, Inserts(i, n, f, t), Len(t.seen) = 1 => t.frags = <<Element(f)>>
  PROVE  Sound(i, t)
<1> DEFINE d  == DataOf(r.frags)
           d2 == DataOf(t.frags)
           b  == BytesOf(f.off, f.len)
           l  == r.frags
<1>mod. /\ \A x \in Nat : x < Word => x % Word = x
      /\ \A x \in Nat : x % Word \in 0 .. Word - 1
  BY InWordIs
<1>0. MaxPktLen \in Nat /\ Word \in Nat /\ MaxPktLen < Word /\ f.len \in Nat /\ f.len > 0 /\ f.off \in Nat
  BY FragIs
<1>1. /\ r \in Reassembler /\ l \in Seq(Pieces(i)) /\ r.seen \in Seq(Taken(i))
      /\ DataCounted(r) /\ DataApart(r) /\ r.meat \in 0 .. Word - 1
      /\ Len(r.seen) = 1 => l = <<Element(r.seen[1])>>
  BY DEF Sound, Listed, Reassembler
<1>2. \A x : x \in Pieces(i) => x \in Elem
  BY DEF Pieces
<1>3. \A q \in Seq(Pieces(i)) : q \in Seq(Elem)
  BY <1>2, SeqMonotonic
<1>4. /\ t.frags \in Seq(Pieces(i)) /\ t.frags # <<>>
      /\ t.end = n.end /\ t.flag = n.flag /\ t.seen = Append(r.seen, f)
      /\ t = [meat |-> t.meat, end |-> t.end, flag |-> t.flag, frags |-> t.frags, seen |-> t.seen]
      /\ \/ t.meat = (r.meat + f.len) % Word /\ \E d1 : PutInto(d, d1, f, d2)
         \/ t.meat = r.meat /\ Len(d2) <= Len(d) /\ ToSet(d2) \subseteq ToSet(d)
      /\ (\A k \in 1 .. Len(l) : Clear(l[k], f)) =>
           t.meat = (r.meat + f.len) % Word /\ PutInto(d, d, f, d2)
      /\ (\A k \in 1 .. Len(l) : End(l[k]) <= f.off) => d2 = d \o b
      /\ Len(l) = 1 /\ f.off + f.len <= l[1].off => d2 = b \o d
  BY DEF Inserts
<1>5. /\ d \in Seq(Byte) /\ d2 \in Seq(Byte) /\ Len(d) \in Nat /\ Len(d2) \in Nat
  <2>1. d \in Seq(Byte) /\ d2 \in Seq(Byte)
    BY <1>1, <1>3, <1>4, DataTyped
  <2> QED
    BY <2>1, LenProperties
<1>6. b \in Seq(Byte) /\ Len(b) = f.len /\ ToSet(b) = Bytes(f) /\ IsInjective(b) /\ Increasing(b)
      /\ Bytes(f) = f.off .. f.off + f.len - 1
  BY ElementIs
<1> DEFINE s  == r.seen
           s2 == Append(s, f)
<1>7. /\ s2 \in Seq(Taken(i)) /\ Len(s2) = Len(s) + 1 /\ Len(s) \in Nat
      /\ UnionOf(s2) = UnionOf(s) \cup Bytes(f)
      /\ Disjoint(s2) => Disjoint(s) /\ UnionOf(s) \cap Bytes(f) = {}
      /\ DataOf(Elements(s)) \in Seq(Byte)
      /\ Len(DataOf(Elements(s2))) = Len(DataOf(Elements(s))) + f.len
  BY <1>1, OneMore, LenProperties
<1>8. Len(DataOf(Elements(s))) \in Nat
  BY <1>7, LenProperties
<1> HIDE DEF d, d2, b, l, s, s2
<1>9. ASSUME NEW d1, PutInto(d, d1, f, d2)
      PROVE  /\ Len(d2) = Len(d1) + f.len /\ Len(d1) <= Len(d) /\ Len(d1) \in Nat
             /\ ToSet(d2) = ToSet(d1) \cup Bytes(f) /\ ToSet(d1) \subseteq ToSet(d)
             /\ IsInjective(d1) /\ ToSet(d1) \cap Bytes(f) = {} => IsInjective(d2)
  <2>1. PICK u, v : Parted(d1, u, v) /\ d2 = (u \o b) \o v
    BY <1>9 DEF PutInto, b
  <2>2. u \in Seq(Byte) /\ v \in Seq(Byte) /\ d1 = u \o v
    BY <2>1 DEF Parted
  <2> QED
    <3>1. /\ Len(d2) = Len(d1) + Len(b) /\ ToSet(d2) = ToSet(d1) \cup ToSet(b)
          /\ IsInjective(d1) /\ IsInjective(b) /\ ToSet(d1) \cap ToSet(b) = {} => IsInjective(d2)
      <4> DEFINE e == (u \o b) \o v
      <4>1. Parted(d1, u, v) /\ b \in Seq(Byte)
        BY <1>6, <2>1
      <4>2. /\ Len(e) = Len(d1) + Len(b) /\ ToSet(e) = ToSet(d1) \cup ToSet(b)
            /\ IsInjective(d1) /\ IsInjective(b) /\ ToSet(d1) \cap ToSet(b) = {} => IsInjective(e)
        BY <4>1, InsertedHolds
      <4>3. d2 = e
        BY <2>1
      <4> HIDE DEF e
      <4> QED
        BY <4>2, <4>3
    <3>2. d1 \in Seq(Byte) /\ Len(d1) \in Nat
      BY <2>2, ConcatHolds, LenProperties
    <3> QED
      BY <1>6, <1>9, <3>1, <3>2 DEF PutInto
<1>10. t \in Reassembler
  <2>1. t.meat \in 0 .. Word - 1
    <3>1. r.meat + f.len \in Nat
      BY <1>0, <1>1
    <3> QED
      BY <1>1, <1>4, <1>mod, <3>1
  <2>2. s2 \in Seq(Fragment)
    <3>1. Taken(i) \subseteq Fragment
      BY FragIs
    <3> QED
      BY <1>7, <3>1, SeqMonotonic
  <2>3. t.frags \in Seq(Elem)
    BY <1>3, <1>4
  <2>4. n.end \in 0 .. MaxPktLen /\ n.flag \in SUBSET {"first", "last"}
    BY DEF Reassembler
  <2> QED
    BY <1>4, <2>1, <2>2, <2>3, <2>4 DEF Reassembler, Elem, Byte, s, s2
<1>11. Listed(i, t)
  <2>1. t.seen = s2 /\ s2 # <<>>
    <3>1. t.seen = s2
      BY <1>4 DEF s, s2
    <3>2. Len(s2) # 0
      BY <1>7
    <3> QED
      BY <3>1, <3>2
  <2>2. Len(s2) = 1 => s2[1] = f
    BY <1>1, <1>7 DEF s, s2
  <2> QED
    BY <1>4, <1>7, <2>1, <2>2 DEF Listed
<1>12. FlagsTell(t)
  BY <1>4 DEF FlagsTell
<1>13. DataCounted(t)
  <2>1. ToSet(d) \subseteq UnionOf(s)
    BY <1>1 DEF DataCounted, d, l, s
  <2>2. ToSet(d2) \subseteq UnionOf(s2)
    BY <1>4, <1>7, <1>9, <2>1 DEF d, d2, l
  <2>3. PICK c \in Nat : Len(d) <= c /\ c <= Len(DataOf(Elements(s))) /\ (c < Word => r.meat = c)
    BY <1>1 DEF DataCounted, d, l, s
  <2>4. \E e \in Nat : Len(d2) <= e /\ e <= Len(DataOf(Elements(s2))) /\ (e < Word => t.meat = e)
    <3>1. ASSUME NEW d1, PutInto(d, d1, f, d2), t.meat = (r.meat + f.len) % Word
          PROVE  \E e \in Nat : Len(d2) <= e /\ e <= Len(DataOf(Elements(s2))) /\ (e < Word => t.meat = e)
      <4>1. Len(d2) <= c + f.len /\ c + f.len <= Len(DataOf(Elements(s2))) /\ c + f.len \in Nat
        <5>1. f.len \in Nat
          BY FragIs
        <5>2. Len(d2) = Len(d1) + f.len /\ Len(d1) <= Len(d) /\ Len(d1) \in Nat
          BY <1>9, <3>1
        <5>3. /\ Len(d) \in Nat /\ c \in Nat /\ Len(d) <= c /\ Len(DataOf(Elements(s))) \in Nat
              /\ c <= Len(DataOf(Elements(s)))
              /\ Len(DataOf(Elements(s2))) = Len(DataOf(Elements(s))) + f.len
          BY <1>5, <1>7, <1>8, <2>3
        <5>4. Len(d2) <= c + f.len
          BY <5>1, <5>2, <5>3
        <5>5. c + f.len <= Len(DataOf(Elements(s2)))
          BY <5>1, <5>3
        <5> QED
          BY <5>1, <5>3, <5>4, <5>5
      <4>2. c + f.len < Word => t.meat = c + f.len
        <5> HAVE c + f.len < Word
        <5>1. r.meat = c
          <6>1. c < Word
            BY <1>0
          <6> QED
            BY <2>3, <6>1
        <5>2. (c + f.len) % Word = c + f.len
          BY <1>mod, <4>1
        <5> QED
          BY <3>1, <5>1, <5>2
      <4> QED
        BY <4>1, <4>2
    <3>2. CASE t.meat = r.meat /\ Len(d2) <= Len(d)
      <4>1. Len(d2) <= c /\ c <= Len(DataOf(Elements(s2)))
        BY <1>0, <1>5, <1>7, <1>8, <2>3, <3>2
      <4> QED
        BY <2>3, <3>2, <4>1
    <3> QED
      BY <1>4, <3>1, <3>2 DEF d, d2, l
  <2> QED
    BY <1>4, <2>2, <2>4 DEF DataCounted, d2, s, s2
<1>14. DataApart(t)
  <2>0. SUFFICES ASSUME Disjoint(s2)
               PROVE  /\ IsInjective(d2) /\ ToSet(d2) = UnionOf(s2) /\ t.meat = Len(d2)
                      /\ NearlyInOrder(s2) => Increasing(d2)
    BY <1>4 DEF DataApart, d2, s, s2
  <2>1. /\ IsInjective(d) /\ ToSet(d) = UnionOf(s) /\ r.meat = Len(d)
        /\ NearlyInOrder(s) => Increasing(d)
        /\ UnionOf(s) \cap Bytes(f) = {}
    BY <1>1, <1>7, <2>0 DEF DataApart, d, l, s
  <2>2. ASSUME NEW k \in 1 .. Len(l)
        PROVE  /\ l[k].off .. End(l[k]) - 1 \subseteq UnionOf(s)
               /\ l[k].off \in Nat /\ End(l[k]) \in Nat /\ l[k].off < End(l[k]) /\ l[k] \in Pieces(i)
    <3>1. l[k] \in Pieces(i) /\ l \in Seq(Elem)
      BY <1>1, <1>3 DEF l
    <3>2. /\ ToSet(l[k].data) = l[k].off .. End(l[k]) - 1 /\ l[k].off \in Nat /\ End(l[k]) \in Nat
          /\ End(l[k]) = l[k].off + Len(l[k].data) /\ Len(l[k].data) > 0 /\ Len(l[k].data) \in Nat
      BY <3>1, PieceIs
    <3>3. ToSet(l[k].data) \subseteq ToSet(d)
      BY <3>1, PieceInData DEF d, l
    <3>4. l[k].off < End(l[k])
      BY <3>2
    <3> QED
      BY <2>1, <3>1, <3>2, <3>3, <3>4
  <2>3. \A k \in 1 .. Len(l) : Clear(l[k], f)
    <3>1. ASSUME NEW k \in 1 .. Len(l), ~ Clear(l[k], f) PROVE FALSE
      <4> DEFINE o == l[k].off
                 e == End(l[k])
                 m == IF o < f.off THEN f.off ELSE o
      <4>1. o \in Nat /\ e \in Nat /\ o < e /\ f.off < e /\ o < f.off + f.len
        BY <1>0, <2>2, <3>1 DEF Clear
      <4>2. o .. e - 1 \subseteq UnionOf(s)
        BY <2>2
      <4> HIDE DEF o, e
      <4>3. m \in o .. e - 1 /\ m \in Bytes(f)
        BY <1>0, <1>6, <4>1
      <4> HIDE DEF m
      <4> QED
        BY <2>1, <4>2, <4>3
    <3> QED
      BY <3>1
  <2>4. t.meat = (r.meat + f.len) % Word /\ PutInto(d, d, f, d2)
    BY <1>4, <2>3 DEF d, d2, l
  <2>5. Len(d2) = Len(d) + f.len /\ ToSet(d2) = UnionOf(s2) /\ IsInjective(d2)
    BY <1>7, <1>9, <2>1, <2>4
  <2>6. t.meat = Len(d2)
    <3>1. UnionOf(s2) \subseteq 0 .. MaxPktLen - 1
      <4>1. ASSUME NEW g \in Taken(i) PROVE Bytes(g) \subseteq 0 .. MaxPktLen - 1
        <5>1. /\ Bytes(g) = g.off .. g.off + g.len - 1 /\ g.off \in Nat /\ g.len \in Nat
              /\ g.off + g.len <= MaxPktLen
          BY <4>1, ElementIs, FragIs
        <5> QED
          BY <1>0, <5>1
      <4>2. \A k \in 1 .. Len(s2) : s2[k] \in Taken(i)
        BY <1>7
      <4>3. DOMAIN s2 = 1 .. Len(s2)
        BY <1>7
      <4> QED
        BY <4>1, <4>2, <4>3 DEF UnionOf, ToSet
    <3>2. Len(d2) <= MaxPktLen
      BY <1>0, <1>5, <2>5, <3>1, BytesFew
    <3>3. r.meat + f.len = Len(d2) /\ Len(d2) < Word
      BY <1>0, <1>5, <2>1, <2>5, <3>2
    <3>4. Len(d2) % Word = Len(d2)
      BY <1>5, <1>mod, <2>5, <3>3
    <3> QED
      BY <2>4, <3>3, <3>4
  <2>7. ASSUME NearlyInOrder(s2) PROVE Increasing(d2)
    <3>1. NearlyInOrder(s) /\ (Len(s) >= 2 => \A x \in UnionOf(s) : x < f.off)
      BY <1>1, <2>0, <2>7, BehindAll DEF s, s2
    <3>2. Increasing(d)
      BY <2>1, <3>1
    <3>3. CASE \A x \in UnionOf(s) : x < f.off
      <4>1. ASSUME NEW k \in 1 .. Len(l) PROVE End(l[k]) <= f.off
        <5>1. End(l[k]) - 1 \in UnionOf(s) /\ End(l[k]) \in Nat
          <6> DEFINE e == End(l[k])
                     o == l[k].off
          <6>1. o .. e - 1 \subseteq UnionOf(s) /\ o \in Nat /\ e \in Nat /\ o < e
            BY <2>2
          <6> HIDE DEF o, e
          <6>2. e - 1 \in o .. e - 1
            BY <6>1
          <6> QED
            BY <6>1, <6>2 DEF e
        <5> QED
          BY <1>0, <3>3, <5>1
      <4>2. d2 = d \o b
        BY <1>4, <4>1 DEF d, d2, l, b
      <4>3. \A x \in ToSet(d) : \A y \in ToSet(b) : x < y
        <5>1. \A y \in ToSet(b) : y \in Nat /\ f.off <= y
          BY <1>0, <1>6
        <5>2. \A x \in ToSet(d) : x \in Int /\ x < f.off
          <6>1. \A k \in 1 .. Len(d) : d[k] \in Int
            BY <1>5 DEF Byte
          <6> QED
            BY <1>5, <2>1, <3>3, <6>1 DEF ToSet
        <5> QED
          BY <1>0, <5>1, <5>2
      <4> QED
        BY <1>5, <1>6, <3>2, <4>2, <4>3, IncreasingConcat
    <3>4. CASE ~ \A x \in UnionOf(s) : x < f.off
      <4>1. Len(s) = 1
        <5>1. Len(s) # 0
          <6> SUFFICES ASSUME Len(s) = 0 PROVE FALSE
            OBVIOUS
          <6>1. s = <<>>
            BY <1>1 DEF s
          <6>2. ToSet(s) = {}
            BY <6>1 DEF ToSet
          <6> QED
            BY <3>4, <6>2 DEF UnionOf
        <5> QED
          <6>1. Len(s) \in Nat /\ ~ (Len(s) >= 2)
            BY <1>7, <3>1, <3>4
          <6>2. \A n1 \in Nat : n1 # 0 /\ ~ (n1 >= 2) => n1 = 1
            OBVIOUS
          <6> QED
            BY <5>1, <6>1, <6>2
      <4>2. l = <<Element(s[1])>> /\ s[1] \in Taken(i)
        BY <1>1, <4>1 DEF l, s
      <4>3. Len(l) = 1 /\ l[1] = Element(s[1]) /\ 1 \in 1 .. Len(l)
        BY <4>2
      <4>4. Clear(l[1], f) /\ l[1] \in Pieces(i)
        BY <2>2, <2>3, <4>3
      <4>5. UnionOf(s) = l[1].off .. End(l[1]) - 1
        <5>1. UnionOf(s) = Bytes(s[1])
          <6>1. ToSet(s) = {s[1]}
            BY <1>1, <4>1 DEF ToSet, s
          <6> QED
            BY <6>1 DEF UnionOf
        <5>2. /\ Bytes(s[1]) = s[1].off .. s[1].off + s[1].len - 1 /\ l[1].off = s[1].off
              /\ Len(l[1].data) = s[1].len
          BY <4>2, <4>3, ElementIs
        <5> QED
          <6>1. End(l[1]) = s[1].off + s[1].len
            BY <5>2 DEF End
          <6>2. s[1].off \in Nat /\ s[1].len \in Nat
            BY <4>2, FragIs
          <6>3. End(l[1]) - 1 = s[1].off + s[1].len - 1
            <7>1. \A o, z \in Nat : (o + z) - 1 = o + z - 1
              OBVIOUS
            <7> QED
              BY <6>1, <6>2, <7>1
          <6>4. UnionOf(s) = l[1].off .. s[1].off + s[1].len - 1
            BY <5>1, <5>2
          <6> QED
            BY <6>3, <6>4
      <4>6. f.off + f.len <= l[1].off
        <5>1. l[1].off \in Nat /\ End(l[1]) \in Nat
          BY <2>2, <4>3
        <5>2. ~ (End(l[1]) <= f.off)
          BY <1>0, <3>4, <4>5, <5>1
        <5> QED
          BY <4>4, <5>2 DEF Clear
      <4>7. d2 = b \o d
        BY <1>4, <4>3, <4>6 DEF d, d2, l, b
      <4>8. \A x \in ToSet(b) : \A y \in ToSet(d) : x < y
        <5>1. l[1].off \in Nat /\ End(l[1]) \in Nat
          BY <2>2, <4>3
        <5> QED
          <6>1. /\ \A x \in ToSet(b) : x \in f.off .. f.off + f.len - 1
                /\ \A y \in ToSet(d) : y \in l[1].off .. End(l[1]) - 1
            BY <1>6, <2>1, <4>5
          <6>2. f.off \in Nat /\ f.len \in Nat
            BY FragIs
          <6> QED
            BY <4>6, <5>1, <6>1, <6>2
      <4> QED
        BY <1>5, <1>6, <3>2, <4>7, <4>8, IncreasingConcat
    <3> QED
      BY <3>3, <3>4
  <2> QED
    BY <2>5, <2>6, <2>7
<1> QED
  BY <1>10, <1>11, <1>12, <1>13, <1>14 DEF Sound

(* InsertPktFrag keeps a reassembler sound, whichever way the fragment     *)
(* goes: refused, the first to come, or put among the others.              *)
LEMMA InsertSound ==
  ASSUME MonitorAssumption, ReassemblerAssumption, NEW i \in PktIdx, NEW f \in Frags[i],
         NEW r, Sound(i, r)
  PROVE  Sound(i, InsertPktFrag(r, f))
<1> DEFINE t == InsertPktFrag(r, f)
           n == Noted(r, f)
<1>1. CASE Refused(r, f)
  <2>1. t = r
    BY <1>1 DEF InsertPktFrag
  <2> QED
    BY <2>1
<1>2. CASE ~ Refused(r, f)
  <2>1. f \in Taken(i)
    <3>1. f \in Fragment
      BY DEF MonitorAssumption
    <3>2. f.off \in Nat /\ f.len \in Nat /\ MaxPktLen \in Nat
      BY <3>1 DEF Fragment, ReassemblerAssumption
    <3>3. f.len # 0 /\ ~ (f.off + f.len > MaxPktLen)
      BY <1>2 DEF Refused
    <3>4. f.len > 0 /\ f.off + f.len <= MaxPktLen
      BY <3>2, <3>3
    <3> QED
      BY <3>4 DEF Taken
  <2>2. /\ n \in Reassembler /\ n.frags = r.frags /\ n.meat = r.meat /\ n.seen = Append(r.seen, f)
        /\ FlagsTell(n)
    BY <1>2, <2>1, NotedIs
  <2>3. /\ r.frags \in Seq(Pieces(i)) /\ r.seen \in Seq(Taken(i))
        /\ r.frags = <<>> <=> r.seen = <<>>
        /\ r.frags = <<>> => r.meat = 0
    BY DEF Sound, Listed
  <2>4. CASE r.frags # <<>>
    <3>1. t = DoInsertPktFrag(n, f)
      BY <1>2, <2>4 DEF InsertPktFrag
    <3> HIDE DEF n, t
    <3>2. Inserts(i, n, f, t)
      BY <2>1, <2>2, <2>3, <2>4, <3>1, DoInsertIs
    <3>3. Len(t.seen) # 1
      <4>1. t.seen = Append(r.seen, f)
        BY <2>2, <3>2 DEF Inserts
      <4>2. r.seen \in Seq(Taken(i)) /\ r.seen # <<>>
        BY <2>3, <2>4
      <4> QED
        BY <4>1, <4>2
    <3> QED
      BY <2>1, <2>2, <3>2, <3>3, InsertsSound DEF t
  <2>5. CASE r.frags = <<>>
    <3> DEFINE e == Element(f)
               b == BytesOf(f.off, f.len)
    <3>1. t = ProcFirstInPktFrag(n, f)
      BY <1>2, <2>5 DEF InsertPktFrag
    <3> HIDE DEF n
    <3>2. t = [n EXCEPT !.meat = f.len, !.frags = <<e>>]
      BY <3>1 DEF ProcFirstInPktFrag
    <3>3. n = [meat |-> n.meat, end |-> n.end, flag |-> n.flag, frags |-> n.frags, seen |-> n.seen]
      BY <2>2 DEF Reassembler
    <3> HIDE DEF t, e
    <3>4. t = [meat |-> f.len, end |-> n.end, flag |-> n.flag, frags |-> <<e>>, seen |-> n.seen]
      BY <3>2, <3>3
    <3>5. e \in Pieces(i) /\ e \in Elem /\ e.data = b /\ b \in Seq(Byte)
      BY <2>1, ElementIs DEF e
    <3> HIDE DEF b
    <3>6. DataOf(<<>>) = <<>> /\ DataOf(<<e>>) = b
      <4>1. <<>> \in Seq(Elem) /\ Append(<<>>, e) = <<e>>
        OBVIOUS
      <4>2. DataOf(<<>>) = <<>> /\ DataOf(Append(<<>>, e)) = DataOf(<<>>) \o e.data
        BY <3>5, <4>1, DataAppend
      <4>3. <<>> \o b = b
        BY <3>5
      <4> QED
        BY <3>5, <4>1, <4>2, <4>3
    <3>7. (n.meat + f.len) % Word = f.len
      <4>1. f.len \in Nat /\ f.len < Word
        BY <2>1, FragIs
      <4>2. n.meat = 0
        BY <2>2, <2>3, <2>5
      <4>3. 0 + f.len = f.len
        BY <4>1
      <4> QED
        BY <4>1, <4>2, <4>3, InWordIs
    <3>8. /\ t.frags = <<e>> /\ t.meat = (n.meat + f.len) % Word /\ t.end = n.end /\ t.flag = n.flag
          /\ t.seen = n.seen
          /\ t = [meat |-> t.meat, end |-> t.end, flag |-> t.flag, frags |-> t.frags, seen |-> t.seen]
      BY <3>4, <3>7
    <3>9. DataOf(n.frags) = <<>> /\ DataOf(t.frags) = b
      BY <2>2, <2>5, <3>6, <3>8
    <3>10. <<e>> \in Seq(Pieces(i)) /\ <<e>> # <<>>
      BY <3>5
    <3>11. PutInto(<<>>, <<>>, f, b)
      <4>1. <<>> \in Seq(Byte) /\ <<>> \o <<>> = <<>> /\ (<<>> \o b) \o <<>> = b
        BY <3>5
      <4>2. Len(<<>>) <= Len(<<>>)
        OBVIOUS
      <4>3. Parted(<<>>, <<>>, <<>>)
        BY <4>1 DEF Parted
      <4> QED
        BY <4>1, <4>2, <4>3 DEF PutInto, b
    <3>12. <<>> \o b = b /\ Len(<<>>) # 1
      BY <3>5
    <3>13. Inserts(i, n, f, t)
      <4>1. n.frags = <<>>
        BY <2>2, <2>5
      <4> QED
        BY <3>8, <3>9, <3>10, <3>11, <3>12, <4>1 DEF Inserts, b
    <3> QED
      BY <2>1, <2>2, <3>8, <3>13, InsertsSound DEF t, e
  <2> QED
    BY <2>4, <2>5
<1> QED
  BY <1>1, <1>2

LEMMA NewSound ==
  ASSUME MonitorAssumption, ReassemblerAssumption, NEW i \in PktIdx
  PROVE  Sound(i, NewReassembler) /\ ~ IfPktCompleted(NewReassembler)
<1> DEFINE r == NewReassembler
<1>1. /\ r.meat = 0 /\ r.end = 0 /\ r.flag = {} /\ r.frags = <<>> /\ r.seen = <<>>
      /\ r = [meat |-> 0, end |-> 0, flag |-> {}, frags |-> <<>>, seen |-> <<>>]
  BY DEF NewReassembler
<1> HIDE DEF r
<1>2. 0 \in 0 .. Word - 1 /\ 0 \in 0 .. MaxPktLen
  BY DEF ReassemblerAssumption
<1>3. r \in Reassembler
  BY <1>1, <1>2 DEF Reassembler
<1>4. Listed(i, r)
  BY <1>1 DEF Listed
<1>5. FlagsTell(r)
  BY <1>1 DEF FlagsTell
<1>6. DataOf(r.frags) = <<>> /\ UnionOf(r.seen) = {} /\ ToSet(<<>>) = {}
  <2>1. DataOf(<<>>) = <<>>
    <3>1. PICK x : x = [off |-> 0, data |-> <<>>]
      OBVIOUS
    <3>2. x \in Elem /\ <<>> \in Seq(Elem)
      BY <1>2, <3>1 DEF Elem, Byte
    <3> QED
      BY <3>2, DataAppend
  <2>2. ToSet(<<>>) = {}
    BY DEF ToSet
  <2> QED
    BY <1>1, <2>1, <2>2 DEF UnionOf
<1>7. DataCounted(r)
  <2>1. <<>> \in Seq(Taken(i)) /\ Elements(<<>>) = <<>>
    BY DEF Elements
  <2>2. Len(DataOf(Elements(r.seen))) = 0
    BY <1>1, <1>6, <2>1
  <2> QED
    BY <1>1, <1>6, <2>2 DEF DataCounted
<1>8. DataApart(r)
  <2>1. IsInjective(<<>>) /\ Increasing(<<>>) /\ Len(<<>>) = 0
    <3>1. DOMAIN <<>> = {} /\ Len(<<>>) = 0 /\ 1 .. 0 = {}
      OBVIOUS
    <3> QED
      BY <3>1 DEF IsInjective, Increasing
  <2> QED
    BY <1>1, <1>6, <2>1 DEF DataApart
<1> QED
  BY <1>1, <1>3, <1>4, <1>5, <1>7, <1>8 DEF Sound, IfPktCompleted, r

-----------------------------------------------------------------------------
(* The monitor. *)

(* What the processing thread has, wherever it is. *)
PktTypes ==
  /\ pkt.pc \in {"idle", "get", "process", "passed"}
  /\ pkt = [pc |-> pkt.pc, idx |-> pkt.idx, frag |-> pkt.frag, held |-> pkt.held]
  /\ pkt.pc # "idle" => pkt.idx \in PktIdx /\ pkt.frag \in Frags[pkt.idx]
  /\ pkt.pc \in {"idle", "get"} => pkt.held = NoReassembler

TimerTypes == TimerTypeOK /\ sweep \in {"rest", "clock", "loop"}

TableTypes == table = [i \in PktIdx |-> table[i]]

(* Every reassembler is sound.  The one the thread holds is that of the    *)
(* table, unless the timer has erased it.                                  *)
AllSound ==
  /\ \A i \in Present : Sound(i, table[i])
  /\ pkt.pc \in {"process", "passed"} =>
       Sound(pkt.idx, pkt.held) /\ (pkt.idx \in Present => table[pkt.idx] = pkt.held)

(* A completed reassembler is in the hands of the thread that will remove  *)
(* it.                                                                     *)
CompletedGoes ==
  /\ pkt.pc = "process" => ~ IfPktCompleted(pkt.held)
  /\ pkt.pc = "passed" => IfPktCompleted(pkt.held)
  /\ \A i \in Present : IfPktCompleted(table[i]) => pkt.pc = "passed" /\ pkt.idx = i

IInv == PktTypes /\ TimerTypes /\ TableTypes /\ AllSound /\ CompletedGoes

(* Idle, whatever CHOOSE makes of it. *)
LEMMA IdleIs ==
  /\ Idle.pc = "idle" /\ Idle.held = NoReassembler
  /\ Idle = [pc |-> Idle.pc, idx |-> Idle.idx, frag |-> Idle.frag, held |-> Idle.held]
  /\ \A i, f, q :
       q = [Idle EXCEPT !.pc = "get", !.idx = i, !.frag = f]
         => q = [pc |-> "get", idx |-> i, frag |-> f, held |-> NoReassembler]
<1>1. PICK a, b : Idle = [pc |-> "idle", idx |-> a, frag |-> b, held |-> NoReassembler]
  BY DEF Idle
<1>2. Idle.pc = "idle" /\ Idle.held = NoReassembler
  BY <1>1
<1>3. Idle = [pc |-> Idle.pc, idx |-> Idle.idx, frag |-> Idle.frag, held |-> Idle.held]
  BY <1>1
<1>4. ASSUME NEW i, NEW f, NEW q, q = [Idle EXCEPT !.pc = "get", !.idx = i, !.frag = f]
      PROVE  q = [pc |-> "get", idx |-> i, frag |-> f, held |-> NoReassembler]
  BY <1>1, <1>4
<1> QED
  BY <1>2, <1>3, <1>4

LEMMA InitIInv ==
  ASSUME MonitorAssumption, ReassemblerAssumption, Init
  PROVE  IInv
<1>1. Present = {}
  BY DEF Init, Present
<1>2. PktTypes /\ pkt.pc = "idle"
  BY IdleIs DEF Init, PktTypes
<1>3. TimerTypes
  BY DEF Init, TimerTypes, TimerInit, TimerTypeOK
<1>4. TableTypes
  BY DEF Init, TableTypes
<1> QED
  BY <1>1, <1>2, <1>3, <1>4 DEF IInv, AllSound, CompletedGoes

LEMMA TimerTypesNext ==
  ASSUME TimerTypes, [Next]_vars
  PROVE  TimerTypes'
<1> USE DEF TimerTypes, TimerTypeOK
<1>1. CASE UNCHANGED <<timer, sweep>>
  BY <1>1
<1>2. CASE TimerStart
  BY <1>2 DEF TimerStart, StartThread, StartWait, RunReturns
<1>3. CASE OnTick
  BY <1>3 DEF OnTick, Expire
<1>4. CASE ReadClock \/ EraseEntry
  BY <1>4 DEF ReadClock, EraseEntry
<1>5. CASE ClockWrapped \/ TickDone
  BY <1>5 DEF ClockWrapped, TickDone, Rearm
<1>6. CASE TimePasses
  BY <1>6 DEF TimePasses, IntervalPasses
<1> QED
  BY <1>1, <1>2, <1>3, <1>4, <1>5, <1>6
  DEF Next, Arrive, PktThread, GetFragReassembler, ProcessFragPkt, RemoveReassembler, TimerThread, vars

(* Steps that erase entries, of the table, or none. *)
LEMMA EraseKeeps ==
  ASSUME PktTypes, TableTypes, AllSound, CompletedGoes, pkt' = pkt,
         table' = table \/ \E i \in Present : table' = [table EXCEPT ![i] = NoReassembler]
  PROVE  PktTypes' /\ TableTypes' /\ AllSound' /\ CompletedGoes'
<1>1. Present' \subseteq Present /\ (\A i \in Present' : table'[i] = table[i]) /\ TableTypes'
  BY DEF Present, TableTypes
<1> QED
  BY <1>1 DEF PktTypes, AllSound, CompletedGoes

LEMMA ArriveKeeps ==
  ASSUME PktTypes, TableTypes, AllSound, CompletedGoes,
         NEW i \in PktIdx, NEW f \in Frags[i], Arrive(i, f)
  PROVE  PktTypes' /\ TableTypes' /\ AllSound' /\ CompletedGoes'
<1>1. pkt.pc = "idle" /\ pkt' = [pc |-> "get", idx |-> i, frag |-> f, held |-> NoReassembler] /\ table' = table
  BY IdleIs DEF Arrive
<1>2. Present' = Present
  BY <1>1 DEF Present
<1>3. PktTypes'
  BY <1>1 DEF PktTypes
<1> QED
  BY <1>1, <1>2, <1>3 DEF TableTypes, AllSound, CompletedGoes

LEMMA GetKeeps ==
  ASSUME MonitorAssumption, ReassemblerAssumption,
         PktTypes, TableTypes, AllSound, CompletedGoes, GetFragReassembler
  PROVE  PktTypes' /\ TableTypes' /\ AllSound' /\ CompletedGoes'
<1> DEFINE i == pkt.idx
           r == IF i \in Present THEN table[i] ELSE NewReassembler
<1>1. /\ pkt.pc = "get" /\ table' = [table EXCEPT ![i] = r]
      /\ pkt' = [pkt EXCEPT !.pc = "process", !.held = r]
  BY DEF GetFragReassembler
<1>2. i \in PktIdx /\ pkt.frag \in Frags[i]
  BY <1>1 DEF PktTypes
<1>3. Sound(i, r) /\ ~ IfPktCompleted(r)
  <2>1. CASE i \in Present
    BY <1>1, <2>1 DEF AllSound, CompletedGoes
  <2>2. CASE i \notin Present
    BY <1>2, <2>2, NewSound
  <2> QED
    BY <2>1, <2>2
<1> HIDE DEF r
<1>4. pkt' = [pc |-> "process", idx |-> i, frag |-> pkt.frag, held |-> r]
  BY <1>1 DEF PktTypes
<1>5. PktTypes'
  BY <1>2, <1>4 DEF PktTypes
<1> HIDE DEF i
<1>6. /\ TableTypes' /\ table'[i] = r
      /\ \A j \in PktIdx : j # i => table'[j] = table[j]
  BY <1>1, <1>2 DEF TableTypes
<1>7. \A j \in Present' : j \in PktIdx /\ (j # i => j \in Present /\ table'[j] = table[j])
  BY <1>6 DEF Present
<1>8. pkt'.pc = "process" /\ pkt'.idx = i /\ pkt'.held = r
  BY <1>4
<1>9. AllSound'
  BY <1>3, <1>6, <1>7, <1>8 DEF AllSound
<1>10. CompletedGoes'
  BY <1>1, <1>3, <1>6, <1>7, <1>8 DEF CompletedGoes
<1> QED
  BY <1>5, <1>6, <1>9, <1>10

LEMMA ProcessKeeps ==
  ASSUME MonitorAssumption, ReassemblerAssumption,
         PktTypes, TableTypes, AllSound, CompletedGoes, ProcessFragPkt
  PROVE  PktTypes' /\ TableTypes' /\ AllSound' /\ CompletedGoes'
<1> DEFINE i == pkt.idx
           f == pkt.frag
           h == pkt.held
           r == InsertPktFrag(h, f)
           done == ~ Refused(h, f) /\ IfPktCompleted(r)
<1>1. /\ pkt.pc = "process"
      /\ table' = [table EXCEPT ![i] = IF @ = NoReassembler THEN @ ELSE r]
      /\ pkt' = IF done THEN [pkt EXCEPT !.pc = "passed", !.held = r] ELSE Idle
  BY DEF ProcessFragPkt
<1>2. i \in PktIdx /\ f \in Frags[i]
  BY <1>1 DEF PktTypes
<1>3. Sound(i, h) /\ ~ IfPktCompleted(h)
  BY <1>1 DEF AllSound, CompletedGoes
<1>4. Sound(i, r)
  BY <1>2, <1>3, InsertSound
<1>5. IfPktCompleted(r) => done
  BY <1>3 DEF InsertPktFrag
<1>6. pkt = [pc |-> pkt.pc, idx |-> i, frag |-> f, held |-> h]
  BY DEF PktTypes
<1> HIDE DEF r, done
<1>7. done => pkt' = [pc |-> "passed", idx |-> i, frag |-> f, held |-> r]
  <2> HAVE done
  <2>1. pkt' = [pkt EXCEPT !.pc = "passed", !.held = r]
    BY <1>1
  <2> QED
    BY <1>6, <2>1
<1>8. ~ done => pkt' = Idle
  BY <1>1
<1>9. PktTypes'
  <2>1. CASE done
    <3>1. pkt' = [pc |-> "passed", idx |-> i, frag |-> f, held |-> r]
      BY <1>7, <2>1
    <3> HIDE DEF i, f
    <3>2. pkt'.pc = "passed" /\ pkt'.idx = i /\ pkt'.frag = f /\ pkt'.held = r
      BY <3>1
    <3> QED
      BY <1>2, <3>1, <3>2 DEF PktTypes
  <2>2. CASE ~ done
    BY <1>8, <2>2, IdleIs DEF PktTypes
  <2> QED
    BY <2>1, <2>2
<1> HIDE DEF i, f, h
<1>10. /\ TableTypes' /\ (table[i] # NoReassembler => table'[i] = r) /\ (table[i] = NoReassembler => table'[i] = NoReassembler)
       /\ \A j \in PktIdx : j # i => table'[j] = table[j]
  BY <1>1, <1>2 DEF TableTypes
<1>11. \A j \in Present' : j \in PktIdx /\ (j = i => table'[j] = r) /\ (j # i => j \in Present /\ table'[j] = table[j])
  BY <1>10 DEF Present
<1>12. \A j \in Present : ~ IfPktCompleted(table[j])
  BY <1>1 DEF CompletedGoes
<1>13. /\ done => pkt'.pc = "passed" /\ pkt'.idx = i /\ pkt'.held = r
       /\ ~ done => pkt'.pc = "idle"
  <2>1. CASE done
    <3>1. pkt' = [pc |-> "passed", idx |-> i, frag |-> f, held |-> r]
      BY <1>7, <2>1
    <3>2. pkt'.pc = "passed" /\ pkt'.idx = i /\ pkt'.held = r
      BY <3>1
    <3> QED
      BY <2>1, <3>2
  <2>2. CASE ~ done
    BY <1>8, <2>2, IdleIs
  <2> QED
    BY <2>1, <2>2
<1>14. AllSound'
  BY <1>4, <1>11, <1>13 DEF AllSound
<1>15. done => IfPktCompleted(r)
  BY DEF done
<1>16. CompletedGoes'
  BY <1>5, <1>11, <1>12, <1>13, <1>15 DEF CompletedGoes
<1> QED
  BY <1>9, <1>10, <1>14, <1>16

LEMMA RemoveKeeps ==
  ASSUME PktTypes, TableTypes, AllSound, CompletedGoes, RemoveReassembler
  PROVE  PktTypes' /\ TableTypes' /\ AllSound' /\ CompletedGoes'
<1> DEFINE i == pkt.idx
<1>1. /\ pkt.pc = "passed" /\ i \in PktIdx
      /\ table' = [table EXCEPT ![i] = NoReassembler] /\ pkt' = Idle
  BY DEF RemoveReassembler, PktTypes
<1>2. PktTypes' /\ pkt'.pc = "idle"
  BY <1>1, IdleIs DEF PktTypes
<1> HIDE DEF i
<1>3. /\ TableTypes' /\ table'[i] = NoReassembler
      /\ \A j \in PktIdx : j # i => table'[j] = table[j]
  BY <1>1 DEF TableTypes
<1>4. \A j \in Present' : j \in Present /\ table'[j] = table[j] /\ j # i
  BY <1>3 DEF Present
<1>5. CompletedGoes'
  BY <1>2, <1>4 DEF CompletedGoes, i
<1>6. AllSound'
  BY <1>2, <1>4 DEF AllSound
<1> QED
  BY <1>2, <1>3, <1>5, <1>6

(* Every step keeps the invariant. *)
LEMMA NextIInv ==
  ASSUME MonitorAssumption, ReassemblerAssumption, IInv, [Next]_vars
  PROVE  IInv'
<1>1. PktTypes /\ TimerTypes /\ TableTypes /\ AllSound /\ CompletedGoes
  BY DEF IInv
<1>2. TimerTypes'
  BY <1>1, TimerTypesNext
<1>3. PktTypes' /\ TableTypes' /\ AllSound' /\ CompletedGoes'
  <2>1. CASE \E i \in PktIdx : \E f \in Frags[i] : Arrive(i, f)
    BY <1>1, <2>1, ArriveKeeps
  <2>2. CASE GetFragReassembler
    BY <1>1, <2>2, GetKeeps
  <2>3. CASE ProcessFragPkt
    BY <1>1, <2>3, ProcessKeeps
  <2>4. CASE RemoveReassembler
    BY <1>1, <2>4, RemoveKeeps
  <2>5. CASE TimerThread \/ TimePasses \/ UNCHANGED vars
    <3>1. pkt' = pkt /\ (table' = table \/ \E i \in Present : table' = [table EXCEPT ![i] = NoReassembler])
      BY <2>5 DEF TimerThread, TimerStart, OnTick, ReadClock, ClockWrapped, EraseEntry, TickDone, TimePasses, vars
    <3> QED
      BY <1>1, <3>1, EraseKeeps
  <2> QED
    BY <2>1, <2>2, <2>3, <2>4, <2>5 DEF Next, PktThread
<1> QED
  BY <1>2, <1>3 DEF IInv

LEMMA Invariant == Spec => []IInv
<1>1. Init => IInv
  BY MonitorAssumption, ReassemblerAssumption, InitIInv
<1>2. IInv /\ [Next]_vars => IInv'
  BY MonitorAssumption, ReassemblerAssumption, NextIInv
<1> QED
  BY <1>1, <1>2, PTL DEF Spec

-----------------------------------------------------------------------------
(* What is passed on. *)

(* In increasing order there is one place for each byte of a packet. *)
LEMMA PlacesAre ==
  ASSUME NEW d \in Seq(Byte), NEW m \in Nat, Len(d) = m, ToSet(d) \subseteq 0 .. m - 1, Increasing(d)
  PROVE  \A b \in DOMAIN d : d[b] = b - 1
<1>1. /\ DOMAIN d = 1 .. m
      /\ \A b \in 1 .. m : d[b] \in 0 .. m - 1
      /\ \A a, b \in 1 .. m : a < b => d[a] < d[b]
  <2>1. DOMAIN d = 1 .. m
    OBVIOUS
  <2>2. \A b \in 1 .. m : d[b] \in ToSet(d)
    BY <2>1 DEF ToSet
  <2> QED
    BY <2>1, <2>2 DEF Increasing
<1>2. \A n \in 0 .. m : n >= 1 => d[n] >= n - 1
  <2> DEFINE S == {n \in 0 .. m : n >= 1 => d[n] >= n - 1}
  <2>1. 0 \in S
    OBVIOUS
  <2>2. ASSUME NEW n \in 0 .. m, n < m, n \in S PROVE n + 1 \in S
    <3>1. n + 1 \in 1 .. m /\ d[n + 1] \in 0 .. m - 1
      BY <1>1, <2>2
    <3>2. CASE n = 0
      BY <3>1, <3>2
    <3>3. CASE n >= 1
      <4>1. n \in 1 .. m /\ d[n] >= n - 1 /\ d[n] \in 0 .. m - 1 /\ n < n + 1
        BY <1>1, <2>2, <3>3
      <4>2. d[n] < d[n + 1]
        BY <1>1, <3>1, <4>1
      <4> QED
        BY <3>1, <4>1, <4>2
    <3> QED
      BY <3>2, <3>3
  <2> HIDE DEF S
  <2>3. \A n \in 0 .. m : n \in S
    BY <2>1, <2>2, NatIndUpTo
  <2> QED
    BY <2>3 DEF S
<1>3. \A n \in 0 .. m : n < m => d[m - n] <= m - 1 - n
  <2> DEFINE S == {n \in 0 .. m : n < m => d[m - n] <= m - 1 - n}
  <2>1. 0 \in S
    <3>1. 0 < m => m - 0 \in 1 .. m /\ m - 0 = m
      OBVIOUS
    <3>2. 0 < m => d[m] <= m - 1
      BY <1>1
    <3> QED
      BY <3>1, <3>2
  <2>2. ASSUME NEW n \in 0 .. m, n < m, n \in S PROVE n + 1 \in S
    <3>1. CASE n + 1 < m
      <4> DEFINE a == m - (n + 1)
                 b == m - n
      <4>1. a \in 1 .. m /\ b \in 1 .. m /\ a < b /\ n + 1 \in 0 .. m
        BY <3>1
      <4>2. d[a] < d[b] /\ d[a] \in 0 .. m - 1 /\ d[b] \in 0 .. m - 1
        BY <1>1, <4>1
      <4>3. d[b] <= m - 1 - n
        BY <2>2
      <4> HIDE DEF a, b
      <4>4. d[a] <= m - 1 - (n + 1)
        BY <4>2, <4>3
      <4> QED
        BY <4>1, <4>4 DEF a
    <3>2. CASE ~ (n + 1 < m)
      BY <2>2, <3>2
    <3> QED
      BY <3>1, <3>2
  <2> HIDE DEF S
  <2>3. \A n \in 0 .. m : n \in S
    BY <2>1, <2>2, NatIndUpTo
  <2> QED
    BY <2>3 DEF S
<1>4. ASSUME NEW b \in 1 .. m PROVE d[b] = b - 1
  <2>1. d[b] >= b - 1 /\ d[b] \in 0 .. m - 1
    BY <1>1, <1>2
  <2>2. m - b \in 0 .. m /\ m - b < m /\ m - (m - b) = b
    OBVIOUS
  <2>3. d[b] <= m - 1 - (m - b)
    BY <1>3, <2>2
  <2> QED
    BY <2>1, <2>3
<1> QED
  BY <1>1, <1>4

(* The bytes of a packet whose last fragment has come and none of which    *)
(* came twice: those that arrived, counted by meat_.                       *)
LEMMA ApartIs ==
  ASSUME NEW i \in PktIdx, NEW r, Sound(i, r), Disjoint(r.seen), MonitorAssumption, ReassemblerAssumption
  PROVE  /\ DataOf(r.frags) \in Seq(Byte) /\ IsInjective(DataOf(r.frags))
         /\ ToSet(DataOf(r.frags)) = UnionOf(r.seen)
         /\ r.meat = Len(DataOf(r.frags)) /\ r.end \in Nat
         /\ NearlyInOrder(r.seen) => Increasing(DataOf(r.frags))
         /\ \A k \in 1 .. Len(r.seen) : r.seen[k] \in Taken(i)
         /\ DOMAIN r.seen = 1 .. Len(r.seen)
<1>1. r.seen \in Seq(Taken(i)) /\ r.frags \in Seq(Pieces(i)) /\ r \in Reassembler /\ DataApart(r)
  BY DEF Sound, Listed
<1>2. r.frags \in Seq(Elem)
  <2>1. Pieces(i) \subseteq Elem
    BY DEF Pieces
  <2> QED
    BY <1>1, <2>1, SeqMonotonic
<1>3. DataOf(r.frags) \in Seq(Byte)
  BY <1>2, DataTyped
<1>4. r.end \in Nat
  BY <1>1 DEF Reassembler, ReassemblerAssumption
<1>5. DOMAIN r.seen = 1 .. Len(r.seen) /\ \A k \in 1 .. Len(r.seen) : r.seen[k] \in Taken(i)
  BY <1>1
<1> QED
  BY <1>1, <1>3, <1>4, <1>5 DEF DataApart

(* A completed packet has every byte once. *)
LEMMA CompletedIs ==
  ASSUME MonitorAssumption, ReassemblerAssumption, LastEnds,
         NEW i \in PktIdx, NEW r, Sound(i, r), Disjoint(r.seen), IfPktCompleted(r)
  PROVE  /\ Len(DataOf(r.frags)) = r.end
         /\ ToSet(DataOf(r.frags)) = 0 .. r.end - 1
<1>1. /\ DataOf(r.frags) \in Seq(Byte) /\ IsInjective(DataOf(r.frags))
      /\ ToSet(DataOf(r.frags)) = UnionOf(r.seen)
      /\ r.meat = Len(DataOf(r.frags)) /\ r.end \in Nat
      /\ \A k \in 1 .. Len(r.seen) : r.seen[k] \in Taken(i)
      /\ DOMAIN r.seen = 1 .. Len(r.seen)
  BY ApartIs
<1>2. Len(DataOf(r.frags)) = r.end
  BY <1>1 DEF IfPktCompleted
<1>3. PICK k \in 1 .. Len(r.seen) :
        r.seen[k].off # 0 /\ ~ r.seen[k].mf /\ r.end = r.seen[k].off + r.seen[k].len
  BY DEF Sound, FlagsTell, IfPktCompleted
<1>4. ASSUME NEW g \in Taken(i) PROVE Bytes(g) \subseteq 0 .. r.end - 1
  <2>1. g.off + g.len <= r.end
    <3>1. g \in Frags[i] /\ r.seen[k] \in Frags[i]
      BY <1>1 DEF Taken
    <3> QED
      BY <1>3, <3>1 DEF LastEnds
  <2>2. Bytes(g) = g.off .. g.off + g.len - 1 /\ g.off \in Nat /\ g.len \in Nat
    BY ElementIs, FragIs
  <2> QED
    BY <1>1, <2>1, <2>2
<1>5. UnionOf(r.seen) \subseteq 0 .. r.end - 1
  BY <1>1, <1>4 DEF UnionOf, ToSet
<1> QED
  BY <1>1, <1>2, <1>5, BytesFew

(* A reassembler that has every byte is complete. *)
LEMMA CoveredIs ==
  ASSUME MonitorAssumption, ReassemblerAssumption,
         NEW i \in PktIdx, NEW r, Sound(i, r), Disjoint(r.seen), "last" \in r.flag,
         UnionOf(r.seen) = 0 .. r.end - 1
  PROVE  IfPktCompleted(r)
<1>1. /\ DataOf(r.frags) \in Seq(Byte) /\ IsInjective(DataOf(r.frags))
      /\ ToSet(DataOf(r.frags)) = UnionOf(r.seen)
      /\ r.meat = Len(DataOf(r.frags)) /\ r.end \in Nat
      /\ \A k \in 1 .. Len(r.seen) : r.seen[k] \in Taken(i)
      /\ DOMAIN r.seen = 1 .. Len(r.seen)
  BY ApartIs
<1>2. r.meat = r.end
  BY <1>1, BytesFew
<1>3. 0 \in UnionOf(r.seen)
  <2>1. PICK k \in 1 .. Len(r.seen) : r.seen[k].off # 0 /\ r.end = r.seen[k].off + r.seen[k].len
    BY DEF Sound, FlagsTell
  <2>2. r.seen[k] \in Taken(i)
    BY <1>1
  <2>3. r.seen[k].off \in Nat /\ r.seen[k].len \in Nat
    BY <2>2, FragIs
  <2>4. r.end > 0
    BY <2>1, <2>3
  <2> QED
    BY <1>1, <2>4
<1>4. "first" \in r.flag
  <2>1. PICK k \in 1 .. Len(r.seen) : 0 \in Bytes(r.seen[k])
    BY <1>1, <1>3 DEF UnionOf, ToSet
  <2>2. r.seen[k] \in Taken(i)
    BY <1>1
  <2>3. /\ Bytes(r.seen[k]) = r.seen[k].off .. r.seen[k].off + r.seen[k].len - 1
        /\ r.seen[k].off \in Nat
    BY <2>2, ElementIs, FragIs
  <2>4. r.seen[k].off = 0
    BY <2>1, <2>3
  <2> QED
    BY <2>4 DEF Sound, FlagsTell
<1>5. r.flag \subseteq {"first", "last"}
  BY DEF Sound, Reassembler
<1> QED
  BY <1>2, <1>4, <1>5 DEF IfPktCompleted

LEMMA SeenBytes ==
  ASSUME MonitorAssumption, ReassemblerAssumption, NEW i \in PktIdx, NEW s \in Seq(Taken(i))
  PROVE  DataOf(Elements(s)) \in Seq(Byte)
<1>1. \A k \in 1 .. Len(s) : Element(s[k]) \in Elem
  BY ElementIs
<1>2. Elements(s) \in Seq(Elem)
  <2>1. Len(s) \in Nat /\ DOMAIN s = 1 .. Len(s)
    OBVIOUS
  <2>2. Elements(s) \in [1 .. Len(s) -> Elem]
    BY <1>1, <2>1 DEF Elements
  <2> QED
    BY <2>1, <2>2
<1> QED
  BY <1>2, DataTyped

-----------------------------------------------------------------------------
(* The theorems. *)

(* Every reassembler is a list of elements within one packet, counted      *)
(* within a word, and the one the processing thread holds is the table's   *)
(* or was erased.                                                          *)
THEOREM Typed == Spec => []TypeOK
<1>1. ASSUME IInv PROVE TypeOK
  <2>1. TimerTypes /\ PktTypes
    BY <1>1 DEF IInv
  <2>2. \A i \in PktIdx : table[i] = NoReassembler \/ table[i] \in Reassembler
    BY <1>1 DEF IInv, AllSound, Sound, Present
  <2>3. pkt.held = NoReassembler \/ pkt.held \in Reassembler
    BY <1>1, <2>1 DEF IInv, AllSound, Sound, PktTypes
  <2>4. \A i \in Present : pkt.pc \in {"process", "passed"} /\ pkt.idx = i => table[i] = pkt.held
    BY <1>1 DEF IInv, AllSound
  <2> QED
    BY <2>1, <2>2, <2>3, <2>4 DEF TypeOK, TimerTypes, PktTypes
<1> QED
  BY <1>1, Invariant, PTL

(* What ReasmPktFrags copies fits in the meat_ bytes allocated for it, so  *)
(* long as fewer than 2^16 bytes arrived for the packet, overlaps and      *)
(* repeats included; no two fragments need be apart.                       *)
THEOREM FitsAlways == Spec => [](InWord => Fits)
<1>1. ASSUME IInv PROVE InWord => Fits
  <2> SUFFICES ASSUME InWord, pkt.pc = "passed"
               PROVE  Len(DataOf(pkt.held.frags)) <= pkt.held.meat
    BY DEF Fits, ReasmPktFrags
  <2>1. Sound(pkt.idx, pkt.held) /\ pkt.idx \in PktIdx
    BY <1>1 DEF IInv, AllSound, PktTypes
  <2>2. PICK c \in Nat :
          /\ Len(DataOf(pkt.held.frags)) <= c /\ c <= Len(DataOf(Elements(pkt.held.seen)))
          /\ c < Word => pkt.held.meat = c
    BY <2>1 DEF Sound, DataCounted
  <2>3. Len(DataOf(Elements(pkt.held.seen))) < Word
    BY DEF InWord
  <2>4. Len(DataOf(Elements(pkt.held.seen))) \in Nat
    <3>1. pkt.held.seen \in Seq(Taken(pkt.idx))
      BY <2>1 DEF Sound, Listed
    <3>2. DataOf(Elements(pkt.held.seen)) \in Seq(Byte)
      BY <2>1, <3>1, SeenBytes, MonitorAssumption, ReassemblerAssumption
    <3> QED
      BY <3>2, LenProperties
  <2>5. c < Word
    BY <2>2, <2>3, <2>4, ReassemblerAssumption DEF ReassemblerAssumption
  <2> QED
    BY <2>2, <2>5
<1> QED
  BY <1>1, Invariant, PTL

(* When no two fragments overlap, a packet passed on has every byte once,  *)
(* provided its last fragment ends it.                                     *)
THEOREM WholeAlways == LastEnds /\ Spec => []Whole
<1> SUFFICES ASSUME LastEnds PROVE Spec => []Whole
  OBVIOUS
<1>1. ASSUME IInv PROVE Whole
  <2> SUFFICES ASSUME pkt.pc = "passed", Disjoint(pkt.held.seen)
               PROVE  /\ IsInjective(DataOf(pkt.held.frags))
                      /\ ToSet(DataOf(pkt.held.frags)) = 0 .. pkt.held.end - 1
    BY DEF Whole, ReasmPktFrags
  <2>1. Sound(pkt.idx, pkt.held) /\ pkt.idx \in PktIdx /\ IfPktCompleted(pkt.held)
    BY <1>1 DEF IInv, AllSound, PktTypes, CompletedGoes
  <2> QED
    BY <1>1, <2>1, ApartIs, CompletedIs, MonitorAssumption, ReassemblerAssumption
<1> QED
  BY <1>1, Invariant, PTL

(* A reassembler at rest that has the last fragment lacks a byte: none     *)
(* waits for more that has all it needs.                                   *)
THEOREM NoneKeptAlways == Spec => []NoneKept
<1>1. ASSUME IInv PROVE NoneKept
  <2> SUFFICES ASSUME NEW i \in Present, pkt.pc = "idle", "last" \in table[i].flag,
                      Disjoint(table[i].seen), Covered(table[i]) = 0 .. table[i].end - 1
               PROVE  FALSE
    BY DEF NoneKept
  <2>1. Sound(i, table[i]) /\ i \in PktIdx /\ ~ IfPktCompleted(table[i])
    BY <1>1 DEF IInv, AllSound, CompletedGoes, Present
  <2>2. UnionOf(table[i].seen) = 0 .. table[i].end - 1
    BY DEF UnionOf, Covered
  <2> QED
    BY <2>1, <2>2, CoveredIs, MonitorAssumption, ReassemblerAssumption
<1> QED
  BY <1>1, Invariant, PTL

(* The three together. *)
THEOREM ExactAlways == LastEnds /\ Spec => [](InWord => Exact)
<1>1. ASSUME InWord => Fits, Whole, NoneKept PROVE InWord => Exact
  BY <1>1 DEF Exact
<1> QED
  BY <1>1, FitsAlways, WholeAlways, NoneKeptAlways, PTL

(* Fragments that arrive in order, or the second before the first, are     *)
(* passed on in order.                                                     *)
THEOREM InOrderAlways == LastEnds /\ Spec => []InOrder
<1> SUFFICES ASSUME LastEnds PROVE Spec => []InOrder
  OBVIOUS
<1>1. ASSUME IInv PROVE InOrder
  <2> DEFINE h == pkt.held
             d == DataOf(h.frags)
  <2> SUFFICES ASSUME pkt.pc = "passed", Disjoint(h.seen), NearlyInOrder(h.seen)
               PROVE  \A b \in DOMAIN d : d[b] = b - 1
    BY DEF InOrder, ReasmPktFrags
  <2>1. Sound(pkt.idx, h) /\ pkt.idx \in PktIdx /\ IfPktCompleted(h)
    BY <1>1 DEF IInv, AllSound, PktTypes, CompletedGoes
  <2>2. d \in Seq(Byte) /\ h.end \in Nat /\ Increasing(d)
    BY <2>1, ApartIs, MonitorAssumption, ReassemblerAssumption
  <2>3. Len(d) = h.end /\ ToSet(d) = 0 .. h.end - 1
    BY <1>1, <2>1, CompletedIs, MonitorAssumption, ReassemblerAssumption
  <2> QED
    BY <2>2, <2>3, PlacesAre
<1> QED
  BY <1>1, Invariant, PTL

=============================================================================
