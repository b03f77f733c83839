--------------------------- MODULE HttpMonitorProofs ---------------------------
(***************************************************************************)
(* Proofs about HttpMonitor, for any exchanges.  The first part gives every*)
(* parser as the states it goes through, one character at a time; then what*)
(* a session may be, which TypeOK and AssertsHold need; then that parsers  *)
(* and recombinders come to the same however a message is cut, and with it *)
(* what the session is after each packet, for Recorded and NotEarly.       *)
(***************************************************************************)
EXTENDS HttpMonitor, LeftFolds, SequenceTheorems

-----------------------------------------------------------------------------
ChunkTurn(q, c) ==
  [q EXCEPT !.chunk = ChunkStep(@, c), !.parsed = IF q.chunk.st = "data" THEN @ + 1 ELSE @]

RequestLineTurn(l, c) ==
  IF l.st \in {"stop", "fail"} THEN l ELSE [st |-> RequestLineStep(l.st, c), len |-> l.len + 1]

StatusLineTurn(l, c) ==
  IF l.st \in {"stop", "fail"} THEN l ELSE [st |-> StatusLineStep(l.st, c), len |-> l.len + 1]

BodyTurn(l, c) ==
  IF l.st \in {"stop", "fail"} THEN l ELSE [st |-> BodyStep(l.st, c), len |-> l.len + 1]

NoHeader ==
  [st |-> "init", len |-> 0, key |-> <<>>, val |-> <<>>, fields |-> [k \in {} |-> <<>>]]

HeaderLoop(data) == FoldLeft(HeaderStep, NoHeader, data)

(* The value of digits. *)
NumberBy(g, A, base, data) ==
  /\ g \in [0 .. Len(data) -> A] /\ g[0] = 0
  /\ \A n \in 1 .. Len(data) : g[n] = base * g[n - 1] + DigitVal[data[n]]
  /\ Number(base, data) = g[Len(data)]

NumberClosed(A, base, Y) ==
  0 \in A /\ \A a \in A : \A c \in Y : base * a + DigitVal[c] \in A

LEMMA NumberIs ==
  ASSUME NEW Y, NEW A, NEW base, NEW data \in Seq(Y), NumberClosed(A, base, Y)
  PROVE  \E g : NumberBy(g, A, base, data)
<1> DEFINE L     == Len(data)
           Eq(f) == f = [s \in SUBSET (DOMAIN data) |->
                           IF s = {} THEN 0
                           ELSE base * f[s \ {Max(s)}] + DigitVal[data[Max(s)]]]
           step  == [na \in (1 .. L) \X A |-> base * na[2] + DigitVal[data[na[1]]]]
           i     == CHOOSE f : Eq(f)
<1>1. L \in Nat /\ DOMAIN data = 1 .. L /\ \A n \in 1 .. L : data[n] \in Y
  OBVIOUS
<1>2. Number(base, data) = i[1 .. L]
  <2>1. Number(base, data) = i[DOMAIN data]
    BY DEF Number, FoldLeft, MapThenFoldSet
  <2> QED
    BY <1>1, <2>1
<1>3. 0 \in A /\ step \in [(1 .. L) \X A -> A]
  BY <1>1 DEF NumberClosed
<1>4. \A n \in 1 .. L : \A a \in A : step[<<n, a>>] = base * a + DigitVal[data[n]]
  OBVIOUS
<1> HIDE DEF step, L
<1>5. PICK f \in [SUBSET (1 .. L) -> A] : FoldsOver(f, L, 0, step)
  BY <1>1, <1>3, MaskedFold
<1>6. ASSUME NEW x \in SUBSET (1 .. L), x # {}
      PROVE  f[x] = base * f[x \ {Max(x)}] + DigitVal[data[Max(x)]]
  <2>1. Max(x) \in 1 .. L /\ f[x \ {Max(x)}] \in A
    BY <1>5, <1>6 DEF FoldsOver
  <2> QED
    BY <1>4, <1>5, <1>6, <2>1 DEF FoldsOver
<1>7. Eq(f)
  <2>1. f = [s \in SUBSET (1 .. L) |->
               IF s = {} THEN 0 ELSE base * f[s \ {Max(s)}] + DigitVal[data[Max(s)]]]
    BY <1>5, <1>6 DEF FoldsOver
  <2> QED
    BY <1>1, <2>1
<1>8. Eq(i)
  BY <1>7
<1>9. i = [s \in SUBSET (1 .. L) |->
             IF s = {} THEN 0 ELSE base * i[s \ {Max(s)}] + DigitVal[data[Max(s)]]]
  BY <1>1, <1>8
<1> HIDE DEF i
<1>10. Unfolds(i, A, L, 0, step)
  <2>1. i[{}] = 0
    BY <1>9
  <2>2. ASSUME NEW n \in 1 .. L, i[1 .. n - 1] \in A
        PROVE  i[1 .. n] = step[<<n, i[1 .. n - 1]>>]
    <3> DEFINE x == 1 .. n
    <3>1. x \in SUBSET (1 .. L) /\ x # {} /\ Max(x) = n /\ x \ {n} = 1 .. n - 1
      BY <1>1, UpToIs
    <3>2. i[x] = base * i[x \ {Max(x)}] + DigitVal[data[Max(x)]]
      BY <1>9, <3>1
    <3> QED
      BY <1>4, <2>2, <3>1, <3>2
  <2> QED
    BY <2>1, <2>2 DEF Unfolds
<1>11. FoldTyped(A, L, 0, step)
  BY <1>1, <1>3 DEF FoldTyped
<1>12. PICK g : Passes(g, i, A, L, 0, step)
  BY <1>10, <1>11, Unfolded
<1>13. ASSUME NEW n \in 1 .. L PROVE g[n] = base * g[n - 1] + DigitVal[data[n]]
  <2>1. g[n - 1] \in A
    BY <1>1, <1>12 DEF Passes
  <2>2. g[n] = step[<<n, g[n - 1]>>]
    BY <1>12 DEF Passes, StepsFrom
  <2> QED
    BY <1>4, <2>1, <2>2
<1>14. g[0] = 0
  BY <1>12 DEF Passes, StepsFrom
<1> QED
  BY <1>2, <1>12, <1>13, <1>14 DEF L, Passes, NumberBy

(* The chunks of a packet. *)
ChunksBy(g, A, r, data) ==
  /\ g \in [0 .. Len(data) -> A] /\ g[0] = r
  /\ \A n \in 1 .. Len(data) : g[n] = ChunkTurn(g[n - 1], data[n])
  /\ ProcChunkFsm(r, data) = g[Len(data)]

ChunksClosed(A, r, Y) ==
  r \in A /\ \A a \in A : \A c \in Y : ChunkTurn(a, c) \in A

LEMMA ChunksIs ==
  ASSUME NEW Y, NEW A, NEW r, NEW data \in Seq(Y), ChunksClosed(A, r, Y)
  PROVE  \E g : ChunksBy(g, A, r, data)
<1> DEFINE L     == Len(data)
           Eq(f) == f = [s \in SUBSET (DOMAIN data) |->
                           IF s = {} THEN r
                           ELSE ChunkTurn(f[s \ {Max(s)}], data[Max(s)])]
           step  == [na \in (1 .. L) \X A |-> ChunkTurn(na[2], data[na[1]])]
           i     == CHOOSE f : Eq(f)
<1>1. L \in Nat /\ DOMAIN data = 1 .. L /\ \A n \in 1 .. L : data[n] \in Y
  OBVIOUS
<1>2. ProcChunkFsm(r, data) = i[1 .. L]
  <2>1. ProcChunkFsm(r, data) = i[DOMAIN data]
    BY DEF ProcChunkFsm, ChunkTurn, FoldLeft, MapThenFoldSet
  <2> QED
    BY <1>1, <2>1
<1>3. r \in A /\ step \in [(1 .. L) \X A -> A]
  BY <1>1 DEF ChunksClosed
<1>4. \A n \in 1 .. L : \A a \in A : step[<<n, a>>] = ChunkTurn(a, data[n])
  OBVIOUS
<1> HIDE DEF step, L
<1>5. PICK f \in [SUBSET (1 .. L) -> A] : FoldsOver(f, L, r, step)
  BY <1>1, <1>3, MaskedFold
<1>6. ASSUME NEW x \in SUBSET (1 .. L), x # {}
      PROVE  f[x] = ChunkTurn(f[x \ {Max(x)}], data[Max(x)])
  <2>1. Max(x) \in 1 .. L /\ f[x \ {Max(x)}] \in A
    BY <1>5, <1>6 DEF FoldsOver
  <2> QED
    BY <1>4, <1>5, <1>6, <2>1 DEF FoldsOver
<1>7. Eq(f)
  <2>1. f = [s \in SUBSET (1 .. L) |->
               IF s = {} THEN r ELSE ChunkTurn(f[s \ {Max(s)}], data[Max(s)])]
    BY <1>5, <1>6 DEF FoldsOver
  <2> QED
    BY <1>1, <2>1
<1>8. Eq(i)
  BY <1>7
<1>9. i = [s \in SUBSET (1 .. L) |->
             IF s = {} THEN r ELSE ChunkTurn(i[s \ {Max(s)}], data[Max(s)])]
  BY <1>1, <1>8
<1> HIDE DEF i
<1>10. Unfolds(i, A, L, r, step)
  <2>1. i[{}] = r
    BY <1>9
  <2>2. ASSUME NEW n \in 1 .. L, i[1 .. n - 1] \in A
        PROVE  i[1 .. n] = step[<<n, i[1 .. n - 1]>>]
    <3> DEFINE x == 1 .. n
    <3>1. x \in SUBSET (1 .. L) /\ x # {} /\ Max(x) = n /\ x \ {n} = 1 .. n - 1
      BY <1>1, UpToIs
    <3>2. i[x] = ChunkTurn(i[x \ {Max(x)}], data[Max(x)])
      BY <1>9, <3>1
    <3> QED
      BY <1>4, <2>2, <3>1, <3>2
  <2> QED
    BY <2>1, <2>2 DEF Unfolds
<1>11. FoldTyped(A, L, r, step)
  BY <1>1, <1>3 DEF FoldTyped
<1>12. PICK g : Passes(g, i, A, L, r, step)
  BY <1>10, <1>11, Unfolded
<1>13. ASSUME NEW n \in 1 .. L PROVE g[n] = ChunkTurn(g[n - 1], data[n])
  <2>1. g[n - 1] \in A
    BY <1>1, <1>12 DEF Passes
  <2>2. g[n] = step[<<n, g[n - 1]>>]
    BY <1>12 DEF Passes, StepsFrom
  <2> QED
    BY <1>4, <2>1, <2>2
<1>14. g[0] = r
  BY <1>12 DEF Passes, StepsFrom
<1> QED
  BY <1>2, <1>12, <1>13, <1>14 DEF L, Passes, ChunksBy

(* A request line: the state its parser is in, and what it has consumed.   *)
RequestLineBy(g, A, data) ==
  /\ g \in [0 .. Len(data) -> A] /\ g[0] = [st |-> "init", len |-> 0]
  /\ \A n \in 1 .. Len(data) : g[n] = RequestLineTurn(g[n - 1], data[n])
  /\ Loop(RequestLineStep, data) = g[Len(data)]

RequestLineClosed(A, Y) ==
  [st |-> "init", len |-> 0] \in A /\ \A a \in A : \A c \in Y : RequestLineTurn(a, c) \in A

LEMMA RequestLineIs ==
  ASSUME NEW Y, NEW A, NEW data \in Seq(Y), RequestLineClosed(A, Y)
  PROVE  \E g : RequestLineBy(g, A, data)
<1> DEFINE L     == Len(data)
           Eq(f) == f = [s \in SUBSET (DOMAIN data) |->
                           IF s = {} THEN [st |-> "init", len |-> 0]
                           ELSE RequestLineTurn(f[s \ {Max(s)}], data[Max(s)])]
           step  == [na \in (1 .. L) \X A |-> RequestLineTurn(na[2], data[na[1]])]
           i     == CHOOSE f : Eq(f)
<1>1. L \in Nat /\ DOMAIN data = 1 .. L /\ \A n \in 1 .. L : data[n] \in Y
  OBVIOUS
<1>2. Loop(RequestLineStep, data) = i[1 .. L]
  <2>1. Loop(RequestLineStep, data) = i[DOMAIN data]
    BY DEF Loop, RequestLineTurn, FoldLeft, MapThenFoldSet
  <2> QED
    BY <1>1, <2>1
<1>3. [st |-> "init", len |-> 0] \in A /\ step \in [(1 .. L) \X A -> A]
  BY <1>1 DEF RequestLineClosed
<1>4. \A n \in 1 .. L : \A a \in A : step[<<n, a>>] = RequestLineTurn(a, data[n])
  OBVIOUS
<1> HIDE DEF step, L
<1>5. PICK f \in [SUBSET (1 .. L) -> A] : FoldsOver(f, L, [st |-> "init", len |-> 0], step)
  BY <1>1, <1>3, MaskedFold
<1>6. ASSUME NEW x \in SUBSET (1 .. L), x # {}
      PROVE  f[x] = RequestLineTurn(f[x \ {Max(x)}], data[Max(x)])
  <2>1. Max(x) \in 1 .. L /\ f[x \ {Max(x)}] \in A
    BY <1>5, <1>6 DEF FoldsOver
  <2> QED
    BY <1>4, <1>5, <1>6, <2>1 DEF FoldsOver
<1>7. Eq(f)
  <2>1. f = [s \in SUBSET (1 .. L) |->
               IF s = {} THEN [st |-> "init", len |-> 0] ELSE RequestLineTurn(f[s \ {Max(s)}], data[Max(s)])]
    BY <1>5, <1>6 DEF FoldsOver
  <2> QED
    BY <1>1, <2>1
<1>8. Eq(i)
  BY <1>7
<1>9. i = [s \in SUBSET (1 .. L) |->
             IF s = {} THEN [st |-> "init", len |-> 0] ELSE RequestLineTurn(i[s \ {Max(s)}], data[Max(s)])]
  BY <1>1, <1>8
<1> HIDE DEF i
<1>10. Unfolds(i, A, L, [st |-> "init", len |-> 0], step)
  <2>1. i[{}] = [st |-> "init", len |-> 0]
    BY <1>9
  <2>2. ASSUME NEW n \in 1 .. L, i[1 .. n - 1] \in A
        PROVE  i[1 .. n] = step[<<n, i[1 .. n - 1]>>]
    <3> DEFINE x == 1 .. n
    <3>1. x \in SUBSET (1 .. L) /\ x # {} /\ Max(x) = n /\ x \ {n} = 1 .. n - 1
      BY <1>1, UpToIs
    <3>2. i[x] = RequestLineTurn(i[x \ {Max(x)}], data[Max(x)])
      BY <1>9, <3>1
    <3> QED
      BY <1>4, <2>2, <3>1, <3>2
  <2> QED
    BY <2>1, <2>2 DEF Unfolds
<1>11. FoldTyped(A, L, [st |-> "init", len |-> 0], step)
  BY <1>1, <1>3 DEF FoldTyped
<1>12. PICK g : Passes(g, i, A, L, [st |-> "init", len |-> 0], step)
  BY <1>10, <1>11, Unfolded
<1>13. ASSUME NEW n \in 1 .. L PROVE g[n] = RequestLineTurn(g[n - 1], data[n])
  <2>1. g[n - 1] \in A
    BY <1>1, <1>12 DEF Passes
  <2>2. g[n] = step[<<n, g[n - 1]>>]
    BY <1>12 DEF Passes, StepsFrom
  <2> QED
    BY <1>4, <2>1, <2>2
<1>14. g[0] = [st |-> "init", len |-> 0]
  BY <1>12 DEF Passes, StepsFrom
<1> QED
  BY <1>2, <1>12, <1>13, <1>14 DEF L, Passes, RequestLineBy

(* A status line. *)
StatusLineBy(g, A, data) ==
  /\ g \in [0 .. Len(data) -> A] /\ g[0] = [st |-> "init", len |-> 0]
  /\ \A n \in 1 .. Len(data) : g[n] = StatusLineTurn(g[n - 1], data[n])
  /\ Loop(StatusLineStep, data) = g[Len(data)]

StatusLineClosed(A, Y) ==
  [st |-> "init", len |-> 0] \in A /\ \A a \in A : \A c \in Y : StatusLineTurn(a, c) \in A

LEMMA StatusLineIs ==
  ASSUME NEW Y, NEW A, NEW data \in Seq(Y), StatusLineClosed(A, Y)
  PROVE  \E g : StatusLineBy(g, A, data)
<1> DEFINE L     == Len(data)
           Eq(f) == f = [s \in SUBSET (DOMAIN data) |->
                           IF s = {} THEN [st |-> "init", len |-> 0]
                           ELSE StatusLineTurn(f[s \ {Max(s)}], data[Max(s)])]
           step  == [na \in (1 .. L) \X A |-> StatusLineTurn(na[2], data[na[1]])]
           i     == CHOOSE f : Eq(f)
<1>1. L \in Nat /\ DOMAIN data = 1 .. L /\ \A n \in 1 .. L : data[n] \in Y
  OBVIOUS
<1>2. Loop(StatusLineStep, data) = i[1 .. L]
  <2>1. Loop(StatusLineStep, data) = i[DOMAIN data]
    BY DEF Loop, StatusLineTurn, FoldLeft, MapThenFoldSet
  <2> QED
    BY <1>1, <2>1
<1>3. [st |-> "init", len |-> 0] \in A /\ step \in [(1 .. L) \X A -> A]
  BY <1>1 DEF StatusLineClosed
<1>4. \A n \in 1 .. L : \A a \in A : step[<<n, a>>] = StatusLineTurn(a, data[n])
  OBVIOUS
<1> HIDE DEF step, L
<1>5. PICK f \in [SUBSET (1 .. L) -> A] : FoldsOver(f, L, [st |-> "init", len |-> 0], step)
  BY <1>1, <1>3, MaskedFold
<1>6. ASSUME NEW x \in SUBSET (1 .. L), x # {}
      PROVE  f[x] = StatusLineTurn(f[x \ {Max(x)}], data[Max(x)])
  <2>1. Max(x) \in 1 .. L /\ f[x \ {Max(x)}] \in A
    BY <1>5, <1>6 DEF FoldsOver
  <2> QED
    BY <1>4, <1>5, <1>6, <2>1 DEF FoldsOver
<1>7. Eq(f)
  <2>1. f = [s \in SUBSET (1 .. L) |->
               IF s = {} THEN [st |-> "init", len |-> 0] ELSE StatusLineTurn(f[s \ {Max(s)}], data[Max(s)])]
    BY <1>5, <1>6 DEF FoldsOver
  <2> QED
    BY <1>1, <2>1
<1>8. Eq(i)
  BY <1>7
<1>9. i = [s \in SUBSET (1 .. L) |->
             IF s = {} THEN [st |-> "init", len |-> 0] ELSE StatusLineTurn(i[s \ {Max(s)}], data[Max(s)])]
  BY <1>1, <1>8
<1> HIDE DEF i
<1>10. Unfolds(i, A, L, [st |-> "init", len |-> 0], step)
  <2>1. i[{}] = [st |-> "init", len |-> 0]
    BY <1>9
  <2>2. ASSUME NEW n \in 1 .. L, i[1 .. n - 1] \in A
        PROVE  i[1 .. n] = step[<<n, i[1 .. n - 1]>>]
    <3> DEFINE x == 1 .. n
    <3>1. x \in SUBSET (1 .. L) /\ x # {} /\ Max(x) = n /\ x \ {n} = 1 .. n - 1
      BY <1>1, UpToIs
    <3>2. i[x] = StatusLineTurn(i[x \ {Max(x)}], data[Max(x)])
      BY <1>9, <3>1
    <3> QED
      BY <1>4, <2>2, <3>1, <3>2
  <2> QED
    BY <2>1, <2>2 DEF Unfolds
<1>11. FoldTyped(A, L, [st |-> "init", len |-> 0], step)
  BY <1>1, <1>3 DEF FoldTyped
<1>12. PICK g : Passes(g, i, A, L, [st |-> "init", len |-> 0], step)
  BY <1>10, <1>11, Unfolded
<1>13. ASSUME NEW n \in 1 .. L PROVE g[n] = StatusLineTurn(g[n - 1], data[n])
  <2>1. g[n - 1] \in A
    BY <1>1, <1>12 DEF Passes
  <2>2. g[n] = step[<<n, g[n - 1]>>]
    BY <1>12 DEF Passes, StepsFrom
  <2> QED
    BY <1>4, <2>1, <2>2
<1>14. g[0] = [st |-> "init", len |-> 0]
  BY <1>12 DEF Passes, StepsFrom
<1> QED
  BY <1>2, <1>12, <1>13, <1>14 DEF L, Passes, StatusLineBy

(* What stands between a header and its body. *)
BodyBy(g, A, data) ==
  /\ g \in [0 .. Len(data) -> A] /\ g[0] = [st |-> "init", len |-> 0]
  /\ \A n \in 1 .. Len(data) : g[n] = BodyTurn(g[n - 1], data[n])
  /\ Loop(BodyStep, data) = g[Len(data)]

BodyClosed(A, Y) ==
  [st |-> "init", len |-> 0] \in A /\ \A a \in A : \A c \in Y : BodyTurn(a, c) \in A

LEMMA BodyIs ==
  ASSUME NEW Y, NEW A, NEW data \in Seq(Y), BodyClosed(A, Y)
  PROVE  \E g : BodyBy(g, A, data)
<1> DEFINE L     == Len(data)
           Eq(f) == f = [s \in SUBSET (DOMAIN data) |->
                           IF s = {} THEN [st |-> "init", len |-> 0]
                           ELSE BodyTurn(f[s \ {Max(s)}], data[Max(s)])]
           step  == [na \in (1 .. L) \X A |-> BodyTurn(na[2], data[na[1]])]
           i     == CHOOSE f : Eq(f)
<1>1. L \in Nat /\ DOMAIN data = 1 .. L /\ \A n \in 1 .. L : data[n] \in Y
  OBVIOUS
<1>2. Loop(BodyStep, data) = i[1 .. L]
  <2>1. Loop(BodyStep, data) = i[DOMAIN data]
    BY DEF Loop, BodyTurn, FoldLeft, MapThenFoldSet
  <2> QED
    BY <1>1, <2>1
<1>3. [st |-> "init", len |-> 0] \in A /\ step \in [(1 .. L) \X A -> A]
  BY <1>1 DEF BodyClosed
<1>4. \A n \in 1 .. L : \A a \in A : step[<<n, a>>] = BodyTurn(a, data[n])
  OBVIOUS
<1> HIDE DEF step, L
<1>5. PICK f \in [SUBSET (1 .. L) -> A] : FoldsOver(f, L, [st |-> "init", len |-> 0], step)
  BY <1>1, <1>3, MaskedFold
<1>6. ASSUME NEW x \in SUBSET (1 .. L), x # {}
      PROVE  f[x] = BodyTurn(f[x \ {Max(x)}], data[Max(x)])
  <2>1. Max(x) \in 1 .. L /\ f[x \ {Max(x)}] \in A
    BY <1>5, <1>6 DEF FoldsOver
  <2> QED
    BY <1>4, <1>5, <1>6, <2>1 DEF FoldsOver
<1>7. Eq(f)
  <2>1. f = [s \in SUBSET (1 .. L) |->
               IF s = {} THEN [st |-> "init", len |-> 0] ELSE BodyTurn(f[s \ {Max(s)}], data[Max(s)])]
    BY <1>5, <1>6 DEF FoldsOver
  <2> QED
    BY <1>1, <2>1
<1>8. Eq(i)
  BY <1>7
<1>9. i = [s \in SUBSET (1 .. L) |->
             IF s = {} THEN [st |-> "init", len |-> 0] ELSE BodyTurn(i[s \ {Max(s)}], data[Max(s)])]
  BY <1>1, <1>8
<1> HIDE DEF i
<1>10. Unfolds(i, A, L, [st |-> "init", len |-> 0], step)
  <2>1. i[{}] = [st |-> "init", len |-> 0]
    BY <1>9
  <2>2. ASSUME NEW n \in 1 .. L, i[1 .. n - 1] \in A
        PROVE  i[1 .. n] = step[<<n, i[1 .. n - 1]>>]
    <3> DEFINE x == 1 .. n
    <3>1. x \in SUBSET (1 .. L) /\ x # {} /\ Max(x) = n /\ x \ {n} = 1 .. n - 1
      BY <1>1, UpToIs
    <3>2. i[x] = BodyTurn(i[x \ {Max(x)}], data[Max(x)])
      BY <1>9, <3>1
    <3> QED
      BY <1>4, <2>2, <3>1, <3>2
  <2> QED
    BY <2>1, <2>2 DEF Unfolds
<1>11. FoldTyped(A, L, [st |-> "init", len |-> 0], step)
  BY <1>1, <1>3 DEF FoldTyped
<1>12. PICK g : Passes(g, i, A, L, [st |-> "init", len |-> 0], step)
  BY <1>10, <1>11, Unfolded
<1>13. ASSUME NEW n \in 1 .. L PROVE g[n] = BodyTurn(g[n - 1], data[n])
  <2>1. g[n - 1] \in A
    BY <1>1, <1>12 DEF Passes
  <2>2. g[n] = step[<<n, g[n - 1]>>]
    BY <1>12 DEF Passes, StepsFrom
  <2> QED
    BY <1>4, <2>1, <2>2
<1>14. g[0] = [st |-> "init", len |-> 0]
  BY <1>12 DEF Passes, StepsFrom
<1> QED
  BY <1>2, <1>12, <1>13, <1>14 DEF L, Passes, BodyBy

(* The fields of a header. *)
HeaderBy(g, A, data) ==
  /\ g \in [0 .. Len(data) -> A] /\ g[0] = NoHeader
  /\ \A n \in 1 .. Len(data) : g[n] = HeaderStep(g[n - 1], data[n])
  /\ HeaderLoop(data) = g[Len(data)]

HeaderClosed(A, Y) ==
  NoHeader \in A /\ \A a \in A : \A c \in Y : HeaderStep(a, c) \in A

LEMMA HeaderIs ==
  ASSUME NEW Y, NEW A, NEW data \in Seq(Y), HeaderClosed(A, Y)
  PROVE  \E g : HeaderBy(g, A, data)
<1> DEFINE L     == Len(data)
           Eq(f) == f = [s \in SUBSET (DOMAIN data) |->
                           IF s = {} THEN NoHeader
                           ELSE HeaderStep(f[s \ {Max(s)}], data[Max(s)])]
           step  == [na \in (1 .. L) \X A |-> HeaderStep(na[2], data[na[1]])]
           i     == CHOOSE f : Eq(f)
<1>1. L \in Nat /\ DOMAIN data = 1 .. L /\ \A n \in 1 .. L : data[n] \in Y
  OBVIOUS
<1>2. HeaderLoop(data) = i[1 .. L]
  <2>1. HeaderLoop(data) = i[DOMAIN data]
    BY DEF HeaderLoop, NoHeader, FoldLeft, MapThenFoldSet
  <2> QED
    BY <1>1, <2>1
<1>3. NoHeader \in A /\ step \in [(1 .. L) \X A -> A]
  BY <1>1 DEF HeaderClosed
<1>4. \A n \in 1 .. L : \A a \in A : step[<<n, a>>] = HeaderStep(a, data[n])
  OBVIOUS
<1> HIDE DEF step, L
<1>5. PICK f \in [SUBSET (1 .. L) -> A] : FoldsOver(f, L, NoHeader, step)
  BY <1>1, <1>3, MaskedFold
<1>6. ASSUME NEW x \in SUBSET (1 .. L), x # {}
      PROVE  f[x] = HeaderStep(f[x \ {Max(x)}], data[Max(x)])
  <2>1. Max(x) \in 1 .. L /\ f[x \ {Max(x)}] \in A
    BY <1>5, <1>6 DEF FoldsOver
  <2> QED
    BY <1>4, <1>5, <1>6, <2>1 DEF FoldsOver
<1>7. Eq(f)
  <2>1. f = [s \in SUBSET (1 .. L) |->
               IF s = {} THEN NoHeader ELSE HeaderStep(f[s \ {Max(s)}], data[Max(s)])]
    BY <1>5, <1>6 DEF FoldsOver
  <2> QED
    BY <1>1, <2>1
<1>8. Eq(i)
  BY <1>7
<1>9. i = [s \in SUBSET (1 .. L) |->
             IF s = {} THEN NoHeader ELSE HeaderStep(i[s \ {Max(s)}], data[Max(s)])]
  BY <1>1, <1>8
<1> HIDE DEF i
<1>10. Unfolds(i, A, L, NoHeader, step)
  <2>1. i[{}] = NoHeader
    BY <1>9
  <2>2. ASSUME NEW n \in 1 .. L, i[1 .. n - 1] \in A
        PROVE  i[1 .. n] = step[<<n, i[1 .. n - 1]>>]
    <3> DEFINE x == 1 .. n
    <3>1. x \in SUBSET (1 .. L) /\ x # {} /\ Max(x) = n /\ x \ {n} = 1 .. n - 1
      BY <1>1, UpToIs
    <3>2. i[x] = HeaderStep(i[x \ {Max(x)}], data[Max(x)])
      BY <1>9, <3>1
    <3> QED
      BY <1>4, <2>2, <3>1, <3>2
  <2> QED
    BY <2>1, <2>2 DEF Unfolds
<1>11. FoldTyped(A, L, NoHeader, step)
  BY <1>1, <1>3 DEF FoldTyped
<1>12. PICK g : Passes(g, i, A, L, NoHeader, step)
  BY <1>10, <1>11, Unfolded
<1>13. ASSUME NEW n \in 1 .. L PROVE g[n] = HeaderStep(g[n - 1], data[n])
  <2>1. g[n - 1] \in A
    BY <1>1, <1>12 DEF Passes
  <2>2. g[n] = step[<<n, g[n - 1]>>]
    BY <1>12 DEF Passes, StepsFrom
  <2> QED
    BY <1>4, <2>1, <2>2
<1>14. g[0] = NoHeader
  BY <1>12 DEF Passes, StepsFrom
<1> QED
  BY <1>2, <1>12, <1>13, <1>14 DEF L, Passes, HeaderBy

-----------------------------------------------------------------------------
(* The recombinders. *)

LEMMA DigitValIs ==
  \A c \in DOMAIN DigitVal : DigitVal[c] \in Nat
BY DEF DigitVal, Digits

LEMMA DigitsAre ==
  Digits \subseteq DOMAIN DigitVal
BY DEF DigitVal

LEMMA NumberNat ==
  ASSUME NEW base \in Nat, NEW digits \in Seq(DOMAIN DigitVal)
  PROVE  Number(base, digits) \in Nat
<1> DEFINE Y == DOMAIN DigitVal
<1>1. NumberClosed(Nat, base, Y)
  BY DigitValIs DEF NumberClosed
<1>2. digits \in Seq(Y)
  OBVIOUS
<1> HIDE DEF Y
<1>3. PICK g : NumberBy(g, Nat, base, digits)
  BY <1>1, <1>2, NumberIs
<1> QED
  BY <1>2, <1>3 DEF NumberBy

LEMMA DecimalIs ==
  ASSUME NEW Y, NEW s \in Seq(Y)
  PROVE  DecimalOrZero(s) \in Nat
<1>1. CASE s # <<>> /\ ToSet(s) \subseteq Digits
  <2>1. \A i \in 1 .. Len(s) : s[i] \in DOMAIN DigitVal
    BY <1>1, DigitsAre DEF ToSet
  <2>2. s \in Seq(DOMAIN DigitVal)
    BY <2>1
  <2> QED
    BY <1>1, <2>2, NumberNat DEF DecimalOrZero
<1>2. CASE ~ (s # <<>> /\ ToSet(s) \subseteq Digits)
  BY <1>2 DEF DecimalOrZero
<1> QED
  BY <1>1, <1>2

HexWords == {h \in Seq(DOMAIN DigitVal) : Len(h) <= MaxHexSize}

(* Data is read only while some is missing. *)
Chunks ==
  {k \in [st : ChunkStates, size : Nat, hex : HexWords, trailer : BOOLEAN] :
     k.st = "data" => k.size > 0}

LEMMA NewChunkIs == NewChunk \in Chunks
<1>1. <<>> \in HexWords
  BY MaxHexAssumption DEF HexWords
<1> QED
  BY <1>1 DEF NewChunk, Chunks, ChunkStates

LEMMA ChunkStepIs ==
  ASSUME NEW k \in Chunks, NEW c
  PROVE  ChunkStep(k, c) \in Chunks
<1>1. /\ k \in [st : ChunkStates, size : Nat, hex : HexWords, trailer : BOOLEAN]
      /\ k.st = "data" => k.size > 0
  BY DEF Chunks
<1>2. ASSUME NEW st \in ChunkStates \ {"data"} PROVE [k EXCEPT !.st = st] \in Chunks
  BY <1>1, <1>2 DEF Chunks
<1>3. ASSUME NEW q \in Chunks PROVE ChunkLf(q, c) \in Chunks
  BY DEF ChunkLf, Chunks, ChunkStates
<1>4. CASE k.st = "hex"
  <2>1. CASE IsHexDigit(c)
    <3>1. CASE Len(k.hex) < MaxHexSize
      <4>1. Append(k.hex, c) \in HexWords
        BY <1>1, <2>1, <3>1, MaxHexAssumption DEF HexWords, IsHexDigit
      <4>2. ChunkStep(k, c) = [k EXCEPT !.hex = Append(k.hex, c)]
        BY <1>4, <2>1, <3>1 DEF ChunkStep, ChunkHex
      <4> QED
        BY <1>1, <1>4, <4>1, <4>2 DEF Chunks
    <3>2. CASE ~ (Len(k.hex) < MaxHexSize)
      BY <1>2, <1>4, <2>1, <3>2 DEF ChunkStep, ChunkHex, ChunkStates
    <3> QED
      BY <3>1, <3>2
  <2>2. CASE ~ IsHexDigit(c)
    <3>1. CASE k.hex = <<>>
      BY <1>2, <1>4, <2>2, <3>1 DEF ChunkStep, ChunkStates
    <3>2. CASE k.hex # <<>>
      <4> DEFINE q == [k EXCEPT !.size = Number(16, k.hex)]
      <4>1. Number(16, k.hex) \in Nat
        BY <1>1, NumberNat DEF HexWords
      <4>2. q \in Chunks
        BY <1>1, <1>4, <4>1 DEF Chunks
      <4>3. ChunkStep(k, c) = ChunkLf(q, c)
        BY <1>4, <2>2, <3>2 DEF ChunkStep
      <4> QED
        BY <1>3, <4>2, <4>3
    <3> QED
      BY <3>1, <3>2
  <2> QED
    BY <2>1, <2>2
<1>5. CASE k.st = "lf"
  BY <1>3, <1>5 DEF ChunkStep
<1>6. CASE k.st = "data"
  <2>1. ChunkStep(k, c) = [k EXCEPT !.size = k.size - 1, !.st = IF k.size = 1 THEN "postlf" ELSE "data"]
    BY <1>6 DEF ChunkStep, ChunkData
  <2>2. CASE k.size = 1
    <3>1. ChunkStep(k, c) = [k EXCEPT !.size = 0, !.st = "postlf"]
      BY <2>1, <2>2
    <3> DEFINE n == [k EXCEPT !.size = 0, !.st = "postlf"]
    <3>2. n \in [st : ChunkStates, size : Nat, hex : HexWords, trailer : BOOLEAN]
      BY <1>1 DEF ChunkStates
    <3>3. n.st = "postlf"
      BY <1>1
    <3> HIDE DEF n
    <3>4. n \in Chunks
      BY <3>2, <3>3 DEF Chunks
    <3> QED
      BY <3>1, <3>4 DEF n
  <2>3. CASE k.size # 1
    <3>1. k.size - 1 \in Nat /\ k.size - 1 > 0
      BY <1>1, <1>6, <2>3
    <3>2. ChunkStep(k, c) = [k EXCEPT !.size = k.size - 1, !.st = "data"]
      BY <2>1, <2>3
    <3> QED
      BY <1>1, <3>1, <3>2 DEF Chunks, ChunkStates
  <2> QED
    BY <2>2, <2>3
<1>7. CASE k.st = "postlf"
  <2>1. ChunkStep(k, c) \in {NewChunk, k, [k EXCEPT !.st = "fail"]}
    BY <1>7 DEF ChunkStep, Eol
  <2> QED
    BY <1>2, <2>1, NewChunkIs DEF ChunkStates
<1>8. \A q \in Chunks : q.st # "data" => ChunkPostCr(q, c) \in Chunks
  BY DEF ChunkPostCr, Chunks, ChunkStates, Eol
<1>9. CASE k.st = "trailer"
  <2>1. ChunkStep(k, c) \in {[k EXCEPT !.trailer = TRUE], ChunkPostCr(k, c), [k EXCEPT !.st = "postcr"],
                             [k EXCEPT !.st = "trailer_cr"]}
    BY <1>9 DEF ChunkStep
  <2>2. [k EXCEPT !.trailer = TRUE] \in Chunks
    BY <1>1, <1>9 DEF Chunks
  <2> QED
    BY <1>2, <1>8, <1>9, <2>1, <2>2 DEF ChunkStates
<1>10. CASE k.st = "trailer_cr"
  BY <1>2, <1>10 DEF ChunkStep, ChunkStates
<1>11. CASE k.st = "postcr"
  BY <1>8, <1>11 DEF ChunkStep
<1>12. CASE k.st = "stop"
  BY <1>2, <1>12 DEF ChunkStep, ChunkStates
<1>13. CASE k.st \in {"done", "fail"}
  BY <1>13 DEF ChunkStep
<1> QED
  BY <1>1, <1>4, <1>5, <1>6, <1>7, <1>9, <1>10, <1>11, <1>12, <1>13 DEF ChunkStates

Calls == {NoCall, Failed} \cup {Done(n) : n \in Nat}

Recombs ==
  [type : {"unknown", "length", "chunked"}, length : Nat, appended : Nat, chunk : Chunks,
   parsed : Nat, call : Calls]

LEMMA NewRecombinderIs == NewRecombinder \in Recombs
BY NewChunkIs DEF NewRecombinder, Recombs, Calls

LEMMA ChunkTurnIs ==
  ASSUME NEW r \in Recombs, NEW c
  PROVE  ChunkTurn(r, c) \in Recombs
<1>1. ChunkStep(r.chunk, c) \in Chunks
  BY ChunkStepIs DEF Recombs
<1>2. (IF r.chunk.st = "data" THEN r.parsed + 1 ELSE r.parsed) \in Nat
  BY DEF Recombs
<1>3. ChunkTurn(r, c) = [r EXCEPT !.chunk = ChunkStep(r.chunk, c),
                                  !.parsed = IF r.chunk.st = "data" THEN r.parsed + 1 ELSE r.parsed]
  BY DEF ChunkTurn
<1> QED
  BY <1>1, <1>2, <1>3 DEF Recombs

LEMMA ChunkFsmIs ==
  ASSUME NEW Y, NEW data \in Seq(Y), NEW r \in Recombs
  PROVE  ProcChunkFsm(r, data) \in Recombs
<1>1. ChunksClosed(Recombs, r, Y)
  BY ChunkTurnIs DEF ChunksClosed
<1>2. PICK g : ChunksBy(g, Recombs, r, data)
  BY <1>1, ChunksIs
<1> QED
  BY <1>2 DEF ChunksBy

LEMMA AppendDataIs ==
  ASSUME NEW Y, NEW data \in Seq(Y), NEW r \in Recombs
  PROVE  AppendData(r, data) \in Recombs
<1> DEFINE q == [r EXCEPT !.call = NoCall]
<1>1. q \in Recombs
  BY DEF Recombs, Calls
<1>2. Len(data) \in Nat
  OBVIOUS
<1>3. ASSUME NEW p \in Recombs, NEW call \in Calls PROVE [p EXCEPT !.call = call] \in Recombs
  BY <1>3 DEF Recombs
<1>4. \A n \in Nat : Done(n) \in Calls
  BY DEF Calls
<1>5. Failed \in Calls
  BY DEF Calls
<1>6. CASE r.type = "length"
  <2> DEFINE p == [q EXCEPT !.appended = q.appended + Len(data)]
  <2>1. p \in Recombs /\ q.length \in Nat
    <3> HIDE DEF q
    <3> QED
      BY <1>1, <1>2 DEF Recombs
  <2>2. AppendData(r, data) = AppendLength(q, data)
    BY <1>6 DEF AppendData
  <2>3. AppendLength(q, data) \in {[q EXCEPT !.call = Done(0)], p, [p EXCEPT !.call = Done(q.length)]}
    BY DEF AppendLength
  <2> HIDE DEF p, q
  <2> QED
    BY <1>1, <1>3, <1>4, <2>1, <2>2, <2>3
<1>7. CASE r.type = "chunked"
  <2> DEFINE p == ProcChunkFsm(q, data)
  <2>1. p \in Recombs
    BY <1>1, ChunkFsmIs
  <2>2. AppendData(r, data) = AppendChunked(q, data)
    BY <1>7 DEF AppendData
  <2>3. AppendChunked(q, data) \in
          {[p EXCEPT !.call = Failed], [p EXCEPT !.call = Done(p.parsed), !.parsed = 0], p}
    BY DEF AppendChunked
  <2> HIDE DEF p, q
  <2>4. [p EXCEPT !.call = Done(p.parsed), !.parsed = 0] \in Recombs
    BY <1>4, <2>1 DEF Recombs
  <2> QED
    BY <1>3, <1>5, <2>1, <2>2, <2>3, <2>4
<1>8. CASE r.type = "unknown"
  <2>1. AppendData(r, data) = [q EXCEPT !.call = Done(Len(data))]
    BY <1>8 DEF AppendData, AppendUnknown
  <2> HIDE DEF q
  <2> QED
    BY <1>1, <1>2, <1>3, <1>4, <2>1
<1> QED
  BY <1>6, <1>7, <1>8 DEF Recombs

-----------------------------------------------------------------------------
(* The parsers: they make fields and bodies of the words they are given.   *)

Fields(Y) == UNION {[keys -> Seq(Y)] : keys \in SUBSET Seq(Y)}

LEMMA FieldsAre ==
  ASSUME NEW Y, NEW f \in Fields(Y)
  PROVE  /\ \A k \in DOMAIN f : k \in Seq(Y) /\ f[k] \in Seq(Y)
         /\ f = [k \in DOMAIN f |-> f[k]]
BY DEF Fields

LEMMA FieldAdded ==
  ASSUME NEW Y, NEW f \in Fields(Y), NEW key \in Seq(Y), NEW val \in Seq(Y)
  PROVE  [k \in {key} \cup DOMAIN f |-> IF k \in DOMAIN f THEN f[k] ELSE val] \in Fields(Y)
<1> DEFINE D == {key} \cup DOMAIN f
           h == [k \in D |-> IF k \in DOMAIN f THEN f[k] ELSE val]
<1>1. D \in SUBSET Seq(Y)
  BY FieldsAre
<1>2. h \in [D -> Seq(Y)]
  BY FieldsAre
<1> HIDE DEF D, h
<1>3. h \in Fields(Y)
  BY <1>1, <1>2 DEF Fields
<1> QED
  BY <1>3 DEF D, h

(* Those that were there before stay. *)
LEMMA FieldsJoined ==
  ASSUME NEW Y, NEW f \in Fields(Y), NEW g \in Fields(Y)
  PROVE  InsertFields(f, g) \in Fields(Y)
<1> DEFINE D == DOMAIN f \cup DOMAIN g
           h == [k \in D |-> IF k \in DOMAIN f THEN f[k] ELSE g[k]]
<1>1. D \in SUBSET Seq(Y)
  BY FieldsAre
<1>2. h \in [D -> Seq(Y)]
  BY FieldsAre
<1>3. InsertFields(f, g) = h
  BY DEF InsertFields
<1> HIDE DEF D, h
<1>4. h \in Fields(Y)
  BY <1>1, <1>2 DEF Fields
<1> QED
  BY <1>3, <1>4

LEMMA NoFieldsIs ==
  ASSUME NEW Y
  PROVE  NoFields \in Fields(Y) /\ \A f \in Fields(Y) : InsertFields(NoFields, f) = f
<1>1. NoFields \in [{} -> Seq(Y)] /\ {} \in SUBSET Seq(Y) /\ DOMAIN NoFields = {}
  BY DEF NoFields
<1>2. NoFields \in Fields(Y)
  BY <1>1 DEF Fields
<1>3. ASSUME NEW f \in Fields(Y) PROVE InsertFields(NoFields, f) = f
  <2>1. InsertFields(NoFields, f) = [k \in DOMAIN f |-> f[k]]
    BY <1>1 DEF InsertFields
  <2> QED
    BY <2>1, FieldsAre
<1> QED
  BY <1>2, <1>3

Headers(Y) ==
  [st : {"stop", "init", "key", "colon", "value", "post_lf"}, len : Nat, key : Seq(Y), val : Seq(Y),
   fields : Fields(Y)]

LEMMA NoHeaderIs == \A Y : NoHeader \in Headers(Y)
<1> TAKE Y
<1> DEFINE f == [k \in {} |-> <<>>]
<1>1. f \in [{} -> Seq(Y)] /\ {} \in SUBSET Seq(Y)
  OBVIOUS
<1>2. NoHeader = [st |-> "init", len |-> 0, key |-> <<>>, val |-> <<>>, fields |-> f]
  BY DEF NoHeader
<1> HIDE DEF f
<1>3. f \in Fields(Y)
  BY <1>1 DEF Fields
<1>4. <<>> \in Seq(Y)
  OBVIOUS
<1> QED
  BY <1>2, <1>3, <1>4 DEF Headers

LEMMA InsertIs ==
  ASSUME NEW Y, NEW h \in Headers(Y)
  PROVE  Insert(h) \in Headers(Y)
<1> DEFINE f == [k \in {h.key} \cup DOMAIN h.fields |->
                   IF k \in DOMAIN h.fields THEN h.fields[k] ELSE h.val]
<1>1. h.fields \in Fields(Y) /\ h.key \in Seq(Y) /\ h.val \in Seq(Y)
  BY DEF Headers
<1>2. f \in Fields(Y)
  BY <1>1, FieldAdded
<1>3. Insert(h) = [h EXCEPT !.fields = f]
  BY DEF Insert
<1> HIDE DEF f
<1> QED
  BY <1>2, <1>3 DEF Headers

LEMMA Consumed ==
  ASSUME NEW Y, NEW h \in Headers(Y)
  PROVE  [h EXCEPT !.len = h.len + 1] \in Headers(Y)
<1> DEFINE n == h.len + 1
<1>1. n \in Nat
  BY DEF Headers
<1> HIDE DEF n
<1>2. [h EXCEPT !.len = n] \in Headers(Y)
  BY <1>1 DEF Headers
<1> QED
  BY <1>2 DEF n

LEMMA HeaderStepIs ==
  ASSUME NEW Y, NEW h \in Headers(Y), NEW c \in Y
  PROVE  HeaderStep(h, c) \in Headers(Y)
<1> DEFINE took     == [h EXCEPT !.len = h.len + 1]
           ended(v) == [Insert([v EXCEPT !.len = v.len + 1]) EXCEPT !.st = IF c = "LF" THEN "init" ELSE "post_lf"]
           void     == [h EXCEPT !.val = <<>>]
<1>1. /\ h.st \in {"stop", "init", "key", "colon", "value", "post_lf"} /\ h.len \in Nat
      /\ h.key \in Seq(Y) /\ h.val \in Seq(Y) /\ h.fields \in Fields(Y)
  BY DEF Headers
<1>2. took \in Headers(Y)
  BY Consumed
<1>3. /\ <<>> \in Seq(Y) /\ <<c>> \in Seq(Y)
      /\ Append(h.key, c) \in Seq(Y) /\ Append(h.val, c) \in Seq(Y)
  BY <1>1
<1>4. void \in Headers(Y)
  BY <1>3 DEF Headers
<1>5. ASSUME NEW v \in Headers(Y) PROVE ended(v) \in Headers(Y)
  <2> DEFINE w == Insert([v EXCEPT !.len = v.len + 1])
  <2>1. [v EXCEPT !.len = v.len + 1] \in Headers(Y)
    BY Consumed
  <2>2. w \in Headers(Y)
    BY <2>1, InsertIs
  <2> HIDE DEF w
  <2>3. ASSUME NEW st \in {"init", "post_lf"} PROVE [w EXCEPT !.st = st] \in Headers(Y)
    BY <2>2, <2>3 DEF Headers
  <2>4. ended(v) = [w EXCEPT !.st = IF c = "LF" THEN "init" ELSE "post_lf"]
    BY DEF w
  <2>5. (IF c = "LF" THEN "init" ELSE "post_lf") \in {"init", "post_lf"}
    OBVIOUS
  <2> HIDE DEF ended
  <2> QED
    BY <2>3, <2>4, <2>5
<1>6. CASE h.st = "stop"
  BY <1>6 DEF HeaderStep
<1>7. CASE h.st = "init"
  <2>1. HeaderStep(h, c) \in {[h EXCEPT !.st = "stop"], took, [took EXCEPT !.st = "colon", !.key = <<>>],
                              [took EXCEPT !.st = "key", !.key = <<c>>]}
    BY <1>7 DEF HeaderStep
  <2> HIDE DEF took
  <2> QED
    BY <1>2, <1>3, <2>1 DEF Headers
<1>8. CASE h.st = "key"
  <2>1. HeaderStep(h, c) \in {[took EXCEPT !.st = "colon"], [took EXCEPT !.key = Append(h.key, c)]}
    BY <1>8 DEF HeaderStep
  <2> HIDE DEF took
  <2> QED
    BY <1>2, <1>3, <2>1 DEF Headers
<1>9. CASE h.st = "colon"
  <2>1. HeaderStep(h, c) \in {took, ended(void), [took EXCEPT !.st = "value", !.val = <<c>>]}
    BY <1>9 DEF HeaderStep
  <2> HIDE DEF took, ended, void
  <2> QED
    BY <1>2, <1>3, <1>4, <1>5, <2>1 DEF Headers
<1>10. CASE h.st = "value"
  <2>1. HeaderStep(h, c) \in {ended(h), [took EXCEPT !.val = Append(h.val, c)]}
    BY <1>10 DEF HeaderStep
  <2> HIDE DEF took, ended, void
  <2> QED
    BY <1>2, <1>3, <1>5, <2>1 DEF Headers
<1>11. CASE h.st = "post_lf"
  <2>1. HeaderStep(h, c) \in {[took EXCEPT !.st = "init"], took}
    <3>1. took = [took EXCEPT !.st = "post_lf"]
      BY <1>1, <1>11
    <3> QED
      BY <1>11, <3>1 DEF HeaderStep
  <2> HIDE DEF took
  <2> QED
    BY <1>2, <2>1 DEF Headers
<1> QED
  BY <1>1, <1>6, <1>7, <1>8, <1>9, <1>10, <1>11

RequestLineStates ==
  {"init", "method", "method_post_space", "uri", "uri_post_space", "version", "post_lf", "stop", "fail"}

LEMMA RequestLineSteps ==
  ASSUME NEW Y
  PROVE  RequestLineClosed([st : RequestLineStates, len : Nat], Y)
<1> DEFINE A == [st : RequestLineStates, len : Nat]
<1>1. ASSUME NEW s \in RequestLineStates \ {"stop", "fail"}, NEW c PROVE RequestLineStep(s, c) \in RequestLineStates
  <2>1. s = "init" => RequestLineStep(s, c) \in RequestLineStates
    BY DEF RequestLineStep, PostLf, RequestLineStates
  <2>2. s = "method" => RequestLineStep(s, c) \in RequestLineStates
    BY DEF RequestLineStep, PostLf, RequestLineStates
  <2>3. s = "method_post_space" => RequestLineStep(s, c) \in RequestLineStates
    BY DEF RequestLineStep, PostLf, RequestLineStates
  <2>4. s = "uri" => RequestLineStep(s, c) \in RequestLineStates
    BY DEF RequestLineStep, PostLf, RequestLineStates
  <2>5. s = "uri_post_space" => RequestLineStep(s, c) \in RequestLineStates
    BY DEF RequestLineStep, PostLf, RequestLineStates
  <2>6. s = "version" => RequestLineStep(s, c) \in RequestLineStates
    BY DEF RequestLineStep, PostLf, RequestLineStates
  <2>7. s = "post_lf" => RequestLineStep(s, c) \in RequestLineStates
    BY DEF RequestLineStep, PostLf, RequestLineStates
  <2> QED
    BY <1>1, <2>1, <2>2, <2>3, <2>4, <2>5, <2>6, <2>7 DEF RequestLineStates
<1>2. ASSUME NEW l \in A, NEW c PROVE RequestLineTurn(l, c) \in A
  <2>1. CASE l.st \in {"stop", "fail"}
    BY <2>1 DEF RequestLineTurn
  <2>2. CASE l.st \notin {"stop", "fail"}
    BY <1>1, <2>2 DEF RequestLineTurn
  <2> QED
    BY <2>1, <2>2
<1> QED
  BY <1>2 DEF RequestLineClosed, RequestLineStates

LEMMA RequestLineStops ==
  ASSUME NEW Y, NEW data \in Seq(Y)
  PROVE  Loop(RequestLineStep, data).len \in Nat
<1> DEFINE A == [st : RequestLineStates, len : Nat]
<1>1. RequestLineClosed(A, Y)
  BY RequestLineSteps
<1> HIDE DEF A
<1>2. PICK g : RequestLineBy(g, A, data)
  BY <1>1, RequestLineIs
<1>3. Loop(RequestLineStep, data) \in A
  BY <1>2 DEF RequestLineBy
<1> QED
  BY <1>3 DEF A

StatusLineStates ==
  {"init", "version", "version_post_space", "code", "code_post_space", "reason", "post_lf", "stop", "fail"}

LEMMA StatusLineSteps ==
  ASSUME NEW Y
  PROVE  StatusLineClosed([st : StatusLineStates, len : Nat], Y)
<1> DEFINE A == [st : StatusLineStates, len : Nat]
<1>1. ASSUME NEW s \in StatusLineStates \ {"stop", "fail"}, NEW c PROVE StatusLineStep(s, c) \in StatusLineStates
  <2>1. s = "init" => StatusLineStep(s, c) \in StatusLineStates
    BY DEF StatusLineStep, PostLf, StatusLineStates
  <2>2. s = "version" => StatusLineStep(s, c) \in StatusLineStates
    BY DEF StatusLineStep, PostLf, StatusLineStates
  <2>3. s = "version_post_space" => StatusLineStep(s, c) \in StatusLineStates
    BY DEF StatusLineStep, PostLf, StatusLineStates
  <2>4. s = "code" => StatusLineStep(s, c) \in StatusLineStates
    BY DEF StatusLineStep, PostLf, StatusLineStates
  <2>5. s = "code_post_space" => StatusLineStep(s, c) \in StatusLineStates
    BY DEF StatusLineStep, PostLf, StatusLineStates
  <2>6. s = "reason" => StatusLineStep(s, c) \in StatusLineStates
    BY DEF StatusLineStep, PostLf, StatusLineStates
  <2>7. s = "post_lf" => StatusLineStep(s, c) \in StatusLineStates
    BY DEF StatusLineStep, PostLf, StatusLineStates
  <2> QED
    BY <1>1, <2>1, <2>2, <2>3, <2>4, <2>5, <2>6, <2>7 DEF StatusLineStates
<1>2. ASSUME NEW l \in A, NEW c PROVE StatusLineTurn(l, c) \in A
  <2>1. CASE l.st \in {"stop", "fail"}
    BY <2>1 DEF StatusLineTurn
  <2>2. CASE l.st \notin {"stop", "fail"}
    BY <1>1, <2>2 DEF StatusLineTurn
  <2> QED
    BY <2>1, <2>2
<1> QED
  BY <1>2 DEF StatusLineClosed, StatusLineStates

LEMMA StatusLineStops ==
  ASSUME NEW Y, NEW data \in Seq(Y)
  PROVE  Loop(StatusLineStep, data).len \in Nat
<1> DEFINE A == [st : StatusLineStates, len : Nat]
<1>1. StatusLineClosed(A, Y)
  BY StatusLineSteps
<1> HIDE DEF A
<1>2. PICK g : StatusLineBy(g, A, data)
  BY <1>1, StatusLineIs
<1>3. Loop(StatusLineStep, data) \in A
  BY <1>2 DEF StatusLineBy
<1> QED
  BY <1>3 DEF A

BodyStates ==
  {"init", "post_lf", "stop"}

LEMMA BodySteps ==
  ASSUME NEW Y
  PROVE  BodyClosed([st : BodyStates, len : Nat], Y)
<1> DEFINE A == [st : BodyStates, len : Nat]
<1>1. ASSUME NEW s \in BodyStates \ {"stop", "fail"}, NEW c PROVE BodyStep(s, c) \in BodyStates
  <2>1. s = "init" => BodyStep(s, c) \in BodyStates
    BY DEF BodyStep, PostLf, BodyStates
  <2>2. s = "post_lf" => BodyStep(s, c) \in BodyStates
    BY DEF BodyStep, PostLf, BodyStates
  <2> QED
    BY <1>1, <2>1, <2>2 DEF BodyStates
<1>2. ASSUME NEW l \in A, NEW c PROVE BodyTurn(l, c) \in A
  <2>1. CASE l.st \in {"stop", "fail"}
    BY <2>1 DEF BodyTurn
  <2>2. CASE l.st \notin {"stop", "fail"}
    BY <1>1, <2>2 DEF BodyTurn
  <2> QED
    BY <2>1, <2>2
<1> QED
  BY <1>2 DEF BodyClosed, BodyStates

LEMMA BodyStops ==
  ASSUME NEW Y, NEW data \in Seq(Y)
  PROVE  Loop(BodyStep, data).len \in Nat
<1> DEFINE A == [st : BodyStates, len : Nat]
<1>1. BodyClosed(A, Y)
  BY BodySteps
<1> HIDE DEF A
<1>2. PICK g : BodyBy(g, A, data)
  BY <1>1, BodyIs
<1>3. Loop(BodyStep, data) \in A
  BY <1>2 DEF BodyBy
<1> QED
  BY <1>3 DEF A

LEMMA FromIs ==
  ASSUME NEW Y, NEW data \in Seq(Y), NEW n \in Nat
  PROVE  From(data, n) \in Seq(Y)
BY DEF From

LEMMA HeaderParsed ==
  ASSUME NEW Y, NEW data \in Seq(Y)
  PROVE  ParseHttpHeader(data) \in Headers(Y)
<1> DEFINE h == HeaderLoop(data)
<1>1. HeaderClosed(Headers(Y), Y)
  BY NoHeaderIs, HeaderStepIs DEF HeaderClosed
<1>2. PICK g : HeaderBy(g, Headers(Y), data)
  BY <1>1, HeaderIs
<1>3. h \in Headers(Y)
  BY <1>2 DEF HeaderBy
<1>4. ParseHttpHeader(data) \in {h, [h EXCEPT !.st = "stop"]}
  BY DEF ParseHttpHeader, HeaderLoop, NoHeader
<1> HIDE DEF h
<1>5. [h EXCEPT !.st = "stop"] \in Headers(Y)
  BY <1>3 DEF Headers
<1> QED
  BY <1>3, <1>4, <1>5

LEMMA MessageIs ==
  ASSUME NEW Y, NEW data \in Seq(Y), NEW line, line.len \in Nat
  PROVE  /\ ParseHttpMessage(line, data).fields \in Fields(Y)
         /\ ParseHttpMessage(line, data).body \in Seq(Y)
<1> DEFINE rest == From(data, line.len)
           head == ParseHttpHeader(rest)
           tail == From(rest, head.len)
           sep  == ParseHttpBody(tail)
<1>1. rest \in Seq(Y)
  BY FromIs
<1>2. head \in Headers(Y)
  BY <1>1, HeaderParsed
<1>3. head.fields \in Fields(Y) /\ head.len \in Nat
  BY <1>2 DEF Headers
<1>4. tail \in Seq(Y)
  BY <1>1, <1>3, FromIs
<1>5. sep.len \in Nat
  BY <1>4, BodyStops DEF ParseHttpBody
<1>6. From(tail, sep.len) \in Seq(Y)
  BY <1>4, <1>5, FromIs
<1>7. /\ ParseHttpMessage(line, data).fields = head.fields
      /\ ParseHttpMessage(line, data).body = From(tail, sep.len)
  BY DEF ParseHttpMessage
<1> QED
  BY <1>3, <1>6, <1>7

LEMMA RequestIs ==
  ASSUME NEW Y, NEW data \in Seq(Y)
  PROVE  /\ ParseHttpRequest(data).fields \in Fields(Y)
         /\ ParseHttpRequest(data).body \in Seq(Y)
BY RequestLineStops, MessageIs DEF ParseHttpRequest, ParseHttpRequestLine

LEMMA ResponseIs ==
  ASSUME NEW Y, NEW data \in Seq(Y)
  PROVE  /\ ParseHttpResponse(data).fields \in Fields(Y)
         /\ ParseHttpResponse(data).body \in Seq(Y)
<1>1. ParseHttpStatusLine(data).len = Loop(StatusLineStep, data).len
  BY DEF ParseHttpStatusLine
<1> QED
  BY <1>1, StatusLineStops, MessageIs DEF ParseHttpResponse

-----------------------------------------------------------------------------
(* A run session. *)

(* What SetTransferType asserts of the fields of a message. *)
FieldApart(fields) == ~ {<<"te">>, <<"cl">>} \subseteq DOMAIN fields

LEMMA WordApart ==
  ASSUME NEW Y, NEW f \in Fields(Y), ~ {"te", "cl"} \subseteq Y
  PROVE  FieldApart(f)
<1>1. ASSUME NEW c, <<c>> \in DOMAIN f PROVE c \in Y
  <2>1. <<c>> \in Seq(Y)
    BY <1>1, FieldsAre
  <2> QED
    BY <2>1
<1> QED
  BY <1>1 DEF FieldApart

LEMMA TransferIs ==
  ASSUME NEW Y, NEW r \in Recombs, NEW f \in Fields(Y)
  PROVE  SetTransferType(r, f) \in Recombs
<1>1. CASE <<"te">> \in DOMAIN f
  <2>1. SetTransferType(r, f) = [r EXCEPT !.type = "chunked", !.chunk = NewChunk]
    BY <1>1 DEF SetTransferType
  <2> QED
    BY <2>1, NewChunkIs DEF Recombs
<1>2. CASE <<"te">> \notin DOMAIN f /\ <<"cl">> \in DOMAIN f
  <2>1. SetTransferType(r, f) = [r EXCEPT !.type = "length", !.length = DecimalOrZero(f[<<"cl">>])]
    BY <1>2 DEF SetTransferType
  <2>2. f[<<"cl">>] \in Seq(Y)
    BY <1>2, FieldsAre
  <2>3. DecimalOrZero(f[<<"cl">>]) \in Nat
    BY <2>2, DecimalIs
  <2> QED
    BY <2>1, <2>3 DEF Recombs
<1>3. CASE <<"te">> \notin DOMAIN f /\ <<"cl">> \notin DOMAIN f
  <2>1. SetTransferType(r, f) = [r EXCEPT !.type = "unknown"]
    BY <1>3 DEF SetTransferType
  <2> QED
    BY <2>1 DEF Recombs
<1> QED
  BY <1>1, <1>2, <1>3

Sessions(Y) ==
  [st : States, request : Seq(Y), response : Seq(Y), left : Fields(Y), recomb : Recombs, reqSize : Nat,
   respSize : Nat, out : {"none", "failed", "completed"}]

(* What stays in the table: what goes on, or has met both fields. *)
GoesOn(s, Y) ==
  /\ s \in Sessions(Y) /\ s.out = "none" /\ s.respSize = 0
  /\ s.st \notin {"assert", "recved_response"}
  /\ s.st = "recving_request_header" => s.request # <<>>
  /\ s.st = "recving_response_header" => s.response # <<>>

Broke(s, Y) ==
  /\ s \in Sessions(Y) /\ s.out = "none" /\ s.respSize = 0 /\ s.st = "assert"
  /\ {"te", "cl"} \subseteq Y

Stays(s, Y) == GoesOn(s, Y) \/ Broke(s, Y)

Results(s, Y) == s \in Sessions(Y) /\ (s.out = "none" => Stays(s, Y))

LEMMA NewSessionIs == \A Y : GoesOn(NewRunSession, Y)
BY NewRecombinderIs, NoFieldsIs DEF GoesOn, NewRunSession, Sessions, States

LEMMA FailedIs ==
  ASSUME NEW Y, NEW s \in Sessions(Y)
  PROVE  Results(SessionFailed(s), Y)
<1>1. SessionFailed(s) \in Sessions(Y)
  BY DEF SessionFailed, Sessions
<1>2. SessionFailed(s).out # "none"
  BY DEF SessionFailed, Sessions
<1> QED
  BY <1>1, <1>2 DEF Results

(* In the middle of a body. *)
InBody(s, Y) ==
  /\ s \in Sessions(Y) /\ s.out = "none" /\ s.respSize = 0
  /\ s.st \in {"recving_request_data", "recving_response_data"}

LEMMA CallbackIs ==
  ASSUME NEW Y, NEW s, InBody(s, Y)
  PROVE  Results(RecombindCallback(s), Y)
<1> DEFINE call == s.recomb.call
<1>1. /\ s \in Sessions(Y) /\ s.out = "none" /\ s.respSize = 0
      /\ s.st \in {"recving_request_data", "recving_response_data"}
      /\ call \in Calls
  BY DEF InBody, Sessions, Recombs
<1>2. NoCall.result = "none" /\ Failed.result = "false" /\ \A n \in Nat : Done(n).result = "true" /\ Done(n).len = n
  BY DEF NoCall, Failed, Done
<1>3. CASE call = NoCall
  <2>1. RecombindCallback(s) = s
    BY <1>2, <1>3 DEF RecombindCallback
  <2>2. GoesOn(s, Y)
    BY <1>1 DEF GoesOn
  <2> QED
    BY <1>1, <2>1, <2>2 DEF Results, Stays
<1>4. CASE call = Failed
  <2>1. RecombindCallback(s) = SessionFailed(s)
    BY <1>2, <1>4 DEF RecombindCallback
  <2> QED
    BY <1>1, <2>1, FailedIs
<1>5. ASSUME NEW n \in Nat, call = Done(n) PROVE Results(RecombindCallback(s), Y)
  <2>1. call.result = "true" /\ call.len = n /\ call # NoCall /\ call # Failed
    BY <1>2, <1>5
  <2> HIDE DEF call
  <2>2. CASE s.st = "recving_request_data"
    <3> DEFINE t == [s EXCEPT !.st = "recved_request", !.reqSize = n]
    <3>1. RecombindCallback(s) = t
      BY <2>1, <2>2 DEF RecombindCallback, call
    <3>2. t \in Sessions(Y)
      BY <1>1 DEF Sessions, States
    <3>3. t.st = "recved_request" /\ t.respSize = 0 /\ t.out = "none"
      BY <1>1 DEF Sessions
    <3> HIDE DEF t
    <3> QED
      BY <3>1, <3>2, <3>3 DEF Results, Stays, GoesOn
  <2>3. CASE s.st = "recving_response_data"
    <3> DEFINE t == [s EXCEPT !.st = "recved_response", !.respSize = n, !.out = "completed"]
    <3>1. RecombindCallback(s) = t
      BY <2>1, <2>3 DEF RecombindCallback, call
    <3>2. t \in Sessions(Y)
      BY <1>1 DEF Sessions, States
    <3>3. t.out = "completed"
      BY <1>1 DEF Sessions
    <3> HIDE DEF t
    <3> QED
      BY <3>1, <3>2, <3>3 DEF Results
  <2> QED
    BY <1>1, <2>2, <2>3
<1> QED
  BY <1>1, <1>3, <1>4, <1>5 DEF Calls

LEMMA BodyTaken ==
  ASSUME NEW Y, NEW s, InBody(s, Y), NEW data \in Seq(Y)
  PROVE  Results(Append2Recombinder(s, data), Y)
<1> DEFINE t == [s EXCEPT !.recomb = AppendData(s.recomb, data)]
<1>1. AppendData(s.recomb, data) \in Recombs
  BY AppendDataIs DEF InBody, Sessions
<1>2. InBody(t, Y)
  BY <1>1 DEF InBody, Sessions
<1>3. Append2Recombinder(s, data) = RecombindCallback(t)
  BY DEF Append2Recombinder
<1> HIDE DEF t
<1> QED
  BY <1>2, <1>3, CallbackIs

LEMMA FieldsTaken ==
  ASSUME NEW Y, NEW s \in Sessions(Y), s.out = "none", s.respSize = 0, NEW f \in Fields(Y),
         NEW st \in {"recving_request_data", "recving_response_data"}
  PROVE  InBody(TakeFields(s, f, st), Y) \/ Broke(TakeFields(s, f, st), Y)
<1>0. CASE ~ FieldApart(f)
  <2> DEFINE t == [s EXCEPT !.st = "assert"]
  <2>1. TakeFields(s, f, st) = t
    BY <1>0 DEF TakeFields, FieldApart, AssertFailed
  <2>2. t \in Sessions(Y) /\ t.out = "none" /\ t.respSize = 0 /\ t.st = "assert"
    BY DEF Sessions, States
  <2>3. {"te", "cl"} \subseteq Y
    BY <1>0, WordApart
  <2> HIDE DEF t
  <2> QED
    BY <2>1, <2>2, <2>3 DEF Broke
<1> SUFFICES ASSUME FieldApart(f) PROVE InBody(TakeFields(s, f, st), Y)
  BY <1>0
<1> DEFINE r == SetTransferType(s.recomb, f)
           t == [s EXCEPT !.st = st, !.recomb = r]
<1>1. r \in Recombs
  BY TransferIs DEF Sessions
<1>2. TakeFields(s, f, st) = t
  BY DEF TakeFields, FieldApart
<1> HIDE DEF r
<1>3. t \in Sessions(Y)
  BY <1>1 DEF Sessions, States
<1>4. t.st = st /\ t.out = "none" /\ t.respSize = 0
  BY DEF Sessions
<1> HIDE DEF t
<1> QED
  BY <1>2, <1>3, <1>4 DEF InBody

(* A session that waits for the rest of a request, or for all of it. *)
Asking(s, Y) == GoesOn(s, Y) /\ s.st \in {"init", "recving_request_header"}

LEMMA RequestReceived ==
  ASSUME NEW Y, NEW s, Asking(s, Y), NEW data \in Seq(Y), data # <<>>
  PROVE  Results(ReceiveRequest(s, data), Y)
<1>1. s \in Sessions(Y) /\ s.out = "none" /\ s.respSize = 0 /\ GoesOn(s, Y)
  BY DEF Asking, GoesOn
<1>2. s.left \in Fields(Y) /\ InsertFields(s.left, ParseHttpRequest(data).fields) \in Fields(Y)
  <2>1. s.left \in Fields(Y)
    BY <1>1 DEF Sessions
  <2> QED
    BY <2>1, RequestIs, FieldsJoined
<1>3. <<>> \in Seq(Y) /\ Len(data) \in Nat
  OBVIOUS
<1>4. CASE IsCompleteHttpRequest(data)
  <2> DEFINE t == [s EXCEPT !.request = <<>>, !.reqSize = Len(data), !.st = "recved_request"]
  <2> DEFINE g == InsertFields(s.left, ParseHttpRequest(data).fields)
             u == [s EXCEPT !.left = g]
  <2>1. ReceiveRequest(s, data) = RecvedCompleteHttpRequest(s, data)
    BY <1>4 DEF ReceiveRequest
  <2>2. RecvedCompleteHttpRequest(s, data) \in {SessionFailed(s), u, t}
    BY DEF RecvedCompleteHttpRequest
  <2> HIDE DEF g
  <2>6. u \in Sessions(Y) /\ u.out = "none" /\ u.respSize = 0 /\ u.st = s.st /\ u.request = s.request
        /\ u.response = s.response
    BY <1>1, <1>2 DEF Sessions, g
  <2> HIDE DEF u
  <2>7. Results(u, Y)
    BY <1>1, <2>6 DEF Results, Stays, GoesOn
  <2>3. t \in Sessions(Y)
    BY <1>1, <1>3 DEF Sessions, States
  <2>4. t.st = "recved_request" /\ t.out = "none" /\ t.respSize = 0
    BY <1>1 DEF Sessions
  <2> HIDE DEF t
  <2>5. Results(t, Y)
    BY <2>3, <2>4 DEF Results, Stays, GoesOn
  <2> QED
    BY <1>1, <2>1, <2>2, <2>5, <2>7, FailedIs
<1>5. CASE ~ IsCompleteHttpRequest(data) /\ HasCompleteHttpHeader(data)
  <2> DEFINE q      == [s EXCEPT !.request = <<>>]
             parsed == ParseHttpRequest(data)
             fields == InsertFields(s.left, parsed.fields)
             taken  == TakeFields(q, fields, "recving_request_data")
  <2>1. ReceiveRequest(s, data) = RecvedCompleteRequestHeader(s, data)
    BY <1>5 DEF ReceiveRequest
  <2>2. /\ RecvedCompleteRequestHeader(s, data) \in
             {SessionFailed(s), taken} \cup {Append2Recombinder(taken, parsed.body)}
        /\ taken.st = "assert" => RecvedCompleteRequestHeader(s, data) \in {SessionFailed(s), taken}
    BY DEF RecvedCompleteRequestHeader, RequestParsed
  <2>3. q \in Sessions(Y) /\ q.out = "none" /\ q.respSize = 0
    BY <1>1, <1>3 DEF Sessions
  <2>4. fields \in Fields(Y) /\ parsed.body \in Seq(Y)
    BY <1>2, RequestIs
  <2> HIDE DEF q, parsed, fields
  <2>5. InBody(taken, Y) \/ Broke(taken, Y)
    BY <2>3, <2>4, FieldsTaken
  <2> HIDE DEF taken
  <2>6. Results(taken, Y)
    BY <2>5 DEF Results, Stays, InBody, GoesOn, Broke
  <2>7. Broke(taken, Y) => taken.st = "assert"
    BY DEF Broke
  <2> QED
    BY <1>1, <2>1, <2>2, <2>4, <2>5, <2>6, <2>7, BodyTaken, FailedIs
<1>6. CASE ~ IsCompleteHttpRequest(data) /\ ~ HasCompleteHttpHeader(data)
  <2> DEFINE t == [s EXCEPT !.st = "recving_request_header", !.request = data]
  <2>1. ReceiveRequest(s, data) = t
    BY <1>6 DEF ReceiveRequest
  <2>2. t \in Sessions(Y)
    BY <1>1 DEF Sessions, States
  <2>3. t.st = "recving_request_header" /\ t.request = data /\ t.out = "none" /\ t.respSize = 0
    BY <1>1 DEF Sessions
  <2> HIDE DEF t
  <2> QED
    BY <2>1, <2>2, <2>3 DEF Results, Stays, GoesOn
<1> QED
  BY <1>4, <1>5, <1>6

LEMMA ResponseReceived ==
  ASSUME NEW Y, NEW s, GoesOn(s, Y), NEW data \in Seq(Y), data # <<>>
  PROVE  Results(ReceiveResponse(s, data), Y)
<1>1. s \in Sessions(Y) /\ s.out = "none" /\ s.respSize = 0
  BY DEF GoesOn
<1>2. CASE HasCompleteHttpHeader(data)
  <2> DEFINE parsed == ParseHttpResponse(data)
             taken  == TakeFields(s, parsed.fields, "recving_response_data")
  <2>1. ReceiveResponse(s, data) = RecvedCompleteResponseHeader(s, data)
    BY <1>2 DEF ReceiveResponse
  <2>4. parsed.fields \in Fields(Y) /\ parsed.body \in Seq(Y)
    BY ResponseIs
  <2>5. InBody(taken, Y) \/ Broke(taken, Y)
    <3> HIDE DEF parsed
    <3> QED
      BY <1>1, <2>4, FieldsTaken
  <2>6. /\ RecvedCompleteResponseHeader(s, data) \in
             {SessionFailed(s), taken} \cup {Append2Recombinder(taken, parsed.body)}
        /\ taken.st = "assert" => RecvedCompleteResponseHeader(s, data) \in {SessionFailed(s), taken}
    BY DEF RecvedCompleteResponseHeader, ResponseParsed
  <2> HIDE DEF taken, parsed
  <2>7. Results(taken, Y)
    BY <2>5 DEF Results, Stays, InBody, GoesOn, Broke
  <2>8. Broke(taken, Y) => taken.st = "assert"
    BY DEF Broke
  <2> QED
    BY <1>1, <2>1, <2>4, <2>5, <2>6, <2>7, <2>8, BodyTaken, FailedIs
<1>3. CASE ~ HasCompleteHttpHeader(data)
  <2> DEFINE t == [s EXCEPT !.st = "recving_response_header", !.response = data]
  <2>1. ReceiveResponse(s, data) = t
    BY <1>3 DEF ReceiveResponse
  <2>2. t \in Sessions(Y)
    BY <1>1 DEF Sessions, States
  <2>3. t.st = "recving_response_header" /\ t.response = data /\ t.out = "none" /\ t.respSize = 0
    BY <1>1 DEF Sessions
  <2> HIDE DEF t
  <2> QED
    BY <2>1, <2>2, <2>3 DEF Results, Stays, GoesOn
<1> QED
  BY <1>2, <1>3

(* Whatever a packet brings, no assertion fails but that on the fields.    *)
LEMMA PacketIs ==
  ASSUME NEW Y, NEW s, GoesOn(s, Y), NEW data \in Seq(Y), data # <<>>
  PROVE  Results(ProcessPacket(s, data), Y)
<1>1. /\ s \in Sessions(Y) /\ s.out = "none" /\ s.respSize = 0
      /\ s.st \in States \ {"assert", "recved_response"}
      /\ s.request \in Seq(Y) /\ s.response \in Seq(Y)
  BY DEF GoesOn, Sessions
<1>2. CASE s.st = "init"
  <2>1. ProcessPacket(s, data) = ReceiveRequest(s, data)
    BY <1>2 DEF ProcessPacket, SessionInitProc
  <2>2. Asking(s, Y)
    BY <1>2 DEF Asking
  <2> QED
    BY <2>1, <2>2, RequestReceived
<1>3. CASE s.st = "recving_request_header"
  <2> DEFINE all == s.request \o data
             q   == [s EXCEPT !.request = all]
  <2>1. all \in Seq(Y) /\ all # <<>> /\ s.request # <<>>
    BY <1>1, <1>3 DEF GoesOn
  <2>2. q \in Sessions(Y) /\ q.request = all /\ q.st = s.st /\ q.out = "none" /\ q.respSize = 0
    BY <1>1, <2>1 DEF Sessions
  <2>3. ProcessPacket(s, data) = ReceiveRequest(q, all)
    <3>1. ProcessPacket(s, data) = RecvingRequestHeaderProc(s, data)
      BY <1>3 DEF ProcessPacket
    <3>2. RecvingRequestHeaderProc(s, data) = ReceiveRequest(q, q.request)
      BY <2>1 DEF RecvingRequestHeaderProc
    <3> QED
      BY <2>2, <3>1, <3>2
  <2> HIDE DEF q
  <2>4. Asking(q, Y)
    BY <1>3, <2>1, <2>2 DEF Asking, GoesOn
  <2> HIDE DEF all
  <2> QED
    BY <2>1, <2>3, <2>4, RequestReceived
<1>4. CASE s.st \in {"recving_request_data", "recving_response_data"}
  <2>1. ProcessPacket(s, data) = Append2Recombinder(s, data)
    BY <1>4 DEF ProcessPacket, RecvingRequestDataProc, RecvingResponseDataProc
  <2>2. InBody(s, Y)
    BY <1>1, <1>4 DEF InBody
  <2> QED
    BY <2>1, <2>2, BodyTaken
<1>5. CASE s.st = "recved_request"
  <2>1. ProcessPacket(s, data) \in {ReceiveResponse(s, data), SessionFailed(s)}
    BY <1>5 DEF ProcessPacket, RecvedRequestProc
  <2> QED
    BY <1>1, <2>1, ResponseReceived, FailedIs
<1>6. CASE s.st = "recving_response_header"
  <2> DEFINE all == s.response \o data
             q   == [s EXCEPT !.response = all]
  <2>1. all \in Seq(Y) /\ all # <<>> /\ s.response # <<>>
    BY <1>1, <1>6 DEF GoesOn
  <2>2. q \in Sessions(Y) /\ q.response = all /\ q.st = s.st /\ q.out = "none" /\ q.respSize = 0
    BY <1>1, <2>1 DEF Sessions
  <2>3. ProcessPacket(s, data) = ReceiveResponse(q, all)
    <3>1. ProcessPacket(s, data) = RecvingResponseHeaderProc(s, data)
      BY <1>6 DEF ProcessPacket
    <3>2. RecvingResponseHeaderProc(s, data) = ReceiveResponse(q, q.response)
      BY <2>1 DEF RecvingResponseHeaderProc
    <3> QED
      BY <2>2, <3>1, <3>2
  <2> HIDE DEF q
  <2>4. GoesOn(q, Y)
    BY <1>6, <2>1, <2>2 DEF GoesOn
  <2> HIDE DEF all
  <2> QED
    BY <2>1, <2>3, <2>4, ResponseReceived
<1> QED
  BY <1>1, <1>2, <1>3, <1>4, <1>5, <1>6 DEF States

-----------------------------------------------------------------------------
(* The monitor. *)

RecordOK(r) == r = NoRecord \/ r \in [req : Nat, resp : Nat]

WireOK ==
  /\ wire \in [ex : Exchanges, side : {"request", "response"}, sent : Nat, last : Nat, torn : BOOLEAN]
  /\ wire.last <= wire.sent /\ wire.sent <= Len(Message)

(* Until something of an exchange was sent, the session may be an older    *)
(* one; then, if the request begins well, it is one of this exchange.      *)
Begun == wire.sent > 0 \/ wire.side = "response"

SessionOK ==
  \/ session = NoSession
  \/ /\ Stays(session, STRING)
     /\ ~ Begun => GoesOn(session, STRING)
     /\ Begun /\ BeginsWell(wire.ex) => Stays(session, Words(wire.ex))

Inv == RecordOK(record) /\ WireOK /\ SessionOK

LEMMA ToldIs ==
  ASSUME NEW Y, NEW s, Results(s, Y), Told(s), RecordOK(record)
  PROVE  RecordOK(record') /\ (session' = NoSession \/ Stays(session', Y))
<1>1. s.out \in {"none", "failed", "completed"} /\ s.reqSize \in Nat /\ s.respSize \in Nat
  BY DEF Results, Sessions
<1>2. session' = NoSession \/ Stays(session', Y)
  BY <1>1 DEF Told, Results
<1>3. RecordOK(record')
  BY <1>1 DEF Told, RecordOK
<1> QED
  BY <1>2, <1>3

LEMMA MonitorProcs ==
  ASSUME NEW Y, NEW data \in Seq(Y), data # <<>>,
         session = NoSession \/ IsHttpRequest(data) \/ GoesOn(session, Y),
         RecordOK(record), PktMsgProc(data)
  PROVE  RecordOK(record') /\ (session' = NoSession \/ Stays(session', Y))
<1>1. ASSUME NEW s, GoesOn(s, Y) PROVE Results(ProcessPacket(s, data), Y)
  BY <1>1, PacketIs
<1>2. CASE ProcessHttpRequest(data)
  <2>1. Results(ProcessPacket(NewRunSession, data), Y)
    BY <1>1, NewSessionIs
  <2> QED
    BY <1>2, <2>1, ToldIs DEF ProcessHttpRequest
<1>3. CASE TryProcHttpRunSession(data)
  <2>1. Results(ProcessPacket(session, data), Y)
    BY <1>1, <1>3 DEF TryProcHttpRunSession
  <2> QED
    BY <1>3, <2>1, ToldIs DEF TryProcHttpRunSession
<1>4. CASE NotHttp(data)
  BY <1>4 DEF NotHttp
<1> QED
  BY <1>2, <1>3, <1>4 DEF PktMsgProc

(* What has met both fields halts; so what is in the table otherwise, goes *)
(* on.                                                                     *)
LEMMA GoesOnUnhalted ==
  ASSUME Inv, ~ Halted, session # NoSession
  PROVE  /\ GoesOn(session, STRING)
         /\ Begun /\ BeginsWell(wire.ex) => GoesOn(session, Words(wire.ex))
BY DEF Inv, SessionOK, Stays, Broke, Halted

LEMMA FirstTwo ==
  ASSUME NEW S, NEW s \in Seq(S), Len(s) >= 2
  PROVE  SubSeq(s, 1, 2) = <<s[1], s[2]>>
<1> DEFINE t == SubSeq(s, 1, 2)
           u == <<s[1], s[2]>>
<1>0. Len(s) \in Nat /\ 1 \in 1 .. Len(s) /\ 2 \in 1 .. Len(s) /\ 1 \in 1 .. Len(s) + 1 /\ 2 \in 1 - 1 .. Len(s)
  OBVIOUS
<1>1. t \in Seq(S) /\ Len(t) = 2 /\ \A i \in 1 .. 2 : t[i] = s[i]
  BY <1>0, SubSeqProperties
<1>2. s[1] \in S /\ s[2] \in S
  BY <1>0
<1>3. u \in Seq(S) /\ Len(u) = 2 /\ u[1] = s[1] /\ u[2] = s[2]
  BY <1>2
<1> HIDE DEF t, u
<1>4. \A i \in 1 .. Len(t) : t[i] = u[i]
  BY <1>1, <1>3
<1>5. t = u
  BY <1>1, <1>3, <1>4, SeqEqual
<1> QED
  BY <1>5 DEF t, u

LEMMA WordsOf ==
  ASSUME NEW ex \in Exchanges
  PROVE  /\ ex.request \in Seq(Words(ex)) /\ ex.response \in Seq(Words(ex)) /\ ex.head \in Nat
         /\ Words(ex) \subseteq STRING /\ Len(ex.request) \in Nat /\ Len(ex.response) \in Nat
<1>1. ex.request \in Seq(STRING) /\ ex.response \in Seq(STRING) /\ ex.head \in Nat
  BY HttpAssumption DEF Exchange
<1>2. \A i \in 1 .. Len(ex.request) : ex.request[i] \in Words(ex)
  BY <1>1 DEF Words, ToSet
<1>3. \A i \in 1 .. Len(ex.response) : ex.response[i] \in Words(ex)
  BY <1>1 DEF Words, ToSet
<1>4. Words(ex) \subseteq STRING
  BY <1>1 DEF Words, ToSet
<1>5. ex.request \in Seq(Words(ex))
  BY <1>1, <1>2
<1>6. ex.response \in Seq(Words(ex))
  BY <1>1, <1>3
<1> QED
  BY <1>1, <1>4, <1>5, <1>6

(* A packet is a piece of a message. *)
LEMMA PieceIs ==
  ASSUME NEW ex \in Exchanges, NEW side \in {"request", "response"},
         NEW a \in Nat, NEW b \in Nat, a < b, b <= Len(ex[side])
  PROVE  /\ SubSeq(ex[side], a + 1, b) \in Seq(Words(ex)) /\ SubSeq(ex[side], a + 1, b) # <<>>
         /\ side = "request" /\ a = 0 /\ b >= 2 /\ BeginsWell(ex) => IsHttpRequest(SubSeq(ex[side], a + 1, b))
<1> DEFINE m == ex[side]
           d == SubSeq(m, a + 1, b)
<1>1. m \in Seq(STRING) /\ m = IF side = "request" THEN ex.request ELSE ex.response
  BY HttpAssumption DEF Exchange
<1>2. \A i \in 1 .. Len(m) : m[i] \in Words(ex)
  BY <1>1 DEF Words, ToSet
<1> HIDE DEF m
<1>3. d \in Seq(STRING) /\ Len(d) = b - a /\ \A i \in 1 .. Len(d) : d[i] = m[a + i]
  <2>1. a + 1 \in 1 .. Len(m) + 1 /\ b \in a + 1 - 1 .. Len(m) /\ Len(m) \in Nat
    BY <1>1 DEF m
  <2> QED
    BY <1>1, <2>1, SubSeqProperties
<1> HIDE DEF d
<1>4. Len(m) \in Nat /\ b <= Len(m)
  BY <1>1 DEF m
<1>5. ASSUME NEW i \in 1 .. Len(d) PROVE d[i] \in Words(ex)
  <2>1. a + i \in 1 .. Len(m)
    BY <1>3, <1>4
  <2> QED
    BY <1>2, <1>3, <2>1
<1>6. d \in Seq(Words(ex))
  BY <1>3, <1>5
<1>7. d # <<>>
  BY <1>3
<1>8. ASSUME side = "request", a = 0, b >= 2, BeginsWell(ex) PROVE IsHttpRequest(d)
  <2> DEFINE w == <<"GET", "SP">>
  <2>1. IsPrefix(w, m)
    BY <1>1, <1>8 DEF BeginsWell, IsHttpRequest
  <2>2. Len(w) = 2 /\ SubSeq(w, 1, 2) = SubSeq(m, 1, 2)
    BY <2>1 DEF IsPrefix
  <2>3. SubSeq(m, 1, 2) = <<m[1], m[2]>>
    <3>1. Len(m) >= 2
      BY <1>4, <1>8
    <3> QED
      BY <1>1, <3>1, FirstTwo
  <2>4. SubSeq(d, 1, 2) = <<d[1], d[2]>>
    <3>1. Len(d) >= 2
      BY <1>3, <1>8
    <3> QED
      BY <1>3, <3>1, FirstTwo
  <2>5. d[1] = m[1] /\ d[2] = m[2] /\ Len(d) >= 2
    BY <1>3, <1>8
  <2> QED
    BY <2>2, <2>3, <2>4, <2>5 DEF IsHttpRequest, IsPrefix
<1> QED
  BY <1>6, <1>7, <1>8 DEF d, m

LEMMA MessageLen ==
  ASSUME NEW ex \in Exchanges, NEW side \in {"request", "response"}
  PROVE  Len(ex[side]) \in Nat
<1>1. ex.request \in Seq(STRING) /\ ex.response \in Seq(STRING)
  BY HttpAssumption DEF Exchange
<1> QED
  BY <1>1

LEMMA WireIs ==
  ASSUME WireOK
  PROVE  /\ wire.ex \in Exchanges /\ wire.side \in {"request", "response"} /\ Message = wire.ex[wire.side]
         /\ Len(Message) \in Nat /\ wire.sent \in Nat /\ wire.last \in Nat /\ wire.torn \in BOOLEAN
         /\ wire.last <= wire.sent /\ wire.sent <= Len(Message)
BY MessageLen DEF WireOK, Message

LEMMA FreshIs ==
  ASSUME NEW ex \in Exchanges, wire' = Fresh(ex)
  PROVE  WireOK' /\ ~ Begun'
<1>1. wire' = [ex |-> ex, side |-> "request", sent |-> 0, last |-> 0, torn |-> FALSE]
  BY DEF Fresh
<1>2. Message' = ex["request"]
  BY <1>1 DEF Message
<1>3. Len(Message') \in Nat
  BY <1>2, MessageLen
<1> QED
  BY <1>1, <1>3 DEF WireOK, Begun

(* What the steps make of the wire. *)
LEMMA PacketWire ==
  ASSUME WireOK, NEW n \in 1 .. Len(Message), Packet(n), NEW to, to = wire.sent + n
  PROVE  /\ WireOK' /\ wire'.ex = wire.ex /\ wire'.side = wire.side /\ wire'.sent = to /\ Message' = Message
         /\ to \in Nat /\ wire.sent < to /\ to <= Len(Message)
         /\ wire.side = "request" /\ wire.sent = 0 => to >= 2
         /\ PktMsgProc(SubSeq(Message, wire.sent + 1, to))
         /\ ~ wire'.torn => ~ wire.torn /\ ~ Torn(wire.sent, to)
<1>1. /\ wire.ex \in Exchanges /\ wire.side \in {"request", "response"} /\ Len(Message) \in Nat
      /\ wire.sent \in Nat /\ wire.last \in Nat /\ wire.torn \in BOOLEAN /\ wire.sent <= Len(Message)
  BY WireIs
<1>2. wire \in [ex : Exchanges, side : {"request", "response"}, sent : Nat, last : Nat, torn : BOOLEAN]
  BY DEF WireOK
<1>3. /\ to \in Nat /\ wire.sent < to /\ to <= Len(Message)
      /\ wire.side = "request" /\ wire.sent = 0 => to >= 2
      /\ PktMsgProc(SubSeq(Message, wire.sent + 1, to))
  BY <1>1 DEF Packet
<1>4. PICK torn \in BOOLEAN, last \in {to, wire.sent} :
        /\ wire' = [wire EXCEPT !.sent = to, !.torn = torn, !.last = last]
        /\ torn <=> (wire.torn \/ Torn(wire.sent, to))
  <2> DEFINE b == wire.torn \/ Torn(wire.sent, to)
             l == IF b THEN to ELSE wire.sent
  <2>1. b \in BOOLEAN /\ l \in {to, wire.sent}
    OBVIOUS
  <2>2. wire' = [wire EXCEPT !.sent = to, !.torn = b, !.last = l]
    BY DEF Packet
  <2> HIDE DEF l, b
  <2>3. b <=> (wire.torn \/ Torn(wire.sent, to))
    BY DEF b
  <2> QED
    BY <2>1, <2>2, <2>3
<1>5. /\ wire' \in [ex : Exchanges, side : {"request", "response"}, sent : Nat, last : Nat, torn : BOOLEAN]
      /\ wire'.ex = wire.ex /\ wire'.side = wire.side /\ wire'.sent = to /\ wire'.last = last
  BY <1>2, <1>3, <1>4
<1>6. wire'.torn = torn
  BY <1>2, <1>4
<1>7. Message' = Message
  BY <1>5 DEF Message
<1>8. WireOK'
  BY <1>1, <1>3, <1>5, <1>7 DEF WireOK
<1>9. ~ wire'.torn => ~ wire.torn /\ ~ Torn(wire.sent, to)
  BY <1>4, <1>6
<1> QED
  BY <1>3, <1>5, <1>7, <1>8, <1>9

LEMMA RespondWire ==
  ASSUME WireOK, Respond
  PROVE  /\ WireOK' /\ wire'.ex = wire.ex /\ wire'.side = "response" /\ wire'.sent = 0
         /\ wire'.torn = wire.torn
<1>1. wire \in [ex : Exchanges, side : {"request", "response"}, sent : Nat, last : Nat, torn : BOOLEAN]
  BY DEF WireOK
<1>2. wire' = [wire EXCEPT !.side = "response", !.sent = 0, !.last = 0]
  BY DEF Respond
<1>3. /\ wire' \in [ex : Exchanges, side : {"request", "response"}, sent : Nat, last : Nat, torn : BOOLEAN]
      /\ wire'.ex = wire.ex /\ wire'.side = "response" /\ wire'.sent = 0 /\ wire'.last = 0
  BY <1>1, <1>2
<1>4. wire'.torn = wire.torn
  BY <1>1, <1>2
<1>5. Len(Message') \in Nat
  BY <1>1, <1>3, MessageLen DEF Message
<1> QED
  BY <1>3, <1>4, <1>5 DEF WireOK

LEMMA RepeatWire ==
  ASSUME WireOK, Repeat
  PROVE  /\ WireOK' /\ wire'.ex = wire.ex /\ wire'.side = wire.side /\ wire'.sent = wire.sent /\ wire'.torn
         /\ wire.last < wire.sent /\ PktMsgProc(SubSeq(Message, wire.last + 1, wire.sent))
<1>1. wire \in [ex : Exchanges, side : {"request", "response"}, sent : Nat, last : Nat, torn : BOOLEAN]
  BY DEF WireOK
<1>2. wire' = [wire EXCEPT !.torn = TRUE, !.last = wire.sent]
  BY DEF Repeat
<1>3. /\ wire' \in [ex : Exchanges, side : {"request", "response"}, sent : Nat, last : Nat, torn : BOOLEAN]
      /\ wire'.ex = wire.ex /\ wire'.side = wire.side /\ wire'.sent = wire.sent /\ wire'.last = wire.sent
  BY <1>1, <1>2
<1>4. wire'.torn = TRUE
  BY <1>1, <1>2
<1>5. Message' = Message
  BY <1>3 DEF Message
<1>6. WireOK'
  BY <1>3, <1>5, WireIs DEF WireOK
<1>7. wire.last < wire.sent /\ PktMsgProc(SubSeq(Message, wire.last + 1, wire.sent))
  BY WireIs DEF Repeat
<1> QED
  BY <1>3, <1>4, <1>6, <1>7

(* The packets of one exchange. *)
LEMMA PieceInv ==
  ASSUME Inv, ~ Halted, WireOK', wire'.ex = wire.ex, Begun',
         NEW a \in Nat, NEW b \in Nat, a < b, b <= Len(Message),
         Begun \/ (wire.side = "request" /\ a = 0 /\ b >= 2),
         PktMsgProc(SubSeq(Message, a + 1, b))
  PROVE  Inv'
<1> DEFINE Y == Words(wire.ex)
           d == SubSeq(Message, a + 1, b)
<1>1. /\ wire.ex \in Exchanges /\ wire.side \in {"request", "response"} /\ Message = wire.ex[wire.side]
  BY WireIs DEF Inv
<1>2. /\ d \in Seq(Y) /\ d \in Seq(STRING) /\ d # <<>>
      /\ wire.side = "request" /\ a = 0 /\ b >= 2 /\ BeginsWell(wire.ex) => IsHttpRequest(d)
  <2> DEFINE ex   == wire.ex
             side == wire.side
  <2>1. ex \in Exchanges /\ side \in {"request", "response"} /\ b <= Len(ex[side])
    BY <1>1
  <2>2. d = SubSeq(ex[side], a + 1, b)
    BY <1>1
  <2> HIDE DEF ex, side, d
  <2>3. /\ d \in Seq(Words(ex)) /\ d # <<>>
        /\ side = "request" /\ a = 0 /\ b >= 2 /\ BeginsWell(ex) => IsHttpRequest(d)
    BY <2>1, <2>2, PieceIs
  <2>4. Words(ex) \subseteq STRING
    BY <2>1, WordsOf
  <2>5. d \in Seq(STRING)
    BY <2>3, <2>4
  <2> QED
    BY <2>3, <2>5 DEF ex, side
<1>3. session = NoSession \/ GoesOn(session, STRING)
  BY GoesOnUnhalted
<1>4. BeginsWell(wire.ex) => session = NoSession \/ IsHttpRequest(d) \/ GoesOn(session, Y)
  BY <1>2, GoesOnUnhalted
<1>5. RecordOK(record) /\ PktMsgProc(d)
  BY DEF Inv
<1> HIDE DEF Y, d
<1>6. RecordOK(record') /\ (session' = NoSession \/ Stays(session', STRING))
  BY <1>2, <1>3, <1>5, MonitorProcs
<1>7. BeginsWell(wire.ex) => session' = NoSession \/ Stays(session', Y)
  BY <1>2, <1>4, <1>5, MonitorProcs
<1>8. SessionOK'
  BY <1>6, <1>7 DEF SessionOK, Y
<1> QED
  BY <1>6, <1>8 DEF Inv

LEMMA InitInv == Init => Inv
<1> SUFFICES ASSUME Init PROVE Inv
  OBVIOUS
<1>1. PICK ex \in Exchanges : wire = Fresh(ex)
  BY DEF Init
<1>2. wire = [ex |-> ex, side |-> "request", sent |-> 0, last |-> 0, torn |-> FALSE]
  BY <1>1 DEF Fresh
<1>3. Message = ex["request"]
  BY <1>2 DEF Message
<1>4. Len(Message) \in Nat
  BY <1>3, MessageLen
<1>5. WireOK
  BY <1>2, <1>4 DEF WireOK
<1> QED
  BY <1>5 DEF Init, Inv, RecordOK, SessionOK

LEMMA NextInv ==
  ASSUME Inv, [Next]_vars
  PROVE  Inv'
<1>0. /\ WireOK /\ wire.ex \in Exchanges /\ wire.side \in {"request", "response"} /\ Message = wire.ex[wire.side]
      /\ Len(Message) \in Nat /\ wire.sent \in Nat /\ wire.last \in Nat /\ wire.sent <= Len(Message)
  BY WireIs DEF Inv
<1>1. ASSUME ~ Halted, NEW n \in 1 .. Len(Message), Packet(n) PROVE Inv'
  <2> DEFINE to == wire.sent + n
  <2>1. /\ WireOK' /\ wire'.ex = wire.ex /\ to \in Nat /\ wire.sent < to /\ to <= Len(Message)
        /\ wire'.sent = to
        /\ wire.side = "request" /\ wire.sent = 0 => to >= 2
        /\ PktMsgProc(SubSeq(Message, wire.sent + 1, to))
    BY <1>0, <1>1, PacketWire
  <2>3. Begun'
    BY <1>0, <2>1 DEF Begun
  <2>2. Begun \/ (wire.side = "request" /\ wire.sent = 0 /\ to >= 2)
    BY <1>0, <2>1 DEF Begun
  <2> HIDE DEF to
  <2> QED
    BY <1>0, <1>1, <2>1, <2>2, <2>3, PieceInv
<1>2. CASE ~ Halted /\ Respond
  <2>1. WireOK' /\ session' = session /\ record' = record
    BY <1>0, <1>2, RespondWire DEF Respond
  <2>2. CASE Begun
    <3>1. wire'.ex = wire.ex /\ wire'.side = "response"
      BY <1>0, <1>2, RespondWire
    <3>2. Begun'
      BY <3>1 DEF Begun
    <3> QED
      BY <2>1, <2>2, <3>1, <3>2 DEF Inv, SessionOK, RecordOK
  <2>3. CASE ~ Begun
    <3>1. wire.sent = 0 /\ wire.sent = Len(Message) /\ wire.side = "request"
      BY <1>0, <1>2, <2>3 DEF Begun, Respond
    <3>2. Len(wire.ex["request"]) = 0
      BY <1>0, <3>1
    <3>3. ~ BeginsWell(wire.ex)
      <4>1. Len(<<"GET", "SP">>) = 2
        OBVIOUS
      <4> QED
        BY <3>2, <4>1 DEF BeginsWell, IsHttpRequest, IsPrefix
    <3>4. session = NoSession \/ GoesOn(session, STRING)
      BY <1>2, GoesOnUnhalted
    <3>5. wire'.ex = wire.ex /\ wire'.side = "response"
      BY <1>0, <1>2, RespondWire
    <3> QED
      BY <2>1, <3>3, <3>4, <3>5 DEF Inv, SessionOK, RecordOK, Begun, Stays
  <2> QED
    BY <2>2, <2>3
<1>3. CASE ~ Halted /\ Repeat
  <2>1. /\ WireOK' /\ wire'.ex = wire.ex /\ wire'.sent = wire.sent
        /\ wire.last < wire.sent /\ PktMsgProc(SubSeq(Message, wire.last + 1, wire.sent))
    BY <1>0, <1>3, RepeatWire
  <2>2. Begun /\ Begun'
    BY <1>0, <2>1 DEF Begun
  <2> QED
    BY <1>0, <1>3, <2>1, <2>2, PieceInv
<1>4. ASSUME ~ Halted, NEW ex \in Exchanges, Begin(ex) PROVE Inv'
  <2>1. wire' = Fresh(ex) /\ record' = NoRecord /\ session' = session
    BY <1>4 DEF Begin
  <2>2. WireOK' /\ ~ Begun'
    BY <2>1, FreshIs
  <2>3. session = NoSession \/ GoesOn(session, STRING)
    BY <1>4, GoesOnUnhalted
  <2> QED
    BY <2>1, <2>2, <2>3 DEF Inv, SessionOK, RecordOK, Stays
<1>5. ASSUME NEW ex \in Exchanges, ConnClosedProc(ex) PROVE Inv'
  <2>1. wire' = Fresh(ex) /\ record' = NoRecord /\ session' = NoSession
    BY <1>5 DEF ConnClosedProc
  <2>2. WireOK' /\ ~ Begun'
    BY <2>1, FreshIs
  <2> QED
    BY <2>1, <2>2 DEF Inv, SessionOK, RecordOK
<1>6. CASE UNCHANGED vars
  BY <1>6 DEF vars, Inv, RecordOK, WireOK, Message, SessionOK, Begun
<1> QED
  BY <1>1, <1>2, <1>3, <1>4, <1>5, <1>6 DEF Next

LEMMA InvTypeOK == Inv => TypeOK
<1> SUFFICES ASSUME Inv PROVE TypeOK
  OBVIOUS
<1>1. ASSUME session # NoSession
      PROVE  /\ session.st \in States /\ session.out = "none"
             /\ session.recomb.type \in {"unknown", "length", "chunked"}
             /\ session.recomb.chunk.size \in Nat /\ Len(session.recomb.chunk.hex) <= MaxHexSize
             /\ session.reqSize \in Nat /\ session.respSize = 0
  <2>1. Stays(session, STRING)
    BY <1>1 DEF Inv, SessionOK
  <2>2. /\ session.st \in States /\ session.recomb \in Recombs /\ session.reqSize \in Nat
        /\ session.out = "none" /\ session.respSize = 0
    BY <2>1 DEF Stays, GoesOn, Broke, Sessions
  <2>3. session.recomb.chunk \in Chunks /\ session.recomb.type \in {"unknown", "length", "chunked"}
    BY <2>2 DEF Recombs
  <2>4. session.recomb.chunk.size \in Nat /\ session.recomb.chunk.hex \in HexWords
    BY <2>3 DEF Chunks
  <2> QED
    BY <2>2, <2>3, <2>4 DEF HexWords
<1>2. record = NoRecord \/ record \in [req : Nat, resp : Nat]
  BY DEF Inv, RecordOK
<1>3. /\ wire.ex \in Exchanges /\ wire.side \in {"request", "response"}
      /\ 0 <= wire.last /\ wire.last <= wire.sent /\ wire.sent <= Len(Message)
  BY WireIs DEF Inv
<1> QED
  BY <1>1, <1>2, <1>3 DEF TypeOK

(* The session stays what HttpRunSession takes it to be, and the record    *)
(* holds sizes, whatever the messages and however they are cut, repeated   *)
(* or broken off.                                                          *)
THEOREM HttpTypeOK == Spec => []TypeOK
<1>1. Spec => []Inv
  <2>1. Inv /\ [Next]_vars => Inv'
    BY NextInv
  <2> QED
    BY <2>1, InitInv, PTL DEF Spec
<1> QED
  BY <1>1, InvTypeOK, PTL

-----------------------------------------------------------------------------
(* What a parser makes of more than it needs: the same.  Loops stand still *)
(* once they have stopped.                                                 *)
LEMMA RequestLineHeld ==
  ASSUME NEW Y, NEW data \in Seq(Y), NEW more \in Seq(Y), Loop(RequestLineStep, data).st = "stop"
  PROVE  Loop(RequestLineStep, data \o more) = Loop(RequestLineStep, data)
<1> DEFINE A   == [st : RequestLineStates, len : Nat]
           all == data \o more
           j   == Len(data)
           k   == Len(all)
<1>1. RequestLineClosed(A, Y)
  BY RequestLineSteps
<1>2. /\ all \in Seq(Y) /\ j \in Nat /\ k \in Nat /\ j <= k
      /\ \A n \in 1 .. j : all[n] = data[n]
  OBVIOUS
<1> HIDE DEF A, all, j, k
<1>3. PICK g : RequestLineBy(g, A, data)
  BY <1>1, RequestLineIs
<1>4. PICK h : RequestLineBy(h, A, all)
  BY <1>1, <1>2, RequestLineIs
<1>5. /\ g[0] = h[0] /\ g[j] = Loop(RequestLineStep, data) /\ h[k] = Loop(RequestLineStep, all)
      /\ \A n \in 1 .. j : g[n] = RequestLineTurn(g[n - 1], data[n])
      /\ \A n \in 1 .. k : h[n] = RequestLineTurn(h[n - 1], all[n])
  BY <1>3, <1>4 DEF RequestLineBy, j, k
<1>6. g[j] = h[j]
  <2>1. ASSUME NEW n \in 1 .. j, g[n - 1] = h[n - 1] PROVE g[n] = h[n]
    <3>1. n \in 1 .. k
      BY <1>2
    <3> QED
      BY <1>2, <1>5, <2>1, <3>1
  <2> QED
    BY <1>2, <1>5, <2>1, GoAlike
<1>7. h[k] = h[j]
  <2>1. ASSUME NEW n \in j + 1 .. k, h[n - 1] = h[j] PROVE h[n] = h[j]
    <3>1. n \in 1 .. k
      BY <1>2
    <3>2. h[n] = RequestLineTurn(h[j], all[n])
      BY <1>5, <2>1, <3>1
    <3>3. h[j].st = "stop"
      BY <1>5, <1>6
    <3> QED
      BY <3>2, <3>3 DEF RequestLineTurn
  <2> QED
    BY <1>2, <2>1, StaysThere
<1> QED
  BY <1>5, <1>6, <1>7 DEF all

LEMMA StatusLineHeld ==
  ASSUME NEW Y, NEW data \in Seq(Y), NEW more \in Seq(Y), Loop(StatusLineStep, data).st = "stop"
  PROVE  Loop(StatusLineStep, data \o more) = Loop(StatusLineStep, data)
<1> DEFINE A   == [st : StatusLineStates, len : Nat]
           all == data \o more
           j   == Len(data)
           k   == Len(all)
<1>1. StatusLineClosed(A, Y)
  BY StatusLineSteps
<1>2. /\ all \in Seq(Y) /\ j \in Nat /\ k \in Nat /\ j <= k
      /\ \A n \in 1 .. j : all[n] = data[n]
  OBVIOUS
<1> HIDE DEF A, all, j, k
<1>3. PICK g : StatusLineBy(g, A, data)
  BY <1>1, StatusLineIs
<1>4. PICK h : StatusLineBy(h, A, all)
  BY <1>1, <1>2, StatusLineIs
<1>5. /\ g[0] = h[0] /\ g[j] = Loop(StatusLineStep, data) /\ h[k] = Loop(StatusLineStep, all)
      /\ \A n \in 1 .. j : g[n] = StatusLineTurn(g[n - 1], data[n])
      /\ \A n \in 1 .. k : h[n] = StatusLineTurn(h[n - 1], all[n])
  BY <1>3, <1>4 DEF StatusLineBy, j, k
<1>6. g[j] = h[j]
  <2>1. ASSUME NEW n \in 1 .. j, g[n - 1] = h[n - 1] PROVE g[n] = h[n]
    <3>1. n \in 1 .. k
      BY <1>2
    <3> QED
      BY <1>2, <1>5, <2>1, <3>1
  <2> QED
    BY <1>2, <1>5, <2>1, GoAlike
<1>7. h[k] = h[j]
  <2>1. ASSUME NEW n \in j + 1 .. k, h[n - 1] = h[j] PROVE h[n] = h[j]
    <3>1. n \in 1 .. k
      BY <1>2
    <3>2. h[n] = StatusLineTurn(h[j], all[n])
      BY <1>5, <2>1, <3>1
    <3>3. h[j].st = "stop"
      BY <1>5, <1>6
    <3> QED
      BY <3>2, <3>3 DEF StatusLineTurn
  <2> QED
    BY <1>2, <2>1, StaysThere
<1> QED
  BY <1>5, <1>6, <1>7 DEF all

LEMMA BodyHeld ==
  ASSUME NEW Y, NEW data \in Seq(Y), NEW more \in Seq(Y), Loop(BodyStep, data).st = "stop"
  PROVE  Loop(BodyStep, data \o more) = Loop(BodyStep, data)
<1> DEFINE A   == [st : BodyStates, len : Nat]
           all == data \o more
           j   == Len(data)
           k   == Len(all)
<1>1. BodyClosed(A, Y)
  BY BodySteps
<1>2. /\ all \in Seq(Y) /\ j \in Nat /\ k \in Nat /\ j <= k
      /\ \A n \in 1 .. j : all[n] = data[n]
  OBVIOUS
<1> HIDE DEF A, all, j, k
<1>3. PICK g : BodyBy(g, A, data)
  BY <1>1, BodyIs
<1>4. PICK h : BodyBy(h, A, all)
  BY <1>1, <1>2, BodyIs
<1>5. /\ g[0] = h[0] /\ g[j] = Loop(BodyStep, data) /\ h[k] = Loop(BodyStep, all)
      /\ \A n \in 1 .. j : g[n] = BodyTurn(g[n - 1], data[n])
      /\ \A n \in 1 .. k : h[n] = BodyTurn(h[n - 1], all[n])
  BY <1>3, <1>4 DEF BodyBy, j, k
<1>6. g[j] = h[j]
  <2>1. ASSUME NEW n \in 1 .. j, g[n - 1] = h[n - 1] PROVE g[n] = h[n]
    <3>1. n \in 1 .. k
      BY <1>2
    <3> QED
      BY <1>2, <1>5, <2>1, <3>1
  <2> QED
    BY <1>2, <1>5, <2>1, GoAlike
<1>7. h[k] = h[j]
  <2>1. ASSUME NEW n \in j + 1 .. k, h[n - 1] = h[j] PROVE h[n] = h[j]
    <3>1. n \in 1 .. k
      BY <1>2
    <3>2. h[n] = BodyTurn(h[j], all[n])
      BY <1>5, <2>1, <3>1
    <3>3. h[j].st = "stop"
      BY <1>5, <1>6
    <3> QED
      BY <3>2, <3>3 DEF BodyTurn
  <2> QED
    BY <1>2, <2>1, StaysThere
<1> QED
  BY <1>5, <1>6, <1>7 DEF all

LEMMA HeaderHeld ==
  ASSUME NEW Y, NEW data \in Seq(Y), NEW more \in Seq(Y), HeaderLoop(data).st = "stop"
  PROVE  HeaderLoop(data \o more) = HeaderLoop(data)
<1> DEFINE A   == Headers(Y)
           all == data \o more
           j   == Len(data)
           k   == Len(all)
<1>1. HeaderClosed(A, Y)
  BY NoHeaderIs, HeaderStepIs DEF HeaderClosed
<1>2. /\ all \in Seq(Y) /\ j \in Nat /\ k \in Nat /\ j <= k
      /\ \A n \in 1 .. j : all[n] = data[n]
  OBVIOUS
<1> HIDE DEF A, all, j, k
<1>3. PICK g : HeaderBy(g, A, data)
  BY <1>1, HeaderIs
<1>4. PICK h : HeaderBy(h, A, all)
  BY <1>1, <1>2, HeaderIs
<1>5. /\ g[0] = h[0] /\ g[j] = HeaderLoop(data) /\ h[k] = HeaderLoop(all)
      /\ \A n \in 1 .. j : g[n] = HeaderStep(g[n - 1], data[n])
      /\ \A n \in 1 .. k : h[n] = HeaderStep(h[n - 1], all[n])
  BY <1>3, <1>4 DEF HeaderBy, j, k
<1>6. g[j] = h[j]
  <2>1. ASSUME NEW n \in 1 .. j, g[n - 1] = h[n - 1] PROVE g[n] = h[n]
    <3>1. n \in 1 .. k
      BY <1>2
    <3> QED
      BY <1>2, <1>5, <2>1, <3>1
  <2> QED
    BY <1>2, <1>5, <2>1, GoAlike
<1>7. h[k] = h[j]
  <2>1. ASSUME NEW n \in j + 1 .. k, h[n - 1] = h[j] PROVE h[n] = h[j]
    <3>1. n \in 1 .. k
      BY <1>2
    <3>2. h[n] = HeaderStep(h[j], all[n])
      BY <1>5, <2>1, <3>1
    <3>3. h[j].st = "stop"
      BY <1>5, <1>6
    <3> QED
      BY <3>2, <3>3 DEF HeaderStep
  <2> QED
    BY <1>2, <2>1, StaysThere
<1> QED
  BY <1>5, <1>6, <1>7 DEF all

(* Until it stops, a header is consumed whole. *)
LEMMA HeaderStepLen ==
  ASSUME NEW Y, NEW h \in Headers(Y), NEW c
  PROVE  HeaderStep(h, c).st # "stop" => h.st # "stop" /\ HeaderStep(h, c).len = h.len + 1
<1> DEFINE took     == [h EXCEPT !.len = h.len + 1]
           ended(v) == [Insert([v EXCEPT !.len = v.len + 1]) EXCEPT !.st = IF c = "LF" THEN "init" ELSE "post_lf"]
           void     == [h EXCEPT !.val = <<>>]
           Goes(q)  == q.len = h.len + 1
<1>1. h.st \in {"stop", "init", "key", "colon", "value", "post_lf"} /\ h.len \in Nat
  BY DEF Headers
<1>2. took.len = h.len + 1
  BY DEF Headers
<1>3. ASSUME NEW v \in Headers(Y), v.len = h.len PROVE Goes(ended(v))
  <2> DEFINE n == v.len + 1
             w == [v EXCEPT !.len = n]
             f == [k \in {w.key} \cup DOMAIN w.fields |-> IF k \in DOMAIN w.fields THEN w.fields[k] ELSE w.val]
  <2>1. w.len = n
    BY DEF Headers
  <2>2. Insert(w) = [w EXCEPT !.fields = f]
    BY DEF Insert
  <2>3. "len" \in DOMAIN w /\ "fields" \in DOMAIN w /\ "st" \in DOMAIN w
    BY DEF Headers
  <2> HIDE DEF w, f
  <2>4. Insert(w).len = n
    BY <2>1, <2>2, <2>3
  <2> QED
    BY <1>3, <2>2, <2>3, <2>4 DEF w
<1>4. void \in Headers(Y) /\ void.len = h.len
  <2>1. <<>> \in Seq(Y)
    OBVIOUS
  <2> QED
    BY <2>1 DEF Headers
<1>5. CASE h.st = "stop"
  BY <1>5 DEF HeaderStep
<1>6. CASE h.st = "init"
  <2>1. HeaderStep(h, c) \in {[h EXCEPT !.st = "stop"], took, [took EXCEPT !.st = "colon", !.key = <<>>],
                              [took EXCEPT !.st = "key", !.key = <<c>>]}
    BY <1>6 DEF HeaderStep
  <2>2. [h EXCEPT !.st = "stop"].st = "stop"
    BY DEF Headers
  <2> QED
    BY <1>2, <1>6, <2>1, <2>2 DEF Headers
<1>7. CASE h.st = "key"
  <2>1. HeaderStep(h, c) \in {[took EXCEPT !.st = "colon"], [took EXCEPT !.key = Append(h.key, c)]}
    BY <1>7 DEF HeaderStep
  <2> QED
    BY <1>2, <1>7, <2>1 DEF Headers
<1>8. CASE h.st = "colon"
  <2>1. HeaderStep(h, c) \in {took, ended(void), [took EXCEPT !.st = "value", !.val = <<c>>]}
    BY <1>8 DEF HeaderStep
  <2>2. Goes(ended(void))
    BY <1>3, <1>4
  <2> HIDE DEF ended, void
  <2> QED
    BY <1>2, <1>8, <2>1, <2>2 DEF Headers
<1>9. CASE h.st = "value"
  <2>1. HeaderStep(h, c) \in {ended(h), [took EXCEPT !.val = Append(h.val, c)]}
    BY <1>9 DEF HeaderStep
  <2>2. Goes(ended(h))
    BY <1>3
  <2> HIDE DEF ended
  <2> QED
    BY <1>2, <1>9, <2>1, <2>2 DEF Headers
<1>10. CASE h.st = "post_lf"
  <2>1. HeaderStep(h, c) \in {[took EXCEPT !.st = "init"], [took EXCEPT !.st = took.st]}
    BY <1>10 DEF HeaderStep
  <2> QED
    BY <1>2, <1>10, <2>1 DEF Headers
<1> QED
  BY <1>1, <1>5, <1>6, <1>7, <1>8, <1>9, <1>10

LEMMA HeaderUnended ==
  ASSUME NEW Y, NEW data \in Seq(Y), HeaderLoop(data).st # "stop"
  PROVE  HeaderLoop(data).len = Len(data)
<1> DEFINE A == Headers(Y)
           k == Len(data)
<1>1. HeaderClosed(A, Y)
  BY NoHeaderIs, HeaderStepIs DEF HeaderClosed
<1>2. k \in Nat
  OBVIOUS
<1>3. PICK g : HeaderBy(g, A, data)
  BY <1>1, HeaderIs
<1>4. /\ g \in [0 .. k -> A] /\ g[0] = NoHeader /\ g[k] = HeaderLoop(data)
      /\ \A n \in 1 .. k : g[n] = HeaderStep(g[n - 1], data[n])
  BY <1>3 DEF HeaderBy
<1> HIDE DEF A, k
<1> DEFINE S == {n \in 0 .. k : g[n].st # "stop" => g[n].len = n}
<1>5. 0 \in S
  BY <1>2, <1>4 DEF NoHeader
<1>6. ASSUME NEW n \in 0 .. k, n < k, n \in S PROVE n + 1 \in S
  <2>1. n + 1 \in 1 .. k /\ n + 1 \in 0 .. k /\ (n + 1) - 1 = n /\ g[n] \in A
    BY <1>2, <1>4, <1>6
  <2>2. g[n + 1] = HeaderStep(g[n], data[n + 1])
    BY <1>4, <2>1
  <2>3. g[n + 1].st # "stop" => g[n].st # "stop" /\ g[n + 1].len = g[n].len + 1
    BY <2>1, <2>2, HeaderStepLen DEF A
  <2>4. g[n].st # "stop" => g[n].len = n
    BY <1>6
  <2> QED
    BY <2>1, <2>3, <2>4
<1> HIDE DEF S
<1>7. \A n \in 0 .. k : n \in S
  BY <1>2, <1>5, <1>6, NatIndUpTo
<1>8. k \in S
  BY <1>2, <1>7
<1> QED
  BY <1>4, <1>8 DEF S, k

(* What is left of data after n symbols. *)
LEMMA FromAt ==
  ASSUME NEW Y, NEW data \in Seq(Y), NEW n \in 0 .. Len(data)
  PROVE  /\ From(data, n) \in Seq(Y) /\ Len(From(data, n)) = Len(data) - n
         /\ \A i \in 1 .. Len(data) - n : From(data, n)[i] = data[n + i]
<1> DEFINE t == SubSeq(data, n + 1, Len(data))
<1>1. Len(data) \in Nat /\ n + 1 \in 1 .. Len(data) + 1 /\ Len(data) \in (n + 1) - 1 .. Len(data)
  OBVIOUS
<1>2. /\ t \in Seq(Y) /\ Len(t) = Len(data) - (n + 1) + 1
      /\ \A i \in 1 .. Len(data) - (n + 1) + 1 : t[i] = data[n + 1 + i - 1]
  BY <1>1, SubSeqProperties
<1> HIDE DEF t
<1>3. Len(t) = Len(data) - n /\ \A i \in 1 .. Len(data) - n : t[i] = data[n + i]
  BY <1>1, <1>2
<1> QED
  BY <1>2, <1>3 DEF From, t

LEMMA FromNone ==
  ASSUME NEW Y, NEW data \in Seq(Y)
  PROVE  From(data, Len(data)) = <<>>
BY SubSeqEmpty DEF From

LEMMA FromOver ==
  ASSUME NEW Y, NEW data \in Seq(Y), NEW n \in Nat, From(data, n) # <<>>
  PROVE  n \in 0 .. Len(data)
<1>1. CASE n > Len(data)
  <2>1. From(data, n) = <<>>
    BY <1>1, SubSeqEmpty DEF From
  <2> QED
    BY <2>1
<1> QED
  BY <1>1

LEMMA FromMore ==
  ASSUME NEW Y, NEW data \in Seq(Y), NEW more \in Seq(Y), NEW n \in 0 .. Len(data)
  PROVE  From(data \o more, n) = From(data, n) \o more
<1> DEFINE all == data \o more
           t   == From(all, n)
           u   == From(data, n) \o more
<1>1. /\ all \in Seq(Y) /\ Len(all) = Len(data) + Len(more) /\ Len(data) \in Nat /\ Len(more) \in Nat
      /\ \A i \in 1 .. Len(data) : all[i] = data[i]
      /\ \A i \in 1 .. Len(more) : all[Len(data) + i] = more[i]
  OBVIOUS
<1>2. n \in 0 .. Len(all)
  BY <1>1
<1> HIDE DEF all
<1>3. t \in Seq(Y) /\ Len(t) = Len(all) - n /\ \A i \in 1 .. Len(all) - n : t[i] = all[n + i]
  BY <1>1, <1>2, FromAt
<1>4. /\ From(data, n) \in Seq(Y) /\ Len(From(data, n)) = Len(data) - n
      /\ \A i \in 1 .. Len(data) - n : From(data, n)[i] = data[n + i]
  BY FromAt
<1> DEFINE f == From(data, n)
<1>41. f \in Seq(Y) /\ u = f \o more
  BY <1>4
<1> HIDE DEF f, u
<1>5. /\ u \in Seq(Y) /\ Len(u) = Len(f) + Len(more)
      /\ \A i \in 1 .. Len(f) : u[i] = f[i]
      /\ \A i \in 1 .. Len(more) : u[Len(f) + i] = more[i]
  BY <1>41
<1> HIDE DEF t
<1>6. Len(t) = Len(u)
  BY <1>1, <1>3, <1>4, <1>5 DEF f
<1>7. ASSUME NEW i \in 1 .. Len(t) PROVE t[i] = u[i]
  <2>1. CASE i <= Len(data) - n
    <3>1. i \in 1 .. Len(f) /\ n + i \in 1 .. Len(data) /\ i \in 1 .. Len(all) - n
      BY <1>1, <1>3, <1>4, <1>7, <2>1 DEF f
    <3>2. f[i] = data[n + i]
      BY <1>4, <3>1 DEF f
    <3> QED
      BY <1>1, <1>3, <1>5, <3>1, <3>2
  <2>2. CASE ~ (i <= Len(data) - n)
    <3> DEFINE m == i - (Len(data) - n)
    <3>1. m \in 1 .. Len(more) /\ i = Len(f) + m /\ n + i = Len(data) + m /\ i \in 1 .. Len(all) - n
      BY <1>1, <1>3, <1>4, <1>7, <2>2 DEF f
    <3> HIDE DEF m
    <3> QED
      BY <1>1, <1>3, <1>5, <3>1
  <2> QED
    BY <2>1, <2>2
<1>8. t = u
  BY <1>3, <1>5, <1>6, <1>7, SeqEqual
<1> QED
  BY <1>8 DEF t, u, all

(* A head stays one if more follows, which is then the body. *)
LEMMA HeadHolds ==
  ASSUME NEW Y, NEW data \in Seq(Y), NEW more \in Seq(Y), NEW line, line.len \in Nat, IsHead(line, data)
  PROVE  /\ ParseHttpMessage(line, data \o more).ok
         /\ ParseHttpMessage(line, data \o more).fields = ParseHttpMessage(line, data).fields
         /\ ParseHttpMessage(line, data \o more).body = more
<1> DEFINE rest == From(data, line.len)
           head == ParseHttpHeader(rest)
           tail == From(rest, head.len)
           sep  == ParseHttpBody(tail)
           all   == data \o more
           rest2 == From(all, line.len)
           head2 == ParseHttpHeader(rest2)
           tail2 == From(rest2, head2.len)
           sep2  == ParseHttpBody(tail2)
<1>1. /\ line.st = "stop" /\ rest # <<>> /\ head.st = "stop" /\ tail # <<>> /\ sep.st = "stop"
      /\ sep.len = Len(tail)
  BY DEF IsHead
<1>2. /\ ParseHttpMessage(line, all).ok =
           (line.st = "stop" /\ rest2 # <<>> /\ head2.st = "stop" /\ (tail2 # <<>> => sep2.st = "stop"))
      /\ ParseHttpMessage(line, all).fields = head2.fields
      /\ ParseHttpMessage(line, all).body = From(tail2, sep2.len)
      /\ ParseHttpMessage(line, data).fields = head.fields
  BY DEF ParseHttpMessage
<1>3. line.len \in 0 .. Len(data)
  BY <1>1, FromOver
<1>4. rest2 = rest \o more /\ rest \in Seq(Y)
  BY <1>3, FromMore, FromAt
<1>5. head \in Headers(Y)
  BY <1>4, HeaderParsed
<1>6. head.len \in 0 .. Len(rest)
  <2>1. head.len \in Nat
    BY <1>5 DEF Headers
  <2> HIDE DEF rest, head
  <2> QED
    BY <1>1, <1>4, <2>1, FromOver
<1>7. HeaderLoop(rest).st = "stop" /\ head = HeaderLoop(rest)
  <2> DEFINE l == HeaderLoop(rest)
  <2>1. head = IF l.st = "init" /\ l.len > 0 /\ Last(rest) = "LF" THEN [l EXCEPT !.st = "stop"] ELSE l
    BY DEF ParseHttpHeader, HeaderLoop, NoHeader
  <2>2. l \in Headers(Y)
    <3> HIDE DEF rest
    <3>1. HeaderClosed(Headers(Y), Y)
      BY NoHeaderIs, HeaderStepIs DEF HeaderClosed
    <3>2. PICK g : HeaderBy(g, Headers(Y), rest)
      BY <1>4, <3>1, HeaderIs
    <3> QED
      BY <1>4, <3>2 DEF HeaderBy
  <2>3. head.len = l.len
    BY <2>1, <2>2 DEF Headers
  <2>4. CASE l.st # "stop"
    <3>1. l.len = Len(rest)
      <4> HIDE DEF rest
      <4> QED
        BY <1>4, <2>4, HeaderUnended
    <3>2. tail = From(rest, Len(rest))
      BY <2>3, <3>1
    <3>3. From(rest, Len(rest)) = <<>>
      <4> HIDE DEF rest
      <4> QED
        BY <1>4, FromNone
    <3> QED
      BY <1>1, <3>2, <3>3
  <2>5. CASE l.st = "stop"
    <3> HIDE DEF l, head
    <3> QED
      BY <2>1, <2>5 DEF l
  <2> QED
    BY <2>4, <2>5
<1>8. head2 = head
  <2>1. HeaderLoop(rest2) = HeaderLoop(rest)
    <3> HIDE DEF rest, rest2
    <3> QED
      BY <1>4, <1>7, HeaderHeld
  <2> DEFINE l == HeaderLoop(rest2)
  <2>2. head2 = IF l.st = "init" /\ l.len > 0 /\ Last(rest2) = "LF" THEN [l EXCEPT !.st = "stop"] ELSE l
    BY DEF ParseHttpHeader, HeaderLoop, NoHeader
  <2> HIDE DEF rest, rest2, head, head2
  <2> QED
    BY <1>7, <2>1, <2>2
<1>9. tail2 = tail \o more /\ tail \in Seq(Y)
  <2>1. tail2 = From(rest \o more, head.len)
    BY <1>4, <1>8
  <2> HIDE DEF rest, rest2, head, head2
  <2> QED
    BY <1>4, <1>6, <2>1, FromMore, FromAt
<1>10. sep2 = sep
  <2> HIDE DEF tail, tail2
  <2> QED
    BY <1>1, <1>9, BodyHeld DEF ParseHttpBody
<1>11. rest2 # <<>>
  <2> HIDE DEF rest, rest2
  <2> QED
    BY <1>1, <1>4
<1>12. From(tail2, sep2.len) = more
  <2>1. sep2.len = Len(tail)
    BY <1>1, <1>10
  <2> HIDE DEF tail, tail2, sep2, sep
  <2>2. Len(tail) \in 0 .. Len(tail)
    BY <1>9
  <2>3. From(tail \o more, Len(tail)) = From(tail, Len(tail)) \o more
    BY <1>9, <2>2, FromMore
  <2>4. From(tail, Len(tail)) = <<>>
    BY <1>9, <2>2, FromNone
  <2> QED
    BY <1>9, <2>1, <2>3, <2>4
<1> HIDE DEF rest, rest2, head, head2, tail, tail2, sep, sep2
<1> QED
  BY <1>1, <1>2, <1>8, <1>10, <1>11, <1>12

LEMMA RequestHolds ==
  ASSUME NEW Y, NEW data \in Seq(Y), NEW more \in Seq(Y), IsHead(ParseHttpRequestLine(data), data)
  PROVE  /\ ParseHttpRequest(data \o more).ok
         /\ ParseHttpRequest(data \o more).fields = ParseHttpRequest(data).fields
         /\ ParseHttpRequest(data \o more).body = more
<1>1. ParseHttpRequestLine(data).st = "stop" /\ ParseHttpRequestLine(data).len \in Nat
  BY RequestLineStops DEF IsHead, ParseHttpRequestLine
<1>2. ParseHttpRequestLine(data \o more) = ParseHttpRequestLine(data)
  BY <1>1, RequestLineHeld DEF ParseHttpRequestLine
<1> QED
  BY <1>1, <1>2, HeadHolds DEF ParseHttpRequest

LEMMA FirstOf ==
  ASSUME NEW Y, NEW data \in Seq(Y), NEW more \in Seq(Y), NEW n \in 0 .. Len(data)
  PROVE  SubSeq(data \o more, 1, n) = SubSeq(data, 1, n)
<1> DEFINE a == SubSeq(data \o more, 1, n)
           b == SubSeq(data, 1, n)
<1>1. data \o more \in Seq(Y) /\ Len(data \o more) >= Len(data) /\ n \in Nat /\ n <= Len(data)
      /\ \A i \in 1 .. n : (data \o more)[i] = data[i]
  OBVIOUS
<1>2. a \in Seq(Y) /\ Len(a) = n /\ \A i \in 1 .. n : a[i] = (data \o more)[i]
  <2> DEFINE all == data \o more
  <2>1. all \in Seq(Y) /\ 1 \in 1 .. Len(all) + 1 /\ n \in 1 - 1 .. Len(all)
    BY <1>1
  <2> HIDE DEF all
  <2>2. SubSeq(all, 1, n) \in Seq(Y) /\ Len(SubSeq(all, 1, n)) = n
        /\ \A i \in 1 .. n : SubSeq(all, 1, n)[i] = all[i]
    BY <2>1, SubSeqProperties
  <2> QED
    BY <2>2 DEF all
<1>3. b \in Seq(Y) /\ Len(b) = n /\ \A i \in 1 .. n : b[i] = data[i]
  <2>1. 1 \in 1 .. Len(data) + 1 /\ n \in 1 - 1 .. Len(data)
    BY <1>1
  <2> QED
    BY <2>1, SubSeqProperties
<1> HIDE DEF a, b
<1>4. a = b
  BY <1>1, <1>2, <1>3, SeqEqual
<1> QED
  BY <1>4 DEF a, b

LEMMA ResponseHolds ==
  ASSUME NEW Y, NEW data \in Seq(Y), NEW more \in Seq(Y), IsHead(ParseHttpStatusLine(data), data)
  PROVE  /\ ParseHttpResponse(data \o more).ok
         /\ ParseHttpResponse(data \o more).fields = ParseHttpResponse(data).fields
         /\ ParseHttpResponse(data \o more).body = more
<1> DEFINE l == Loop(StatusLineStep, data)
<1>1. ParseHttpStatusLine(data).st = "stop" /\ From(data, ParseHttpStatusLine(data).len) # <<>>
  BY DEF IsHead
<1>2. ParseHttpStatusLine(data) = l /\ l.st = "stop" /\ CodeFits(SubSeq(data, 1, l.len))
  <2>1. CASE l.st = "stop" /\ ~ CodeFits(SubSeq(data, 1, l.len))
    <3>1. ParseHttpStatusLine(data) = [l EXCEPT !.st = "fail"]
      BY <2>1 DEF ParseHttpStatusLine
    <3>2. PICK A, g : StatusLineBy(g, A, data) /\ A = [st : StatusLineStates, len : Nat]
      BY StatusLineSteps, StatusLineIs
    <3>3. l \in [st : StatusLineStates, len : Nat]
      BY <3>2 DEF StatusLineBy
    <3>4. ParseHttpStatusLine(data).st = "fail"
      BY <3>1, <3>3
    <3> QED
      BY <1>1, <3>4
  <2>2. CASE ~ (l.st = "stop" /\ ~ CodeFits(SubSeq(data, 1, l.len)))
    <3>1. ParseHttpStatusLine(data) = l
      BY <2>2 DEF ParseHttpStatusLine
    <3> QED
      BY <1>1, <2>2, <3>1
  <2> QED
    BY <2>1, <2>2
<1>3. Loop(StatusLineStep, data \o more) = l
  BY <1>2, StatusLineHeld
<1>4. l.len \in Nat /\ l.len \in 0 .. Len(data)
  BY <1>1, <1>2, StatusLineStops, FromOver
<1>5. SubSeq(data \o more, 1, l.len) = SubSeq(data, 1, l.len)
  <2> HIDE DEF l
  <2> QED
    BY <1>4, FirstOf
<1>6. ParseHttpStatusLine(data \o more) = ParseHttpStatusLine(data)
  <2> HIDE DEF l
  <2> QED
    BY <1>2, <1>3, <1>5 DEF ParseHttpStatusLine
<1> QED
  BY <1>2, <1>4, <1>6, HeadHolds DEF ParseHttpResponse

(* With more behind it, a complete header is one. *)
LEMMA HeaderStays ==
  ASSUME NEW Y, NEW data \in Seq(Y), NEW more \in Seq(Y), HasCompleteHttpHeader(data)
  PROVE  HasCompleteHttpHeader(data \o more)
<1>1. PICK i \in 0 .. Len(data) - 4 : IsPrefix(EmptyLine, From(data, i))
  BY DEF HasCompleteHttpHeader
<1>2. i \in 0 .. Len(data) /\ Len(data) \in Nat /\ Len(EmptyLine) = 4
  BY <1>1 DEF EmptyLine
<1> DEFINE t == From(data, i)
<1>3. t \in Seq(Y) /\ From(data \o more, i) = t \o more
  BY <1>2, FromAt, FromMore
<1> HIDE DEF t
<1>4. Len(t) >= 4 /\ SubSeq(EmptyLine, 1, 4) = SubSeq(t, 1, 4)
  BY <1>1, <1>2 DEF IsPrefix, t
<1>5. 1 \in 1 .. Len(t) /\ 4 \in 1 .. Len(t)
  BY <1>3, <1>4
<1>6. SubSeq(t \o more, 1, 4) = SubSeq(t, 1, 4)
  BY <1>3, <1>5, SubSeqOfConcat1
<1>7. Len(t \o more) >= 4
  BY <1>3, <1>4
<1>8. IsPrefix(EmptyLine, From(data \o more, i))
  BY <1>2, <1>3, <1>4, <1>6, <1>7 DEF IsPrefix
<1>9. i \in 0 .. Len(data \o more) - 4
  BY <1>1
<1> QED
  BY <1>8, <1>9 DEF HasCompleteHttpHeader

-----------------------------------------------------------------------------
(* A recombinder that is given a body in pieces comes to what it would come*)
(* to if it were given all at once.                                        *)
Quiet == {r \in Recombs : r.call = NoCall}

LEMMA QuietTurn ==
  ASSUME NEW r \in Quiet, NEW c
  PROVE  ChunkTurn(r, c) \in Quiet
<1>1. r \in Recombs /\ r.call = NoCall
  BY DEF Quiet
<1>2. ChunkTurn(r, c) \in Recombs
  BY <1>1, ChunkTurnIs
<1>3. ChunkTurn(r, c).call = r.call
  BY <1>1 DEF ChunkTurn, Recombs
<1> QED
  BY <1>1, <1>2, <1>3 DEF Quiet

LEMMA ChunkFsmQuiet ==
  ASSUME NEW Y, NEW data \in Seq(Y), NEW r \in Quiet
  PROVE  ProcChunkFsm(r, data) \in Quiet
<1>1. ChunksClosed(Quiet, r, Y)
  BY QuietTurn DEF ChunksClosed
<1>2. PICK g : ChunksBy(g, Quiet, r, data)
  BY <1>1, ChunksIs
<1> QED
  BY <1>2 DEF ChunksBy

LEMMA ChunkFsmSplit ==
  ASSUME NEW Y, NEW data \in Seq(Y), NEW more \in Seq(Y), NEW r \in Recombs
  PROVE  ProcChunkFsm(ProcChunkFsm(r, data), more) = ProcChunkFsm(r, data \o more)
<1> DEFINE all == data \o more
           j   == Len(data)
           m   == Len(more)
           p   == ProcChunkFsm(r, data)
<1>1. /\ all \in Seq(Y) /\ j \in Nat /\ m \in Nat /\ Len(all) = j + m
      /\ \A n \in 1 .. j : all[n] = data[n]
      /\ \A n \in 1 .. m : all[j + n] = more[n]
  OBVIOUS
<1>2. p \in Recombs
  BY ChunkFsmIs
<1> HIDE DEF all, p
<1>3. \A q \in Recombs : ChunksClosed(Recombs, q, Y)
  BY ChunkTurnIs DEF ChunksClosed
<1>4. PICK g : ChunksBy(g, Recombs, r, data)
  BY <1>3, ChunksIs
<1>5. PICK h : ChunksBy(h, Recombs, r, all)
  BY <1>1, <1>3, ChunksIs
<1>6. PICK f : ChunksBy(f, Recombs, p, more)
  BY <1>2, <1>3, ChunksIs
<1>7. /\ g[0] = h[0] /\ g[j] = p /\ h[j + m] = ProcChunkFsm(r, all)
      /\ f[0] = p /\ f[m] = ProcChunkFsm(p, more)
      /\ \A n \in 1 .. j : g[n] = ChunkTurn(g[n - 1], data[n])
      /\ \A n \in 1 .. j + m : h[n] = ChunkTurn(h[n - 1], all[n])
      /\ \A n \in 1 .. m : f[n] = ChunkTurn(f[n - 1], more[n])
  BY <1>1, <1>4, <1>5, <1>6 DEF ChunksBy, p
<1> HIDE DEF j, m
<1>8. g[j] = h[j]
  <2>1. ASSUME NEW n \in 1 .. j, g[n - 1] = h[n - 1] PROVE g[n] = h[n]
    <3>1. n \in 1 .. j + m
      BY <1>1
    <3> QED
      BY <1>1, <1>7, <2>1, <3>1
  <2> QED
    BY <1>1, <1>7, <2>1, GoAlike
<1> DEFINE e == [n \in 0 .. m |-> h[j + n]]
<1>9. e[0] = h[j] /\ e[m] = h[j + m] /\ \A n \in 1 .. m : e[n] = h[j + n] /\ e[n - 1] = h[j + n - 1]
  BY <1>1
<1> HIDE DEF e
<1>10. f[m] = e[m]
  <2>1. f[0] = e[0]
    BY <1>7, <1>8, <1>9
  <2>2. ASSUME NEW n \in 1 .. m, f[n - 1] = e[n - 1] PROVE f[n] = e[n]
    <3> DEFINE i == j + n
    <3>1. i \in 1 .. j + m
      BY <1>1
    <3>2. all[i] = more[n] /\ e[n] = h[i] /\ e[n - 1] = h[i - 1]
      BY <1>1, <1>9
    <3> HIDE DEF i
    <3>3. h[i] = ChunkTurn(h[i - 1], all[i])
      BY <1>7, <3>1
    <3> QED
      BY <1>7, <2>2, <3>2, <3>3
  <2> QED
    BY <1>1, <2>1, <2>2, GoAlike
<1> QED
  BY <1>7, <1>9, <1>10 DEF p, all

(* What two recombinders must agree in to come to the same. *)
Same(r, q) ==
  /\ r.type = q.type
  /\ r.type = "length"  => r.length = q.length /\ r.appended = q.appended
  /\ r.type = "chunked" => r.chunk = q.chunk /\ r.parsed = q.parsed

ChunkSame(r, q) == r.type = q.type /\ r.chunk = q.chunk /\ r.parsed = q.parsed

LEMMA ChunkFsmSame ==
  ASSUME NEW Y, NEW data \in Seq(Y), NEW r \in Recombs, NEW q \in Recombs, ChunkSame(r, q)
  PROVE  ChunkSame(ProcChunkFsm(r, data), ProcChunkFsm(q, data))
<1> DEFINE k == Len(data)
<1>1. k \in Nat
  OBVIOUS
<1>2. \A x \in Recombs : ChunksClosed(Recombs, x, Y)
  BY ChunkTurnIs DEF ChunksClosed
<1>3. PICK g : ChunksBy(g, Recombs, r, data)
  BY <1>2, ChunksIs
<1>4. PICK h : ChunksBy(h, Recombs, q, data)
  BY <1>2, ChunksIs
<1>5. /\ g \in [0 .. k -> Recombs] /\ h \in [0 .. k -> Recombs] /\ g[0] = r /\ h[0] = q
      /\ g[k] = ProcChunkFsm(r, data) /\ h[k] = ProcChunkFsm(q, data)
      /\ \A n \in 1 .. k : g[n] = ChunkTurn(g[n - 1], data[n]) /\ h[n] = ChunkTurn(h[n - 1], data[n])
  BY <1>3, <1>4 DEF ChunksBy
<1> HIDE DEF k
<1> DEFINE S == {n \in 0 .. k : ChunkSame(g[n], h[n])}
<1>6. 0 \in S
  BY <1>1, <1>5
<1>7. ASSUME NEW n \in 0 .. k, n < k, n \in S PROVE n + 1 \in S
  <2>1. n + 1 \in 1 .. k /\ n + 1 \in 0 .. k /\ (n + 1) - 1 = n /\ g[n] \in Recombs /\ h[n] \in Recombs
    BY <1>1, <1>5, <1>7
  <2>2. g[n + 1] = ChunkTurn(g[n], data[n + 1]) /\ h[n + 1] = ChunkTurn(h[n], data[n + 1])
    BY <1>5, <2>1
  <2>3. ChunkSame(g[n], h[n])
    BY <1>7
  <2>4. ASSUME NEW x \in Recombs, NEW y \in Recombs, ChunkSame(x, y), NEW c
        PROVE  ChunkSame(ChunkTurn(x, c), ChunkTurn(y, c))
    BY <2>4 DEF ChunkSame, ChunkTurn, Recombs
  <2> QED
    BY <2>1, <2>2, <2>3, <2>4
<1> HIDE DEF S
<1>8. \A n \in 0 .. k : n \in S
  BY <1>1, <1>6, <1>7, NatIndUpTo
<1>9. k \in S
  BY <1>1, <1>8
<1> QED
  BY <1>5, <1>9 DEF S

LEMMA CallsDiffer ==
  /\ NoCall.result = "none" /\ Failed.result = "false" /\ \A n : Done(n).result = "true" /\ Done(n).len = n
  /\ NoCall # Failed /\ \A n : Done(n) # NoCall /\ Done(n) # Failed
BY DEF NoCall, Failed, Done

(* AppendData, by the kind of body. *)
LEMMA LengthAppended ==
  ASSUME NEW Y, NEW data \in Seq(Y), NEW r \in Recombs, r.type = "length"
  PROVE  AppendData(r, data) =
           IF r.length = 0 THEN [r EXCEPT !.call = Done(0)]
           ELSE IF r.appended + Len(data) < r.length
           THEN [r EXCEPT !.call = NoCall, !.appended = r.appended + Len(data)]
           ELSE [r EXCEPT !.call = Done(r.length), !.appended = r.appended + Len(data)]
<1> DEFINE q == [r EXCEPT !.call = NoCall]
           n == r.appended + Len(data)
<1>1. q.length = r.length /\ q.appended = r.appended /\ [q EXCEPT !.call = Done(0)] = [r EXCEPT !.call = Done(0)]
  BY DEF Recombs
<1>2. /\ [q EXCEPT !.appended = n] = [r EXCEPT !.call = NoCall, !.appended = n]
      /\ [q EXCEPT !.appended = n].appended = n
      /\ [[q EXCEPT !.appended = n] EXCEPT !.call = Done(r.length)] = [r EXCEPT !.call = Done(r.length), !.appended = n]
  BY DEF Recombs
<1>3. AppendData(r, data) = AppendLength(q, data)
  BY DEF AppendData
<1>4. AppendLength(q, data) =
        IF q.length = 0 THEN [q EXCEPT !.call = Done(0)]
        ELSE IF [q EXCEPT !.appended = q.appended + Len(data)].appended < q.length
        THEN [q EXCEPT !.appended = q.appended + Len(data)]
        ELSE [[q EXCEPT !.appended = q.appended + Len(data)] EXCEPT !.call = Done(q.length)]
  BY DEF AppendLength
<1> HIDE DEF q
<1> QED
  BY <1>1, <1>2, <1>3, <1>4

LEMMA ChunksAppended ==
  ASSUME NEW Y, NEW data \in Seq(Y), NEW r \in Recombs, r.type = "chunked",
         NEW p, p = ProcChunkFsm([r EXCEPT !.call = NoCall], data)
  PROVE  /\ p \in Quiet
         /\ AppendData(r, data) =
              CASE p.chunk.st = "fail" -> [p EXCEPT !.call = Failed]
                [] p.chunk.st \in {"stop", "done"} -> [p EXCEPT !.call = Done(p.parsed), !.parsed = 0]
                [] p.chunk.st \notin {"fail", "stop", "done"} -> p
<1> DEFINE q == [r EXCEPT !.call = NoCall]
<1>1. q \in Quiet
  BY DEF Recombs, Quiet, Calls
<1>2. p \in Quiet
  <2> HIDE DEF q
  <2>1. p = ProcChunkFsm(q, data)
    BY DEF q
  <2> QED
    BY <1>1, <2>1, ChunkFsmQuiet
<1>3. AppendData(r, data) = AppendChunked(q, data)
  BY DEF AppendData
<1> QED
  BY <1>2, <1>3 DEF AppendChunked

LEMMA UnknownAppended ==
  ASSUME NEW Y, NEW data \in Seq(Y), NEW r \in Recombs, r.type = "unknown"
  PROVE  AppendData(r, data) = [r EXCEPT !.call = Done(Len(data))]
<1> DEFINE q == [r EXCEPT !.call = NoCall]
<1>1. AppendData(r, data) = [q EXCEPT !.call = Done(Len(data))]
  BY DEF AppendData, AppendUnknown
<1> QED
  BY <1>1 DEF Recombs

LEMMA ChunkFsmSpares ==
  ASSUME NEW Y, NEW data \in Seq(Y), NEW r \in Recombs
  PROVE  ProcChunkFsm(r, data).type = r.type /\ ProcChunkFsm(r, data).appended = r.appended
<1> DEFINE A == {x \in Recombs : x.type = r.type /\ x.appended = r.appended}
<1>1. ASSUME NEW x \in A, NEW c PROVE ChunkTurn(x, c) \in A
  <2>1. x \in Recombs /\ x.type = r.type /\ x.appended = r.appended
    OBVIOUS
  <2>2. ChunkTurn(x, c) \in Recombs
    BY <2>1, ChunkTurnIs
  <2>3. ChunkTurn(x, c).type = x.type /\ ChunkTurn(x, c).appended = x.appended
    BY <2>1 DEF ChunkTurn, Recombs
  <2> QED
    BY <2>1, <2>2, <2>3
<1>2. r \in A
  OBVIOUS
<1>3. A \subseteq Recombs /\ \A x \in A : x.type = r.type /\ x.appended = r.appended
  OBVIOUS
<1> HIDE DEF A
<1>4. ChunksClosed(A, r, Y)
  BY <1>1, <1>2 DEF ChunksClosed
<1>5. PICK g : ChunksBy(g, A, r, data)
  BY <1>4, ChunksIs
<1>6. ProcChunkFsm(r, data) \in A
  BY <1>5 DEF ChunksBy
<1> QED
  BY <1>3, <1>6

(* As long as nothing is told, what comes next is appended as if it had    *)
(* come with what came before.                                             *)
LEMMA AppendedOn ==
  ASSUME NEW Y, NEW data \in Seq(Y), NEW more \in Seq(Y), NEW r \in Recombs,
         AppendData(r, data).call = NoCall
  PROVE  AppendData(AppendData(r, data), more) = AppendData(r, data \o more)
<1> DEFINE all == data \o more
           t   == AppendData(r, data)
<1>1. all \in Seq(Y) /\ Len(all) = Len(data) + Len(more) /\ Len(data) \in Nat /\ Len(more) \in Nat
  OBVIOUS
<1>2. t \in Recombs /\ t.call = NoCall
  BY AppendDataIs
<1> HIDE DEF all, t
<1>3. CASE r.type = "length"
  <2> DEFINE n == r.appended + Len(data)
  <2>1. t = IF r.length = 0 THEN [r EXCEPT !.call = Done(0)]
            ELSE IF n < r.length THEN [r EXCEPT !.call = NoCall, !.appended = n]
            ELSE [r EXCEPT !.call = Done(r.length), !.appended = n]
    BY <1>3, LengthAppended DEF t
  <2>2. \A c, m : [r EXCEPT !.call = c].call = c /\ [r EXCEPT !.call = c, !.appended = m].call = c
    BY DEF Recombs
  <2>3. n \in Nat /\ r.length \in Nat
    BY <1>1 DEF Recombs
  <2> HIDE DEF n
  <2>4. r.length # 0 /\ n < r.length /\ t = [r EXCEPT !.call = NoCall, !.appended = n]
    BY <1>2, <2>1, <2>2, CallsDiffer
  <2>5. t.type = "length" /\ t.length = r.length /\ t.appended = n
    BY <1>3, <2>4 DEF Recombs
  <2>6. \A c, m : [t EXCEPT !.call = c, !.appended = m] = [r EXCEPT !.call = c, !.appended = m]
    BY <2>4 DEF Recombs
  <2>7. n + Len(more) = r.appended + Len(all)
    BY <1>1 DEF n, Recombs
  <2>8. AppendData(t, more) =
          IF n + Len(more) < r.length THEN [t EXCEPT !.call = NoCall, !.appended = n + Len(more)]
          ELSE [t EXCEPT !.call = Done(r.length), !.appended = n + Len(more)]
    <3>1. AppendData(t, more) =
            IF t.length = 0 THEN [t EXCEPT !.call = Done(0)]
            ELSE IF t.appended + Len(more) < t.length
            THEN [t EXCEPT !.call = NoCall, !.appended = t.appended + Len(more)]
            ELSE [t EXCEPT !.call = Done(t.length), !.appended = t.appended + Len(more)]
      BY <1>2, <2>5, LengthAppended
    <3> QED
      BY <2>4, <2>5, <3>1
  <2>9. AppendData(r, all) =
          IF r.appended + Len(all) < r.length THEN [r EXCEPT !.call = NoCall, !.appended = r.appended + Len(all)]
          ELSE [r EXCEPT !.call = Done(r.length), !.appended = r.appended + Len(all)]
    BY <1>1, <1>3, <2>4, LengthAppended
  <2> DEFINE k == n + Len(more)
  <2>10. /\ [t EXCEPT !.call = NoCall, !.appended = k] = [r EXCEPT !.call = NoCall, !.appended = k]
         /\ [t EXCEPT !.call = Done(r.length), !.appended = k] = [r EXCEPT !.call = Done(r.length), !.appended = k]
    BY <2>6
  <2>11. k = r.appended + Len(all)
    BY <2>7
  <2> HIDE DEF k
  <2>12. AppendData(t, more) =
          IF k < r.length THEN [t EXCEPT !.call = NoCall, !.appended = k]
          ELSE [t EXCEPT !.call = Done(r.length), !.appended = k]
    BY <2>8 DEF k
  <2>13. AppendData(r, all) =
          IF k < r.length THEN [r EXCEPT !.call = NoCall, !.appended = k]
          ELSE [r EXCEPT !.call = Done(r.length), !.appended = k]
    BY <2>9, <2>11
  <2> QED
    BY <2>10, <2>12, <2>13 DEF t, all
<1>4. CASE r.type = "chunked"
  <2> DEFINE q == [r EXCEPT !.call = NoCall]
             p == ProcChunkFsm(q, data)
  <2>0. q \in Recombs
    BY DEF Recombs, Calls
  <2>1. p \in Quiet /\ t = CASE p.chunk.st = "fail" -> [p EXCEPT !.call = Failed]
                             [] p.chunk.st \in {"stop", "done"} -> [p EXCEPT !.call = Done(p.parsed), !.parsed = 0]
                             [] p.chunk.st \notin {"fail", "stop", "done"} -> p
    BY <1>4, ChunksAppended DEF t
  <2> HIDE DEF p
  <2>2. p \in Recombs /\ p.call = NoCall
    BY <2>1 DEF Quiet
  <2>3. p.chunk.st \notin {"fail", "stop", "done"}
    <3>1. \A c : [p EXCEPT !.call = c].call = c /\ [p EXCEPT !.call = c, !.parsed = 0].call = c
      BY <2>2 DEF Recombs
    <3>2. CASE p.chunk.st = "fail"
      BY <1>2, <2>1, <3>1, <3>2, CallsDiffer
    <3>3. CASE p.chunk.st \in {"stop", "done"}
      <4>1. t = [p EXCEPT !.call = Done(p.parsed), !.parsed = 0]
        BY <2>1, <3>3
      <4> QED
        BY <1>2, <3>1, <4>1, CallsDiffer
    <3> QED
      BY <3>2, <3>3
  <2>4. t = p
    BY <2>1, <2>3
  <2>5. t.type = "chunked" /\ [t EXCEPT !.call = NoCall] = t
    <3>1. p.type = q.type
      BY <2>0, ChunkFsmSpares DEF p
    <3>2. q.type = "chunked"
      BY <1>4 DEF Recombs
    <3> QED
      BY <2>2, <2>4, <3>1, <3>2 DEF Recombs
  <2>6. ProcChunkFsm(t, more) = ProcChunkFsm(q, all)
    <3> HIDE DEF q
    <3> QED
      BY <2>0, <2>4, ChunkFsmSplit DEF p, all
  <2> DEFINE u == ProcChunkFsm(q, all)
             Out(x) == CASE x.chunk.st = "fail" -> [x EXCEPT !.call = Failed]
                         [] x.chunk.st \in {"stop", "done"} -> [x EXCEPT !.call = Done(x.parsed), !.parsed = 0]
                         [] x.chunk.st \notin {"fail", "stop", "done"} -> x
  <2>7. AppendData(r, all) = Out(u)
    BY <1>1, <1>4, ChunksAppended
  <2>8. AppendData(t, more) = Out(u)
    <3> HIDE DEF q
    <3>1. u = ProcChunkFsm([t EXCEPT !.call = NoCall], more)
      BY <2>5, <2>6
    <3> HIDE DEF u
    <3> QED
      BY <1>2, <2>5, <3>1, ChunksAppended
  <2> QED
    BY <2>7, <2>8 DEF t, all
<1>5. CASE r.type = "unknown"
  <2>1. t = [r EXCEPT !.call = Done(Len(data))]
    BY <1>5, UnknownAppended DEF t
  <2>2. t.call = Done(Len(data))
    BY <2>1 DEF Recombs
  <2> QED
    BY <1>2, <2>2, CallsDiffer
<1> QED
  BY <1>3, <1>4, <1>5 DEF Recombs

(* Such two are told the same, and go on alike as long as nothing is.     *)
LEMMA AppendSame ==
  ASSUME NEW Y, NEW data \in Seq(Y), NEW r \in Recombs, NEW q \in Recombs, Same(r, q)
  PROVE  /\ AppendData(r, data).call = AppendData(q, data).call
         /\ AppendData(r, data).call = NoCall => Same(AppendData(r, data), AppendData(q, data))
<1>1. r.type = q.type
  BY DEF Same
<1>2. CASE r.type = "length"
  <2>1. r.length = q.length /\ r.appended = q.appended /\ r.length \in Nat
    BY <1>2 DEF Same, Recombs
  <2> DEFINE n == r.appended + Len(data)
  <2>2. AppendData(r, data) = IF r.length = 0 THEN [r EXCEPT !.call = Done(0)]
                              ELSE IF n < r.length THEN [r EXCEPT !.call = NoCall, !.appended = n]
                              ELSE [r EXCEPT !.call = Done(r.length), !.appended = n]
    BY <1>2, LengthAppended
  <2>3. AppendData(q, data) = IF q.length = 0 THEN [q EXCEPT !.call = Done(0)]
                              ELSE IF n < q.length THEN [q EXCEPT !.call = NoCall, !.appended = n]
                              ELSE [q EXCEPT !.call = Done(q.length), !.appended = n]
    BY <1>1, <1>2, <2>1, LengthAppended
  <2> HIDE DEF n
  <2>4. ASSUME NEW x \in Recombs, NEW c
        PROVE  /\ [x EXCEPT !.call = c].call = c /\ [x EXCEPT !.call = c, !.appended = n].call = c
               /\ [x EXCEPT !.call = c, !.appended = n].type = x.type
               /\ [x EXCEPT !.call = c, !.appended = n].length = x.length
               /\ [x EXCEPT !.call = c, !.appended = n].appended = n
    BY DEF Recombs
  <2>5. CASE r.length = 0
    BY <2>1, <2>2, <2>3, <2>4, <2>5, CallsDiffer
  <2>6. CASE r.length # 0 /\ n < r.length
    <3>1. AppendData(r, data) = [r EXCEPT !.call = NoCall, !.appended = n]
      BY <2>2, <2>6
    <3>2. AppendData(q, data) = [q EXCEPT !.call = NoCall, !.appended = n]
      BY <2>1, <2>3, <2>6
    <3> DEFINE u == AppendData(r, data)
               v == AppendData(q, data)
    <3>3. u.type = "length" /\ u.length = r.length /\ u.appended = n /\ u.call = NoCall
      BY <1>2, <2>4, <3>1
    <3>4. v.type = "length" /\ v.length = r.length /\ v.appended = n /\ v.call = NoCall
      <4>1. q.type = "length" /\ q.length = r.length
        BY <1>1, <1>2, <2>1
      <4>2. v = [q EXCEPT !.call = NoCall, !.appended = n]
        BY <3>2
      <4> HIDE DEF v
      <4> QED
        BY <2>4, <4>1, <4>2
    <3> HIDE DEF u, v
    <3>5. Same(u, v)
      BY <3>3, <3>4 DEF Same
    <3> QED
      BY <3>3, <3>4, <3>5 DEF u, v
  <2>7. CASE r.length # 0 /\ ~ (n < r.length)
    <3>1. AppendData(r, data) = [r EXCEPT !.call = Done(r.length), !.appended = n]
      BY <2>2, <2>7
    <3>2. AppendData(q, data) = [q EXCEPT !.call = Done(r.length), !.appended = n]
      BY <2>1, <2>3, <2>7
    <3> QED
      BY <2>4, <3>1, <3>2, CallsDiffer
  <2> QED
    BY <2>5, <2>6, <2>7
<1>3. CASE r.type = "chunked"
  <2> DEFINE r0 == [r EXCEPT !.call = NoCall]
             q0 == [q EXCEPT !.call = NoCall]
             u  == ProcChunkFsm(r0, data)
             v  == ProcChunkFsm(q0, data)
             Out(x) == CASE x.chunk.st = "fail" -> [x EXCEPT !.call = Failed]
                         [] x.chunk.st \in {"stop", "done"} -> [x EXCEPT !.call = Done(x.parsed), !.parsed = 0]
                         [] x.chunk.st \notin {"fail", "stop", "done"} -> x
  <2>1. r0 \in Recombs /\ q0 \in Recombs /\ ChunkSame(r0, q0)
    <3>1. r0 \in Recombs /\ q0 \in Recombs
      BY DEF Recombs, Calls
    <3>2. r0.type = r.type /\ r0.chunk = r.chunk /\ r0.parsed = r.parsed
      BY DEF Recombs
    <3>3. q0.type = q.type /\ q0.chunk = q.chunk /\ q0.parsed = q.parsed
      BY DEF Recombs
    <3> QED
      BY <1>3, <3>1, <3>2, <3>3 DEF Same, ChunkSame
  <2>2. AppendData(r, data) = Out(u) /\ u \in Quiet
    BY <1>3, ChunksAppended
  <2>3. AppendData(q, data) = Out(v) /\ v \in Quiet
    BY <1>1, <1>3, ChunksAppended
  <2>4. ChunkSame(u, v)
    <3> HIDE DEF r0, q0
    <3> QED
      BY <2>1, ChunkFsmSame
  <2>5. u.type = "chunked"
    <3>1. r0.type = "chunked"
      BY <1>3 DEF Recombs
    <3> HIDE DEF r0
    <3> QED
      BY <2>1, <3>1, ChunkFsmSpares
  <2> HIDE DEF u, v
  <2>6. u \in Recombs /\ v \in Recombs /\ u.call = NoCall /\ v.call = NoCall
    BY <2>2, <2>3 DEF Quiet
  <2>7. ASSUME NEW x \in Recombs, NEW c
        PROVE  [x EXCEPT !.call = c].call = c /\ [x EXCEPT !.call = c, !.parsed = 0].call = c
    BY DEF Recombs
  <2>8. u.chunk.st = v.chunk.st /\ u.parsed = v.parsed
    BY <2>4 DEF ChunkSame
  <2>9. CASE u.chunk.st = "fail"
    <3>1. AppendData(r, data) = [u EXCEPT !.call = Failed] /\ AppendData(q, data) = [v EXCEPT !.call = Failed]
      BY <2>2, <2>3, <2>8, <2>9
    <3> QED
      BY <2>6, <2>7, <3>1, CallsDiffer
  <2>10. CASE u.chunk.st \in {"stop", "done"}
    <3> DEFINE n == u.parsed
    <3>1. /\ AppendData(r, data) = [u EXCEPT !.call = Done(n), !.parsed = 0]
          /\ AppendData(q, data) = [v EXCEPT !.call = Done(n), !.parsed = 0]
      BY <2>2, <2>3, <2>8, <2>10
    <3> HIDE DEF n
    <3> QED
      BY <2>6, <2>7, <3>1, CallsDiffer
  <2>11. CASE u.chunk.st \notin {"fail", "stop", "done"}
    <3>1. AppendData(r, data) = u /\ AppendData(q, data) = v
      BY <2>2, <2>3, <2>8, <2>11
    <3> QED
      BY <2>4, <2>5, <2>6, <3>1 DEF Same, ChunkSame
  <2> QED
    BY <2>9, <2>10, <2>11
<1>4. CASE r.type = "unknown"
  <2>1. AppendData(r, data) = [r EXCEPT !.call = Done(Len(data))]
    BY <1>4, UnknownAppended
  <2>2. AppendData(q, data) = [q EXCEPT !.call = Done(Len(data))]
    BY <1>1, <1>4, UnknownAppended
  <2>3. AppendData(r, data).call = Done(Len(data)) /\ AppendData(q, data).call = Done(Len(data))
    BY <2>1, <2>2 DEF Recombs
  <2> QED
    BY <2>3, CallsDiffer
<1> QED
  BY <1>2, <1>3, <1>4 DEF Recombs

(* What a kind of body does not count stays as it is; and the chunked one  *)
(* is at 0 again when it is whole.                                         *)
LEMMA AppendSpares ==
  ASSUME NEW Y, NEW data \in Seq(Y), NEW r \in Recombs, NEW p, p = AppendData(r, data)
  PROVE  /\ p.type = r.type
         /\ r.type # "length"  => p.appended = r.appended
         /\ r.type # "chunked" => p.parsed = r.parsed
         /\ r.type = "chunked" /\ p.call.result = "true" => p.parsed = 0
<1>1. CASE r.type = "length"
  <2> DEFINE n == r.appended + Len(data)
  <2>1. p = IF r.length = 0 THEN [r EXCEPT !.call = Done(0)]
            ELSE IF n < r.length THEN [r EXCEPT !.call = NoCall, !.appended = n]
            ELSE [r EXCEPT !.call = Done(r.length), !.appended = n]
    BY <1>1, LengthAppended
  <2> HIDE DEF n
  <2>2. p.type = r.type /\ p.parsed = r.parsed
    BY <2>1 DEF Recombs
  <2> QED
    BY <1>1, <2>2
<1>2. CASE r.type = "chunked"
  <2> DEFINE q == [r EXCEPT !.call = NoCall]
             u == ProcChunkFsm(q, data)
  <2>1. q \in Recombs /\ q.type = r.type /\ q.appended = r.appended
    BY DEF Recombs, Calls
  <2>2. u \in Quiet
        /\ p = CASE u.chunk.st = "fail" -> [u EXCEPT !.call = Failed]
                 [] u.chunk.st \in {"stop", "done"} -> [u EXCEPT !.call = Done(u.parsed), !.parsed = 0]
                 [] u.chunk.st \notin {"fail", "stop", "done"} -> u
    BY <1>2, ChunksAppended
  <2>3. u.type = r.type /\ u.appended = r.appended
    <3> HIDE DEF q
    <3> QED
      BY <2>1, ChunkFsmSpares
  <2> HIDE DEF u
  <2>4. u \in Recombs /\ u.call = NoCall
    BY <2>2 DEF Quiet
  <2>5. CASE u.chunk.st = "fail"
    <3>1. p = [u EXCEPT !.call = Failed]
      BY <2>2, <2>5
    <3>2. p.call = Failed /\ p.type = u.type /\ p.appended = u.appended
      BY <2>4, <3>1 DEF Recombs
    <3> QED
      BY <1>2, <2>3, <3>2, CallsDiffer
  <2>6. CASE u.chunk.st \in {"stop", "done"}
    <3>1. p = [u EXCEPT !.call = Done(u.parsed), !.parsed = 0]
      BY <2>2, <2>6
    <3>2. p.parsed = 0 /\ p.type = u.type /\ p.appended = u.appended
      BY <2>4, <3>1 DEF Recombs
    <3> QED
      BY <1>2, <2>3, <3>2
  <2>7. CASE u.chunk.st \notin {"fail", "stop", "done"}
    <3>1. p = u
      BY <2>2, <2>7
    <3> QED
      BY <1>2, <2>3, <2>4, <3>1, CallsDiffer
  <2> QED
    BY <2>5, <2>6, <2>7
<1>3. CASE r.type = "unknown"
  <2>1. p = [r EXCEPT !.call = Done(Len(data))]
    BY <1>3, UnknownAppended
  <2>2. p.type = r.type /\ p.parsed = r.parsed /\ p.appended = r.appended
    BY <2>1 DEF Recombs
  <2> QED
    BY <1>3, <2>2
<1> QED
  BY <1>1, <1>2, <1>3 DEF Recombs

(* A recombinder used again, with nothing left over that the next body is  *)
(* counted from, is as good as a new one.                                  *)
LEMMA SameTransfer ==
  ASSUME NEW Y, NEW r \in Recombs, NEW f \in Fields(Y), r.parsed = 0,
         r.appended = 0 \/ Ready(f).type # "length"
  PROVE  Same(SetTransferType(r, f), Ready(f)) /\ Ready(f) \in Recombs
<1>1. NewRecombinder \in Recombs /\ NewRecombinder.parsed = 0 /\ NewRecombinder.appended = 0
  BY NewRecombinderIs DEF NewRecombinder
<1>2. Ready(f) = SetTransferType(NewRecombinder, f)
  BY DEF Ready
<1>3. Ready(f) \in Recombs
  BY <1>1, <1>2, TransferIs
<1>4. ASSUME NEW x \in Recombs
      PROVE  /\ <<"te">> \in DOMAIN f =>
                  /\ SetTransferType(x, f).type = "chunked" /\ SetTransferType(x, f).chunk = NewChunk
                  /\ SetTransferType(x, f).parsed = x.parsed
             /\ <<"te">> \notin DOMAIN f /\ <<"cl">> \in DOMAIN f =>
                  /\ SetTransferType(x, f).type = "length"
                  /\ SetTransferType(x, f).length = DecimalOrZero(f[<<"cl">>])
                  /\ SetTransferType(x, f).appended = x.appended
             /\ <<"te">> \notin DOMAIN f /\ <<"cl">> \notin DOMAIN f => SetTransferType(x, f).type = "unknown"
  <2>1. CASE <<"te">> \in DOMAIN f
    <3>1. SetTransferType(x, f) = [x EXCEPT !.type = "chunked", !.chunk = NewChunk]
      BY <2>1 DEF SetTransferType
    <3> QED
      BY <2>1, <3>1 DEF Recombs
  <2>2. CASE <<"te">> \notin DOMAIN f /\ <<"cl">> \in DOMAIN f
    <3> DEFINE n == DecimalOrZero(f[<<"cl">>])
    <3>1. SetTransferType(x, f) = [x EXCEPT !.type = "length", !.length = n]
      BY <2>2 DEF SetTransferType
    <3> HIDE DEF n
    <3>2. SetTransferType(x, f).type = "length" /\ SetTransferType(x, f).length = n
          /\ SetTransferType(x, f).appended = x.appended
      BY <3>1 DEF Recombs
    <3> QED
      BY <2>2, <3>2 DEF n
  <2>3. CASE <<"te">> \notin DOMAIN f /\ <<"cl">> \notin DOMAIN f
    <3>1. SetTransferType(x, f) = [x EXCEPT !.type = "unknown"]
      BY <2>3 DEF SetTransferType
    <3> QED
      BY <2>3, <3>1 DEF Recombs
  <2> QED
    BY <2>1, <2>2, <2>3
<1> DEFINE u == SetTransferType(r, f)
           v == SetTransferType(NewRecombinder, f)
<1>5. CASE <<"te">> \in DOMAIN f
  <2>1. u.type = "chunked" /\ v.type = "chunked" /\ u.chunk = NewChunk /\ v.chunk = NewChunk
        /\ u.parsed = r.parsed /\ v.parsed = NewRecombinder.parsed
    BY <1>1, <1>4, <1>5
  <2> HIDE DEF u, v
  <2>2. Same(u, v)
    BY <1>1, <2>1 DEF Same
  <2> QED
    BY <1>2, <1>3, <2>2 DEF u, v
<1>6. CASE <<"te">> \notin DOMAIN f /\ <<"cl">> \in DOMAIN f
  <2>1. u.type = "length" /\ v.type = "length" /\ u.length = v.length
        /\ u.appended = r.appended /\ v.appended = NewRecombinder.appended
    BY <1>1, <1>4, <1>6
  <2>2. v = Ready(f)
    BY <1>2
  <2> HIDE DEF u, v
  <2>3. Same(u, v)
    BY <1>1, <2>1, <2>2 DEF Same
  <2> QED
    BY <1>2, <1>3, <2>3 DEF u, v
<1>7. CASE <<"te">> \notin DOMAIN f /\ <<"cl">> \notin DOMAIN f
  <2>1. u.type = "unknown" /\ v.type = "unknown"
    BY <1>1, <1>4, <1>7
  <2> HIDE DEF u, v
  <2>2. Same(u, v)
    BY <2>1 DEF Same
  <2> QED
    BY <1>2, <1>3, <2>2 DEF u, v
<1> QED
  BY <1>5, <1>6, <1>7

LEMMA TransferSpares ==
  ASSUME NEW Y, NEW r \in Recombs, NEW f \in Fields(Y)
  PROVE  SetTransferType(r, f).parsed = r.parsed /\ SetTransferType(r, f).appended = r.appended
<1>1. CASE <<"te">> \in DOMAIN f
  <2>1. SetTransferType(r, f) = [r EXCEPT !.type = "chunked", !.chunk = NewChunk]
    BY <1>1 DEF SetTransferType
  <2> QED
    BY <2>1 DEF Recombs
<1>2. CASE <<"te">> \notin DOMAIN f /\ <<"cl">> \in DOMAIN f
  <2>1. SetTransferType(r, f) = [r EXCEPT !.type = "length", !.length = DecimalOrZero(f[<<"cl">>])]
    BY <1>2 DEF SetTransferType
  <2> QED
    BY <2>1 DEF Recombs
<1>3. CASE <<"te">> \notin DOMAIN f /\ <<"cl">> \notin DOMAIN f
  <2>1. SetTransferType(r, f) = [r EXCEPT !.type = "unknown"]
    BY <1>3 DEF SetTransferType
  <2> QED
    BY <2>1 DEF Recombs
<1> QED
  BY <1>1, <1>2, <1>3

(* Pieces of a message. *)
LEMMA Pieces ==
  ASSUME NEW Y, NEW m \in Seq(Y), NEW n \in Nat, NEW k \in Nat, n <= k, k <= Len(m)
  PROVE  /\ SubSeq(m, 1, n) \in Seq(Y) /\ Len(SubSeq(m, 1, n)) = n
         /\ SubSeq(m, 1, k) \in Seq(Y) /\ Len(SubSeq(m, 1, k)) = k
         /\ SubSeq(m, n + 1, k) \in Seq(Y) /\ Len(SubSeq(m, n + 1, k)) = k - n
         /\ SubSeq(m, 1, n) \o SubSeq(m, n + 1, k) = SubSeq(m, 1, k)
<1>1. Len(m) \in Nat /\ \A i \in 1 .. Len(m) : m[i] \in Y
  OBVIOUS
<1>2. SubSeq(m, 1, n) \in Seq(Y) /\ Len(SubSeq(m, 1, n)) = n
  <2>1. 1 \in Int /\ n \in Int /\ \A i \in 1 .. n : m[i] \in Y
    BY <1>1
  <2>2. SubSeq(m, 1, n) \in Seq(Y) /\ Len(SubSeq(m, 1, n)) = IF 1 <= n THEN n - 1 + 1 ELSE 0
    BY <2>1, SubSeqProperties
  <2> QED
    BY <2>2
<1>3. SubSeq(m, 1, k) \in Seq(Y) /\ Len(SubSeq(m, 1, k)) = k
  <2>1. 1 \in Int /\ k \in Int /\ \A i \in 1 .. k : m[i] \in Y
    BY <1>1
  <2>2. SubSeq(m, 1, k) \in Seq(Y) /\ Len(SubSeq(m, 1, k)) = IF 1 <= k THEN k - 1 + 1 ELSE 0
    BY <2>1, SubSeqProperties
  <2> QED
    BY <2>2
<1>4. SubSeq(m, n + 1, k) \in Seq(Y) /\ Len(SubSeq(m, n + 1, k)) = k - n
  <2>1. n + 1 \in Int /\ k \in Int /\ \A i \in n + 1 .. k : m[i] \in Y
    BY <1>1
  <2>2. SubSeq(m, n + 1, k) \in Seq(Y) /\ Len(SubSeq(m, n + 1, k)) = IF n + 1 <= k THEN k - (n + 1) + 1 ELSE 0
    BY <2>1, SubSeqProperties
  <2> QED
    BY <2>2
<1>5. SubSeq(m, 1, n) \o SubSeq(m, n + 1, k) = SubSeq(m, 1, k)
  <2>1. 1 \in 1 .. Len(m) + 1 /\ n \in 1 - 1 .. Len(m) /\ k \in n .. Len(m)
    BY <1>1
  <2> QED
    BY <2>1, ConcatAdjacentSubSeq
<1> QED
  BY <1>2, <1>3, <1>4, <1>5

(* Of a body: what there was of it, and what comes next of the message. *)
LEMMA BodyPiece ==
  ASSUME NEW Y, NEW m \in Seq(Y), NEW h \in Nat, NEW n \in Nat, h <= n, n <= Len(m)
  PROVE  /\ From(m, h) \in Seq(Y)
         /\ SubSeq(From(m, h), 1, n - h) = SubSeq(m, h + 1, n)
<1> DEFINE b == From(m, h)
<1>1. Len(m) \in Nat /\ h \in 0 .. Len(m)
  OBVIOUS
<1>2. b \in Seq(Y)
  BY <1>1, FromAt
<1>3. b = SubSeq(m, h + 1, Len(m))
  BY DEF From
<1> HIDE DEF b
<1>4. CASE n = h
  <2>1. SubSeq(b, 1, n - h) = <<>>
    BY <1>4, SubSeqEmpty
  <2>2. SubSeq(m, h + 1, n) = <<>>
    BY <1>4, SubSeqEmpty
  <2> QED
    BY <1>2, <2>1, <2>2 DEF b
<1>5. CASE n # h
  <2> DEFINE i == h + 1
             e == Len(m)
             t == n - h
  <2>1. i \in 1 .. Len(m) /\ e \in 1 .. Len(m) /\ 1 \in 1 .. e - i + 1 /\ t \in 1 .. e - i + 1
        /\ i + 1 - 1 = h + 1 /\ i + t - 1 = n
    BY <1>1, <1>5
  <2>2. SubSeq(m, i, e) = b
    BY <1>3
  <2> HIDE DEF i, e, t
  <2>3. SubSeq(SubSeq(m, i, e), 1, t) = SubSeq(m, i + 1 - 1, i + t - 1)
    BY <1>2, <2>1, <2>2, SubSeqOfSubSeq
  <2>4. SubSeq(b, 1, t) = SubSeq(m, h + 1, n)
    BY <2>1, <2>2, <2>3
  <2> QED
    BY <1>2, <2>4 DEF b, t
<1> QED
  BY <1>4, <1>5

LEMMA BodySoFar ==
  ASSUME NEW Y, NEW m \in Seq(Y), NEW h \in Nat, NEW n \in Nat, h <= n, n <= Len(m)
  PROVE  SubSeq(From(m, h), 1, n - h) \in Seq(Y)
<1>1. SubSeq(From(m, h), 1, n - h) = SubSeq(m, h + 1, n)
  BY BodyPiece
<1>2. SubSeq(m, h + 1, n) \in Seq(Y)
  BY Pieces
<1> QED
  BY <1>1, <1>2

LEMMA BodyMore ==
  ASSUME NEW Y, NEW m \in Seq(Y), NEW h \in Nat, NEW n \in Nat, NEW k \in Nat, h <= n, n <= k, k <= Len(m)
  PROVE  SubSeq(From(m, h), 1, k - h) = SubSeq(From(m, h), 1, n - h) \o SubSeq(m, n + 1, k)
<1>1. Len(m) \in Nat /\ n <= Len(m) /\ h <= k
  OBVIOUS
<1>2. SubSeq(From(m, h), 1, n - h) = SubSeq(m, h + 1, n)
  BY <1>1, BodyPiece
<1>3. SubSeq(From(m, h), 1, k - h) = SubSeq(m, h + 1, k)
  BY <1>1, BodyPiece
<1> DEFINE i == h + 1
<1>4. i \in 1 .. Len(m) + 1 /\ n \in i - 1 .. Len(m) /\ k \in n .. Len(m)
  BY <1>1
<1> HIDE DEF i
<1>5. SubSeq(m, i, n) \o SubSeq(m, n + 1, k) = SubSeq(m, i, k)
  BY <1>4, ConcatAdjacentSubSeq
<1> QED
  BY <1>2, <1>3, <1>5 DEF i

(* A header is complete from where it ends. *)
LEMMA HeadersEnd ==
  ASSUME NEW Y, NEW m \in Seq(Y), NEW h, HeadEnds(m, h), NEW k \in 1 .. Len(m)
  PROVE  HasCompleteHttpHeader(SubSeq(m, 1, k)) <=> h <= k
<1>1. h \in 1 .. Len(m) /\ Len(m) \in Nat
  BY DEF HeadEnds
<1>2. CASE h <= k
  <2>1. h \in Nat /\ k \in Nat /\ k <= Len(m)
    BY <1>1
  <2>2. /\ SubSeq(m, 1, h) \in Seq(Y) /\ SubSeq(m, h + 1, k) \in Seq(Y)
        /\ SubSeq(m, 1, h) \o SubSeq(m, h + 1, k) = SubSeq(m, 1, k)
    BY <1>2, <2>1, Pieces
  <2>3. HasCompleteHttpHeader(SubSeq(m, 1, h))
    BY DEF HeadEnds
  <2>4. HasCompleteHttpHeader(SubSeq(m, 1, h) \o SubSeq(m, h + 1, k))
    BY <2>2, <2>3, HeaderStays
  <2> QED
    BY <1>2, <2>2, <2>4
<1>3. CASE ~ (h <= k)
  <2>1. k \in 1 .. h - 1
    BY <1>1, <1>3
  <2> QED
    BY <1>3, <2>1 DEF HeadEnds
<1> QED
  BY <1>2, <1>3

-----------------------------------------------------------------------------
(* What the session and the record are in an exchange of messages that end *)
(* where they should: the invariant of Recorded and NotEarly.              *)
Ses(st, request, response, r, size) ==
  [st |-> st, request |-> request, response |-> response, left |-> NoFields, recomb |-> r,
   reqSize |-> size, respSize |-> 0, out |-> "none"]

RequestFields(ex) == ParseHttpRequest(SubSeq(ex.request, 1, ex.head)).fields
RequestBody(ex)   == From(ex.request, ex.head)

ResponseFields(ex, h) == ParseHttpResponse(SubSeq(ex.response, 1, h)).fields
ResponseBody(ex, h)   == From(ex.response, h)

(* What the kinds of body but r's count. *)
Spare(r) ==
  /\ r.type # "length"  => r.appended = 0
  /\ r.type # "chunked" => r.parsed = 0

(* The recombinder after n of a body, if it was the first it was given. *)
Gathered(r, fields, body, n) ==
  LET q == AppendData(Ready(fields), SubSeq(body, 1, n)) IN q.call = NoCall /\ Same(r, q)

(* The recombinder between the request and the response. *)
Between(ex, r) ==
  /\ r.parsed = 0
  /\ r.appended = 0 \/ (ex.head < Len(ex.request) /\ Ready(RequestFields(ex)).type = "length")

SizeOK(ex, size) == size \in Nat /\ (ex.head = Len(ex.request) => size = ex.head)

(* The session when n of the request was sent, and when n of the response  *)
(* was, the header of which is h long.                                     *)
Asked(ex, n, s) ==
  \/ n < ex.head /\ s = Ses("recving_request_header", SubSeq(ex.request, 1, n), <<>>, NewRecombinder, 0)
  \/ /\ ex.head < n /\ n < Len(ex.request)
     /\ s = Ses("recving_request_data", <<>>, <<>>, s.recomb, 0)
     /\ s.recomb \in Recombs /\ Spare(s.recomb)
     /\ Gathered(s.recomb, RequestFields(ex), RequestBody(ex), n - ex.head)
  \/ /\ n = Len(ex.request)
     /\ s = Ses("recved_request", <<>>, <<>>, s.recomb, s.reqSize)
     /\ s.recomb \in Recombs /\ Between(ex, s.recomb) /\ SizeOK(ex, s.reqSize)

AnsweredAt(ex, h, n, s) ==
  /\ s.recomb \in Recombs /\ SizeOK(ex, s.reqSize)
  /\ \/ n = 0 /\ Between(ex, s.recomb) /\ s = Ses("recved_request", <<>>, <<>>, s.recomb, s.reqSize)
     \/ /\ 0 < n /\ n < h /\ Between(ex, s.recomb)
        /\ s = Ses("recving_response_header", <<>>, SubSeq(ex.response, 1, n), s.recomb, s.reqSize)
     \/ /\ h <= n /\ n < Len(ex.response)
        /\ s = Ses("recving_response_data", <<>>, s.response, s.recomb, s.reqSize)
        /\ s.response \in Seq(Words(ex))
        /\ Gathered(s.recomb, ResponseFields(ex, h), ResponseBody(ex, h), n - h)

Answered(ex, n, s) == \E h \in 1 .. Len(ex.response) : ResponseEndsAt(ex, h) /\ AnsweredAt(ex, h, n, s)

Course ==
  Promised =>
    IF Whole
    THEN /\ session = NoSession /\ record # NoRecord
         /\ record.resp = wire.ex.size
         /\ wire.ex.head = Len(wire.ex.request) => record.req = wire.ex.head
    ELSE /\ record = NoRecord
         /\ wire.side = "request" /\ wire.sent > 0 => Asked(wire.ex, wire.sent, session)
         /\ wire.side = "response" => Answered(wire.ex, wire.sent, session)

CourseInv == WireOK /\ Course

-----------------------------------------------------------------------------
(* What the steps of a session make of such a session. *)

LEMMA SesIs ==
  ASSUME NEW st, NEW a, NEW b, NEW r, NEW n
  PROVE  /\ Ses(st, a, b, r, n).st = st /\ Ses(st, a, b, r, n).request = a /\ Ses(st, a, b, r, n).response = b
         /\ Ses(st, a, b, r, n).recomb = r /\ Ses(st, a, b, r, n).reqSize = n
         /\ Ses(st, a, b, r, n).respSize = 0 /\ Ses(st, a, b, r, n).out = "none"
         /\ \A x : [Ses(st, a, b, r, n) EXCEPT !.st = x] = Ses(x, a, b, r, n)
         /\ \A x : [Ses(st, a, b, r, n) EXCEPT !.request = x] = Ses(st, x, b, r, n)
         /\ \A x : [Ses(st, a, b, r, n) EXCEPT !.response = x] = Ses(st, a, x, r, n)
         /\ \A x : [Ses(st, a, b, r, n) EXCEPT !.recomb = x] = Ses(st, a, b, x, n)
         /\ \A x : [Ses(st, a, b, r, n) EXCEPT !.reqSize = x] = Ses(st, a, b, r, x)
<1>1. /\ Ses(st, a, b, r, n).st = st /\ Ses(st, a, b, r, n).request = a /\ Ses(st, a, b, r, n).response = b
      /\ Ses(st, a, b, r, n).recomb = r /\ Ses(st, a, b, r, n).reqSize = n
      /\ Ses(st, a, b, r, n).respSize = 0 /\ Ses(st, a, b, r, n).out = "none"
  BY DEF Ses
<1>2. \A x : [Ses(st, a, b, r, n) EXCEPT !.st = x] = Ses(x, a, b, r, n)
  BY DEF Ses
<1>3. \A x : [Ses(st, a, b, r, n) EXCEPT !.request = x] = Ses(st, x, b, r, n)
  BY DEF Ses
<1>4. \A x : [Ses(st, a, b, r, n) EXCEPT !.response = x] = Ses(st, a, x, r, n)
  BY DEF Ses
<1>5. \A x : [Ses(st, a, b, r, n) EXCEPT !.recomb = x] = Ses(st, a, b, x, n)
  BY DEF Ses
<1>6. \A x : [Ses(st, a, b, r, n) EXCEPT !.reqSize = x] = Ses(st, a, b, r, x)
  BY DEF Ses
<1> QED
  BY <1>1, <1>2, <1>3, <1>4, <1>5, <1>6

LEMMA SesAppended ==
  ASSUME NEW st, NEW a, NEW b, NEW r, NEW n, NEW data, NEW q, q = AppendData(r, data),
         NEW t, t = Append2Recombinder(Ses(st, a, b, r, n), data)
  PROVE  /\ q.call = NoCall => t = Ses(st, a, b, q, n)
         /\ q.call.result = "true" /\ st = "recving_request_data" => t = Ses("recved_request", a, b, q, q.call.len)
         /\ q.call.result = "true" /\ st = "recving_response_data" =>
              t.out = "completed" /\ t.reqSize = n /\ t.respSize = q.call.len
<1> DEFINE u == Ses(st, a, b, q, n)
<1>1. t = RecombindCallback(u)
  <2>1. [Ses(st, a, b, r, n) EXCEPT !.recomb = AppendData(@, data)] =
          [Ses(st, a, b, r, n) EXCEPT !.recomb = AppendData(Ses(st, a, b, r, n).recomb, data)]
    BY DEF Ses
  <2>2. AppendData(Ses(st, a, b, r, n).recomb, data) = q
    BY SesIs
  <2>3. [Ses(st, a, b, r, n) EXCEPT !.recomb = q] = u
    BY SesIs
  <2> QED
    BY <2>1, <2>2, <2>3 DEF Append2Recombinder
<1>2. u.st = st /\ u.recomb = q /\ u.reqSize = n
  BY SesIs
<1>3. CASE q.call = NoCall
  <2>1. q.call.result # "true"
    BY <1>3, CallsDiffer
  <2>2. t = u
    BY <1>1, <1>2, <1>3, <2>1, CallsDiffer DEF RecombindCallback
  <2> QED
    BY <2>1, <2>2
<1>4. CASE q.call # NoCall /\ q.call.result = "true" /\ st = "recving_request_data"
  <2>1. q.call # Failed
    BY <1>4, CallsDiffer
  <2>2. t = [u EXCEPT !.st = "recved_request", !.reqSize = u.recomb.call.len]
    BY <1>1, <1>2, <1>4, <2>1 DEF RecombindCallback
  <2>3. t = [u EXCEPT !.st = "recved_request", !.reqSize = q.call.len]
    BY <1>2, <2>2
  <2>4. t = Ses("recved_request", a, b, q, q.call.len)
    BY <2>3 DEF Ses
  <2> QED
    BY <1>4, <2>4
<1>5. CASE q.call # NoCall /\ q.call.result = "true" /\ st = "recving_response_data"
  <2>1. q.call # Failed
    BY <1>5, CallsDiffer
  <2>2. t = [u EXCEPT !.st = "recved_response", !.respSize = u.recomb.call.len, !.out = "completed"]
    BY <1>1, <1>2, <1>5, <2>1 DEF RecombindCallback
  <2>3. t = [u EXCEPT !.st = "recved_response", !.respSize = q.call.len, !.out = "completed"]
    BY <1>2, <2>2
  <2>4. t.out = "completed" /\ t.reqSize = n /\ t.respSize = q.call.len
    BY <2>3 DEF Ses
  <2> QED
    BY <1>5, <2>4
<1> QED
  BY <1>3, <1>4, <1>5

LEMMA SesTakes ==
  ASSUME NEW st, NEW a, NEW b, NEW r, NEW n, NEW fields, NEW to, FieldApart(fields)
  PROVE  TakeFields(Ses(st, a, b, r, n), fields, to) = Ses(to, a, b, SetTransferType(r, fields), n)
<1> DEFINE s == Ses(st, a, b, r, n)
<1>1. TakeFields(s, fields, to) = [s EXCEPT !.st = to, !.recomb = SetTransferType(s.recomb, fields)]
  BY DEF TakeFields, FieldApart
<1>2. s.recomb = r
  BY SesIs
<1> DEFINE q == SetTransferType(r, fields)
<1>3. TakeFields(s, fields, to) = [s EXCEPT !.st = to, !.recomb = q]
  BY <1>1, <1>2
<1> HIDE DEF q
<1> QED
  BY <1>3 DEF Ses, q

(* What r makes of data is what a new recombinder makes of k of the body.  *)
Linked(r, data, fields, body, k) ==
  LET p == AppendData(r, data)
      q == AppendData(Ready(fields), SubSeq(body, 1, k))
  IN /\ r.type = Ready(fields).type
     /\ p.call = q.call
     /\ p.call = NoCall => Same(p, q)

LEMMA LinkFirst ==
  ASSUME NEW Y, NEW body \in Seq(Y), NEW k, SubSeq(body, 1, k) \in Seq(Y), NEW f, Ready(f) \in Recombs,
         NEW r \in Recombs, Same(r, Ready(f))
  PROVE  Linked(r, SubSeq(body, 1, k), f, body, k)
<1>1. r.type = Ready(f).type
  BY DEF Same
<1> QED
  BY <1>1, AppendSame DEF Linked

LEMMA LinkNext ==
  ASSUME NEW Y, NEW body, NEW n, NEW k, SubSeq(body, 1, n) \in Seq(Y), NEW data \in Seq(Y),
         SubSeq(body, 1, k) = SubSeq(body, 1, n) \o data,
         NEW f, Ready(f) \in Recombs, NEW r \in Recombs, Gathered(r, f, body, n)
  PROVE  Linked(r, data, f, body, k)
<1> DEFINE q == AppendData(Ready(f), SubSeq(body, 1, n))
           e == SubSeq(body, 1, n)
<1>1. q.call = NoCall /\ Same(r, q)
  BY DEF Gathered
<1>2. q \in Recombs /\ q.type = Ready(f).type
  BY AppendDataIs, AppendSpares
<1>3. AppendData(q, data) = AppendData(Ready(f), SubSeq(body, 1, k))
  <2>1. AppendData(q, data) = AppendData(Ready(f), e \o data)
    <3>1. AppendData(Ready(f), e).call = NoCall /\ e \in Seq(Y)
      BY <1>1
    <3> HIDE DEF e
    <3>2. AppendData(AppendData(Ready(f), e), data) = AppendData(Ready(f), e \o data)
      BY <3>1, AppendedOn
    <3> QED
      BY <3>2 DEF e
  <2> QED
    BY <2>1
<1> HIDE DEF q
<1>4. /\ AppendData(r, data).call = AppendData(q, data).call
      /\ AppendData(r, data).call = NoCall => Same(AppendData(r, data), AppendData(q, data))
  BY <1>1, <1>2, AppendSame
<1>5. r.type = Ready(f).type
  BY <1>1, <1>2 DEF Same
<1> QED
  BY <1>3, <1>4, <1>5 DEF Linked

(* What follows of a request's body. *)
LEMMA AskedBody ==
  ASSUME NEW ex \in Exchanges, RequestEnds(ex), NEW k \in Nat, ex.head < k, k <= Len(ex.request),
         ~ (ex.chunked["request"] /\ k = Len(ex.request) - 1),
         NEW r \in Recombs, Spare(r), NEW Y, NEW data \in Seq(Y),
         Linked(r, data, RequestFields(ex), RequestBody(ex), k - ex.head)
  PROVE  Asked(ex, k, Append2Recombinder(Ses("recving_request_data", <<>>, <<>>, r, 0), data))
<1> DEFINE f == RequestFields(ex)
           b == RequestBody(ex)
           L == Len(ex.request)
           j == k - ex.head
           p == AppendData(r, data)
           q == AppendData(Ready(f), SubSeq(b, 1, j))
           t == Append2Recombinder(Ses("recving_request_data", <<>>, <<>>, r, 0), data)
<1>1. L \in Nat /\ ex.head \in Nat /\ ex.request \in Seq(Words(ex))
  BY WordsOf
<1>2. Len(b) = L - ex.head /\ b \in Seq(Words(ex))
  <2>1. ex.head \in 0 .. Len(ex.request)
    BY <1>1
  <2> QED
    BY <1>1, <2>1, FromAt DEF RequestBody
<1>3. BodyEnds(f, b, ex.chunked["request"])
  BY <1>1 DEF RequestEnds, RequestFields, RequestBody
<1>4. /\ p.call = q.call /\ (p.call = NoCall => Same(p, q)) /\ r.type = Ready(f).type
  BY DEF Linked
<1>5. /\ p \in Recombs /\ p.type = r.type
      /\ r.type # "length"  => p.appended = r.appended
      /\ r.type # "chunked" => p.parsed = r.parsed
      /\ r.type = "chunked" /\ p.call.result = "true" => p.parsed = 0
  BY AppendDataIs, AppendSpares
<1>6. /\ p.call = NoCall => t = Ses("recving_request_data", <<>>, <<>>, p, 0)
      /\ p.call.result = "true" => t = Ses("recved_request", <<>>, <<>>, p, p.call.len)
  BY SesAppended
<1> HIDE DEF p, t
<1>7. CASE k < L
  <2>1. p.call = NoCall
    <3>1. j \in 0 .. Len(b) - 1 /\ (ex.chunked["request"] => j # Len(b) - 1)
      <4> HIDE DEF b
      <4>1. j \in 0 .. Len(b) - 1
        BY <1>1, <1>2, <1>7
      <4>2. ASSUME k # L - 1 PROVE j # Len(b) - 1
        BY <1>1, <1>2, <4>2
      <4> QED
        BY <4>1, <4>2
    <3> HIDE DEF j, b, f
    <3> QED
      BY <1>3, <1>4, <3>1 DEF BodyEnds
  <2>2. t = Ses("recving_request_data", <<>>, <<>>, p, 0)
    BY <1>6, <2>1
  <2>3. t.recomb = p
    BY <2>2, SesIs
  <2>4. Spare(p)
    BY <1>5 DEF Spare
  <2>5. Gathered(p, f, b, j)
    BY <1>4, <2>1 DEF Gathered
  <2> QED
    BY <1>5, <1>7, <2>2, <2>3, <2>4, <2>5 DEF Asked, t
<1>8. CASE ~ (k < L)
  <2>1. k = L /\ ex.head < L
    BY <1>1, <1>8
  <2>2. SubSeq(b, 1, j) = b
    <3>1. j = Len(b)
      BY <1>2, <2>1
    <3> HIDE DEF j, b
    <3> QED
      BY <1>2, <3>1, SubSeqFull
  <2>3. p.call.result = "true"
    <3> HIDE DEF j, b, f
    <3> QED
      BY <1>3, <1>4, <2>2 DEF BodyEnds
  <2>4. t = Ses("recved_request", <<>>, <<>>, p, p.call.len)
    BY <1>6, <2>3
  <2>5. t.recomb = p /\ t.reqSize = p.call.len
    BY <2>4, SesIs
  <2>6. p.call.len \in Nat
    BY <1>5 DEF Recombs, Calls, NoCall, Failed, Done
  <2>7. SizeOK(ex, t.reqSize)
    BY <2>1, <2>5, <2>6 DEF SizeOK
  <2>8. Between(ex, p)
    <3>1. p.parsed = 0
      BY <1>5, <2>3 DEF Spare
    <3>2. r.type # "length" => p.appended = 0
      BY <1>5 DEF Spare
    <3> QED
      BY <1>4, <2>1, <3>1, <3>2 DEF Between
  <2> QED
    BY <1>5, <2>1, <2>4, <2>5, <2>7, <2>8 DEF Asked, t
<1> QED
  BY <1>7, <1>8

(* A request of which n have come, all in one or gathered: the session is  *)
(* what it would be in either case.                                        *)
LEMMA RequestGathered ==
  ASSUME NEW ex \in Exchanges, RequestEnds(ex), NEW n \in 1 .. Len(ex.request),
         ~ (n = ex.head /\ n < Len(ex.request)),
         ~ (ex.chunked["request"] /\ n = Len(ex.request) - 1), NEW st, NEW a
  PROVE  Asked(ex, n, ReceiveRequest(Ses(st, a, <<>>, NewRecombinder, 0), SubSeq(ex.request, 1, n)))
<1> DEFINE m == ex.request
           h == ex.head
           W == SubSeq(m, 1, n)
           f == RequestFields(ex)
           s == Ses(st, a, <<>>, NewRecombinder, 0)
           t == ReceiveRequest(s, W)
<1>1. m \in Seq(Words(ex)) /\ Len(m) \in Nat /\ h \in Nat /\ n \in Nat /\ n <= Len(m)
  BY WordsOf
<1>2. HeadEnds(m, h) /\ h \in 1 .. Len(m)
  BY DEF RequestEnds, HeadEnds
<1>3. HasCompleteHttpHeader(W) <=> h <= n
  BY <1>1, <1>2, HeadersEnd
<1>4. n < Len(m) => ~ IsCompleteHttpRequest(W)
  <2>1. ASSUME n < Len(m) PROVE n \in 1 .. Len(m) - 1 /\ n # h
    BY <1>1, <2>1
  <2> QED
    BY <2>1 DEF RequestEnds
<1>5. W \in Seq(Words(ex)) /\ Len(W) = n
  BY <1>1, Pieces
<1>6. CASE n < h
  <2>1. n < Len(m) /\ ~ (h <= n)
    BY <1>1, <1>2, <1>6
  <2>2. t = [s EXCEPT !.st = "recving_request_header", !.request = W]
    <3> HIDE DEF W, s
    <3> QED
      BY <1>3, <1>4, <2>1 DEF ReceiveRequest
  <2>3. t = Ses("recving_request_header", W, <<>>, NewRecombinder, 0)
    BY <2>2 DEF Ses
  <2> QED
    BY <1>6, <2>3 DEF Asked
<1> DEFINE d == SubSeq(m, h + 1, n)
           p == ParseHttpRequest(W)
<1>7. h <= n => p.ok /\ p.fields = f /\ p.body = d /\ d \in Seq(Words(ex)) /\ Len(d) = n - h
  <2> HAVE h <= n
  <2>1. /\ SubSeq(m, 1, h) \in Seq(Words(ex)) /\ d \in Seq(Words(ex)) /\ Len(d) = n - h
        /\ SubSeq(m, 1, h) \o d = W
    <3> DEFINE Y == Words(ex)
    <3>1. m \in Seq(Y) /\ h \in Nat /\ n \in Nat /\ h <= n /\ n <= Len(m)
      BY <1>1
    <3> HIDE DEF m, h, Y
    <3>2. SubSeq(m, 1, h) \in Seq(Y)
      BY <3>1, Pieces
    <3>3. d \in Seq(Y) /\ Len(d) = n - h
      BY <3>1, Pieces
    <3>4. SubSeq(m, 1, h) \o d = W
      BY <3>1, Pieces
    <3> QED
      BY <3>2, <3>3, <3>4 DEF Y
  <2>2. IsHead(ParseHttpRequestLine(SubSeq(m, 1, h)), SubSeq(m, 1, h))
    BY DEF RequestEnds
  <2> HIDE DEF d, W
  <2>3. /\ ParseHttpRequest(SubSeq(m, 1, h) \o d).ok
        /\ ParseHttpRequest(SubSeq(m, 1, h) \o d).fields = ParseHttpRequest(SubSeq(m, 1, h)).fields
        /\ ParseHttpRequest(SubSeq(m, 1, h) \o d).body = d
    BY <2>1, <2>2, RequestHolds
  <2> QED
    BY <2>1, <2>3 DEF RequestFields
<1> HIDE DEF p
<1>8. CASE h <= n /\ IsCompleteHttpRequest(W)
  <2>1. n = Len(m)
    BY <1>1, <1>4, <1>8
  <2>2. t = [s EXCEPT !.request = <<>>, !.reqSize = Len(W), !.st = "recved_request"]
    <3> HIDE DEF W, s
    <3>1. GetHttpHeader(W)
      BY <1>3, <1>8 DEF GetHttpHeader
    <3>2. t = RecvedCompleteHttpRequest(s, W)
      BY <1>8 DEF ReceiveRequest
    <3> QED
      BY <1>7, <1>8, <3>1, <3>2 DEF RecvedCompleteHttpRequest, p
  <2>3. t = [s EXCEPT !.request = <<>>, !.reqSize = n, !.st = "recved_request"]
    BY <1>5, <2>2
  <2>4. t = Ses("recved_request", <<>>, <<>>, NewRecombinder, n)
    BY <2>3 DEF Ses
  <2>5. t.recomb = NewRecombinder /\ t.reqSize = n
    BY <2>4, SesIs
  <2>6. Between(ex, NewRecombinder) /\ NewRecombinder \in Recombs
    BY NewRecombinderIs DEF Between, NewRecombinder
  <2>7. SizeOK(ex, n)
    BY <1>1, <2>1 DEF SizeOK
  <2> HIDE DEF t
  <2> QED
    BY <2>1, <2>4, <2>5, <2>6, <2>7 DEF Asked, t
<1>9. CASE h <= n /\ ~ IsCompleteHttpRequest(W)
  <2>1. h < n
    <3>1. ASSUME h = n PROVE FALSE
      <4>1. n = Len(m)
        BY <1>1, <3>1
      <4>2. W = m
        BY <1>1, <4>1, SubSeqFull
      <4>3. IsCompleteHttpRequest(m)
        BY <3>1, <4>1 DEF RequestEnds
      <4> QED
        BY <1>9, <4>2, <4>3
    <3> QED
      BY <1>1, <1>9, <3>1
  <2> DEFINE c == Ses(st, <<>>, <<>>, NewRecombinder, 0)
             g == Ses("recving_request_data", <<>>, <<>>, Ready(f), 0)
  <2>2. [s EXCEPT !.request = <<>>] = c
    BY DEF Ses
  <2>3. BodyEnds(f, RequestBody(ex), ex.chunked["request"])
    <3>1. h # Len(m)
      BY <1>1, <2>1
    <3> QED
      BY <3>1 DEF RequestEnds, RequestFields, RequestBody
  <2>4. TakeFields(c, f, "recving_request_data") = g
    <3>1. FieldApart(f)
      BY <2>3 DEF BodyEnds, FieldApart
    <3> QED
      BY <3>1, SesTakes DEF Ready
  <2>5. g.st = "recving_request_data"
    BY SesIs
  <2>12. f \in Fields(Words(ex)) /\ InsertFields(s.left, f) = f
    <3>1. SubSeq(m, 1, h) \in Seq(Words(ex))
      BY <1>1, <1>2, Pieces
    <3>2. f \in Fields(Words(ex))
      BY <3>1, RequestIs DEF RequestFields
    <3>3. s.left = NoFields
      BY DEF Ses
    <3> HIDE DEF f, s
    <3> QED
      BY <3>2, <3>3, NoFieldsIs
  <2>6. t = Append2Recombinder(g, d)
    <3>1. t = RecvedCompleteRequestHeader(s, W)
      <4> HIDE DEF W, s
      <4> QED
        BY <1>3, <1>9 DEF ReceiveRequest
    <3>2. d # <<>>
      <4>1. Len(d) > 0
        BY <1>1, <1>7, <2>1
      <4> HIDE DEF d
      <4> QED
        BY <4>1
    <3> HIDE DEF W, s, t, g, c, d, f
    <3> QED
      BY <1>7, <1>9, <2>2, <2>4, <2>5, <2>12, <3>1, <3>2 DEF RecvedCompleteRequestHeader, RequestParsed, p
  <2>7. Ready(f) \in Recombs /\ Ready(f).parsed = 0 /\ Ready(f).appended = 0
    <3>1. f \in Fields(Words(ex))
      BY <2>12
    <3>2. NewRecombinder \in Recombs /\ NewRecombinder.parsed = 0 /\ NewRecombinder.appended = 0
      BY NewRecombinderIs DEF NewRecombinder
    <3> HIDE DEF f
    <3> QED
      BY <3>1, <3>2, TransferIs, TransferSpares DEF Ready
  <2>8. Spare(Ready(f))
    BY <2>7 DEF Spare
  <2> DEFINE b == RequestBody(ex)
             j == n - h
  <2>9. SubSeq(b, 1, j) = d /\ b \in Seq(Words(ex))
    <3>1. b = From(m, h)
      BY DEF RequestBody
    <3> HIDE DEF m, h, b
    <3>2. h <= n /\ h <= h
      BY <1>1, <2>1
    <3>3. SubSeq(From(m, h), 1, n - h) = SubSeq(m, h + 1, n) /\ From(m, h) \in Seq(Words(ex))
      BY <1>1, <3>2, BodyPiece
    <3> QED
      BY <3>1, <3>3
  <2>10. Linked(Ready(f), d, f, b, j)
    <3>1. Same(Ready(f), Ready(f)) /\ d \in Seq(Words(ex))
      <4>1. Same(Ready(f), Ready(f))
        BY DEF Same
      <4>2. h <= n
        BY <1>1, <2>1
      <4> QED
        BY <1>7, <4>1, <4>2
    <3> HIDE DEF f, b, j, d
    <3>2. Linked(Ready(f), SubSeq(b, 1, j), f, b, j)
      BY <2>7, <2>9, <3>1, LinkFirst
    <3> QED
      BY <2>9, <3>2
  <2>11. Asked(ex, n, Append2Recombinder(g, d))
    <3>1. d \in Seq(Words(ex)) /\ n \in Nat /\ ex.head < n /\ n <= Len(ex.request)
      BY <1>1, <1>7, <2>1
    <3>2. Linked(Ready(f), d, RequestFields(ex), RequestBody(ex), n - ex.head)
      BY <2>10
    <3> HIDE DEF f, d
    <3>3. Asked(ex, n, Append2Recombinder(Ses("recving_request_data", <<>>, <<>>, Ready(f), 0), d))
      BY <2>7, <2>8, <3>1, <3>2, AskedBody
    <3> QED
      BY <3>3
  <2> QED
    BY <2>6, <2>11
<1> QED
  BY <1>1, <1>2, <1>6, <1>8, <1>9

(* The first packet of a request, and the next. *)
LEMMA RequestBegins ==
  ASSUME NEW ex \in Exchanges, RequestEnds(ex), NEW k \in 1 .. Len(ex.request),
         ~ (k = ex.head /\ k < Len(ex.request)),
         ~ (ex.chunked["request"] /\ k = Len(ex.request) - 1)
  PROVE  Asked(ex, k, ProcessPacket(NewRunSession, SubSeq(ex.request, 1, k)))
<1> DEFINE s == Ses("init", <<>>, <<>>, NewRecombinder, 0)
<1>1. NewRunSession = s
  BY DEF NewRunSession, Ses
<1>2. s.st = "init"
  BY SesIs
<1>3. ProcessPacket(s, SubSeq(ex.request, 1, k)) = ReceiveRequest(s, SubSeq(ex.request, 1, k))
  <2> HIDE DEF s
  <2> QED
    BY <1>2 DEF ProcessPacket, SessionInitProc
<1>4. Asked(ex, k, ReceiveRequest(s, SubSeq(ex.request, 1, k)))
  BY RequestGathered
<1> QED
  BY <1>1, <1>3, <1>4

LEMMA RequestGoesOn ==
  ASSUME NEW ex \in Exchanges, RequestEnds(ex), NEW n \in Nat, 0 < n, NEW k \in 1 .. Len(ex.request), n < k,
         ~ (k = ex.head /\ k < Len(ex.request)),
         ~ (ex.chunked["request"] /\ k = Len(ex.request) - 1),
         NEW s, Asked(ex, n, s)
  PROVE  Asked(ex, k, ProcessPacket(s, SubSeq(ex.request, n + 1, k)))
<1> DEFINE m == ex.request
           h == ex.head
           d == SubSeq(m, n + 1, k)
           Y == Words(ex)
<1>1. m \in Seq(Y) /\ Len(m) \in Nat /\ h \in Nat /\ k \in Nat /\ k <= Len(m) /\ n <= k
  BY WordsOf
<1>2. /\ SubSeq(m, 1, n) \in Seq(Y) /\ Len(SubSeq(m, 1, n)) = n
      /\ d \in Seq(Y) /\ SubSeq(m, 1, n) \o d = SubSeq(m, 1, k)
  <2> HIDE DEF m, Y
  <2> QED
    BY <1>1, Pieces
<1>3. CASE n < h /\ s = Ses("recving_request_header", SubSeq(m, 1, n), <<>>, NewRecombinder, 0)
  <2> DEFINE w == SubSeq(m, 1, n)
             q == Ses("recving_request_header", SubSeq(m, 1, k), <<>>, NewRecombinder, 0)
  <2>1. s.st = "recving_request_header" /\ s.request = w
    <3>1. s = Ses("recving_request_header", w, <<>>, NewRecombinder, 0)
      BY <1>3
    <3> HIDE DEF w
    <3> QED
      BY <3>1, SesIs
  <2>2. w # <<>>
    <3> HIDE DEF w
    <3>1. Len(w) > 0
      BY <1>2 DEF w
    <3> QED
      BY <3>1
  <2>3. [s EXCEPT !.request = @ \o d] = q
    <3>1. [s EXCEPT !.request = @ \o d] = [s EXCEPT !.request = w \o d]
      BY <2>1
    <3>2. w \o d = SubSeq(m, 1, k)
      BY <1>2
    <3> HIDE DEF w
    <3>3. [s EXCEPT !.request = w \o d] = [s EXCEPT !.request = SubSeq(m, 1, k)]
      BY <3>2
    <3>4. [s EXCEPT !.request = SubSeq(m, 1, k)] = q
      <4> DEFINE v == SubSeq(m, 1, k)
      <4>1. s = Ses("recving_request_header", w, <<>>, NewRecombinder, 0)
        BY <1>3 DEF w
      <4> HIDE DEF v
      <4>2. [s EXCEPT !.request = v] = Ses("recving_request_header", v, <<>>, NewRecombinder, 0)
        BY <4>1, SesIs
      <4> QED
        BY <4>2 DEF v
    <3> QED
      BY <3>1, <3>3, <3>4
  <2>4. q.request = SubSeq(m, 1, k)
    BY DEF Ses
  <2>5. ProcessPacket(s, d) = ReceiveRequest(q, SubSeq(m, 1, k))
    <3>1. ProcessPacket(s, d) = RecvingRequestHeaderProc(s, d)
      BY <2>1 DEF ProcessPacket
    <3> HIDE DEF q, w, d
    <3>2. RecvingRequestHeaderProc(s, d) = ReceiveRequest(q, q.request)
      BY <2>1, <2>2, <2>3 DEF RecvingRequestHeaderProc
    <3> QED
      BY <2>4, <3>1, <3>2
  <2>6. Asked(ex, k, ReceiveRequest(q, SubSeq(m, 1, k)))
    BY RequestGathered
  <2> QED
    BY <2>5, <2>6
<1>4. CASE /\ h < n /\ n < Len(m)
           /\ s = Ses("recving_request_data", <<>>, <<>>, s.recomb, 0)
           /\ s.recomb \in Recombs /\ Spare(s.recomb)
           /\ Gathered(s.recomb, RequestFields(ex), RequestBody(ex), n - h)
  <2> DEFINE r == s.recomb
             f == RequestFields(ex)
             b == RequestBody(ex)
  <2>1. s.st = "recving_request_data"
    BY <1>4, SesIs
  <2>2. ProcessPacket(s, d) = Append2Recombinder(Ses("recving_request_data", <<>>, <<>>, r, 0), d)
    <3>1. ProcessPacket(s, d) = Append2Recombinder(s, d)
      BY <2>1 DEF ProcessPacket, RecvingRequestDataProc
    <3> QED
      BY <1>4, <3>1
  <2>3. Ready(f) \in Recombs
    <3>1. SubSeq(m, 1, h) \in Seq(Y)
      <4>1. h <= k /\ h <= Len(m)
        BY <1>1, <1>4
      <4> HIDE DEF m, h, Y
      <4> QED
        BY <1>1, <4>1, Pieces
    <3>2. f \in Fields(Y)
      BY <3>1, RequestIs DEF RequestFields
    <3> HIDE DEF f
    <3> QED
      BY <3>2, NewRecombinderIs, TransferIs DEF Ready
  <2>4. /\ b \in Seq(Y) /\ SubSeq(b, 1, n - h) \in Seq(Y)
        /\ SubSeq(b, 1, k - h) = SubSeq(b, 1, n - h) \o d
    <3>1. b = From(m, h)
      BY DEF RequestBody
    <3>2. h <= n
      BY <1>1, <1>4
    <3> HIDE DEF m, h, b, Y
    <3>3. h \in Nat /\ k \in Nat /\ h <= n /\ n <= k /\ n <= Len(m) /\ k <= Len(m)
      BY <1>1, <3>2
    <3>4. SubSeq(From(m, h), 1, k - h) = SubSeq(From(m, h), 1, n - h) \o SubSeq(m, n + 1, k)
      BY <1>1, <3>3, BodyMore
    <3>5. From(m, h) \in Seq(Y)
      BY <1>1, <3>3, BodyPiece
    <3>6. SubSeq(From(m, h), 1, n - h) \in Seq(Y)
      BY <1>1, <3>3, BodySoFar
    <3> QED
      BY <3>1, <3>4, <3>5, <3>6
  <2>5. Linked(r, d, f, b, k - h)
    <3> DEFINE i == n - h
               j == k - h
    <3>1. SubSeq(b, 1, i) \in Seq(Y) /\ SubSeq(b, 1, j) = SubSeq(b, 1, i) \o d
      BY <2>4
    <3>2. Gathered(r, f, b, i)
      BY <1>4
    <3> HIDE DEF i, j, r, f, b, d, Y
    <3>3. Linked(r, d, f, b, j)
      BY <1>2, <1>4, <2>3, <3>1, <3>2, LinkNext DEF r
    <3> QED
      BY <3>3 DEF j
  <2>6. Asked(ex, k, Append2Recombinder(Ses("recving_request_data", <<>>, <<>>, r, 0), d))
    <3>1. ex.head < k /\ k <= Len(ex.request)
      BY <1>1, <1>4
    <3>2. r \in Recombs /\ Spare(r)
      BY <1>4
    <3> HIDE DEF r, d
    <3> QED
      BY <1>1, <1>2, <2>5, <3>1, <3>2, AskedBody
  <2> QED
    BY <2>2, <2>6
<1>5. n # Len(m)
  BY <1>1
<1> QED
  BY <1>3, <1>4, <1>5 DEF Asked

(* The response: what the session is when k of it was sent, or what it has *)
(* told when that was all.                                                 *)
AnsweredOut(ex, k, s) ==
  IF k = Len(ex.response)
  THEN s.out = "completed" /\ s.respSize = ex.size /\ SizeOK(ex, s.reqSize)
  ELSE Answered(ex, k, s) /\ s.out = "none"

LEMMA AnsweredBody ==
  ASSUME NEW ex \in Exchanges, NEW h \in 1 .. Len(ex.response), ResponseEndsAt(ex, h),
         NEW k \in 1 .. Len(ex.response), h <= k,
         ~ (ex.chunked["response"] /\ k = Len(ex.response) - 1),
         NEW r \in Recombs, NEW size, SizeOK(ex, size), NEW a \in Seq(Words(ex)), NEW Y, NEW data \in Seq(Y),
         Linked(r, data, ResponseFields(ex, h), ResponseBody(ex, h), k - h)
  PROVE  AnsweredOut(ex, k, Append2Recombinder(Ses("recving_response_data", <<>>, a, r, size), data))
<1> DEFINE f == ResponseFields(ex, h)
           b == ResponseBody(ex, h)
           L == Len(ex.response)
           j == k - h
           p == AppendData(r, data)
           q == AppendData(Ready(f), SubSeq(b, 1, j))
           t == Append2Recombinder(Ses("recving_response_data", <<>>, a, r, size), data)
<1>1. L \in Nat /\ h \in Nat /\ k \in Nat /\ k <= L /\ ex.response \in Seq(Words(ex))
  BY WordsOf
<1>2. Len(b) = L - h /\ b \in Seq(Words(ex))
  <2>1. h \in 0 .. Len(ex.response)
    BY <1>1
  <2> QED
    BY <1>1, <2>1, FromAt DEF ResponseBody
<1>3. BodyEnds(f, b, ex.chunked["response"]) /\ AppendData(Ready(f), b).call.len = ex.size
  BY DEF ResponseEndsAt, ResponseFields, ResponseBody
<1>4. p.call = q.call /\ (p.call = NoCall => Same(p, q))
  BY DEF Linked
<1>5. p \in Recombs
  BY AppendDataIs
<1>6. /\ p.call = NoCall => t = Ses("recving_response_data", <<>>, a, p, size)
      /\ p.call.result = "true" => t.out = "completed" /\ t.reqSize = size /\ t.respSize = p.call.len
  BY SesAppended
<1> HIDE DEF p, t
<1>7. CASE k < L
  <2>1. p.call = NoCall
    <3>1. j \in 0 .. Len(b) - 1 /\ (ex.chunked["response"] => j # Len(b) - 1)
      <4> HIDE DEF b
      <4>1. j \in 0 .. Len(b) - 1
        BY <1>1, <1>2, <1>7
      <4>2. ASSUME k # L - 1 PROVE j # Len(b) - 1
        BY <1>1, <1>2, <4>2
      <4> QED
        BY <4>1, <4>2
    <3> HIDE DEF j, b, f
    <3> QED
      BY <1>3, <1>4, <3>1 DEF BodyEnds
  <2>2. t = Ses("recving_response_data", <<>>, a, p, size)
    BY <1>6, <2>1
  <2>3. t.recomb = p /\ t.response = a /\ t.reqSize = size /\ t.out = "none"
    BY <2>2, SesIs
  <2>4. Gathered(p, f, b, j)
    BY <1>4, <2>1 DEF Gathered
  <2>5. AnsweredAt(ex, h, k, t)
    BY <1>5, <1>7, <2>2, <2>3, <2>4 DEF AnsweredAt
  <2> QED
    BY <1>1, <1>7, <2>3, <2>5 DEF AnsweredOut, Answered, t
<1>8. CASE ~ (k < L)
  <2>1. k = L
    BY <1>1, <1>8
  <2>2. SubSeq(b, 1, j) = b
    <3>1. j = Len(b)
      BY <1>2, <2>1
    <3> HIDE DEF j, b
    <3> QED
      BY <1>2, <3>1, SubSeqFull
  <2>3. p.call.result = "true" /\ p.call.len = ex.size
    <3> HIDE DEF j, b, f
    <3> QED
      BY <1>3, <1>4, <2>2 DEF BodyEnds
  <2> QED
    BY <1>6, <2>1, <2>3 DEF AnsweredOut, t
<1> QED
  BY <1>7, <1>8

LEMMA ResponseGathered ==
  ASSUME NEW ex \in Exchanges, NEW h \in 1 .. Len(ex.response), ResponseEndsAt(ex, h),
         NEW n \in 1 .. Len(ex.response),
         ~ (ex.chunked["response"] /\ n = Len(ex.response) - 1),
         NEW r \in Recombs, Between(ex, r), NEW size, SizeOK(ex, size),
         NEW st, NEW a \in Seq(Words(ex))
  PROVE  AnsweredOut(ex, n, ReceiveResponse(Ses(st, <<>>, a, r, size), SubSeq(ex.response, 1, n)))
<1> DEFINE m == ex.response
           W == SubSeq(m, 1, n)
           f == ResponseFields(ex, h)
           s == Ses(st, <<>>, a, r, size)
           t == ReceiveResponse(s, W)
           Y == Words(ex)
<1>1. m \in Seq(Y) /\ Len(m) \in Nat /\ h \in Nat /\ n \in Nat /\ n <= Len(m)
  BY WordsOf
<1>2. HeadEnds(m, h) /\ h <= Len(m)
  BY <1>1 DEF ResponseEndsAt
<1>3. HasCompleteHttpHeader(W) <=> h <= n
  BY <1>1, <1>2, HeadersEnd
<1>4. CASE n < h
  <2>1. n < Len(m) /\ ~ (h <= n) /\ 0 < n
    BY <1>1, <1>2, <1>4
  <2>2. t = [s EXCEPT !.st = "recving_response_header", !.response = W]
    <3> HIDE DEF W, s
    <3> QED
      BY <1>3, <2>1 DEF ReceiveResponse
  <2>3. t = Ses("recving_response_header", <<>>, W, r, size)
    BY <2>2 DEF Ses
  <2>4. t.recomb = r /\ t.reqSize = size /\ t.out = "none"
    BY <2>3, SesIs
  <2>5. AnsweredAt(ex, h, n, t)
    <3> HIDE DEF t
    <3> QED
      BY <1>4, <2>1, <2>3, <2>4 DEF AnsweredAt
  <2> QED
    BY <2>1, <2>4, <2>5 DEF AnsweredOut, Answered
<1>5. CASE ~ (n < h)
  <2>0. h <= n
    BY <1>1, <1>5
  <2> DEFINE d == SubSeq(m, h + 1, n)
             p == ParseHttpResponse(W)
  <2>1. /\ SubSeq(m, 1, h) \in Seq(Y) /\ d \in Seq(Y) /\ SubSeq(m, 1, h) \o d = W
    <3> HIDE DEF m, Y
    <3> QED
      BY <1>1, <2>0, Pieces
  <2>2. p.ok /\ p.fields = f /\ p.body = d
    <3>1. IsHead(ParseHttpStatusLine(SubSeq(m, 1, h)), SubSeq(m, 1, h))
      BY DEF ResponseEndsAt
    <3> HIDE DEF d, W
    <3>2. /\ ParseHttpResponse(SubSeq(m, 1, h) \o d).ok
          /\ ParseHttpResponse(SubSeq(m, 1, h) \o d).fields = ParseHttpResponse(SubSeq(m, 1, h)).fields
          /\ ParseHttpResponse(SubSeq(m, 1, h) \o d).body = d
      BY <2>1, <3>1, ResponseHolds
    <3> QED
      BY <2>1, <3>2 DEF ResponseFields
  <2> HIDE DEF p
  <2> DEFINE x == SetTransferType(r, f)
             g == Ses("recving_response_data", <<>>, a, x, size)
  <2>3. FieldApart(f)
    BY DEF ResponseEndsAt, BodyEnds, ResponseFields, FieldApart
  <2>4. TakeFields(s, f, "recving_response_data") = g /\ g.st = "recving_response_data"
    BY <2>3, SesTakes, SesIs
  <2>5. t = Append2Recombinder(g, d)
    <3>1. t = RecvedCompleteResponseHeader(s, W)
      <4> HIDE DEF W, s
      <4> QED
        BY <1>3, <2>0 DEF ReceiveResponse
    <3> HIDE DEF W, s, t, g, d, f, x
    <3> QED
      BY <2>2, <2>4, <3>1 DEF RecvedCompleteResponseHeader, ResponseParsed, p
  <2>6. f \in Fields(Y)
    BY <2>1, ResponseIs DEF ResponseFields
  <2>7. r.parsed = 0 /\ (r.appended = 0 \/ Ready(f).type # "length")
    BY DEF Between, ResponseEndsAt, ResponseFields, RequestFields
  <2> HIDE DEF f
  <2>8. Same(x, Ready(f)) /\ Ready(f) \in Recombs /\ x \in Recombs
    BY <2>6, <2>7, SameTransfer, TransferIs
  <2> HIDE DEF x
  <2> DEFINE b == ResponseBody(ex, h)
             j == n - h
  <2>9. SubSeq(b, 1, j) = d /\ b \in Seq(Y)
    <3>1. b = From(m, h)
      BY DEF ResponseBody
    <3> HIDE DEF m, b, Y
    <3>2. SubSeq(From(m, h), 1, n - h) = SubSeq(m, h + 1, n) /\ From(m, h) \in Seq(Y)
      BY <1>1, <2>0, BodyPiece
    <3> QED
      BY <3>1, <3>2
  <2>10. Linked(x, d, f, b, j)
    <3> HIDE DEF b, j, d, Y
    <3>1. Linked(x, SubSeq(b, 1, j), f, b, j)
      BY <2>1, <2>8, <2>9, LinkFirst
    <3> QED
      BY <2>9, <3>1
  <2>11. AnsweredOut(ex, n, Append2Recombinder(g, d))
    <3>1. Linked(x, d, ResponseFields(ex, h), ResponseBody(ex, h), n - h)
      BY <2>10 DEF f
    <3> HIDE DEF d
    <3> QED
      BY <2>0, <2>1, <2>8, <3>1, AnsweredBody
  <2> QED
    BY <2>5, <2>11
<1> QED
  BY <1>4, <1>5

LEMMA ResponseGoesOn ==
  ASSUME NEW ex \in Exchanges, NEW n \in Nat, NEW k \in 1 .. Len(ex.response), n < k,
         ~ (ex.chunked["response"] /\ k = Len(ex.response) - 1),
         NEW s, Answered(ex, n, s)
  PROVE  AnsweredOut(ex, k, ProcessPacket(s, SubSeq(ex.response, n + 1, k)))
<1> DEFINE m == ex.response
           d == SubSeq(m, n + 1, k)
           Y == Words(ex)
           r == s.recomb
           z == s.reqSize
<1>1. PICK h \in 1 .. Len(m) : ResponseEndsAt(ex, h) /\ AnsweredAt(ex, h, n, s)
  BY DEF Answered
<1>2. m \in Seq(Y) /\ Len(m) \in Nat /\ h \in Nat /\ k \in Nat /\ k <= Len(m) /\ n <= k
  BY <1>1, WordsOf
<1>3. /\ SubSeq(m, 1, n) \in Seq(Y) /\ Len(SubSeq(m, 1, n)) = n
      /\ d \in Seq(Y) /\ SubSeq(m, 1, n) \o d = SubSeq(m, 1, k)
      /\ SubSeq(m, 1, k) \in Seq(Y)
  <2> HIDE DEF m, Y
  <2>1. n \in Nat /\ n <= k /\ n <= Len(m)
    BY <1>2
  <2>2. /\ SubSeq(m, 1, n) \in Seq(Y) /\ Len(SubSeq(m, 1, n)) = n
        /\ d \in Seq(Y) /\ SubSeq(m, 1, n) \o d = SubSeq(m, 1, k)
    BY <1>2, <2>1, Pieces
  <2>3. SubSeq(m, 1, k) \in Seq(Y)
    BY <1>2, Pieces
  <2> QED
    BY <2>2, <2>3
<1>4. r \in Recombs /\ SizeOK(ex, z)
  BY <1>1 DEF AnsweredAt
<1>5. CASE n = 0 /\ Between(ex, r) /\ s = Ses("recved_request", <<>>, <<>>, r, z)
  <2>1. s.st = "recved_request"
    <3> HIDE DEF r, z
    <3> QED
      BY <1>5, SesIs
  <2>2. d = SubSeq(m, 1, k)
    BY <1>5
  <2>3. IsHttpResponse(d)
    <3> DEFINE w == <<"HTTP">>
    <3>1. IsPrefix(w, m)
      BY <1>1 DEF ResponseEndsAt, IsHttpResponse
    <3>2. Len(w) = 1 /\ SubSeq(w, 1, 1) = SubSeq(m, 1, 1)
      BY <3>1 DEF IsPrefix
    <3>3. SubSeq(d, 1, 1) = SubSeq(m, 1, 1)
      <4>1. 1 \in 1 .. Len(m) /\ k \in 1 .. Len(m) /\ 1 \in 1 .. k - 1 + 1
        BY <1>2
      <4>2. SubSeq(SubSeq(m, 1, k), 1, 1) = SubSeq(m, 1 + 1 - 1, 1 + 1 - 1)
        <5> HIDE DEF m, Y, d
        <5> QED
          BY <1>2, <1>3, <4>1, SubSeqOfSubSeq
      <4> QED
        BY <2>2, <4>2
    <3>4. Len(d) >= 1
      <4>1. k >= n /\ Len(SubSeq(m, 1, k)) = k
        <5> HIDE DEF m, Y
        <5> QED
          BY <1>2, Pieces
      <4> QED
        BY <1>2, <2>2, <4>1
    <3> QED
      BY <3>2, <3>3, <3>4 DEF IsHttpResponse, IsPrefix
  <2>4. ProcessPacket(s, d) = ReceiveResponse(Ses("recved_request", <<>>, <<>>, r, z), SubSeq(m, 1, k))
    <3>1. ProcessPacket(s, d) = ReceiveResponse(s, d)
      <4> HIDE DEF d
      <4> QED
        BY <2>1, <2>3 DEF ProcessPacket, RecvedRequestProc
    <3> QED
      BY <1>5, <2>2, <3>1
  <2>5. <<>> \in Seq(Y)
    OBVIOUS
  <2> HIDE DEF r, z, d
  <2>6. AnsweredOut(ex, k, ReceiveResponse(Ses("recved_request", <<>>, <<>>, r, z), SubSeq(m, 1, k)))
    BY <1>1, <1>4, <1>5, <2>5, ResponseGathered
  <2> QED
    BY <2>4, <2>6 DEF d
<1>6. CASE /\ 0 < n /\ n < h /\ Between(ex, r)
           /\ s = Ses("recving_response_header", <<>>, SubSeq(m, 1, n), r, z)
  <2> DEFINE w == SubSeq(m, 1, n)
             q == Ses("recving_response_header", <<>>, SubSeq(m, 1, k), r, z)
  <2>1. s.st = "recving_response_header" /\ s.response = w
    <3> HIDE DEF r, z
    <3>1. s = Ses("recving_response_header", <<>>, w, r, z)
      BY <1>6
    <3> HIDE DEF w
    <3> QED
      BY <3>1, SesIs
  <2>2. w # <<>>
    <3> HIDE DEF w
    <3>1. Len(w) > 0
      BY <1>3, <1>6 DEF w
    <3> QED
      BY <3>1
  <2>3. [s EXCEPT !.response = @ \o d] = q
    <3>1. [s EXCEPT !.response = @ \o d] = [s EXCEPT !.response = w \o d]
      BY <2>1
    <3>2. w \o d = SubSeq(m, 1, k)
      BY <1>3
    <3> HIDE DEF w, r, z
    <3>3. [s EXCEPT !.response = w \o d] = [s EXCEPT !.response = SubSeq(m, 1, k)]
      BY <3>2
    <3>4. [s EXCEPT !.response = SubSeq(m, 1, k)] = q
      <4> DEFINE v == SubSeq(m, 1, k)
      <4>1. s = Ses("recving_response_header", <<>>, w, r, z)
        BY <1>6 DEF w
      <4> HIDE DEF v
      <4>2. [s EXCEPT !.response = v] = Ses("recving_response_header", <<>>, v, r, z)
        BY <4>1, SesIs
      <4> QED
        BY <4>2 DEF v
    <3> QED
      BY <3>1, <3>3, <3>4
  <2>4. q.response = SubSeq(m, 1, k)
    BY DEF Ses
  <2>5. ProcessPacket(s, d) = ReceiveResponse(q, SubSeq(m, 1, k))
    <3>1. ProcessPacket(s, d) = RecvingResponseHeaderProc(s, d)
      BY <2>1 DEF ProcessPacket
    <3> HIDE DEF q, w, d
    <3>2. RecvingResponseHeaderProc(s, d) = ReceiveResponse(q, q.response)
      BY <2>1, <2>2, <2>3 DEF RecvingResponseHeaderProc
    <3> QED
      BY <2>4, <3>1, <3>2
  <2>6. AnsweredOut(ex, k, ReceiveResponse(q, SubSeq(m, 1, k)))
    <3> HIDE DEF r, z
    <3> QED
      BY <1>1, <1>3, <1>4, <1>6, ResponseGathered
  <2> QED
    BY <2>5, <2>6
<1>7. CASE /\ h <= n /\ n < Len(m)
           /\ s = Ses("recving_response_data", <<>>, s.response, r, z)
           /\ s.response \in Seq(Y)
           /\ Gathered(r, ResponseFields(ex, h), ResponseBody(ex, h), n - h)
  <2> DEFINE f == ResponseFields(ex, h)
             b == ResponseBody(ex, h)
             a == s.response
  <2>1. s.st = "recving_response_data"
    <3> HIDE DEF r, z
    <3> QED
      BY <1>7, SesIs
  <2>2. ProcessPacket(s, d) = Append2Recombinder(Ses("recving_response_data", <<>>, a, r, z), d)
    <3>1. ProcessPacket(s, d) = Append2Recombinder(s, d)
      BY <2>1 DEF ProcessPacket, RecvingResponseDataProc
    <3> QED
      BY <1>7, <3>1
  <2>3. Ready(f) \in Recombs
    <3>1. SubSeq(m, 1, h) \in Seq(Y)
      <4>1. h <= k /\ h <= Len(m)
        BY <1>2, <1>7
      <4> HIDE DEF m, Y
      <4> QED
        BY <1>2, <4>1, Pieces
    <3>2. f \in Fields(Y)
      BY <3>1, ResponseIs DEF ResponseFields
    <3> HIDE DEF f
    <3> QED
      BY <3>2, NewRecombinderIs, TransferIs DEF Ready
  <2>4. /\ b \in Seq(Y) /\ SubSeq(b, 1, n - h) \in Seq(Y)
        /\ SubSeq(b, 1, k - h) = SubSeq(b, 1, n - h) \o d
    <3>1. b = From(m, h)
      BY DEF ResponseBody
    <3>2. h <= n
      BY <1>7
    <3> HIDE DEF m, b, Y
    <3>3. h \in Nat /\ k \in Nat /\ h <= n /\ n <= k /\ n <= Len(m) /\ k <= Len(m)
      BY <1>2, <3>2
    <3>4. SubSeq(From(m, h), 1, k - h) = SubSeq(From(m, h), 1, n - h) \o SubSeq(m, n + 1, k)
      BY <1>2, <3>3, BodyMore
    <3>5. From(m, h) \in Seq(Y)
      BY <1>2, <3>3, BodyPiece
    <3>6. SubSeq(From(m, h), 1, n - h) \in Seq(Y)
      BY <1>2, <3>3, BodySoFar
    <3> QED
      BY <3>1, <3>4, <3>5, <3>6
  <2>5. Linked(r, d, f, b, k - h)
    <3> DEFINE i == n - h
               j == k - h
    <3>1. SubSeq(b, 1, i) \in Seq(Y) /\ SubSeq(b, 1, j) = SubSeq(b, 1, i) \o d
      BY <2>4
    <3>2. Gathered(r, f, b, i)
      BY <1>7
    <3> HIDE DEF i, j, r, f, b, d, Y
    <3>3. Linked(r, d, f, b, j)
      BY <1>3, <1>4, <2>3, <3>1, <3>2, LinkNext
    <3> QED
      BY <3>3 DEF j
  <2>6. AnsweredOut(ex, k, Append2Recombinder(Ses("recving_response_data", <<>>, a, r, z), d))
    <3>1. h <= k
      BY <1>2, <1>7
    <3>2. a \in Seq(Words(ex))
      BY <1>7
    <3> HIDE DEF r, z, a, d
    <3> QED
      BY <1>1, <1>3, <1>4, <2>5, <3>1, <3>2, AnsweredBody
  <2> QED
    BY <2>2, <2>6
<1> QED
  BY <1>1, <1>5, <1>6, <1>7 DEF AnsweredAt

(* A session of an exchange is one that the table has. *)
LEMMA RecombsAre == Recombs \subseteq Recombinder
<1> SUFFICES ASSUME NEW r \in Recombs PROVE r \in Recombinder
  OBVIOUS
<1>1. \A k \in Chunks : k \in [st : ChunkStates, size : Nat, hex : Seq(DOMAIN DigitVal), trailer : BOOLEAN]
  BY DEF Chunks, HexWords
<1>2. \A c \in Calls : c \in [result : {"none", "false", "true"}, len : Nat]
  BY DEF Calls, NoCall, Failed, Done
<1> QED
  BY <1>1, <1>2 DEF Recombs, Recombinder

LEMMA SesThere ==
  ASSUME NEW st \in States, NEW a \in Seq(STRING), NEW b \in Seq(STRING), NEW r \in Recombs, NEW n \in Nat
  PROVE  Ses(st, a, b, r, n) # NoSession /\ Ses(st, a, b, r, n).out = "none"
<1>1. r \in Recombinder
  BY RecombsAre
<1>2. Ses(st, a, b, r, n) \in RunSession
  BY <1>1 DEF Ses, RunSession
<1> QED
  BY <1>2, NoneAssumption, SesIs

LEMMA AskedThere ==
  ASSUME NEW ex \in Exchanges, NEW n \in Nat, n <= Len(ex.request), NEW s, Asked(ex, n, s)
  PROVE  s # NoSession /\ s.out = "none"
<1>1. SubSeq(ex.request, 1, n) \in Seq(STRING) /\ <<>> \in Seq(STRING)
  <2>1. ex.request \in Seq(STRING)
    BY HttpAssumption DEF Exchange
  <2> QED
    BY <2>1, Pieces
<1>2. {"recving_request_header", "recving_request_data", "recved_request"} \subseteq States
  BY DEF States
<1> DEFINE w == SubSeq(ex.request, 1, n)
           r == s.recomb
           z == s.reqSize
<1>3. w \in Seq(STRING)
  BY <1>1
<1>4. CASE s = Ses("recving_request_header", w, <<>>, NewRecombinder, 0)
  <2> HIDE DEF w
  <2> QED
    BY <1>1, <1>2, <1>3, <1>4, NewRecombinderIs, SesThere
<1>5. CASE s = Ses("recving_request_data", <<>>, <<>>, r, 0) /\ r \in Recombs
  <2> HIDE DEF w, r
  <2> QED
    BY <1>1, <1>2, <1>5, SesThere
<1>6. CASE s = Ses("recved_request", <<>>, <<>>, r, z) /\ r \in Recombs /\ SizeOK(ex, z)
  <2>1. z \in Nat
    BY <1>6 DEF SizeOK
  <2> HIDE DEF w, r, z
  <2> QED
    BY <1>1, <1>2, <1>6, <2>1, SesThere
<1> QED
  BY <1>4, <1>5, <1>6 DEF Asked

LEMMA AnsweredThere ==
  ASSUME NEW ex \in Exchanges, NEW n \in Nat, n <= Len(ex.response), NEW s, Answered(ex, n, s)
  PROVE  s # NoSession
<1>1. PICK h \in 1 .. Len(ex.response) : AnsweredAt(ex, h, n, s)
  BY DEF Answered
<1>2. SubSeq(ex.response, 1, n) \in Seq(STRING) /\ <<>> \in Seq(STRING)
  <2>1. ex.response \in Seq(STRING)
    BY HttpAssumption DEF Exchange
  <2> QED
    BY <2>1, Pieces
<1>3. {"recved_request", "recving_response_header", "recving_response_data"} \subseteq States
  BY DEF States
<1> DEFINE w == SubSeq(ex.response, 1, n)
           r == s.recomb
           z == s.reqSize
           a == s.response
<1>4. w \in Seq(STRING) /\ r \in Recombs /\ z \in Nat
  BY <1>1, <1>2 DEF AnsweredAt, SizeOK
<1>5. CASE s = Ses("recved_request", <<>>, <<>>, r, z)
  <2> HIDE DEF w, r, z
  <2> QED
    BY <1>2, <1>3, <1>4, <1>5, SesThere
<1>6. CASE s = Ses("recving_response_header", <<>>, w, r, z)
  <2> HIDE DEF w, r, z
  <2> QED
    BY <1>2, <1>3, <1>4, <1>6, SesThere
<1>7. CASE s = Ses("recving_response_data", <<>>, a, r, z) /\ a \in Seq(Words(ex))
  <2>1. a \in Seq(STRING)
    BY <1>7, WordsOf
  <2> HIDE DEF w, r, z, a
  <2> QED
    BY <1>2, <1>3, <1>4, <1>7, <2>1, SesThere
<1> QED
  BY <1>1, <1>5, <1>6, <1>7 DEF AnsweredAt

-----------------------------------------------------------------------------
(* The steps of the monitor: a packet of the request, one of the response; *)
(* and the rest.                                                           *)
LEMMA AskCourse ==
  ASSUME CourseInv, \A ex \in Exchanges : ex.good => Ends(ex), NEW n \in 1 .. Len(Message), Packet(n),
         wire.side = "request"
  PROVE  Course'
<1> DEFINE to == wire.sent + n
           ex == wire.ex
           d  == SubSeq(ex.request, wire.sent + 1, to)
<1>1. WireOK /\ Course
  BY DEF CourseInv
<1>2. /\ WireOK' /\ wire'.ex = ex /\ wire'.side = wire.side /\ wire'.sent = to /\ Message' = Message
      /\ to \in Nat /\ wire.sent < to /\ to <= Len(Message)
      /\ wire.side = "request" /\ wire.sent = 0 => to >= 2
      /\ PktMsgProc(SubSeq(Message, wire.sent + 1, to))
      /\ ~ wire'.torn => ~ wire.torn /\ ~ Torn(wire.sent, to)
  BY <1>1, PacketWire
<1>3. ex \in Exchanges /\ wire.sent \in Nat /\ Message = ex.request
  BY <1>1, WireIs
<1> HIDE DEF to
<1> SUFFICES ASSUME Promised' PROVE Course'
  BY DEF Course
<1>4. ~ Whole /\ ~ Whole' /\ wire'.side = "request"
  BY <1>2 DEF Whole
<1>5. ex.good /\ ~ wire.torn /\ ~ Torn(wire.sent, to)
  BY <1>2 DEF Promised
<1>6. record = NoRecord /\ (wire.sent > 0 => Asked(ex, wire.sent, session))
  BY <1>1, <1>4, <1>5 DEF Course, Promised
<1>7. RequestEnds(ex) /\ BeginsWell(ex)
  BY <1>3, <1>5 DEF Ends, RequestEnds
<1>8. /\ ~ (ex.chunked["request"] /\ to = Len(ex.request) - 1)
      /\ ~ (to = ex.head /\ to < Len(ex.request))
      /\ wire.sent > 0 => ~ IsHttpRequest(d)
  BY <1>3, <1>5 DEF Torn
<1>9. to \in 1 .. Len(ex.request) /\ Len(ex.request) \in Nat
  BY <1>2, <1>3, WordsOf
<1>10. PktMsgProc(d)
  BY <1>2, <1>3
<1>11. \E s : Asked(ex, to, s) /\ Told(s)
  <2>1. CASE wire.sent = 0
    <3>1. d = SubSeq(ex.request, 1, to)
      BY <2>1
    <3>2. IsHttpRequest(d)
      <4>1. ex["request"] = ex.request /\ "request" \in {"request", "response"} /\ 0 \in Nat /\ 0 < to
            /\ to <= Len(ex["request"]) /\ to >= 2
        BY <1>2, <1>3, <2>1
      <4> HIDE DEF ex
      <4>2. IsHttpRequest(SubSeq(ex["request"], 0 + 1, to))
        BY <1>2, <1>3, <1>7, <4>1, PieceIs
      <4>3. 0 + 1 = 1
        OBVIOUS
      <4> QED
        BY <3>1, <4>1, <4>2, <4>3
    <3>3. Told(ProcessPacket(NewRunSession, d))
      BY <1>10, <3>2 DEF PktMsgProc, ProcessHttpRequest, TryProcHttpRunSession, NotHttp
    <3>4. Asked(ex, to, ProcessPacket(NewRunSession, SubSeq(ex.request, 1, to)))
      <4> HIDE DEF ex, d
      <4> QED
        BY <1>3, <1>7, <1>8, <1>9, RequestBegins
    <3> QED
      BY <3>1, <3>3, <3>4
  <2>2. CASE wire.sent # 0
    <3>1. wire.sent > 0 /\ Asked(ex, wire.sent, session) /\ ~ IsHttpRequest(d)
      BY <1>3, <1>6, <1>8, <2>2
    <3>2. session # NoSession
      <4>1. wire.sent <= Len(ex.request)
        BY <1>2, <1>3, <1>9
      <4> QED
        BY <1>3, <3>1, <4>1, AskedThere
    <3>3. Told(ProcessPacket(session, d))
      BY <1>10, <3>1, <3>2 DEF PktMsgProc, ProcessHttpRequest, TryProcHttpRunSession, NotHttp
    <3>4. Asked(ex, to, ProcessPacket(session, d))
      <4> DEFINE m == wire.sent
      <4>1. m \in Nat /\ 0 < m /\ m < to /\ Asked(ex, m, session) /\ d = SubSeq(ex.request, m + 1, to)
        BY <1>2, <1>3, <3>1
      <4> HIDE DEF ex, d, m
      <4>2. Asked(ex, to, ProcessPacket(session, SubSeq(ex.request, m + 1, to)))
        BY <1>3, <1>7, <1>8, <1>9, <4>1, RequestGoesOn
      <4> QED
        BY <4>1, <4>2
    <3> QED
      BY <3>3, <3>4
  <2> QED
    BY <2>1, <2>2
<1>12. PICK s : Asked(ex, to, s) /\ Told(s)
  BY <1>11
<1>13. s.out = "none"
  BY <1>2, <1>3, <1>12, AskedThere
<1>14. session' = s /\ record' = NoRecord
  BY <1>6, <1>12, <1>13 DEF Told
<1>15. Asked(ex, to, session')
  BY <1>12, <1>14
<1>16. /\ record' = NoRecord
       /\ wire'.side = "request" /\ wire'.sent > 0 => Asked(wire'.ex, wire'.sent, session')
       /\ wire'.side = "response" => Answered(wire'.ex, wire'.sent, session')
  BY <1>2, <1>4, <1>14, <1>15
<1> QED
  BY <1>4, <1>16 DEF Course

LEMMA AnswerCourse ==
  ASSUME CourseInv, \A ex \in Exchanges : ex.good => Ends(ex), NEW n \in 1 .. Len(Message), Packet(n),
         wire.side = "response"
  PROVE  Course'
<1> DEFINE to == wire.sent + n
           ex == wire.ex
           m  == wire.sent
           d  == SubSeq(ex.response, m + 1, to)
           s  == ProcessPacket(session, d)
<1>1. WireOK /\ Course
  BY DEF CourseInv
<1>2. /\ WireOK' /\ wire'.ex = ex /\ wire'.side = wire.side /\ wire'.sent = to /\ Message' = Message
      /\ to \in Nat /\ m < to /\ to <= Len(Message)
      /\ PktMsgProc(SubSeq(Message, m + 1, to))
      /\ ~ wire'.torn => ~ wire.torn /\ ~ Torn(m, to)
  BY <1>1, PacketWire
<1>3. ex \in Exchanges /\ m \in Nat /\ Message = ex.response /\ ex.size \in Nat
  <2>1. ex \in Exchanges /\ m \in Nat /\ Message = ex.response
    BY <1>1, WireIs
  <2> HIDE DEF ex
  <2>2. ex.size \in Nat
    BY <2>1, HttpAssumption DEF Exchange
  <2> QED
    BY <2>1, <2>2 DEF ex
<1> HIDE DEF to
<1> SUFFICES ASSUME Promised' PROVE Course'
  BY DEF Course
<1>4. to \in 1 .. Len(ex.response) /\ Len(ex.response) \in Nat
  BY <1>2, <1>3, WordsOf
<1>5. ~ Whole /\ wire'.side = "response" /\ (Whole' <=> to = Len(ex.response))
  BY <1>2, <1>3, <1>4 DEF Whole
<1>6. ex.good /\ ~ wire.torn /\ ~ Torn(m, to)
  BY <1>2 DEF Promised
<1>7. record = NoRecord /\ Answered(ex, m, session)
  BY <1>1, <1>5, <1>6 DEF Course, Promised
<1>8. ~ (ex.chunked["response"] /\ to = Len(ex.response) - 1) /\ ~ IsHttpRequest(d)
  BY <1>3, <1>6 DEF Torn
<1>9. session # NoSession
  <2>1. m <= Len(ex.response)
    BY <1>2, <1>3, <1>4
  <2> QED
    BY <1>3, <1>7, <2>1, AnsweredThere
<1>10. Told(s)
  BY <1>2, <1>3, <1>8, <1>9 DEF PktMsgProc, ProcessHttpRequest, TryProcHttpRunSession, NotHttp
<1>11. AnsweredOut(ex, to, s)
  <2> HIDE DEF ex, m
  <2> QED
    BY <1>2, <1>3, <1>4, <1>7, <1>8, ResponseGoesOn
<1> HIDE DEF s
<1>12. CASE to = Len(ex.response)
  <2>1. s.out = "completed" /\ s.respSize = ex.size /\ SizeOK(ex, s.reqSize)
    BY <1>11, <1>12 DEF AnsweredOut
  <2>2. session' = NoSession /\ record' = [req |-> s.reqSize, resp |-> s.respSize]
    BY <1>10, <2>1 DEF Told
  <2>3. record' # NoRecord
    <3>1. record' \in [req : Nat, resp : Nat]
      BY <1>3, <2>1, <2>2 DEF SizeOK
    <3> QED
      BY <3>1, NoneAssumption
  <2>4. record'.resp = ex.size /\ (ex.head = Len(ex.request) => record'.req = ex.head)
    BY <2>1, <2>2 DEF SizeOK
  <2> QED
    BY <1>2, <1>5, <1>12, <2>2, <2>3, <2>4 DEF Course
<1>13. CASE to # Len(ex.response)
  <2>1. Answered(ex, to, s) /\ s.out = "none"
    BY <1>11, <1>13 DEF AnsweredOut
  <2>2. session' = s /\ record' = NoRecord
    BY <1>7, <1>10, <2>1 DEF Told
  <2>3. Answered(ex, to, session')
    BY <2>1, <2>2
  <2> QED
    BY <1>2, <1>5, <1>13, <2>2, <2>3 DEF Course
<1> QED
  BY <1>12, <1>13

LEMMA RespondCourse ==
  ASSUME CourseInv, \A ex \in Exchanges : ex.good => Ends(ex), Respond
  PROVE  Course'
<1> DEFINE ex == wire.ex
<1>1. WireOK /\ Course
  BY DEF CourseInv
<1>2. wire'.ex = ex /\ wire'.side = "response" /\ wire'.sent = 0 /\ wire'.torn = wire.torn
  BY <1>1, RespondWire
<1> SUFFICES ASSUME Promised' PROVE Course'
  BY DEF Course
<1>3. ex \in Exchanges /\ wire.side = "request" /\ Message = ex.request /\ wire.sent = Len(ex.request)
      /\ session' = session /\ record' = record
  BY <1>1, WireIs DEF Respond
<1>4. ex.good /\ ~ wire.torn
  BY <1>2 DEF Promised
<1>5. Ends(ex)
  BY <1>3, <1>4
<1>6. ex.head \in 1 .. Len(ex.request) /\ Len(ex.request) \in Nat
  BY <1>3, <1>5, WordsOf DEF Ends, RequestEnds, HeadEnds
<1>7. PICK h \in 1 .. Len(ex.response) : ResponseEndsAt(ex, h)
  BY <1>5 DEF Ends
<1>8. record = NoRecord /\ Asked(ex, wire.sent, session)
  BY <1>1, <1>3, <1>4, <1>6 DEF Course, Promised, Whole
<1>9. /\ session = Ses("recved_request", <<>>, <<>>, session.recomb, session.reqSize)
      /\ session.recomb \in Recombs /\ Between(ex, session.recomb) /\ SizeOK(ex, session.reqSize)
  <2>1. ~ (wire.sent < ex.head) /\ ~ (wire.sent < Len(ex.request))
    BY <1>3, <1>6
  <2> QED
    BY <1>8, <2>1 DEF Asked
<1>10. Answered(ex, 0, session)
  BY <1>7, <1>9 DEF Answered, AnsweredAt
<1>11. ~ Whole'
  <2>1. Message' = ex.response
    BY <1>2 DEF Message
  <2>2. Len(ex.response) # 0
    BY <1>3, <1>7, WordsOf
  <2> QED
    BY <1>2, <2>1, <2>2 DEF Whole
<1> QED
  BY <1>2, <1>3, <1>8, <1>10, <1>11 DEF Course

LEMMA FreshCourse ==
  ASSUME NEW ex, wire' = Fresh(ex), record' = NoRecord
  PROVE  Course'
<1>1. wire'.side = "request" /\ wire'.sent = 0
  BY DEF Fresh
<1> QED
  BY <1>1 DEF Course, Whole

LEMMA InitCourse == Init => CourseInv
<1> SUFFICES ASSUME Init PROVE CourseInv
  OBVIOUS
<1>1. PICK ex \in Exchanges : wire = Fresh(ex)
  BY DEF Init
<1>2. wire.side = "request" /\ wire.sent = 0
  BY <1>1 DEF Fresh
<1>3. WireOK
  BY InitInv DEF Inv
<1> QED
  BY <1>2, <1>3 DEF CourseInv, Course, Whole, Init

LEMMA NextCourse ==
  ASSUME \A ex \in Exchanges : ex.good => Ends(ex), CourseInv, [Next]_vars
  PROVE  CourseInv'
<1>0. WireOK
  BY DEF CourseInv
<1>1. ASSUME NEW n \in 1 .. Len(Message), Packet(n) PROVE CourseInv'
  <2>1. WireOK'
    BY <1>0, <1>1, PacketWire
  <2>2. wire.side \in {"request", "response"}
    BY <1>0, WireIs
  <2>3. Course'
    BY <1>1, <2>2, AskCourse, AnswerCourse
  <2> QED
    BY <2>1, <2>3 DEF CourseInv
<1>2. CASE Respond
  BY <1>0, <1>2, RespondWire, RespondCourse DEF CourseInv
<1>3. CASE Repeat
  <2>1. WireOK' /\ wire'.torn
    BY <1>0, <1>3, RepeatWire
  <2> QED
    BY <2>1 DEF CourseInv, Course, Promised
<1>4. ASSUME NEW ex \in Exchanges, Begin(ex) \/ ConnClosedProc(ex) PROVE CourseInv'
  <2>1. wire' = Fresh(ex) /\ record' = NoRecord
    BY <1>4 DEF Begin, ConnClosedProc
  <2> QED
    BY <2>1, FreshIs, FreshCourse DEF CourseInv
<1>5. CASE UNCHANGED vars
  BY <1>5 DEF vars, CourseInv, Course, WireOK, Message, Promised, Whole
<1> QED
  BY <1>1, <1>2, <1>3, <1>4, <1>5 DEF Next

LEMMA CourseAsserts == Inv /\ CourseInv => AssertsHold
<1> SUFFICES ASSUME Inv, CourseInv, session # NoSession, (BeginsWell(wire.ex) /\ OneField(wire.ex)) \/ Promised
             PROVE  session.st \notin {"assert", "recved_response"}
  BY DEF AssertsHold
<1>1. CASE ~ Begun
  BY <1>1 DEF Inv, SessionOK, GoesOn
<1>2. CASE Begun /\ BeginsWell(wire.ex) /\ OneField(wire.ex)
  BY <1>2 DEF Inv, SessionOK, Stays, GoesOn, Broke, OneField
<1>3. CASE Begun /\ Promised
  <2>1. /\ wire.side = "request" => Asked(wire.ex, wire.sent, session)
        /\ wire.side = "response" => Answered(wire.ex, wire.sent, session)
        /\ wire.side \in {"request", "response"}
    BY <1>3, WireIs DEF CourseInv, Course, Begun, Whole
  <2>2. CASE wire.side = "request"
    BY <2>1, <2>2, SesIs DEF Asked
  <2>3. CASE wire.side = "response"
    <3>1. PICK h \in 1 .. Len(wire.ex.response) : AnsweredAt(wire.ex, h, wire.sent, session)
      BY <2>1, <2>3 DEF Answered
    <3> QED
      BY <3>1, SesIs DEF AnsweredAt
  <2> QED
    BY <2>1, <2>2, <2>3
<1> QED
  BY <1>1, <1>2, <1>3

(* No TMAS_ASSERT of HttpRunSession fails, and a session whose response is *)
(* complete has left the table, in an exchange with one transfer field at  *)
(* most, whatever comes of it, and in one whose messages end where they    *)
(* should, while it is sent well: whatever the other exchanges are.        *)
THEOREM HttpAssertsHold ==
  ASSUME \A ex \in Exchanges : ex.good => Ends(ex)
  PROVE  Spec => []AssertsHold
<1>1. Spec => [](Inv /\ CourseInv)
  <2>1. Inv /\ CourseInv /\ [Next]_vars => (Inv /\ CourseInv)'
    BY NextInv, NextCourse
  <2> QED
    BY <2>1, InitInv, InitCourse, PTL DEF Spec
<1> QED
  BY <1>1, CourseAsserts, PTL

LEMMA CourseNotEarly == CourseInv => NotEarly
<1> SUFFICES ASSUME CourseInv, Promised, ~ Whole PROVE NotEarly
  BY DEF NotEarly
<1>1. /\ record = NoRecord
      /\ wire.side = "request" /\ wire.sent > 0 => Asked(wire.ex, wire.sent, session)
      /\ wire.side = "response" => Answered(wire.ex, wire.sent, session)
  BY DEF CourseInv, Course
<1>2. /\ wire.ex \in Exchanges /\ wire.side \in {"request", "response"} /\ Message = wire.ex[wire.side]
      /\ wire.sent \in Nat /\ wire.sent <= Len(Message)
  BY WireIs DEF CourseInv
<1>3. CASE wire.side = "response"
  BY <1>1, <1>2, <1>3, AnsweredThere DEF NotEarly
<1>4. CASE wire.side = "request" /\ wire.sent > 0
  BY <1>1, <1>2, <1>4, AskedThere DEF NotEarly
<1>5. CASE wire.side = "request" /\ ~ (wire.sent > 0)
  BY <1>1, <1>5 DEF NotEarly
<1> QED
  BY <1>2, <1>3, <1>4, <1>5

(* However an exchange of messages that end where they should is cut, and  *)
(* whatever was left of the exchange before, HttpMonitor tells the         *)
(* observers its sizes when its last packet has come, and the session is   *)
(* no longer in the table.                                                 *)
THEOREM HttpRecorded ==
  ASSUME \A ex \in Exchanges : ex.good => Ends(ex)
  PROVE  Spec => []Recorded
<1>1. Spec => []CourseInv
  <2>1. CourseInv /\ [Next]_vars => CourseInv'
    BY NextCourse
  <2> QED
    BY <2>1, InitCourse, PTL DEF Spec
<1>2. CourseInv => Recorded
  BY DEF CourseInv, Course, Recorded
<1> QED
  BY <1>1, <1>2, PTL

(* And it tells them nothing before: until then the session stays in the   *)
(* table.                                                                  *)
THEOREM HttpNotEarly ==
  ASSUME \A ex \in Exchanges : ex.good => Ends(ex)
  PROVE  Spec => []NotEarly
<1>1. Spec => []CourseInv
  <2>1. CourseInv /\ [Next]_vars => CourseInv'
    BY NextCourse
  <2> QED
    BY <2>1, InitCourse, PTL DEF Spec
<1> QED
  BY <1>1, CourseNotEarly, PTL

=============================================================================
