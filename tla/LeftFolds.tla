----------------------------- MODULE LeftFolds -----------------------------
(***************************************************************************)
(* Lemmas on FoldLeft, for proofs about the loops that are modelled by it. *)
(* A fold is a recursive function over sets of positions, the last of which*)
(* goes first: that it exists, and what it goes through on the way from the*)
(* base to its value, a state for each position, is shown here by induction*)
(* over sets of numbers.                                                   *)
(***************************************************************************)
EXTENDS Integers, Sequences, SequencesExt, WellFoundedInduction, TLAPS

-----------------------------------------------------------------------------
(* Induction. *)

(* Every non-empty set of naturals has a least element. *)
LEMMA LeastOf ==
  ASSUME NEW S \in SUBSET Nat, S # {}
  PROVE  \E n \in S : \A m \in S : n <= m
<1> DEFINE R == OpToRel(<, Nat)
<1>1. \A m, n \in Nat : <<m, n>> \in R <=> m < n
  BY DEF OpToRel
<1>2. IsWellFoundedOn(R, Nat)
  BY NatLessThanWellFounded
<1> HIDE DEF R
<1>3. PICK n \in S : \A m \in S : ~ (<<m, n>> \in R)
  BY <1>2, WFMin
<1>4. ASSUME NEW m \in S PROVE n <= m
  <2>1. m \in Nat /\ n \in Nat
    OBVIOUS
  <2>2. ~ (m < n)
    BY <1>1, <1>3, <2>1
  <2> QED
    BY <2>1, <2>2
<1> QED
  BY <1>4

(* Induction, on the set of the numbers something holds of. *)
LEMMA NatInd ==
  ASSUME NEW S \in SUBSET Nat, 0 \in S, \A n \in S : n + 1 \in S
  PROVE  S = Nat
<1>1. CASE Nat \ S # {}
  <2>1. PICK n \in Nat \ S : \A m \in Nat \ S : n <= m
    BY <1>1, LeastOf
  <2>2. n - 1 \in S
    BY <2>1
  <2> QED
    BY <2>1, <2>2
<1> QED
  BY <1>1

(* Induction up to a bound. *)
LEMMA NatIndUpTo ==
  ASSUME NEW k \in Nat, NEW S, 0 \in S, \A n \in 0 .. k : n < k /\ n \in S => n + 1 \in S
  PROVE  \A n \in 0 .. k : n \in S
<1> DEFINE Good == {n \in Nat : n <= k => n \in S}
<1>1. 0 \in Good
  OBVIOUS
<1>2. ASSUME NEW n \in Good PROVE n + 1 \in Good
  <2>1. CASE n + 1 <= k
    <3>1. n \in 0 .. k /\ n < k /\ n \in S
      BY <2>1
    <3> QED
      BY <3>1
  <2>2. CASE ~ (n + 1 <= k)
    BY <2>2
  <2> QED
    BY <2>1, <2>2
<1>3. Good \in SUBSET Nat
  OBVIOUS
<1>4. Good = Nat
  <2> HIDE DEF Good
  <2> QED
    BY <1>1, <1>2, <1>3, NatInd
<1> QED
  BY <1>4

-----------------------------------------------------------------------------
(* Folds. *)

(* Steps that differ from one to the next can be taken one after the other.*)
StepsFrom(g, base, step, k) == g[0] = base /\ \A n \in 1 .. k : g[n] = step[<<n, g[n - 1]>>]

LEMMA IterateWith ==
  ASSUME NEW A, NEW base \in A, NEW k \in Nat, NEW step \in [(1 .. k) \X A -> A]
  PROVE  \E g \in [0 .. k -> A] : StepsFrom(g, base, step, k)
<1> DEFINE From(g, m) == g[0] = base /\ \A n \in 1 .. m : g[n] = step[<<n, g[n - 1]>>]
           Good == {m \in Nat : \E g \in [0 .. m -> A] : From(g, m)}
<1>1. 0 \in Good
  <2>1. From([n \in 0 .. 0 |-> base], 0) /\ [n \in 0 .. 0 |-> base] \in [0 .. 0 -> A]
    OBVIOUS
  <2> QED
    BY <2>1
<1>2. ASSUME NEW m \in 0 .. k, m < k, m \in Good PROVE m + 1 \in Good
  <2>1. PICK g \in [0 .. m -> A] : From(g, m)
    BY <1>2
  <2> DEFINE h == [n \in 0 .. m + 1 |-> IF n <= m THEN g[n] ELSE step[<<m + 1, g[m]>>]]
  <2>2. step[<<m + 1, g[m]>>] \in A
    BY <1>2
  <2>3. h \in [0 .. m + 1 -> A]
    BY <2>2
  <2>4. h[0] = base
    BY <2>1
  <2>5. ASSUME NEW n \in 1 .. m + 1 PROVE h[n] = step[<<n, h[n - 1]>>]
    <3>1. CASE n <= m
      BY <2>1, <3>1
    <3>2. CASE n = m + 1
      BY <3>2
    <3> QED
      BY <3>1, <3>2
  <2> HIDE DEF h
  <2>6. m + 1 \in Nat /\ From(h, m + 1)
    BY <2>4, <2>5
  <2> QED
    BY <2>3, <2>6
<1>3. k \in Good
  <2> HIDE DEF Good
  <2>1. \A n \in 0 .. k : n < k /\ n \in Good => n + 1 \in Good
    BY <1>2
  <2>2. \A n \in 0 .. k : n \in Good
    BY <1>1, <2>1, NatIndUpTo
  <2> QED
    BY <2>2
<1> QED
  BY <1>3 DEF StepsFrom

LEMMA MaxIs ==
  ASSUME NEW k \in Nat, NEW x \in SUBSET Nat, x # {}, \A n \in x : n <= k
  PROVE  Max(x) \in x /\ \A n \in x : n <= Max(x)
<1> DEFINE S == {k - n : n \in x}
<1>0. S # {}
  OBVIOUS
<1>1. S \in SUBSET Nat
  OBVIOUS
<1>2. PICK m \in S : \A n \in S : m <= n
  BY <1>0, <1>1, LeastOf
<1>3. PICK j \in x : m = k - j
  BY <1>2
<1>4. ASSUME NEW n \in x PROVE j >= n
  <2>1. m <= k - n
    BY <1>2
  <2> QED
    BY <1>3, <2>1
<1>5. \E y \in x : \A n \in x : y >= n
  BY <1>4
<1>6. Max(x) \in x /\ \A n \in x : Max(x) >= n
  BY <1>5 DEF Max
<1>7. Max(x) \in Nat /\ \A n \in x : n \in Nat
  BY <1>6
<1> QED
  BY <1>6, <1>7

(* The steps whose numbers are in x, one after the other. *)
Masked(A, k, base, step, x, g) ==
  /\ k \in Nat /\ base \in A /\ step \in [(1 .. k) \X A -> A]
  /\ g \in [0 .. k -> A] /\ g[0] = base
  /\ \A n \in 1 .. k : g[n] = IF n \in x THEN step[<<n, g[n - 1]>>] ELSE g[n - 1]

LEMMA MaskedIs ==
  ASSUME NEW A, NEW base \in A, NEW k \in Nat, NEW step \in [(1 .. k) \X A -> A], NEW x
  PROVE  \E g : Masked(A, k, base, step, x, g)
<1> DEFINE some == [na \in (1 .. k) \X A |-> IF na[1] \in x THEN step[na] ELSE na[2]]
<1>1. some \in [(1 .. k) \X A -> A]
  OBVIOUS
<1>2. \A n \in 1 .. k : \A a \in A : some[<<n, a>>] = IF n \in x THEN step[<<n, a>>] ELSE a
  OBVIOUS
<1> HIDE DEF some
<1>31. PICK g \in [0 .. k -> A] : StepsFrom(g, base, some, k)
  BY <1>1, IterateWith
<1>3. g[0] = base /\ \A n \in 1 .. k : g[n] = some[<<n, g[n - 1]>>]
  BY <1>31 DEF StepsFrom
<1>4. ASSUME NEW n \in 1 .. k PROVE g[n] = IF n \in x THEN step[<<n, g[n - 1]>>] ELSE g[n - 1]
  <2>1. g[n - 1] \in A
    BY <1>3
  <2> QED
    BY <1>2, <1>3, <2>1
<1> QED
  BY <1>3, <1>4 DEF Masked

UpTo(x, m) == x \subseteq Nat /\ \A n \in x : n <= m

AlikeUpTo(x, y, m) == \A n \in 1 .. m : n \in x <=> n \in y

(* Beyond the last of its steps nothing changes; what is the same up to    *)
(* some step leads to the same.                                            *)
LEMMA MaskedStays ==
  ASSUME NEW A, NEW base, NEW k, NEW step, NEW x, NEW g, Masked(A, k, base, step, x, g),
         NEW m \in 0 .. k, UpTo(x, m)
  PROVE  g[k] = g[m]
<1>0. k \in Nat
  BY DEF Masked
<1> DEFINE Good == {n \in Nat : n >= m => g[n] = g[m]}
<1>1. 0 \in Good
  OBVIOUS
<1>2. ASSUME NEW n \in 0 .. k, n < k, n \in Good PROVE n + 1 \in Good
  <2>1. CASE n >= m
    <3>1. n + 1 \notin x /\ n + 1 \in 1 .. k
      BY <1>0, <1>2, <2>1 DEF UpTo
    <3>2. g[n + 1] = g[(n + 1) - 1]
      BY <3>1 DEF Masked
    <3> QED
      BY <1>2, <2>1, <3>2
  <2>2. CASE n + 1 = m
    BY <2>2
  <2>3. CASE n + 1 < m
    BY <2>3
  <2> QED
    BY <2>1, <2>2, <2>3
<1>3. k \in Good
  <2> HIDE DEF Good
  <2>1. \A n \in 0 .. k : n < k /\ n \in Good => n + 1 \in Good
    BY <1>2
  <2>2. \A n \in 0 .. k : n \in Good
    BY <1>0, <1>1, <2>1, NatIndUpTo
  <2> QED
    BY <1>0, <2>2
<1> QED
  BY <1>3

LEMMA MaskedAgree ==
  ASSUME NEW A, NEW base, NEW k, NEW step, NEW x, NEW g, Masked(A, k, base, step, x, g),
         NEW y, NEW h, Masked(A, k, base, step, y, h), NEW m \in 0 .. k, AlikeUpTo(x, y, m)
  PROVE  g[m] = h[m]
<1>0. k \in Nat
  BY DEF Masked
<1> DEFINE Good == {n \in Nat : n <= m => g[n] = h[n]}
<1>1. 0 \in Good
  BY DEF Masked
<1>2. ASSUME NEW n \in 0 .. k, n < k, n \in Good PROVE n + 1 \in Good
  <2>1. CASE n + 1 <= m
    <3>1. n + 1 \in 1 .. m /\ n + 1 \in 1 .. k /\ g[n] = h[n] /\ (n + 1) - 1 = n
      BY <1>0, <1>2, <2>1
    <3>2. g[n + 1] = h[n + 1]
      BY <3>1 DEF Masked, AlikeUpTo
    <3> QED
      BY <3>2
  <2>2. CASE ~ (n + 1 <= m)
    BY <2>2
  <2> QED
    BY <2>1, <2>2
<1>3. m \in Good
  <2> HIDE DEF Good
  <2>1. \A n \in 0 .. k : n < k /\ n \in Good => n + 1 \in Good
    BY <1>2
  <2>2. \A n \in 0 .. k : n \in Good
    BY <1>0, <1>1, <2>1, NatIndUpTo
  <2> QED
    BY <1>0, <2>2
<1> QED
  BY <1>3

(* What a fold from the left goes through, for any set of its steps. *)
FoldsOver(f, k, base, step) ==
  /\ f[{}] = base
  /\ \A x \in SUBSET (1 .. k) :
       x # {} => Max(x) \in x /\ f[x] = step[<<Max(x), f[x \ {Max(x)}]>>]

LEMMA MaskedFold ==
  ASSUME NEW A, NEW base \in A, NEW k \in Nat, NEW step \in [(1 .. k) \X A -> A]
  PROVE  \E f \in [SUBSET (1 .. k) -> A] : FoldsOver(f, k, base, step)
<1> DEFINE Run(x) == CHOOSE g : Masked(A, k, base, step, x, g)
           f      == [x \in SUBSET (1 .. k) |-> Run(x)[k]]
<1>1. ASSUME NEW x \in SUBSET (1 .. k)
      PROVE  Masked(A, k, base, step, x, Run(x)) /\ Run(x)[k] \in A
  <2>1. \E g : Masked(A, k, base, step, x, g)
    BY MaskedIs
  <2>2. Masked(A, k, base, step, x, Run(x))
    BY <2>1
  <2> HIDE DEF Run
  <2> QED
    BY <2>2 DEF Masked
<1> HIDE DEF Run
<1>2. f \in [SUBSET (1 .. k) -> A] /\ \A x \in SUBSET (1 .. k) : f[x] = Run(x)[k]
  BY <1>1
<1> HIDE DEF f
<1>3. f[{}] = base
  <2>1. {} \in SUBSET (1 .. k) /\ {} \in SUBSET Nat /\ 0 \in 0 .. k
    OBVIOUS
  <2> DEFINE g == Run({})
  <2>2. Masked(A, k, base, step, {}, g) /\ f[{}] = g[k]
    BY <1>1, <1>2, <2>1
  <2> HIDE DEF g
  <2>3. g[k] = g[0]
    <3>1. UpTo({}, 0)
      BY DEF UpTo
    <3> QED
      BY <2>1, <2>2, <3>1, MaskedStays
  <2> QED
    BY <2>2, <2>3 DEF Masked
<1>4. ASSUME NEW x \in SUBSET (1 .. k), x # {}
      PROVE  Max(x) \in x /\ f[x] = step[<<Max(x), f[x \ {Max(x)}]>>]
  <2> DEFINE m == Max(x)
             y == x \ {Max(x)}
  <2>0. x \in SUBSET Nat /\ \A n \in x : 1 <= n /\ n <= k
    OBVIOUS
  <2>1. m \in x /\ \A n \in x : n <= m
    BY <1>4, <2>0, MaxIs
  <2>2. m \in 1 .. k /\ m \in 0 .. k /\ m - 1 \in 0 .. k
    <3>1. m \in Nat /\ 1 <= m /\ m <= k
      BY <2>0, <2>1
    <3> HIDE DEF m
    <3> QED
      BY <3>1
  <2>3. y \in SUBSET (1 .. k) /\ y = x \ {m}
    OBVIOUS
  <2> DEFINE g == Run(x)
             h == Run(y)
  <2>4. Masked(A, k, base, step, x, g) /\ f[x] = g[k]
    BY <1>1, <1>2
  <2>5. Masked(A, k, base, step, y, h) /\ f[y] = h[k]
    BY <1>1, <1>2, <2>3
  <2>51. f[y] = f[x \ {Max(x)}]
    OBVIOUS
  <2> HIDE DEF g, h, m, y
  <2>6. g[k] = g[m]
    <3>1. UpTo(x, m)
      BY <2>0, <2>1 DEF UpTo
    <3> QED
      BY <2>2, <2>4, <3>1, MaskedStays
  <2>7. g[m] = step[<<m, g[m - 1]>>]
    BY <2>1, <2>2, <2>4 DEF Masked
  <2>8. h[k] = h[m - 1]
    <3>1. UpTo(y, m - 1)
      BY <2>0, <2>1, <2>2, <2>3 DEF UpTo
    <3> QED
      BY <2>2, <2>5, <3>1, MaskedStays
  <2>9. g[m - 1] = h[m - 1]
    <3>1. AlikeUpTo(x, y, m - 1)
      BY <2>2, <2>3 DEF AlikeUpTo
    <3> QED
      BY <2>2, <2>4, <2>5, <3>1, MaskedAgree
  <2>10. f[x] = step[<<m, f[y]>>]
    BY <2>4, <2>5, <2>6, <2>7, <2>8, <2>9
  <2> QED
    BY <2>1, <2>10, <2>51 DEF m
<1> QED
  BY <1>2, <1>3, <1>4 DEF FoldsOver

(* The recursion of a fold, as far as its values are in A: i is the        *)
(* function that MapThenFoldSet chooses, step what one position makes.     *)
Unfolds(i, A, k, base, step) ==
  /\ i[{}] = base
  /\ \A n \in 1 .. k : i[1 .. n - 1] \in A => i[1 .. n] = step[<<n, i[1 .. n - 1]>>]

LEMMA UpToIs ==
  ASSUME NEW k \in Nat, NEW n \in 1 .. k
  PROVE  /\ 1 .. n \in SUBSET (1 .. k) /\ 1 .. n # {}
         /\ Max(1 .. n) = n /\ (1 .. n) \ {n} = 1 .. n - 1
<1> DEFINE x == 1 .. n
<1>0. 1 <= n /\ n <= k /\ n \in Nat
  OBVIOUS
<1>1. n \in x
  BY <1>0
<1>2. x \in SUBSET (1 .. k)
  BY <1>0
<1>3. x \in SUBSET Nat /\ x # {}
  BY <1>0, <1>1
<1>4. Max(x) \in x /\ \A m \in x : m <= Max(x)
  <2>1. \A m \in x : m <= k
    BY <1>0
  <2> QED
    BY <1>3, <2>1, MaxIs
<1>5. Max(x) = n
  BY <1>0, <1>1, <1>4
<1>6. (1 .. n) \ {n} = 1 .. n - 1
  OBVIOUS
<1> QED
  BY <1>2, <1>3, <1>5, <1>6

FoldTyped(A, k, base, step) == k \in Nat /\ base \in A /\ step \in [(1 .. k) \X A -> A]

(* The states on the way. *)
Passes(g, i, A, k, base, step) ==
  g \in [0 .. k -> A] /\ StepsFrom(g, base, step, k) /\ i[1 .. k] = g[k]

LEMMA Unfolded ==
  ASSUME NEW A, NEW base, NEW k, NEW step, NEW i, FoldTyped(A, k, base, step), Unfolds(i, A, k, base, step)
  PROVE  \E g : Passes(g, i, A, k, base, step)
<1>0. k \in Nat /\ base \in A /\ step \in [(1 .. k) \X A -> A]
  BY DEF FoldTyped
<1>1. PICK g \in [0 .. k -> A] : StepsFrom(g, base, step, k)
  BY <1>0, IterateWith
<1> DEFINE S == {n \in 0 .. k : i[1 .. n] = g[n]}
<1>2. 0 \in S
  <2>1. 1 .. 0 = {} /\ 0 \in 0 .. k
    BY <1>0
  <2> QED
    BY <1>1, <2>1 DEF Unfolds, StepsFrom
<1>3. ASSUME NEW n \in 0 .. k, n < k, n \in S PROVE n + 1 \in S
  <2>1. n + 1 \in 1 .. k /\ n + 1 \in 0 .. k /\ (n + 1) - 1 = n /\ g[n] \in A
    BY <1>0, <1>1, <1>3
  <2>2. i[1 .. n] = g[n]
    BY <1>3
  <2>3. g[n + 1] = step[<<n + 1, g[n]>>]
    <3>1. g[n + 1] = step[<<n + 1, g[(n + 1) - 1]>>]
      BY <1>1, <2>1 DEF StepsFrom
    <3> QED
      BY <2>1, <3>1
  <2>4. i[1 .. n + 1] = step[<<n + 1, i[1 .. n]>>]
    <3> DEFINE m == n + 1
    <3>1. m \in 1 .. k /\ m - 1 = n
      BY <2>1
    <3> HIDE DEF m
    <3>2. i[1 .. m - 1] \in A => i[1 .. m] = step[<<m, i[1 .. m - 1]>>]
      BY <3>1 DEF Unfolds
    <3>3. i[1 .. m] = step[<<m, i[1 .. n]>>]
      BY <2>1, <2>2, <3>1, <3>2
    <3> QED
      BY <3>3 DEF m
  <2> QED
    BY <2>1, <2>2, <2>3, <2>4
<1> HIDE DEF S
<1>4. \A n \in 0 .. k : n \in S
  BY <1>0, <1>2, <1>3, NatIndUpTo
<1>5. i[1 .. k] = g[k]
  BY <1>0, <1>4 DEF S
<1> QED
  BY <1>1, <1>5 DEF Passes

(* Two that begin alike and go on alike are alike; and what has come to    *)
(* rest stays.                                                             *)
LEMMA GoAlike ==
  ASSUME NEW j \in Nat, NEW g, NEW h, g[0] = h[0],
         \A n \in 1 .. j : g[n - 1] = h[n - 1] => g[n] = h[n]
  PROVE  g[j] = h[j]
<1> DEFINE S == {n \in 0 .. j : g[n] = h[n]}
<1>1. 0 \in S
  OBVIOUS
<1>2. ASSUME NEW n \in 0 .. j, n < j, n \in S PROVE n + 1 \in S
  <2>1. n + 1 \in 1 .. j /\ n + 1 \in 0 .. j /\ (n + 1) - 1 = n /\ g[n] = h[n]
    BY <1>2
  <2>2. g[n + 1] = h[n + 1]
    BY <2>1
  <2> QED
    BY <2>1, <2>2
<1> HIDE DEF S
<1>3. \A n \in 0 .. j : n \in S
  BY <1>1, <1>2, NatIndUpTo
<1>4. j \in S
  BY <1>3
<1> QED
  BY <1>4 DEF S

LEMMA StaysThere ==
  ASSUME NEW j \in Nat, NEW k \in Nat, j <= k, NEW h,
         \A n \in j + 1 .. k : h[n - 1] = h[j] => h[n] = h[j]
  PROVE  h[k] = h[j]
<1> DEFINE S == {n \in 0 .. k : n >= j => h[n] = h[j]}
<1>1. 0 \in S
  OBVIOUS
<1>2. ASSUME NEW n \in 0 .. k, n < k, n \in S PROVE n + 1 \in S
  <2>1. n + 1 \in 0 .. k /\ (n + 1) - 1 = n
    BY <1>2
  <2>2. CASE n >= j
    <3>1. n + 1 \in j + 1 .. k /\ h[n] = h[j]
      BY <1>2, <2>2
    <3>2. h[n + 1] = h[j]
      BY <2>1, <3>1
    <3> QED
      BY <2>1, <3>2
  <2>3. CASE ~ (n >= j)
    <3>1. n + 1 >= j => n + 1 = j
      BY <2>3
    <3> QED
      BY <2>1, <3>1
  <2> QED
    BY <2>2, <2>3
<1> HIDE DEF S
<1>3. \A n \in 0 .. k : n \in S
  BY <1>1, <1>2, NatIndUpTo
<1>4. k \in S
  BY <1>3
<1> QED
  BY <1>4 DEF S

=============================================================================
