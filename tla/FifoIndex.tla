----------------------------- MODULE FifoIndex -----------------------------
(***************************************************************************)
(* Index arithmetic of CircularFifo<T>: the ring of fifo_size_ elements,   *)
(* the two cursors that walk round it, and what each guard of the class    *)
(* computes from a pair of cursor values it has loaded.                    *)
(***************************************************************************)
EXTENDS Naturals

CONSTANT FifoSize   \* the constructor's argument

ASSUME FifoSizeAssumption == FifoSize \in Nat

(* fifo_size_: the constructor turns 0 into 64. *)
Size == IF FifoSize = 0 THEN 64 ELSE FifoSize

Indices == 0 .. (Size - 1)

(* Mutants: a cursor that runs off the end of the array. *)
IncrementOffTheEnd(i) == i + 1
IncrementNOffTheEnd(i, n) == i + n

Increment(i) == (i + 1) % Size

IncrementN(i, n) == (i + n) % Size

(* IsEmpty and IsFull, on the cursor values t and h they load. *)
EmptyAt(h, t) == h = t

(* Mutant: not seen to be full when the free element is the last one. *)
FullAtNoWrap(t, h) == t + 1 = h

FullAt(t, h) == Increment(t) = h

(* The number of elements from h up to t, as GetMultiReadableItems computes *)
(* it once it knows the queue is not empty.                                 *)
ReadableAt(h, t) == IF t > h THEN t - h ELSE Size - (h - t)

(* What HasEnoughSpace(n) compares with n, on cursors it knows not to stand *)
(* for a full queue: tail - head, or fifo_size - (head - tail).  That is the*)
(* number of elements in use, and fifo_size when there is none.             *)
SpaceAt(t, h, n) == IF t > h THEN t - h > n ELSE Size - (h - t) > n

-----------------------------------------------------------------------------

(* The number of published, unread elements between the cursors. *)
Used(h, t) == IF t >= h THEN t - h ELSE Size - (h - t)

(* The i-th slot (from 0) at or after h, for i < Size. *)
Nth(h, i) == IF h + i < Size THEN h + i ELSE h + i - Size

=============================================================================
