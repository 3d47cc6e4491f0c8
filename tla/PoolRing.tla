------------------------------ MODULE PoolRing ------------------------------
(***************************************************************************)
(* The arithmetic of ObjectPool's circular buffer of free objects          *)
(* (include/sync_tools/object_pool.hpp): how its capacity is rounded, and  *)
(* what its batch copies, in one memcpy or two, read and write.            *)
(***************************************************************************)
EXTENDS Integers, Sequences

\* 1ULL << n.
OneShifted[n \in Nat] == IF n = 0 THEN 1 ELSE 2 * OneShifted[n - 1]

\* 64 - __builtin_clzll(x), for x > 0.
SignificantBits(x) == CHOOSE n \in 1..x : OneShifted[n - 1] <= x /\ x < OneShifted[n]

RoundedFromItself(v) ==         \* a fault: v for v - 1
    IF v <= 1 THEN 1 ELSE OneShifted[SignificantBits(v)]

\* _round_up_pow2, for v up to 2^63 (beyond, its shift by 64 is undefined).
RoundUpPow2(v) == IF v <= 1 THEN 1 ELSE OneShifted[SignificantBits(v - 1)]

\* A fault: acquire_batch reads the second part from data() + firstPart.
SecondPartShifted(ring, n, head, num) ==
    [i \in 1..num |-> ring[IF head + i <= n THEN head + i - 1 ELSE i - 1]]

\* What acquire_batch copies out of a buffer of n pointers: num of them from
\* `head`, in two parts when they run past the end.
CopiedOut(ring, n, head, num) ==
    LET firstPart == n - head
    IN  [i \in 1..num |-> IF i <= firstPart THEN ring[head + i - 1] ELSE ring[i - firstPart - 1]]

\* The buffer after release_batch has copied `items` in at `tail`.
CopiedIn(ring, n, tail, items) ==
    LET firstPart == n - tail
    IN  [k \in 0..(n - 1) |->
            IF k >= tail /\ k - tail < Len(items) THEN items[k - tail + 1]
            ELSE IF k < Len(items) - firstPart THEN items[firstPart + k + 1]
            ELSE ring[k]]

\* The free objects, longest free first: `count` of them from `head` on.
FreeList(ring, n, head, count) == [k \in 1..count |-> ring[(head + k - 1) % n]]
=============================================================================
