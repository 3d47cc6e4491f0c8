-------------------------- MODULE ObjectPoolProofs --------------------------
(***************************************************************************)
(* Theorems about ObjectPool, for any number of threads, any capacity and  *)
(* batch size, with or without constructors that throw.                    *)
(***************************************************************************)
EXTENDS ObjectPool, SharedLemmas, SequenceTheorems, FiniteSetTheorems

\* AbstractPool with its theorems, under the refinement mapping.
AP == INSTANCE AbstractPoolProofs
          WITH free <- Free, lost <- leaked,
               op <- [t \in Threads |-> Progress(t)],
               asked <- want,
               batch <- [t \in Threads |-> Carried(t)]

(***************************************************************************)
(* The capacity.  OneShifted is a recursive function, so the first thing   *)
(* to show is that it satisfies its own equation.                          *)
(***************************************************************************)
\* f doubles from 1 on, as far as n.
Doubles(f, n) == /\ f \in [0..n -> Nat]
                 /\ f[0] = 1
                 /\ \A i \in 1..n : f[i] = 2 * f[i - 1]

LEMMA DoublesOneWay ==
    \A m \in Nat, n \in Nat : \A f, g :
        Doubles(f, m) /\ Doubles(g, n) => \A i \in Nat : i <= m /\ i <= n => f[i] = g[i]
<1> SUFFICES ASSUME NEW m \in Nat, NEW n \in Nat, NEW f, NEW g,
                    Doubles(f, m), Doubles(g, n)
             PROVE  \A i \in Nat : i <= m /\ i <= n => f[i] = g[i]
  OBVIOUS
<1> DEFINE T == {i \in Nat : i <= m /\ i <= n /\ f[i] # g[i]}
<1> SUFFICES ASSUME T # {} PROVE FALSE
  OBVIOUS
<1>1. PICK i \in T : \A j \in T : i <= j
  <2>1. T \in SUBSET Nat
    OBVIOUS
  <2> HIDE DEF T
  <2> QED BY <2>1, NatMin, Zenon
<1>2. i # 0
  BY DEF Doubles
<1>3. i - 1 \notin T
  BY <1>1
<1>4. f[i - 1] = g[i - 1]
  BY <1>2, <1>3
<1> QED BY <1>2, <1>4 DEF Doubles

LEMMA DoublesAnyFar == \A n \in Nat : \E f : Doubles(f, n)
<1> DEFINE T == {n \in Nat : ~ \E f : Doubles(f, n)}
<1> SUFFICES ASSUME T # {} PROVE FALSE
  OBVIOUS
<1>1. PICK n \in T : \A j \in T : n <= j
  <2>1. T \in SUBSET Nat
    OBVIOUS
  <2> HIDE DEF T
  <2> QED BY <2>1, NatMin, Zenon
<1>2. n # 0
  <2>1. Doubles([i \in 0..0 |-> 1], 0)
    BY DEF Doubles
  <2> QED BY <2>1
<1>3. n - 1 \notin T
  BY <1>1
<1>4. PICK f : Doubles(f, n - 1)
  BY <1>2, <1>3
<1> DEFINE g == [i \in 0..n |-> IF i = n THEN 2 * f[n - 1] ELSE f[i]]
<1>5. g \in [0..n -> Nat] /\ g[0] = 1
  <2>1. \A i \in 0..(n - 1) : f[i] \in Nat
    BY <1>4 DEF Doubles
  <2> QED BY <1>2, <1>4, <2>1 DEF Doubles
<1>6. ASSUME NEW i \in 1..n PROVE g[i] = 2 * g[i - 1]
  <2>1. CASE i = n
    BY <1>2, <2>1
  <2>2. CASE i # n
    <3>1. i \in 1..(n - 1) /\ i - 1 \in 0..n /\ i - 1 # n
      BY <1>2, <2>2
    <3>2. f[i] = 2 * f[i - 1]
      BY <1>4, <3>1 DEF Doubles
    <3> QED BY <1>2, <3>1, <3>2
  <2> QED BY <2>1, <2>2
<1>7. Doubles(g, n)
  <2> HIDE DEF g
  <2> QED BY <1>5, <1>6 DEF Doubles
<1> QED BY <1>7

LEMMA OneShiftedUnfolds ==
    OneShifted = [n \in Nat |-> IF n = 0 THEN 1 ELSE 2 * OneShifted[n - 1]]
<1> DEFINE Upto(n) == CHOOSE f : Doubles(f, n)
           P == [n \in Nat |-> Upto(n)[n]]
<1>1. \A n \in Nat : Doubles(Upto(n), n)
  BY DoublesAnyFar
<1> HIDE DEF Upto
<1>2. ASSUME NEW n \in Nat PROVE P[n] = IF n = 0 THEN 1 ELSE 2 * P[n - 1]
  <2>1. CASE n = 0
    BY <1>1, <2>1 DEF Doubles
  <2>2. CASE n # 0
    <3>1. n - 1 \in Nat
      BY <2>2
    <3>2. Doubles(Upto(n), n) /\ Doubles(Upto(n - 1), n - 1)
      BY <1>1, <3>1
    <3>3. Upto(n)[n - 1] = Upto(n - 1)[n - 1]
      <4>1. \A i \in Nat : i <= n /\ i <= n - 1 => Upto(n)[i] = Upto(n - 1)[i]
        BY <3>1, <3>2, DoublesOneWay
      <4> QED BY <3>1, <4>1
    <3>4. Upto(n)[n] = 2 * Upto(n)[n - 1]
      BY <2>2, <3>2 DEF Doubles
    <3> QED BY <2>2, <3>1, <3>3, <3>4
  <2> QED BY <2>1, <2>2
<1>3. P = [n \in Nat |-> IF n = 0 THEN 1 ELSE 2 * P[n - 1]]
  BY <1>2
<1> HIDE DEF P
<1> QED BY <1>3 DEF OneShifted

LEMMA OneShiftedStep ==
    /\ OneShifted[0] = 1
    /\ \A n \in Nat : OneShifted[n + 1] = 2 * OneShifted[n]
<1>1. \A n \in Nat : OneShifted[n] = IF n = 0 THEN 1 ELSE 2 * OneShifted[n - 1]
  BY OneShiftedUnfolds
<1>2. ASSUME NEW n \in Nat PROVE OneShifted[n + 1] = 2 * OneShifted[n]
  <2>1. n + 1 \in Nat /\ n + 1 # 0 /\ (n + 1) - 1 = n
    OBVIOUS
  <2> QED BY <1>1, <2>1
<1> QED BY <1>1, <1>2

\* A bit shifted by n is a number greater than n.
LEMMA OneShiftedGrows == \A n \in Nat : OneShifted[n] \in Nat /\ n < OneShifted[n]
<1> DEFINE T == {n \in Nat : ~ (OneShifted[n] \in Nat /\ n < OneShifted[n])}
<1> SUFFICES ASSUME T # {} PROVE FALSE
  OBVIOUS
<1>1. PICK n \in T : \A j \in T : n <= j
  <2>1. T \in SUBSET Nat
    OBVIOUS
  <2> HIDE DEF T
  <2> QED BY <2>1, NatMin, Zenon
<1>2. n # 0
  BY OneShiftedStep
<1>3. n - 1 \in Nat /\ n - 1 \notin T
  BY <1>1, <1>2
<1>4. OneShifted[n] = 2 * OneShifted[n - 1]
  <2>1. (n - 1) + 1 = n
    OBVIOUS
  <2> QED BY <1>3, <2>1, OneShiftedStep
<1> QED BY <1>3, <1>4

LEMMA OneShiftedMonotone ==
    \A i \in Nat, j \in Nat : i <= j => OneShifted[i] <= OneShifted[j]
<1> SUFFICES ASSUME NEW i \in Nat
             PROVE  \A j \in Nat : i <= j => OneShifted[i] <= OneShifted[j]
  OBVIOUS
<1> DEFINE T == {j \in Nat : i <= j /\ ~ (OneShifted[i] <= OneShifted[j])}
<1> SUFFICES ASSUME T # {} PROVE FALSE
  OBVIOUS
<1>1. PICK j \in T : \A k \in T : j <= k
  <2>1. T \in SUBSET Nat
    OBVIOUS
  <2> HIDE DEF T
  <2> QED BY <2>1, NatMin, Zenon
<1>2. j # i
  BY OneShiftedGrows
<1>3. j - 1 \in Nat /\ i <= j - 1 /\ j - 1 \notin T
  BY <1>1, <1>2
<1>4. OneShifted[j] = 2 * OneShifted[j - 1]
  <2>1. (j - 1) + 1 = j
    OBVIOUS
  <2> QED BY <1>3, <2>1, OneShiftedStep
<1> QED BY <1>3, <1>4, OneShiftedGrows

\* The CHOOSE of SignificantBits finds what it looks for.
LEMMA SignificantBitsOf ==
    ASSUME NEW x \in Nat, x > 0
    PROVE  /\ SignificantBits(x) \in 1..x
           /\ OneShifted[SignificantBits(x) - 1] <= x
           /\ x < OneShifted[SignificantBits(x)]
<1> DEFINE T == {n \in Nat : x < OneShifted[n]}
<1>1. x \in T
  BY OneShiftedGrows
<1>2. PICK n \in T : \A j \in T : n <= j
  <2>1. T \in SUBSET Nat
    OBVIOUS
  <2> HIDE DEF T
  <2> QED BY <1>1, <2>1, NatMin, Zenon
<1>3. n # 0
  BY OneShiftedStep
<1>4. n - 1 \in Nat /\ n - 1 \notin T
  BY <1>2, <1>3
<1>5. n \in 1..x /\ OneShifted[n - 1] <= x /\ x < OneShifted[n]
  BY <1>1, <1>2, <1>3, <1>4, OneShiftedGrows
<1> QED BY <1>5 DEF SignificantBits

\* _round_up_pow2 gives a power of two that is large enough, and half of it is
\* not.
LEMMA RoundsUpToPower == \A v \in Nat : LeastPower(v, RoundUpPow2(v))
<1> SUFFICES ASSUME NEW v \in Nat PROVE LeastPower(v, RoundUpPow2(v))
  OBVIOUS
<1>1. CASE v <= 1
  BY <1>1, OneShiftedStep DEF RoundUpPow2, LeastPower
<1>2. CASE v > 1
  <2> DEFINE b == SignificantBits(v - 1)
  <2>1. b \in 1..(v - 1) /\ OneShifted[b - 1] <= v - 1 /\ v - 1 < OneShifted[b]
    BY <1>2, SignificantBitsOf
  <2>2. RoundUpPow2(v) = OneShifted[b]
    BY <1>2 DEF RoundUpPow2
  <2> HIDE DEF b
  <2>3. OneShifted[b] = 2 * OneShifted[b - 1]
    <3>1. b - 1 \in Nat /\ (b - 1) + 1 = b
      BY <1>2, <2>1
    <3> QED BY <3>1, OneShiftedStep
  <2>4. OneShifted[b - 1] \in Nat /\ OneShifted[b] \in Nat
    BY <2>1, OneShiftedGrows
  <2>5. OneShifted[b] \div 2 = OneShifted[b - 1]
    BY <2>3, <2>4
  <2>6. b \in 0..v /\ v <= OneShifted[b] /\ OneShifted[b] \div 2 < v
    BY <2>1, <2>4, <2>5
  <2> QED BY <2>2, <2>6 DEF LeastPower
<1> QED BY <1>1, <1>2

\* LeastPower means what it says: no power of two that is large enough is
\* smaller.
LEMMA NoneIsLess ==
    ASSUME NEW v \in Nat, NEW n, LeastPower(v, n), NEW k \in Nat, v <= OneShifted[k]
    PROVE  n <= OneShifted[k]
<1>1. PICK j \in 0..v : n = OneShifted[j]
  BY DEF LeastPower
<1>2. CASE j <= k
  BY <1>1, <1>2, OneShiftedMonotone
<1>3. CASE k < j
  <2>1. j - 1 \in Nat /\ k <= j - 1 /\ (j - 1) + 1 = j
    BY <1>3
  <2>2. n = 2 * OneShifted[j - 1] /\ OneShifted[j - 1] \in Nat /\ j - 1 < OneShifted[j - 1]
    BY <1>1, <2>1, OneShiftedStep, OneShiftedGrows
  <2>3. n \div 2 = OneShifted[j - 1] /\ n > 1
    BY <2>1, <2>2
  <2>4. OneShifted[j - 1] < v
    BY <2>3 DEF LeastPower
  <2>5. OneShifted[k] <= OneShifted[j - 1]
    BY <2>1, OneShiftedMonotone
  <2> QED BY <2>2, <2>4, <2>5, OneShiftedGrows
<1> QED BY <1>1, <1>2, <1>3

\* For every argument the capacity is the least power of two that is at least
\* as large: what the mask of the circular buffer needs, and no more memory
\* than that takes.
THEOREM CapacityIsLeast ==
    \A v \in Nat :
        /\ \E k \in Nat : RoundUpPow2(v) = OneShifted[k]
        /\ v <= RoundUpPow2(v)
        /\ \A k \in Nat : v <= OneShifted[k] => RoundUpPow2(v) <= OneShifted[k]
<1> SUFFICES ASSUME NEW v \in Nat
             PROVE  /\ \E k \in Nat : RoundUpPow2(v) = OneShifted[k]
                    /\ v <= RoundUpPow2(v)
                    /\ \A k \in Nat : v <= OneShifted[k] => RoundUpPow2(v) <= OneShifted[k]
  OBVIOUS
<1>1. LeastPower(v, RoundUpPow2(v))
  BY RoundsUpToPower
<1>2. \A k \in Nat : v <= OneShifted[k] => RoundUpPow2(v) <= OneShifted[k]
  BY <1>1, NoneIsLess
<1> QED BY <1>1, <1>2 DEF LeastPower

\* Up to 2^63 no argument makes _round_up_pow2 shift by 64, which C++ leaves
\* undefined.
THEOREM ShiftStaysBelow64 ==
    \A v \in Nat : v > 1 /\ v <= OneShifted[63] => SignificantBits(v - 1) \in 1..63
<1> SUFFICES ASSUME NEW v \in Nat, v > 1, v <= OneShifted[63]
             PROVE  SignificantBits(v - 1) \in 1..63
  OBVIOUS
<1> DEFINE b == SignificantBits(v - 1)
<1>1. b \in 1..(v - 1) /\ OneShifted[b - 1] <= v - 1
  BY SignificantBitsOf
<1> HIDE DEF b
<1>2. b - 1 \in Nat /\ 63 \in Nat
  BY <1>1
<1>3. OneShifted[b - 1] < OneShifted[63]
  BY <1>1, <1>2, OneShiftedGrows
<1>4. ~ (63 <= b - 1)
  BY <1>2, <1>3, OneShiftedMonotone, OneShiftedGrows
<1> QED BY <1>1, <1>2, <1>4 DEF b
-----------------------------------------------------------------------------
\* The buffer has a slot for each node, and there are nodes.
LEMMA PoolSizeType == PoolSize \in Nat /\ PoolSize > 0
<1>1. PoolSize \in Nat
  BY NodesAssumption, FS_CardinalityType
<1>2. PoolSize # 0
  BY NodesAssumption, FS_EmptySet
<1> QED BY <1>1, <1>2
-----------------------------------------------------------------------------
(***************************************************************************)
(* The circular buffer: n slots, c of them in use from h on.               *)
(***************************************************************************)
\* The masked index of a position less than two laps away.
LEMMA Masked ==
    ASSUME NEW n \in Nat, n > 0, NEW k \in Nat, k < n + n
    PROVE  k % n = IF k < n THEN k ELSE k - n
<1>1. CASE k < n
  BY <1>1, Small
<1>2. CASE ~(k < n)
  <2>1. k - n \in 0..(n - 1) /\ k - n \in Nat /\ (k - n) + n = k
    BY <1>2
  <2>2. ((k - n) + n) % n = (k - n) % n
    BY <2>1, Shift
  <2>3. (k - n) % n = k - n
    BY <2>1, Small
  <2> QED BY <1>2, <2>1, <2>2, <2>3
<1> QED BY <1>1, <1>2

\* The free objects form a sequence.
LEMMA FreeListIsSeq ==
    ASSUME NEW S, NEW n \in Nat, n > 0, NEW r \in [0..(n - 1) -> S],
           NEW h \in 0..(n - 1), NEW c \in 0..n
    PROVE  /\ FreeList(r, n, h, c) \in Seq(S)
           /\ Len(FreeList(r, n, h, c)) = c
<1> DEFINE f == FreeList(r, n, h, c)
<1>1. \A k \in 1..c : h + k - 1 \in Nat /\ (h + k - 1) % n \in 0..(n - 1)
  OBVIOUS
<1>2. f = [k \in 1..c |-> r[(h + k - 1) % n]]
  BY DEF FreeList
<1>3. f \in [1..c -> S]
  BY <1>1, <1>2
<1> HIDE DEF f
<1>4. c \in Nat /\ f \in Seq(S)
  BY <1>3, SeqDef
<1>5. Len(f) = c
  <2>1. DOMAIN f = 1..c /\ DOMAIN f = 1..Len(f) /\ Len(f) \in Nat
    BY <1>3, <1>4, LenProperties
  <2> QED BY <1>4, <2>1
<1> QED
  BY <1>4, <1>5 DEF f

\* Two sequences of the same length with the same elements are the same.
LEMMA SameSeq ==
    ASSUME NEW S, NEW s \in Seq(S), NEW u \in Seq(S), Len(s) = Len(u),
           \A i \in 1..Len(s) : s[i] = u[i]
    PROVE  s = u
  BY SeqEqual

\* Both memcpys of acquire_batch together copy a prefix of the free objects.
LEMMA CopyOut ==
    ASSUME NEW S, NEW n \in Nat, n > 0, NEW r \in [0..(n - 1) -> S],
           NEW h \in 0..(n - 1), NEW c \in 0..n, NEW m \in 0..c
    PROVE  CopiedOut(r, n, h, m) = SubSeq(FreeList(r, n, h, c), 1, m)
<1> DEFINE f == FreeList(r, n, h, c)
           o == CopiedOut(r, n, h, m)
<1>1. f \in Seq(S) /\ Len(f) = c /\ \A k \in 1..c : f[k] = r[(h + k - 1) % n]
  <2>1. f \in Seq(S) /\ Len(f) = c
    BY FreeListIsSeq
  <2>2. \A k \in 1..c : f[k] = r[(h + k - 1) % n]
    BY DEF FreeList
  <2> QED BY <2>1, <2>2
<1>2. ASSUME NEW i \in 1..m PROVE o[i] = f[i] /\ o[i] \in S
  <2>1. h + i - 1 \in Nat /\ h + i - 1 < n + n /\ i \in 1..c
    OBVIOUS
  <2>2. (h + i - 1) % n = IF h + i - 1 < n THEN h + i - 1 ELSE (h + i - 1) - n
    BY <2>1, Masked
  <2>3. o[i] = IF i <= n - h THEN r[h + i - 1] ELSE r[i - (n - h) - 1]
    BY DEF CopiedOut
  <2>4. o[i] = r[(h + i - 1) % n]
    <3>1. CASE i <= n - h
      BY <2>1, <2>2, <2>3, <3>1
    <3>2. CASE ~(i <= n - h)
      <4>1. i - (n - h) - 1 = (h + i - 1) - n /\ ~(h + i - 1 < n)
        BY <3>2
      <4> QED BY <2>2, <2>3, <3>2, <4>1
    <3> QED BY <3>1, <3>2
  <2>5. (h + i - 1) % n \in 0..(n - 1)
    BY <2>1
  <2> QED BY <1>1, <2>1, <2>4, <2>5
<1>3. DOMAIN o = 1..m /\ o = [i \in 1..m |-> o[i]]
  BY DEF CopiedOut
<1> HIDE DEF o, f
<1>4. o \in [1..m -> S] /\ m \in Nat
  BY <1>2, <1>3
<1>5. o \in Seq(S) /\ Len(o) = m
  <2>1. o \in Seq(S)
    BY <1>4, SeqDef
  <2>2. DOMAIN o = 1..Len(o) /\ Len(o) \in Nat
    BY <2>1, LenProperties
  <2> QED BY <1>3, <1>4, <2>1, <2>2
<1>6. m \in 0..Len(f)
  BY <1>1
<1>7. /\ SubSeq(f, 1, m) \in Seq(S) /\ Len(SubSeq(f, 1, m)) = m
      /\ \A i \in 1..m : SubSeq(f, 1, m)[i] = f[i]
  BY <1>1, <1>6, Split
<1>8. \A i \in 1..Len(o) : o[i] = SubSeq(f, 1, m)[i]
  BY <1>2, <1>5, <1>7
<1> QED
  BY <1>5, <1>7, <1>8, SameSeq DEF o, f

\* Moving _head_index on and lowering _available_count drops that prefix.
LEMMA Advance ==
    ASSUME NEW S, NEW n \in Nat, n > 0, NEW r \in [0..(n - 1) -> S],
           NEW h \in 0..(n - 1), NEW c \in 0..n, NEW m \in 0..c
    PROVE  FreeList(r, n, (h + m) % n, c - m) = SubSeq(FreeList(r, n, h, c), m + 1, c)
<1> DEFINE f == FreeList(r, n, h, c)
<1>1. f \in Seq(S) /\ Len(f) = c /\ \A k \in 1..c : f[k] = r[(h + k - 1) % n]
  <2>1. f \in Seq(S) /\ Len(f) = c
    BY FreeListIsSeq
  <2>2. \A k \in 1..c : f[k] = r[(h + k - 1) % n]
    BY DEF FreeList
  <2> QED BY <2>1, <2>2
<1>0. h + m \in Nat
  OBVIOUS
<1>8. PICK h2 \in 0..(n - 1) : h2 = (h + m) % n
  BY <1>0
<1>9. PICK d \in 0..n : d = c - m
  OBVIOUS
<1>2. h + m \in Nat /\ h2 = (h + m) % n /\ d = c - m
  BY <1>0, <1>8, <1>9
<1> DEFINE g == FreeList(r, n, h2, d)
<1>3. g \in Seq(S) /\ Len(g) = d /\ \A k \in 1..d : g[k] = r[(h2 + k - 1) % n]
  <2>1. g \in Seq(S) /\ Len(g) = d
    <3>1. \A a \in 0..(n - 1), b \in 0..n :
             FreeList(r, n, a, b) \in Seq(S) /\ Len(FreeList(r, n, a, b)) = b
      BY FreeListIsSeq
    <3> QED BY <3>1, Zenon
  <2>2. \A k \in 1..d : g[k] = r[(h2 + k - 1) % n]
    BY DEF FreeList
  <2> QED BY <2>1, <2>2
<1>4. ASSUME NEW k \in 1..d PROVE g[k] = f[m + k]
  <2>1. m + k \in 1..c /\ k - 1 \in Nat
    BY <1>2
  <2>2. (((h + m) % n) + (k - 1)) % n = ((h + m) + (k - 1)) % n
    BY <1>2, <2>1, AddThenMask
  <2>3. (h2 + k) - 1 = h2 + (k - 1) /\ ((h + m) + (k - 1)) = (h + (m + k)) - 1
    BY <1>2
  <2>4. (h2 + k - 1) % n = (h + (m + k) - 1) % n
    BY <1>2, <2>2, <2>3
  <2> QED BY <1>1, <1>3, <2>1, <2>4
<1> HIDE DEF f, g
<1>5. m \in 0..Len(f)
  BY <1>1
<1>6. /\ SubSeq(f, m + 1, c) \in Seq(S) /\ Len(SubSeq(f, m + 1, c)) = c - m
      /\ \A i \in 1..(c - m) : SubSeq(f, m + 1, c)[i] = f[m + i]
  BY <1>1, <1>5, Split
<1>7. \A i \in 1..Len(g) : g[i] = SubSeq(f, m + 1, c)[i]
  BY <1>2, <1>3, <1>4, <1>6
<1> QED
  BY <1>2, <1>3, <1>6, <1>7, SameSeq DEF f, g

\* What the lemma below says of a copy of u behind the free objects, and what the
\* one after it says of an r into which u has been copied.
Copied(S, n, r, h, c, u) ==
    LET r2 == CopiedIn(r, n, (h + c) % n, u)
    IN  /\ r2 \in [0..(n - 1) -> S]
        /\ FreeList(r2, n, h, c) = FreeList(r, n, h, c)
        /\ \A i \in 1..Len(u) : r2[(((h + c) % n) + (i - 1)) % n] = u[i]
Counted(n, r, h, c, u) ==
    (\A i \in 1..Len(u) : r[(((h + c) % n) + (i - 1)) % n] = u[i])
       => FreeList(r, n, h, c + Len(u)) = FreeList(r, n, h, c) \o u

\* The two memcpys of release_batch write the slots behind the free objects, and
\* leave those of the free objects alone.
LEMMA CopyIn ==
    ASSUME NEW S, NEW n \in Nat, n > 0, NEW r \in [0..(n - 1) -> S],
           NEW h \in 0..(n - 1), NEW c \in 0..n, NEW u \in Seq(S), c + Len(u) <= n
    PROVE  Copied(S, n, r, h, c, u)
<1> DEFINE r2 == CopiedIn(r, n, (h + c) % n, u)
<1>1. PICK m \in Nat : m = Len(u) /\ c + m <= n
  BY LenProperties
<1>2. PICK t \in 0..(n - 1) : t = (h + c) % n /\ t = IF h + c < n THEN h + c ELSE (h + c) - n
  <2>1. h + c \in Nat /\ h + c < n + n
    OBVIOUS
  <2>2. (h + c) % n = IF h + c < n THEN h + c ELSE (h + c) - n
    BY <2>1, Masked
  <2>3. (h + c) % n \in 0..(n - 1)
    BY <2>1
  <2> QED BY <2>2, <2>3
<1>3. t = IF h + c < n THEN h + c ELSE (h + c) - n
  BY <1>2
<1>4. r2 = CopiedIn(r, n, t, u)
  BY <1>2
<1>5. r2 = [q \in 0..(n - 1) |->
              IF q >= t /\ q - t < m THEN u[q - t + 1]
              ELSE IF q < m - (n - t) THEN u[(n - t) + q + 1]
              ELSE r[q]]
  BY <1>1, <1>4 DEF CopiedIn
<1>6. \A i \in 1..m : u[i] \in S
  BY <1>1, ElementOfSeq
<1> HIDE DEF r2
<1>7. r2 \in [0..(n - 1) -> S]
  <2>1. ASSUME NEW q \in 0..(n - 1)
        PROVE  (IF q >= t /\ q - t < m THEN u[q - t + 1]
                ELSE IF q < m - (n - t) THEN u[(n - t) + q + 1] ELSE r[q]) \in S
    <3>1. q >= t /\ q - t < m => q - t + 1 \in 1..m
      BY <1>1
    <3>2. q < m - (n - t) => (n - t) + q + 1 \in 1..m
      BY <1>1
    <3> QED BY <1>6, <3>1, <3>2
  <2> QED BY <1>5, <2>1
<1>8. ASSUME NEW k \in 1..c PROVE r2[(h + k - 1) % n] = r[(h + k - 1) % n]
  <2>1. h + k - 1 \in Nat /\ h + k - 1 < n + n
    OBVIOUS
  <2>2. (h + k - 1) % n = IF h + k - 1 < n THEN h + k - 1 ELSE (h + k - 1) - n
    BY <2>1, Masked
  <2>3. PICK q \in 0..(n - 1) : q = (h + k - 1) % n
    BY <2>1
  <2>4. q = IF h + k - 1 < n THEN h + k - 1 ELSE (h + k - 1) - n
    BY <2>2, <2>3
  <2>5. ~(q >= t /\ q - t < m) /\ ~(q < m - (n - t))
    BY <1>1, <1>3, <2>4
  <2>6. r2[q] = r[q]
    BY <1>5, <2>5
  <2> QED BY <2>3, <2>6
<1>9. FreeList(r2, n, h, c) = FreeList(r, n, h, c)
  BY <1>8 DEF FreeList
<1>10. ASSUME NEW i \in 1..m PROVE r2[(t + (i - 1)) % n] = u[i]
  <2>1. t + (i - 1) \in Nat /\ t + (i - 1) < n + n
    BY <1>1
  <2>2. (t + (i - 1)) % n = IF t + (i - 1) < n THEN t + (i - 1) ELSE (t + (i - 1)) - n
    BY <2>1, Masked
  <2>3. PICK q \in 0..(n - 1) : q = (t + (i - 1)) % n
    BY <2>1
  <2>4. q = IF t + (i - 1) < n THEN t + (i - 1) ELSE (t + (i - 1)) - n
    BY <2>2, <2>3
  <2>5. r2[q] = u[i]
    <3>1. CASE t + (i - 1) < n
      <4>1. q >= t /\ q - t < m /\ q - t + 1 = i
        BY <1>1, <2>4, <3>1
      <4> QED BY <1>5, <4>1
    <3>2. CASE ~(t + (i - 1) < n)
      <4>1. ~(q >= t /\ q - t < m) /\ q < m - (n - t) /\ (n - t) + q + 1 = i
        BY <1>1, <2>4, <3>2
      <4> QED BY <1>5, <4>1
    <3> QED BY <3>1, <3>2
  <2> QED BY <2>3, <2>5
<1>11. \A i \in 1..Len(u) : r2[(((h + c) % n) + (i - 1)) % n] = u[i]
  BY <1>1, <1>2, <1>10
<1> QED
  BY <1>7, <1>9, <1>11 DEF r2, Copied

\* Raising _available_count by what stands behind the free objects appends it.
LEMMA Count ==
    ASSUME NEW S, NEW n \in Nat, n > 0, NEW r \in [0..(n - 1) -> S],
           NEW h \in 0..(n - 1), NEW c \in 0..n, NEW u \in Seq(S), c + Len(u) <= n
    PROVE  Counted(n, r, h, c, u)
<1> USE DEF Counted
<1>0. \A a \in 0..(n - 1), b \in 0..n :
         FreeList(r, n, a, b) \in Seq(S) /\ Len(FreeList(r, n, a, b)) = b
  BY FreeListIsSeq
<1> HAVE \A i \in 1..Len(u) : r[(((h + c) % n) + (i - 1)) % n] = u[i]
<1>1. PICK m \in Nat : m = Len(u) /\ c + m <= n
  BY LenProperties
<1>2. PICK d \in 0..n : d = c + m
  BY <1>1
<1> DEFINE f == FreeList(r, n, h, c)
           g == FreeList(r, n, h, d)
<1>3. f \in Seq(S) /\ Len(f) = c /\ \A k \in 1..c : f[k] = r[(h + k - 1) % n]
  <2>1. f \in Seq(S) /\ Len(f) = c
    BY <1>0, Zenon
  <2>2. \A k \in 1..c : f[k] = r[(h + k - 1) % n]
    BY DEF FreeList
  <2> QED BY <2>1, <2>2
<1>4. g \in Seq(S) /\ Len(g) = d /\ \A k \in 1..d : g[k] = r[(h + k - 1) % n]
  <2>1. g \in Seq(S) /\ Len(g) = d
    BY <1>0, Zenon
  <2>2. \A k \in 1..d : g[k] = r[(h + k - 1) % n]
    BY DEF FreeList
  <2> QED BY <2>1, <2>2
<1>5. ASSUME NEW i \in 1..m PROVE g[c + i] = u[i]
  <2>1. c + i \in 1..d /\ i - 1 \in Nat /\ h + c \in Nat
    BY <1>1, <1>2
  <2>2. (((h + c) % n) + (i - 1)) % n = ((h + c) + (i - 1)) % n
    BY <2>1, AddThenMask
  <2>3. (h + c) + (i - 1) = (h + (c + i)) - 1
    BY <2>1
  <2>4. r[(((h + c) % n) + (i - 1)) % n] = u[i]
    BY <1>1
  <2>5. r[(h + (c + i) - 1) % n] = u[i]
    BY <2>2, <2>3, <2>4
  <2> QED BY <1>4, <2>1, <2>5
<1> HIDE DEF f, g
<1>6. /\ f \o u \in Seq(S) /\ Len(f \o u) = Len(f) + Len(u)
      /\ \A i \in 1..(Len(f) + Len(u)) : (f \o u)[i] = IF i <= Len(f) THEN f[i] ELSE u[i - Len(f)]
  BY <1>3, ConcatProperties
<1>7. Len(f \o u) = d /\ \A i \in 1..d : (f \o u)[i] = IF i <= c THEN f[i] ELSE u[i - c]
  BY <1>1, <1>2, <1>3, <1>6
<1>8. ASSUME NEW i \in 1..d PROVE g[i] = (f \o u)[i]
  <2>1. CASE i <= c
    <3>1. i \in 1..c
      BY <2>1
    <3> QED BY <1>3, <1>4, <1>7, <2>1, <3>1
  <2>2. CASE ~(i <= c)
    <3>1. i - c \in 1..m /\ c + (i - c) = i
      BY <1>1, <1>2, <2>2
    <3> QED BY <1>5, <1>7, <2>2, <3>1
  <2> QED BY <2>1, <2>2
<1>9. g = f \o u
  BY <1>4, <1>6, <1>7, <1>8, SameSeq
<1> QED
  BY <1>1, <1>2, <1>9 DEF f, g
-----------------------------------------------------------------------------
(***************************************************************************)
(* The pool.                                                               *)
(***************************************************************************)
\* The four lemmas above for the pool's own buffer.
LEMMA PoolLine ==
    ASSUME NEW r \in [Slots -> Objects], NEW h \in Slots, NEW c \in 0..PoolSize
    PROVE  /\ FreeList(r, PoolSize, h, c) \in Seq(Objects)
           /\ Len(FreeList(r, PoolSize, h, c)) = c
<1>1. PICK n \in Nat : n > 0 /\ n = PoolSize
  BY PoolSizeType
<1>2. \A q \in [0..(n - 1) -> Objects], a \in 0..(n - 1), b \in 0..n :
         FreeList(q, n, a, b) \in Seq(Objects) /\ Len(FreeList(q, n, a, b)) = b
  BY <1>1, FreeListIsSeq
<1>3. Slots = 0..(n - 1) /\ 0..PoolSize = 0..n
  BY <1>1 DEF Slots
<1> QED
  BY <1>1, <1>2, <1>3, SMTT(20)

LEMMA PoolTakes ==
    ASSUME NEW r \in [Slots -> Objects], NEW h \in Slots, NEW c \in 0..PoolSize, NEW m \in 0..c
    PROVE  /\ CopiedOut(r, PoolSize, h, m) = SubSeq(FreeList(r, PoolSize, h, c), 1, m)
           /\ FreeList(r, PoolSize, (h + m) % PoolSize, c - m)
                = SubSeq(FreeList(r, PoolSize, h, c), m + 1, c)
           /\ (h + m) % PoolSize \in Slots
<1>1. PICK n \in Nat : n > 0 /\ n = PoolSize
  BY PoolSizeType
<1>2. n > 0
  BY <1>1
<1>3. Slots = 0..(n - 1) /\ 0..PoolSize = 0..n
  BY <1>1 DEF Slots
<1>4. r \in [0..(n - 1) -> Objects] /\ h \in 0..(n - 1) /\ c \in 0..n
  BY <1>3, Zenon
<1>5. CopiedOut(r, n, h, m) = SubSeq(FreeList(r, n, h, c), 1, m)
  BY <1>2, <1>4, CopyOut, Zenon
<1>6. FreeList(r, n, (h + m) % n, c - m) = SubSeq(FreeList(r, n, h, c), m + 1, c)
  BY <1>2, <1>4, Advance, Zenon
<1>7. (h + m) % n \in 0..(n - 1)
  BY <1>2, <1>4
<1>8. PoolSize = n
  BY <1>1
<1> QED
  BY <1>3, <1>5, <1>6, <1>7, <1>8, Zenon

LEMMA PoolPuts ==
    ASSUME NEW r \in [Slots -> Objects], NEW h \in Slots, NEW c \in 0..PoolSize,
           NEW u \in Seq(Objects), c + Len(u) <= PoolSize
    PROVE  Copied(Objects, PoolSize, r, h, c, u) /\ Counted(PoolSize, r, h, c, u)
<1>1. PICK n \in Nat : n > 0 /\ n = PoolSize
  BY PoolSizeType
<1>2. n > 0
  BY <1>1
<1>3. Slots = 0..(n - 1) /\ 0..PoolSize = 0..n
  BY <1>1 DEF Slots
<1>4. r \in [0..(n - 1) -> Objects] /\ h \in 0..(n - 1) /\ c \in 0..n
  BY <1>3, Zenon
<1>8. PoolSize = n
  BY <1>1
<1>9. c + Len(u) <= n
  BY <1>8, Zenon
<1>5. Copied(Objects, n, r, h, c, u)
  BY <1>2, <1>4, <1>9, CopyIn, Zenon
<1>6. Counted(n, r, h, c, u)
  BY <1>2, <1>4, <1>9, Count, Zenon
<1> QED
  BY <1>5, <1>6, <1>8, Zenon

\* The line of free objects is a sequence, as long as the count says.
LEMMA FreeType == TypeOK => Free \in Seq(Objects) /\ Len(Free) = available
  BY PoolLine DEF TypeOK, Free

\* No sequence without duplicates is longer than the pool.
LEMMA NoMoreThanObjects ==
    ASSUME NEW s \in Seq(Objects), IsInjective(s) PROVE Len(s) <= PoolSize
<1>1. Len(s) \in Nat /\ DOMAIN s = 1..Len(s) /\ s \in [1..Len(s) -> Objects]
  BY LenProperties
<1>2. s \in Injection(1..Len(s), Objects)
  BY <1>1 DEF Injection, IsInjective
<1>3. Cardinality(1..Len(s)) <= Cardinality(Objects)
  BY <1>2, NodesAssumption, FS_Injection
<1>4. Cardinality(1..Len(s)) = IF 1 > Len(s) THEN 0 ELSE Len(s) - 1 + 1
  BY <1>1, FS_Interval
<1> QED
  BY <1>1, <1>3, <1>4, NodesAssumption, PoolSizeType

\* The abstract pool means the same by these words.
LEMMA SameWords ==
    ASSUME NEW f
    PROVE  /\ AP!Range(f) = Range(f) /\ Abstract!Range(f) = Range(f)
           /\ AP!IsInjective(f) <=> IsInjective(f)
           /\ Abstract!IsInjective(f) <=> IsInjective(f)
  BY DEF Range, AP!Range, Abstract!Range, IsInjective, AP!IsInjective, Abstract!IsInjective

\* What the abstract pool's invariant says of this one.
LEMMA Apart ==
    ASSUME Abstract!PoolInv
    PROVE  /\ IsInjective(Free) /\ Range(Free) \cap (held \cup leaked) = {}
           /\ held \cap leaked = {}
           /\ \A t \in Threads :
                 /\ IsInjective(Carried(t))
                 /\ Range(Carried(t)) \cap (Range(Free) \cup held \cup leaked) = {}
                 /\ \A u \in Threads \ {t} : Range(Carried(t)) \cap Range(Carried(u)) = {}
                 /\ Progress(t) \in {"idle", "asking"} => Carried(t) = <<>>
<1> USE SameWords DEF Abstract!PoolInv, Abstract!EachInOnePlace
<1>1. IsInjective(Free) /\ Range(Free) \cap (held \cup leaked) = {} /\ held \cap leaked = {}
  OBVIOUS
<1>2. ASSUME NEW t \in Threads
      PROVE  /\ IsInjective(Carried(t))
             /\ Range(Carried(t)) \cap (Range(Free) \cup held \cup leaked) = {}
             /\ Progress(t) \in {"idle", "asking"} => Carried(t) = <<>>
  OBVIOUS
<1>3. ASSUME NEW t \in Threads, NEW u \in Threads \ {t}
      PROVE  Range(Carried(t)) \cap Range(Carried(u)) = {}
  OBVIOUS
<1> QED BY <1>1, <1>2, <1>3

\* There is room in the buffer for what a call is about to put back.
LEMMA RoomForPut ==
    ASSUME TypeOK, Abstract!PoolInv, NEW t \in Threads, ~At(t, "advance")
    PROVE  available + Len(items[t]) <= PoolSize
<1>1. Carried(t) = items[t] /\ items[t] \in Seq(Objects)
  BY DEF Carried, TypeOK
<1>2. /\ IsInjective(Free) /\ IsInjective(items[t])
      /\ Range(items[t]) \cap (Range(Free) \cup held \cup leaked) = {}
  BY <1>1, Apart
<1>3. Free \in Seq(Objects) /\ Len(Free) = available
  BY FreeType
<1>4. IsInjective(Free \o items[t])
  BY <1>1, <1>2, <1>3, ConcatApart
<1>5. Free \o items[t] \in Seq(Objects) /\ Len(Free \o items[t]) = Len(Free) + Len(items[t])
  BY <1>1, <1>3, ConcatProperties
<1> QED
  BY <1>3, <1>4, <1>5, NoMoreThanObjects
-----------------------------------------------------------------------------
(***************************************************************************)
(* Every step of the pool is a step of the abstract one, or none.          *)
(***************************************************************************)
\* The abstract pool's arrays, when one thread moves.
LEMMA OneThread ==
    ASSUME NEW t \in Threads,
           \A u \in Threads \ {t} : pc'[u] = pc[u] /\ items'[u] = items[u]
    PROVE  /\ [u \in Threads |-> Progress(u)]'
                = [[u \in Threads |-> Progress(u)] EXCEPT ![t] = Progress(t)']
           /\ [u \in Threads |-> Carried(u)]'
                = [[u \in Threads |-> Carried(u)] EXCEPT ![t] = Carried(t)']
<1>1. ASSUME NEW u \in Threads \ {t} PROVE Progress(u)' = Progress(u) /\ Carried(u)' = Carried(u)
  BY DEF Progress, Carried, At
<1> QED
  BY <1>1

\* Nothing changes for the abstract pool.
LEMMA Stutters ==
    ASSUME NEW t \in Threads,
           \A u \in Threads \ {t} : pc'[u] = pc[u] /\ items'[u] = items[u],
           Free' = Free, held' = held, leaked' = leaked, want' = want,
           Progress(t)' = Progress(t), Carried(t)' = Carried(t)
    PROVE  UNCHANGED Abstract!poolVars
<1>1. [u \in Threads |-> Progress(u)]' = [u \in Threads |-> Progress(u)]
  BY OneThread
<1>2. [u \in Threads |-> Carried(u)]' = [u \in Threads |-> Carried(u)]
  BY OneThread
<1> QED
  BY <1>1, <1>2 DEF Abstract!poolVars

LEMMA SamePool == UNCHANGED pool => Free' = Free
  BY DEF pool, Free

\* acquire begins, and release begins.
LEMMA BeginRefines ==
    ASSUME IInv, NEW t \in Threads
    PROVE  /\ \A n \in 1..MaxBatch : AcquireBegin(t, n) => Abstract!Ask(t, n)
           /\ \A s \in Batches : ReleaseBegin(t, s) => Abstract!Give(t, s)
<1> USE DEF At, Goto
<1>1. TypeOK
  BY DEF IInv
<1>2. ASSUME NEW n \in 1..MaxBatch, AcquireBegin(t, n) PROVE Abstract!Ask(t, n)
  <2>1. Free' = Free
    BY <1>2, SamePool DEF AcquireBegin
  <2>2. \A u \in Threads \ {t} : pc'[u] = pc[u] /\ items'[u] = items[u]
    BY <1>1, <1>2 DEF AcquireBegin, TypeOK
  <2>3. pc[t] = "idle" /\ pc'[t] = "lock to take" /\ items'[t] = items[t]
    BY <1>1, <1>2 DEF AcquireBegin, TypeOK
  <2>4. Progress(t) = "idle" /\ Progress(t)' = "asking" /\ Carried(t)' = Carried(t)
    BY <2>3 DEF Progress, Carried
  <2>5. /\ [u \in Threads |-> Progress(u)]'
             = [[u \in Threads |-> Progress(u)] EXCEPT ![t] = Progress(t)']
        /\ [u \in Threads |-> Carried(u)]'
             = [[u \in Threads |-> Carried(u)] EXCEPT ![t] = Carried(t)']
    BY <2>2, OneThread
  <2> QED BY <1>2, <2>1, <2>4, <2>5 DEF Abstract!Ask, AcquireBegin
<1>3. ASSUME NEW s \in Batches, ReleaseBegin(t, s) PROVE Abstract!Give(t, s)
  <2>1. Free' = Free
    BY <1>3, SamePool DEF ReleaseBegin
  <2>2. \A u \in Threads \ {t} : pc'[u] = pc[u] /\ items'[u] = items[u]
    BY <1>1, <1>3 DEF ReleaseBegin, TypeOK
  <2>3. pc[t] = "idle" /\ pc'[t] = "destroy" /\ items'[t] = s
    BY <1>1, <1>3 DEF ReleaseBegin, TypeOK
  <2>4. Progress(t) = "idle" /\ Progress(t)' = "giving" /\ Carried(t)' = s
    BY <2>3 DEF Progress, Carried
  <2>5. /\ [u \in Threads |-> Progress(u)]'
             = [[u \in Threads |-> Progress(u)] EXCEPT ![t] = Progress(t)']
        /\ [u \in Threads |-> Carried(u)]'
             = [[u \in Threads |-> Carried(u)] EXCEPT ![t] = Carried(t)']
    BY <2>2, OneThread
  <2> QED BY <1>3, <2>1, <2>4, <2>5, SameWords DEF Abstract!Give, ReleaseBegin
<1> QED BY <1>2, <1>3

LEMMA GrantedIsNum == ASSUME TypeOK PROVE \A t \in Threads : Abstract!Granted(t) = Num(t)
  BY FreeType DEF Num, Abstract!Granted

\* acquire takes effect when it moves the indexes, or finds nothing.
LEMMA TakeRefines ==
    ASSUME IInv, NEW t \in Threads
    PROVE  /\ TakeAdvance(t) => Abstract!Take(t)
           /\ TakeRead(t) => Abstract!Take(t) \/ UNCHANGED Abstract!poolVars
<1> USE DEF At, Goto
<1>1. TypeOK /\ Free \in Seq(Objects) /\ Len(Free) = available
  BY FreeType DEF IInv
<1>2. Num(t) \in 0..available /\ Abstract!Granted(t) = Num(t) /\ want[t] \in Nat
  BY <1>1 DEF TypeOK, Num, Abstract!Granted
<1>3. ASSUME TakeAdvance(t) PROVE Abstract!Take(t)
  <2>1. pc[t] = "advance" /\ pc'[t] = "construct" /\ items' = items
    BY <1>1, <1>3 DEF TakeAdvance, TypeOK, locals
  <2>2. items[t] = SubSeq(Free, 1, Num(t))
    BY <2>1 DEF IInv, CopiesOK, CopyOK
  <2>3. Len(items[t]) = Num(t)
    BY <1>1, <1>2, <2>2, Split
  <2>4. Free' = SubSeq(Free, Num(t) + 1, Len(Free))
    <3>1. /\ ring \in [Slots -> Objects] /\ headIndex \in Slots /\ available \in 0..PoolSize
          /\ ring' = ring /\ headIndex' = (headIndex + Num(t)) % PoolSize
          /\ available' = available - Num(t)
      BY <1>1, <1>3, <2>3 DEF TakeAdvance, TypeOK
    <3>2. FreeList(ring, PoolSize, (headIndex + Num(t)) % PoolSize, available - Num(t))
            = SubSeq(FreeList(ring, PoolSize, headIndex, available), Num(t) + 1, available)
      BY <1>2, <3>1, PoolTakes, Zenon
    <3>3. Free' = SubSeq(Free, Num(t) + 1, available)
      BY <3>1, <3>2, Zenon DEF Free
    <3> QED BY <1>1, <3>3
  <2>5. \A u \in Threads \ {t} : pc'[u] = pc[u] /\ items'[u] = items[u]
    BY <1>1, <1>3, <2>1 DEF TakeAdvance, TypeOK
  <2>6. Progress(t) = "asking" /\ Progress(t)' = "returning" /\ Carried(t)' = items[t]
    BY <2>1 DEF Progress, Carried
  <2>7. /\ [u \in Threads |-> Progress(u)]'
             = [[u \in Threads |-> Progress(u)] EXCEPT ![t] = Progress(t)']
        /\ [u \in Threads |-> Carried(u)]'
             = [[u \in Threads |-> Carried(u)] EXCEPT ![t] = Carried(t)']
    BY <2>5, OneThread
  <2>8. held' = held /\ leaked' = leaked /\ want' = want
    BY <1>3 DEF TakeAdvance, locals
  <2> QED
    BY <1>2, <2>2, <2>4, <2>6, <2>7, <2>8, Zenon DEF Abstract!Take
<1>4. ASSUME TakeRead(t), available # 0 PROVE UNCHANGED Abstract!poolVars
  <2>1. /\ pc[t] = "read" /\ pc'[t] = "advance"
        /\ \A u \in Threads \ {t} : pc'[u] = pc[u] /\ items'[u] = items[u]
    BY <1>1, <1>4 DEF TakeRead, TypeOK
  <2>2. Progress(t)' = Progress(t) /\ Progress(t) = "asking" /\ Carried(t)' = <<>>
    BY <2>1 DEF Progress, Carried
  <2>3. Carried(t) = <<>>
    BY <2>2, Apart DEF IInv
  <2>4. Free' = Free /\ held' = held /\ leaked' = leaked /\ want' = want
    BY <1>4, SamePool DEF TakeRead
  <2> QED BY <2>1, <2>2, <2>3, <2>4, Stutters
<1>5. ASSUME TakeRead(t), available = 0 PROVE Abstract!Take(t)
  <2>1. pc[t] = "read" /\ pc'[t] = "unlock" /\ items' = items
    BY <1>1, <1>5 DEF TakeRead, TypeOK
  <2>2. \A u \in Threads \ {t} : pc'[u] = pc[u] /\ items'[u] = items[u]
    BY <1>1, <1>5, <2>1 DEF TakeRead, TypeOK
  <2>3. Progress(t) = "asking" /\ Progress(t)' = "returning" /\ Carried(t)' = Carried(t)
    BY <2>1 DEF Progress, Carried
  <2>4. Carried(t) = <<>>
    BY <2>3, Apart DEF IInv
  <2>5. Num(t) = 0 /\ Len(Free) = 0 /\ 0 \in 0..Len(Free)
    BY <1>1, <1>2, <1>5
  <2>6. Free = <<>>
    BY <1>1, <2>5, EmptySeq
  <2>7. SubSeq(Free, 1, 0) = <<>> /\ SubSeq(Free, 0 + 1, Len(Free)) = Free
    <3>1. /\ SubSeq(Free, 1, 0) \in Seq(Objects) /\ Len(SubSeq(Free, 1, 0)) = 0
          /\ SubSeq(Free, 0 + 1, Len(Free)) \in Seq(Objects)
          /\ Len(SubSeq(Free, 0 + 1, Len(Free))) = Len(Free) - 0
      BY <1>1, <2>5, Split, Zenon
    <3>2. /\ SubSeq(Free, 0 + 1, Len(Free)) \in Seq(Objects)
          /\ Len(SubSeq(Free, 0 + 1, Len(Free))) = 0
      BY <2>5, <3>1
    <3>3. \A q \in Seq(Objects) : Len(q) = 0 => q = <<>>
      BY EmptySeq
    <3> QED BY <2>6, <3>1, <3>2, <3>3, Zenon
  <2>8. /\ [u \in Threads |-> Progress(u)]'
             = [[u \in Threads |-> Progress(u)] EXCEPT ![t] = Progress(t)']
        /\ [u \in Threads |-> Carried(u)]'
             = [[u \in Threads |-> Carried(u)] EXCEPT ![t] = Carried(t)']
    BY <2>2, OneThread
  <2>9. Free' = Free /\ held' = held /\ leaked' = leaked /\ want' = want
    BY <1>5, SamePool DEF TakeRead
  <2> QED
    BY <1>2, <2>3, <2>4, <2>5, <2>7, <2>8, <2>9, Zenon DEF Abstract!Take
<1> QED BY <1>3, <1>4, <1>5

\* release takes effect when it raises the count.
LEMMA PutRefines ==
    ASSUME IInv, NEW t \in Threads
    PROVE  /\ PutWrite(t) => UNCHANGED Abstract!poolVars
           /\ PutCount(t) => Abstract!Put(t)
<1> USE DEF At, Goto
<1>1. TypeOK
  BY DEF IInv
<1>2. ASSUME pc[t] \in {"write", "count"}
      PROVE  /\ ring \in [Slots -> Objects] /\ headIndex \in Slots /\ available \in 0..PoolSize
             /\ items[t] \in Seq(Objects) /\ available + Len(items[t]) <= PoolSize
  BY <1>1, <1>2, RoomForPut DEF IInv, TypeOK
<1>3. ASSUME PutWrite(t) PROVE UNCHANGED Abstract!poolVars
  <2>1. /\ pc[t] = "write" /\ pc'[t] = "count" /\ items' = items
        /\ \A u \in Threads \ {t} : pc'[u] = pc[u] /\ items'[u] = items[u]
    BY <1>1, <1>3 DEF PutWrite, TypeOK, locals
  <2>2. /\ ring' = CopiedIn(ring, PoolSize, (headIndex + available) % PoolSize, items[t])
        /\ headIndex' = headIndex /\ available' = available
    BY <1>3 DEF PutWrite, TailIndex
  <2>3. FreeList(CopiedIn(ring, PoolSize, (headIndex + available) % PoolSize, items[t]),
                 PoolSize, headIndex, available)
          = FreeList(ring, PoolSize, headIndex, available)
    <3>1. Copied(Objects, PoolSize, ring, headIndex, available, items[t])
      BY <1>2, <2>1, PoolPuts
    <3> QED BY <3>1, Zenon DEF Copied
  <2>4. Free' = Free
    BY <2>2, <2>3, Zenon DEF Free
  <2>5. Progress(t)' = Progress(t) /\ Carried(t)' = Carried(t)
    BY <2>1 DEF Progress, Carried
  <2>6. held' = held /\ leaked' = leaked /\ want' = want
    BY <1>3 DEF PutWrite, locals
  <2> QED BY <2>1, <2>4, <2>5, <2>6, Stutters
<1>4. ASSUME PutCount(t) PROVE Abstract!Put(t)
  <2>1. /\ pc[t] = "count" /\ pc'[t] = "unlock" /\ items'[t] = <<>>
        /\ \A u \in Threads \ {t} : pc'[u] = pc[u] /\ items'[u] = items[u]
    BY <1>1, <1>4 DEF PutCount, TypeOK
  <2>2. \A i \in 1..Len(items[t]) :
           ring[(((headIndex + available) % PoolSize) + (i - 1)) % PoolSize] = items[t][i]
    BY <2>1 DEF IInv, CopiesOK, CopyOK, TailIndex
  <2>3. ring' = ring /\ headIndex' = headIndex /\ available' = available + Len(items[t])
    BY <1>4 DEF PutCount
  <2>4. FreeList(ring, PoolSize, headIndex, available + Len(items[t]))
          = FreeList(ring, PoolSize, headIndex, available) \o items[t]
    <3>1. Counted(PoolSize, ring, headIndex, available, items[t])
      BY <1>2, <2>1, PoolPuts
    <3> QED BY <2>2, <3>1, Zenon DEF Counted
  <2>5. Free' = Free \o items[t]
    BY <2>3, <2>4, Zenon DEF Free
  <2>6. /\ Progress(t) = "giving" /\ Progress(t)' = "returning"
        /\ Carried(t) = items[t] /\ Carried(t)' = <<>>
    BY <2>1 DEF Progress, Carried
  <2>7. /\ [u \in Threads |-> Progress(u)]'
             = [[u \in Threads |-> Progress(u)] EXCEPT ![t] = Progress(t)']
        /\ [u \in Threads |-> Carried(u)]'
             = [[u \in Threads |-> Carried(u)] EXCEPT ![t] = Carried(t)']
    BY <2>1, OneThread
  <2>8. held' = held /\ leaked' = leaked /\ want' = want
    BY <1>4 DEF PutCount
  <2> QED BY <2>5, <2>6, <2>7, <2>8 DEF Abstract!Put
<1> QED BY <1>3, <1>4

\* A constructor that throws loses the objects, the end of the critical section
\* returns, and the other steps do nothing that the program can see.
LEMMA OthersRefine ==
    ASSUME IInv, NEW t \in Threads
    PROVE  /\ Lock(t) \/ Construct(t) \/ Destroy(t) => UNCHANGED Abstract!poolVars
           /\ ConstructThrows(t) => Abstract!Lose(t)
           /\ Unlock(t) => Abstract!Return(t)
<1> USE DEF At, Goto
<1>1. TypeOK
  BY DEF IInv
<1>2. ASSUME Lock(t) \/ Construct(t) \/ Destroy(t) PROVE UNCHANGED Abstract!poolVars
  <2>1. /\ items' = items /\ \A u \in Threads \ {t} : pc'[u] = pc[u] /\ items'[u] = items[u]
        /\ \/ pc[t] = "lock to take" /\ pc'[t] = "read"
           \/ pc[t] = "lock to put" /\ pc'[t] = "write"
           \/ pc[t] = "construct" /\ pc'[t] \in {"construct", "unlock"}
           \/ pc[t] = "destroy" /\ pc'[t] = "lock to put"
    BY <1>1, <1>2 DEF Lock, Enter, Construct, Destroy, TypeOK, locals
  <2>2. Progress(t)' = Progress(t) /\ Carried(t)' = Carried(t)
    BY <2>1 DEF Progress, Carried
  <2>3. Free' = Free /\ held' = held /\ leaked' = leaked /\ want' = want
    BY <1>2, SamePool DEF Lock, Enter, Construct, Destroy, locals
  <2> QED BY <2>1, <2>2, <2>3, Stutters
<1>3. ASSUME ConstructThrows(t) PROVE Abstract!Lose(t)
  <2>1. /\ pc[t] = "construct" /\ pc'[t] = "unlock" /\ items'[t] = <<>>
        /\ \A u \in Threads \ {t} : pc'[u] = pc[u] /\ items'[u] = items[u]
    BY <1>1, <1>3 DEF ConstructThrows, TypeOK
  <2>2. /\ Progress(t) = "returning" /\ Progress(t)' = "returning"
        /\ Carried(t) = items[t] /\ Carried(t)' = <<>>
    BY <2>1 DEF Progress, Carried
  <2>3. /\ [u \in Threads |-> Progress(u)]'
             = [[u \in Threads |-> Progress(u)] EXCEPT ![t] = Progress(t)']
        /\ [u \in Threads |-> Carried(u)]'
             = [[u \in Threads |-> Carried(u)] EXCEPT ![t] = Carried(t)']
    BY <2>1, OneThread
  <2>4. /\ Free' = Free /\ held' = held /\ want' = want
        /\ leaked' = leaked \cup Range(items[t])
    BY <1>3, SamePool DEF ConstructThrows
  <2> QED BY <2>2, <2>3, <2>4, SameWords DEF Abstract!Lose
<1>4. ASSUME Unlock(t) PROVE Abstract!Return(t)
  <2>1. /\ pc[t] = "unlock" /\ pc'[t] = "idle" /\ items'[t] = <<>>
        /\ \A u \in Threads \ {t} : pc'[u] = pc[u] /\ items'[u] = items[u]
    BY <1>1, <1>4 DEF Unlock, Leave, TypeOK
  <2>2. /\ Progress(t) = "returning" /\ Progress(t)' = "idle"
        /\ Carried(t) = items[t] /\ Carried(t)' = <<>>
    BY <2>1 DEF Progress, Carried
  <2>3. /\ [u \in Threads |-> Progress(u)]'
             = [[u \in Threads |-> Progress(u)] EXCEPT ![t] = Progress(t)']
        /\ [u \in Threads |-> Carried(u)]'
             = [[u \in Threads |-> Carried(u)] EXCEPT ![t] = Carried(t)']
    BY <2>1, OneThread
  <2>4. /\ Free' = Free /\ leaked' = leaked /\ held' = held \cup Range(items[t])
        /\ want' = [want EXCEPT ![t] = 0]
    BY <1>4, SamePool DEF Unlock, Leave
  <2> QED BY <2>2, <2>3, <2>4, SameWords DEF Abstract!Return
<1> QED BY <1>2, <1>3, <1>4

LEMMA StepRefines ==
    ASSUME IInv, [Next]_vars PROVE [Abstract!PoolNext]_Abstract!poolVars
<1>1. ASSUME NEW t \in Threads, NEW n \in 1..MaxBatch, AcquireBegin(t, n) PROVE Abstract!PoolNext
  BY <1>1, BeginRefines DEF Abstract!PoolNext
<1>2. ASSUME NEW t \in Threads, NEW s \in Batches, ReleaseBegin(t, s) PROVE Abstract!PoolNext
  <2>1. s \in Abstract!Batches
    BY DEF Batches, Abstract!Batches
  <2> QED BY <1>2, <2>1, BeginRefines DEF Abstract!PoolNext
<1>3. ASSUME NEW t \in Threads, CallStep(t) PROVE [Abstract!PoolNext]_Abstract!poolVars
  <2>1. CASE TakeRead(t) \/ TakeAdvance(t)
    BY <2>1, TakeRefines DEF Abstract!PoolNext
  <2>2. CASE PutWrite(t) \/ PutCount(t)
    BY <2>2, PutRefines DEF Abstract!PoolNext
  <2>3. CASE Lock(t) \/ Construct(t) \/ Destroy(t) \/ ConstructThrows(t) \/ Unlock(t)
    BY <2>3, OthersRefine DEF Abstract!PoolNext
  <2> QED BY <1>3, <2>1, <2>2, <2>3 DEF CallStep
<1>4. CASE UNCHANGED vars
  <2>1. pc' = pc /\ items' = items /\ want' = want /\ held' = held /\ leaked' = leaked
    BY <1>4 DEF vars
  <2>2. Free' = Free
    BY <1>4, SamePool DEF vars, pool
  <2>3. \A t \in Threads : Progress(t)' = Progress(t) /\ Carried(t)' = Carried(t)
    BY <2>1 DEF Progress, Carried, At
  <2> QED BY <2>1, <2>2, <2>3 DEF Abstract!poolVars
<1> QED
  BY <1>1, <1>2, <1>3, <1>4 DEF Next
-----------------------------------------------------------------------------
(***************************************************************************)
(* Every step keeps the invariant.                                         *)
(***************************************************************************)
\* The part of the invariant that the abstract pool does not have.
Rest == TypeOK /\ InsideOK /\ CopiesOK /\ Lifetimes /\ AliveOK
Inside == {"read", "advance", "construct", "write", "count", "unlock"}

\* While one thread is inside the critical section, no other is.
LEMMA OthersOutside ==
    ASSUME InsideOK, NEW t \in Threads, pc[t] \in Inside, NEW u \in Threads \ {t}
    PROVE  pc[u] \notin Inside
  BY DEF InsideOK, Inside

LEMMA InsideKept ==
    ASSUME InsideOK, NEW t \in Threads, holders' = holders,
           \A u \in Threads \ {t} : pc'[u] = pc[u],
           pc'[t] \in Inside <=> pc[t] \in Inside
    PROVE  InsideOK'
  BY DEF InsideOK, Inside

\* What a thread has read or written stays true while others move.
LEMMA OthersCopies ==
    ASSUME InsideOK, CopiesOK, NEW t \in Threads, NEW u \in Threads \ {t},
           pc'[u] = pc[u], items'[u] = items[u], want'[u] = want[u], built'[u] = built[u],
           pc[t] \in Inside \/ UNCHANGED pool
    PROVE  CopyOK(u)'
<1> USE DEF At
<1>1. CopyOK(u)
  BY DEF CopiesOK
<1>2. CASE UNCHANGED pool
  <2>1. /\ Free' = Free /\ Num(u)' = Num(u) /\ TailIndex' = TailIndex
        /\ ring' = ring /\ available' = available
    BY <1>2, SamePool DEF pool, Num, TailIndex
  <2> QED BY <1>1, <2>1 DEF CopyOK
<1>3. CASE pc[t] \in Inside
  <2>1. pc[u] \notin Inside
    BY <1>3, OthersOutside
  <2> QED BY <1>1, <2>1 DEF CopyOK, Inside
<1> QED BY <1>2, <1>3

\* acquire begins.
LEMMA AcquireBeginKeeps ==
    ASSUME IInv, NEW t \in Threads, NEW n \in 1..MaxBatch, AcquireBegin(t, n)
    PROVE  Rest'
<1> USE DEF At, Goto
<1>1. TypeOK /\ InsideOK /\ CopiesOK /\ Lifetimes /\ AliveOK
  BY DEF IInv
<1>2. /\ pc[t] = "idle" /\ pc'[t] = "lock to take" /\ want'[t] = n
      /\ \A u \in Threads \ {t} : pc'[u] = pc[u] /\ want'[u] = want[u]
      /\ items' = items /\ built' = built /\ UNCHANGED pool
      /\ holders' = holders /\ alive' = alive /\ held' = held
  BY <1>1 DEF AcquireBegin, TypeOK
<1>3. TypeOK'
  <2>1. n \in 0..MaxBatch
    BY BatchAssumption
  <2>2. /\ pc' \in [Threads -> Points] /\ want' \in [Threads -> 0..MaxBatch]
        /\ ring' = ring /\ headIndex' = headIndex /\ available' = available /\ leaked' = leaked
    BY <1>1, <2>1 DEF AcquireBegin, TypeOK, Points, pool
  <2> QED BY <1>1, <1>2, <2>2 DEF TypeOK
<1>4. InsideOK'
  BY <1>1, <1>2, InsideKept DEF Inside
<1>5. CopiesOK'
  <2>1. CopyOK(t)'
    <3>1. built'[t] = 0
      BY <1>1, <1>2 DEF CopiesOK, CopyOK
    <3>2. want'[t] > 0
      <4>1. n > 0
        BY BatchAssumption
      <4>2. want'[t] = n
        BY <1>2
      <4> QED BY <4>1, <4>2, Zenon
    <3> QED BY <1>2, <3>1, <3>2 DEF CopyOK
  <2>2. ASSUME NEW u \in Threads \ {t} PROVE CopyOK(u)'
    BY <1>1, <1>2, OthersCopies
  <2> QED BY <2>1, <2>2 DEF CopiesOK
<1>6. Lifetimes' /\ AliveOK'
  <2>1. Free' = Free
    BY <1>2, SamePool
  <2> QED BY <1>1, <1>2, <2>1 DEF Lifetimes, AliveOK
<1> QED BY <1>3, <1>4, <1>5, <1>6 DEF Rest

\* release begins.
LEMMA ReleaseBeginKeeps ==
    ASSUME IInv, NEW t \in Threads, NEW s \in Batches, ReleaseBegin(t, s)
    PROVE  Rest'
<1> USE DEF At, Goto
<1>1. TypeOK /\ InsideOK /\ CopiesOK /\ Lifetimes /\ AliveOK
  BY DEF IInv
<1>2. s \in Seq(Objects) /\ Range(s) \subseteq held
  <2>1. PICK n \in 1..MaxBatch : s \in [1..n -> held]
    BY DEF Batches
  <2>2. n \in Nat /\ s \in [1..n -> Objects]
    BY <1>1, <2>1 DEF TypeOK
  <2>3. s \in Seq(Objects)
    BY <2>2, SeqDef
  <2> QED BY <2>1, <2>3 DEF Range
<1>3. /\ pc[t] = "idle" /\ pc'[t] = "destroy" /\ items'[t] = s
      /\ \A u \in Threads \ {t} : pc'[u] = pc[u] /\ items'[u] = items[u]
      /\ want' = want /\ built' = built /\ UNCHANGED pool
      /\ holders' = holders /\ alive' = alive /\ held' = held \ Range(s)
  BY <1>1 DEF ReleaseBegin, TypeOK
<1>4. built[t] = 0
  BY <1>1, <1>3 DEF CopiesOK, CopyOK
<1>5. TypeOK'
  <2>1. Len(s) \in Nat
    BY <1>2, LenProperties
  <2>2. ASSUME NEW u \in Threads PROVE built'[u] <= Len(items'[u])
    <3>1. CASE u = t
      BY <1>2, <1>3, <1>4, <2>1, <3>1
    <3>2. CASE u # t
      BY <1>1, <1>3, <3>2 DEF TypeOK
    <3> QED BY <3>1, <3>2
  <2> QED BY <1>1, <1>2, <2>2 DEF ReleaseBegin, TypeOK, Points, pool
<1>6. InsideOK'
  BY <1>1, <1>3, InsideKept DEF Inside
<1>7. CopiesOK'
  <2>1. CopyOK(t)'
    BY <1>3, <1>4 DEF CopyOK
  <2>2. ASSUME NEW u \in Threads \ {t} PROVE CopyOK(u)'
    BY <1>1, <1>3, OthersCopies
  <2> QED BY <2>1, <2>2 DEF CopiesOK
<1>8. Lifetimes' /\ AliveOK'
  <2>1. Free' = Free
    BY <1>3, SamePool
  <2> QED BY <1>1, <1>2, <1>3, <2>1 DEF Lifetimes, AliveOK
<1> QED BY <1>5, <1>6, <1>7, <1>8 DEF Rest

\* The critical section begins.
LEMMA LockKeeps == ASSUME IInv, NEW t \in Threads, Lock(t) PROVE Rest'
<1> USE DEF At, Goto
<1>1. TypeOK /\ InsideOK /\ CopiesOK /\ Lifetimes /\ AliveOK
  BY DEF IInv
<1>2. /\ \/ pc[t] = "lock to take" /\ pc'[t] = "read"
         \/ pc[t] = "lock to put" /\ pc'[t] = "write"
      /\ \A u \in Threads \ {t} : pc'[u] = pc[u]
      /\ want' = want /\ items' = items /\ built' = built /\ UNCHANGED pool
      /\ holders = {} /\ holders' = {t} /\ alive' = alive /\ held' = held
  BY <1>1 DEF Lock, Enter, TypeOK, locals, PoolMutex!Acquire
<1>3. TypeOK'
  BY <1>1, <1>2 DEF Lock, Enter, TypeOK, Points, pool
<1>4. InsideOK'
  BY <1>1, <1>2 DEF InsideOK
<1>5. CopiesOK'
  <2>1. CopyOK(t)'
    BY <1>1, <1>2 DEF CopiesOK, CopyOK
  <2>2. ASSUME NEW u \in Threads \ {t} PROVE CopyOK(u)'
    BY <1>1, <1>2, OthersCopies
  <2> QED BY <2>1, <2>2 DEF CopiesOK
<1>6. Lifetimes' /\ AliveOK'
  <2>1. Free' = Free
    BY <1>2, SamePool
  <2> QED BY <1>1, <1>2, <2>1 DEF Lifetimes, AliveOK
<1> QED BY <1>3, <1>4, <1>5, <1>6 DEF Rest

\* The front of the buffer is copied.
LEMMA TakeReadKeeps == ASSUME IInv, NEW t \in Threads, TakeRead(t) PROVE Rest'
<1> USE DEF At, Goto
<1>1. TypeOK /\ InsideOK /\ CopiesOK /\ Lifetimes /\ AliveOK
  BY DEF IInv
<1>2. /\ pc[t] = "read" /\ \A u \in Threads \ {t} : pc'[u] = pc[u] /\ items'[u] = items[u]
      /\ want' = want /\ built' = built /\ UNCHANGED pool
      /\ holders' = holders /\ alive' = alive /\ held' = held /\ leaked' = leaked
  BY <1>1 DEF TakeRead, TypeOK
<1>3. Free' = Free /\ Free \in Seq(Objects) /\ Len(Free) = available /\ available \in Nat
  BY <1>1, <1>2, SamePool, FreeType DEF TypeOK
<1>4. built[t] = 0 /\ want[t] > 0 /\ want[t] \in Nat
  <2>1. built[t] = 0
    BY <1>1, <1>2 DEF CopiesOK, CopyOK
  <2>2. want[t] > 0
    BY <1>1, <1>2, Zenon DEF CopiesOK, CopyOK
  <2>3. want[t] \in Nat
    BY <1>1 DEF TypeOK
  <2> QED BY <2>1, <2>2, <2>3
<1>5. \/ available = 0 /\ pc'[t] = "unlock" /\ items'[t] = <<>>
      \/ /\ available > 0 /\ pc'[t] = "advance"
         /\ items'[t] = SubSeq(Free, 1, Num(t)) /\ Num(t) \in 0..available
  <2>1. CASE available = 0
    <3>1. Progress(t) = "asking" /\ Carried(t) = items[t]
      BY <1>2 DEF Progress, Carried
    <3>2. items[t] = <<>>
      BY <3>1, Apart DEF IInv
    <3> QED BY <1>1, <2>1, <3>2 DEF TakeRead, TypeOK
  <2>2. CASE available # 0
    <3>1. Num(t) \in 0..available
      BY <1>3, <1>4 DEF Num
    <3>2. ring \in [Slots -> Objects] /\ headIndex \in Slots /\ available \in 0..PoolSize
      BY <1>1 DEF TypeOK
    <3>3. CopiedOut(ring, PoolSize, headIndex, Num(t)) = SubSeq(Free, 1, Num(t))
      BY <3>1, <3>2, PoolTakes, Zenon DEF Free
    <3>4. /\ pc'[t] = "advance"
          /\ items'[t] = CopiedOut(ring, PoolSize, headIndex, Num(t))
      BY <1>1, <2>2 DEF TakeRead, TypeOK
    <3>5. available > 0
      BY <1>3, <2>2
    <3> QED BY <3>1, <3>3, <3>4, <3>5
  <2> QED BY <2>1, <2>2
<1>6. items'[t] \in Seq(Objects) /\ Len(items'[t]) \in Nat
  <2>1. <<>> \in Seq(Objects)
    BY EmptySeq
  <2>2. ASSUME Num(t) \in 0..available PROVE SubSeq(Free, 1, Num(t)) \in Seq(Objects)
    BY <1>3, <2>2, Split
  <2>3. items'[t] \in Seq(Objects)
    BY <1>5, <2>1, <2>2
  <2> QED BY <2>3, LenProperties
<1>7. TypeOK'
  <2>1. ASSUME NEW u \in Threads PROVE built'[u] <= Len(items'[u])
    <3>1. CASE u = t
      BY <1>2, <1>4, <1>6, <3>1
    <3>2. CASE u # t
      BY <1>1, <1>2, <3>2 DEF TypeOK
    <3> QED BY <3>1, <3>2
  <2>2. items' \in [Threads -> Seq(Objects)] /\ pc' \in [Threads -> Points]
    BY <1>1, <1>6 DEF TakeRead, TypeOK, Points
  <2> QED BY <1>1, <1>2, <2>1, <2>2 DEF TypeOK, pool
<1>8. InsideOK'
  BY <1>1, <1>2, <1>5, InsideKept DEF Inside
<1>9. CopiesOK'
  <2>1. CopyOK(t)'
    <3>1. Num(t)' = Num(t) /\ available' = available
      BY <1>2 DEF Num, pool
    <3> QED BY <1>2, <1>3, <1>4, <1>5, <3>1 DEF CopyOK
  <2>2. ASSUME NEW u \in Threads \ {t} PROVE CopyOK(u)'
    BY <1>1, <1>2, OthersCopies
  <2> QED BY <2>1, <2>2 DEF CopiesOK
<1>10. Lifetimes' /\ AliveOK'
  <2>1. pc'[t] = "unlock" => Range(items'[t]) = {}
    BY <1>5, EmptyRange
  <2> QED BY <1>1, <1>2, <1>3, <1>5, <2>1 DEF Lifetimes, AliveOK
<1> QED BY <1>7, <1>8, <1>9, <1>10 DEF Rest

\* The indexes move past what has been copied.
LEMMA TakeAdvanceKeeps == ASSUME IInv, NEW t \in Threads, TakeAdvance(t) PROVE Rest'
<1> USE DEF At, Goto
<1>1. TypeOK /\ InsideOK /\ CopiesOK /\ Lifetimes /\ AliveOK
  BY DEF IInv
<1>2. /\ pc[t] = "advance" /\ pc'[t] = "construct"
      /\ \A u \in Threads \ {t} : pc'[u] = pc[u]
      /\ want' = want /\ built' = built /\ items' = items /\ ring' = ring
      /\ holders' = holders /\ alive' = alive /\ held' = held /\ leaked' = leaked
      /\ headIndex' = (headIndex + Len(items[t])) % PoolSize
      /\ available' = available - Len(items[t])
  BY <1>1 DEF TakeAdvance, TypeOK, locals
<1>3. Free \in Seq(Objects) /\ Len(Free) = available /\ available \in 0..PoolSize
  BY <1>1, FreeType DEF TypeOK
<1>4. /\ items[t] = SubSeq(Free, 1, Num(t)) /\ Num(t) \in 0..available /\ Num(t) > 0
      /\ built[t] = 0
  <2>1. available > 0 /\ want[t] > 0 /\ want[t] \in Nat
    <3>1. available > 0
      BY <1>1, <1>2 DEF CopiesOK, CopyOK
    <3>2. want[t] > 0
      BY <1>1, <1>2, Zenon DEF CopiesOK, CopyOK
    <3>3. want[t] \in Nat
      BY <1>1 DEF TypeOK
    <3> QED BY <3>1, <3>2, <3>3
  <2>2. items[t] = SubSeq(Free, 1, Num(t)) /\ built[t] = 0
    BY <1>1, <1>2 DEF CopiesOK, CopyOK
  <2>3. Num(t) \in 0..available /\ Num(t) > 0
    BY <1>3, <2>1, PoolSizeType DEF Num
  <2> QED BY <2>2, <2>3
<1>5. /\ Len(items[t]) = Num(t) /\ items[t] \in Seq(Objects)
      /\ Range(Free) = Range(items[t]) \cup Range(SubSeq(Free, Num(t) + 1, Len(Free)))
  <2>1. Len(items[t]) = Num(t) /\ items[t] \in Seq(Objects)
    BY <1>3, <1>4, Split
  <2>2. Range(Free) = Range(items[t]) \cup Range(SubSeq(Free, Num(t) + 1, Len(Free)))
    BY <1>3, <1>4, SplitApart
  <2> QED BY <2>1, <2>2
<1>6. Free' = SubSeq(Free, Num(t) + 1, Len(Free))
  <2>1. Abstract!Take(t)
    BY TakeRefines
  <2>2. Abstract!Granted(t) = Num(t)
    BY <1>1, GrantedIsNum
  <2> QED BY <2>1, <2>2, Zenon DEF Abstract!Take
<1>7. TypeOK'
  <2>1. ring \in [Slots -> Objects] /\ headIndex \in Slots /\ Num(t) \in 0..available
    BY <1>1, <1>4 DEF TypeOK
  <2>2. (headIndex + Num(t)) % PoolSize \in Slots
    BY <1>3, <2>1, PoolTakes, Zenon
  <2>3. headIndex' \in Slots /\ available' \in 0..PoolSize
    BY <1>2, <1>3, <1>4, <1>5, <2>2, PoolSizeType
  <2>4. pc' \in [Threads -> Points]
    BY <1>1 DEF TakeAdvance, TypeOK, Points
  <2> QED BY <1>1, <1>2, <2>3, <2>4 DEF TypeOK
<1>8. InsideOK'
  BY <1>1, <1>2, InsideKept DEF Inside
<1>9. CopiesOK'
  <2>1. CopyOK(t)'
    BY <1>2, <1>4, <1>5 DEF CopyOK
  <2>2. ASSUME NEW u \in Threads \ {t} PROVE CopyOK(u)'
    BY <1>1, <1>2, OthersCopies DEF Inside
  <2> QED BY <2>1, <2>2 DEF CopiesOK
<1>10. Lifetimes'
  <2>1. Range(Free') \cap alive = {} /\ Range(items[t]) \cap alive = {}
    BY <1>1, <1>5, <1>6 DEF Lifetimes
  <2>2. \A i \in DOMAIN items[t] : items[t][i] \notin alive /\ ~(i <= built[t])
    <3>1. DOMAIN items[t] = 1..Len(items[t])
      BY <1>5, LenProperties
    <3> QED BY <1>4, <2>1, <3>1 DEF Range
  <2> QED BY <1>1, <1>2, <2>1, <2>2 DEF Lifetimes
<1>11. AliveOK'
  BY <1>1, <1>2 DEF AliveOK
<1> QED BY <1>7, <1>8, <1>9, <1>10, <1>11 DEF Rest

\* A constructor runs, or throws.
LEMMA ConstructKeeps == ASSUME IInv, NEW t \in Threads, Construct(t) PROVE Rest'
<1> USE DEF At, Goto
<1>1. TypeOK /\ InsideOK /\ CopiesOK /\ Lifetimes /\ AliveOK
  BY DEF IInv
<1> DEFINE o == items[t][built[t] + 1]
<1>2. /\ pc[t] = "construct" /\ pc'[t] \in {"construct", "unlock"}
      /\ \A u \in Threads \ {t} : pc'[u] = pc[u] /\ built'[u] = built[u]
      /\ want' = want /\ items' = items /\ UNCHANGED pool
      /\ holders' = holders /\ held' = held /\ leaked' = leaked
      /\ alive' = alive \cup {o}
      /\ \/ /\ built[t] + 1 < Len(items[t])
            /\ built'[t] = built[t] + 1 /\ pc'[t] = "construct"
         \/ /\ ~(built[t] + 1 < Len(items[t]))
            /\ built'[t] = 0 /\ pc'[t] = "unlock"
  BY <1>1 DEF Construct, TypeOK
<1>3. /\ items[t] \in Seq(Objects) /\ DOMAIN items[t] = 1..Len(items[t]) /\ Len(items[t]) \in Nat
      /\ built[t] \in Nat /\ built[t] < Len(items[t])
  BY <1>1, <1>2, LenProperties DEF TypeOK, CopiesOK, CopyOK
<1>4. built[t] + 1 \in 1..Len(items[t]) /\ o \in Range(items[t]) /\ o \in Objects
  BY <1>3, ElementOfSeq DEF Range
<1>5. /\ IsInjective(items[t]) /\ Range(items[t]) \cap (Range(Free) \cup held \cup leaked) = {}
      /\ \A u \in Threads \ {t} : Range(items[t]) \cap Range(Carried(u)) = {}
  <2>1. Carried(t) = items[t]
    BY <1>2 DEF Carried
  <2> QED BY <2>1, Apart DEF IInv
<1> HIDE DEF o
<1>6. ASSUME NEW i \in DOMAIN items[t] PROVE items[t][i] \in alive' <=> i <= built[t] + 1
  <2>1. items[t][i] \in alive <=> i <= built[t]
    BY <1>1, <1>2 DEF Lifetimes
  <2>2. items[t][i] = o <=> i = built[t] + 1
    BY <1>3, <1>4, <1>5 DEF IsInjective, o
  <2>3. i \in Nat
    BY <1>3
  <2> QED BY <1>2, <1>3, <2>1, <2>2, <2>3
<1>7. TypeOK'
  <2>1. ASSUME NEW u \in Threads PROVE built'[u] <= Len(items'[u]) /\ built'[u] \in Nat
    <3>1. CASE u = t
      BY <1>2, <1>3, <3>1
    <3>2. CASE u # t
      BY <1>1, <1>2, <3>2 DEF TypeOK
    <3> QED BY <3>1, <3>2
  <2>2. built' \in [Threads -> Nat]
    <3>1. built' \in [Threads -> Nat] \/ built' = [built EXCEPT ![t] = 0]
           \/ built' = [built EXCEPT ![t] = built[t] + 1]
      BY <1>1 DEF Construct, TypeOK
    <3> QED BY <1>1, <1>3, <3>1 DEF TypeOK
  <2>3. pc' \in [Threads -> Points] /\ alive' \subseteq Objects
    BY <1>1, <1>2, <1>4 DEF Construct, TypeOK, Points
  <2> QED BY <1>1, <1>2, <2>1, <2>2, <2>3 DEF TypeOK, pool
<1>8. InsideOK'
  BY <1>1, <1>2, InsideKept DEF Inside
<1>9. CopiesOK'
  <2>1. CopyOK(t)'
    BY <1>2 DEF CopyOK
  <2>2. ASSUME NEW u \in Threads \ {t} PROVE CopyOK(u)'
    BY <1>1, <1>2, OthersCopies
  <2> QED BY <2>1, <2>2 DEF CopiesOK
<1>10. ASSUME NEW u \in Threads \ {t}
       PROVE  pc[u] # "construct" /\ (pc[u] # "advance" => o \notin Range(items[u]))
  <2>1. pc[u] # "construct"
    BY <1>1, <1>2, OthersOutside DEF Inside
  <2>2. pc[u] # "advance" => Carried(u) = items[u]
    BY DEF Carried
  <2> QED BY <1>4, <1>5, <2>1, <2>2
<1>11. Lifetimes'
  <2>1. Free' = Free /\ Range(Free') \cap alive' = {}
    BY <1>1, <1>2, <1>4, <1>5, SamePool DEF Lifetimes
  <2>2. ASSUME NEW u \in Threads
        PROVE  /\ pc'[u] = "destroy" => Range(items'[u]) \subseteq alive'
               /\ pc'[u] = "construct" =>
                     \A i \in DOMAIN items'[u] : items'[u][i] \in alive' <=> i <= built'[u]
    <3>1. CASE u = t
      BY <1>2, <1>6, <3>1
    <3>2. CASE u # t
      BY <1>1, <1>2, <1>10, <3>2 DEF Lifetimes
    <3> QED BY <3>1, <3>2
  <2> QED BY <1>1, <1>2, <2>1, <2>2 DEF Lifetimes
<1>12. AliveOK'
  <2>1. ASSUME pc'[t] = "unlock" PROVE Range(items[t]) \subseteq alive'
    <3>1. \A i \in DOMAIN items[t] : i <= built[t] + 1
      BY <1>2, <1>3, <2>1
    <3> QED BY <1>6, <3>1 DEF Range
  <2>2. ASSUME NEW u \in Threads
        PROVE  /\ pc'[u] = "unlock" => Range(items'[u]) \subseteq alive'
               /\ pc'[u] \in {"lock to put", "write", "count"} => Range(items'[u]) \cap alive' = {}
    <3>1. CASE u = t
      BY <1>2, <2>1, <3>1
    <3>2. CASE u # t
      BY <1>1, <1>2, <1>10, <3>2 DEF AliveOK
    <3> QED BY <3>1, <3>2
  <2> QED BY <2>2 DEF AliveOK
<1> QED BY <1>7, <1>8, <1>9, <1>11, <1>12 DEF Rest

LEMMA ConstructThrowsKeeps == ASSUME IInv, NEW t \in Threads, ConstructThrows(t) PROVE Rest'
<1> USE DEF At, Goto
<1>1. TypeOK /\ InsideOK /\ CopiesOK /\ Lifetimes /\ AliveOK
  BY DEF IInv
<1>2. /\ pc[t] = "construct" /\ pc'[t] = "unlock" /\ items'[t] = <<>> /\ built'[t] = 0
      /\ \A u \in Threads \ {t} : pc'[u] = pc[u] /\ items'[u] = items[u] /\ built'[u] = built[u]
      /\ want' = want /\ UNCHANGED pool /\ leaked' = leaked \cup Range(items[t])
      /\ holders' = holders /\ alive' = alive /\ held' = held
  BY <1>1 DEF ConstructThrows, TypeOK
<1>3. <<>> \in Seq(Objects) /\ Len(<<>>) = 0 /\ Range(<<>>) = {}
  BY EmptySeq, EmptyRange
<1>4. TypeOK'
  <2>1. Range(items[t]) \subseteq Objects
    BY <1>1, RangeOfSequence DEF TypeOK
  <2>2. ASSUME NEW u \in Threads PROVE built'[u] <= Len(items'[u])
    <3>1. CASE u = t
      BY <1>2, <1>3, <3>1
    <3>2. CASE u # t
      BY <1>1, <1>2, <3>2 DEF TypeOK
    <3> QED BY <3>1, <3>2
  <2>3. /\ pc' \in [Threads -> Points] /\ built' \in [Threads -> Nat]
        /\ items' \in [Threads -> Seq(Objects)] /\ leaked' \subseteq Objects
    BY <1>1, <1>3, <2>1 DEF ConstructThrows, TypeOK, Points
  <2> QED BY <1>1, <1>2, <2>2, <2>3 DEF TypeOK, pool
<1>5. InsideOK'
  BY <1>1, <1>2, InsideKept DEF Inside
<1>6. CopiesOK'
  <2>1. CopyOK(t)'
    BY <1>2 DEF CopyOK
  <2>2. ASSUME NEW u \in Threads \ {t} PROVE CopyOK(u)'
    BY <1>1, <1>2, OthersCopies
  <2> QED BY <2>1, <2>2 DEF CopiesOK
<1>7. Lifetimes' /\ AliveOK'
  <2>1. Free' = Free
    BY <1>2, SamePool
  <2> QED BY <1>1, <1>2, <1>3, <2>1 DEF Lifetimes, AliveOK
<1> QED BY <1>4, <1>5, <1>6, <1>7 DEF Rest

\* What is released is destroyed, before the critical section.
LEMMA DestroyKeeps == ASSUME IInv, NEW t \in Threads, Destroy(t) PROVE Rest'
<1> USE DEF At, Goto
<1>1. TypeOK /\ InsideOK /\ CopiesOK /\ Lifetimes /\ AliveOK
  BY DEF IInv
<1>2. /\ pc[t] = "destroy" /\ pc'[t] = "lock to put" /\ \A u \in Threads \ {t} : pc'[u] = pc[u]
      /\ items' = items /\ built' = built /\ want' = want /\ UNCHANGED pool
      /\ holders' = holders /\ alive' = alive \ Range(items[t]) /\ held' = held
      /\ leaked' = leaked
  BY <1>1 DEF Destroy, TypeOK, locals
<1>3. /\ Range(items[t]) \cap (Range(Free) \cup held \cup leaked) = {}
      /\ \A u \in Threads \ {t} : Range(items[t]) \cap Range(Carried(u)) = {}
  <2>1. Carried(t) = items[t]
    BY <1>2 DEF Carried
  <2> QED BY <2>1, Apart DEF IInv
<1>4. TypeOK'
  BY <1>1, <1>2 DEF Destroy, TypeOK, Points, pool
<1>5. InsideOK'
  BY <1>1, <1>2, InsideKept DEF Inside
<1>6. CopiesOK'
  <2>1. CopyOK(t)'
    BY <1>1, <1>2 DEF CopiesOK, CopyOK
  <2>2. ASSUME NEW u \in Threads \ {t} PROVE CopyOK(u)'
    BY <1>1, <1>2, OthersCopies
  <2> QED BY <2>1, <2>2 DEF CopiesOK
<1>7. ASSUME NEW u \in Threads \ {t}, pc[u] # "advance"
      PROVE  /\ \A x \in Range(items[u]) : x \in alive' <=> x \in alive
             /\ \A i \in DOMAIN items[u] : items[u][i] \in alive' <=> items[u][i] \in alive
  <2>1. Carried(u) = items[u]
    BY <1>7 DEF Carried
  <2>2. \A x \in Range(items[u]) : x \in alive' <=> x \in alive
    BY <1>2, <1>3, <2>1
  <2>3. \A i \in DOMAIN items[u] : items[u][i] \in Range(items[u])
    BY DEF Range
  <2> QED BY <2>2, <2>3
<1>8. Lifetimes'
  <2>1. Free' = Free /\ Range(Free') \cap alive' = {} /\ held' \subseteq alive'
    BY <1>1, <1>2, <1>3, SamePool DEF Lifetimes
  <2>2. ASSUME NEW u \in Threads
        PROVE  /\ pc'[u] = "destroy" => Range(items'[u]) \subseteq alive'
               /\ pc'[u] = "construct" =>
                     \A i \in DOMAIN items'[u] : items'[u][i] \in alive' <=> i <= built'[u]
    <3>1. CASE u = t
      BY <1>2, <3>1
    <3>2. CASE u # t
      BY <1>1, <1>2, <1>7, <3>2 DEF Lifetimes
    <3> QED BY <3>1, <3>2
  <2> QED BY <2>1, <2>2 DEF Lifetimes
<1>9. AliveOK'
  <2>1. ASSUME NEW u \in Threads
        PROVE  /\ pc'[u] = "unlock" => Range(items'[u]) \subseteq alive'
               /\ pc'[u] \in {"lock to put", "write", "count"} => Range(items'[u]) \cap alive' = {}
    <3>1. CASE u = t
      BY <1>2, <3>1
    <3>2. CASE u # t
      BY <1>1, <1>2, <1>7, <3>2 DEF AliveOK
    <3> QED BY <3>1, <3>2
  <2> QED BY <2>1 DEF AliveOK
<1> QED BY <1>4, <1>5, <1>6, <1>8, <1>9 DEF Rest

\* The objects are written behind the free ones.
LEMMA PutWriteKeeps == ASSUME IInv, NEW t \in Threads, PutWrite(t) PROVE Rest'
<1> USE DEF At, Goto
<1>1. TypeOK /\ InsideOK /\ CopiesOK /\ Lifetimes /\ AliveOK
  BY DEF IInv
<1>2. /\ pc[t] = "write" /\ pc'[t] = "count" /\ \A u \in Threads \ {t} : pc'[u] = pc[u]
      /\ items' = items /\ built' = built /\ want' = want
      /\ headIndex' = headIndex /\ available' = available
      /\ ring' = CopiedIn(ring, PoolSize, (headIndex + available) % PoolSize, items[t])
      /\ holders' = holders /\ alive' = alive /\ held' = held /\ leaked' = leaked
  BY <1>1 DEF PutWrite, TypeOK, locals, TailIndex
<1>3. Copied(Objects, PoolSize, ring, headIndex, available, items[t])
  BY <1>1, <1>2, RoomForPut, PoolPuts DEF IInv, TypeOK
<1>4. /\ ring' \in [0..(PoolSize - 1) -> Objects] /\ Free' = Free
      /\ \A i \in 1..Len(items[t]) : ring'[(TailIndex' + (i - 1)) % PoolSize] = items[t][i]
  <2>1. TailIndex' = (headIndex + available) % PoolSize
    BY <1>2 DEF TailIndex
  <2> QED BY <1>2, <1>3, <2>1, Zenon DEF Copied, Free
<1>5. TypeOK'
  BY <1>1, <1>2, <1>4 DEF PutWrite, TypeOK, Points, Slots
<1>6. InsideOK'
  BY <1>1, <1>2, InsideKept DEF Inside
<1>7. CopiesOK'
  <2>1. CopyOK(t)'
    BY <1>1, <1>2, <1>4 DEF CopiesOK, CopyOK
  <2>2. ASSUME NEW u \in Threads \ {t} PROVE CopyOK(u)'
    BY <1>1, <1>2, OthersCopies DEF Inside
  <2> QED BY <2>1, <2>2 DEF CopiesOK
<1>8. Lifetimes' /\ AliveOK'
  BY <1>1, <1>2, <1>4 DEF Lifetimes, AliveOK
<1> QED BY <1>5, <1>6, <1>7, <1>8 DEF Rest

\* They are counted.
LEMMA PutCountKeeps == ASSUME IInv, NEW t \in Threads, PutCount(t) PROVE Rest'
<1> USE DEF At, Goto
<1>1. TypeOK /\ InsideOK /\ CopiesOK /\ Lifetimes /\ AliveOK
  BY DEF IInv
<1>2. /\ pc[t] = "count" /\ pc'[t] = "unlock" /\ items'[t] = <<>>
      /\ \A u \in Threads \ {t} : pc'[u] = pc[u] /\ items'[u] = items[u]
      /\ built' = built /\ want' = want /\ ring' = ring
      /\ headIndex' = headIndex /\ available' = available + Len(items[t])
      /\ holders' = holders /\ alive' = alive /\ held' = held /\ leaked' = leaked
  BY <1>1 DEF PutCount, TypeOK
<1>3. <<>> \in Seq(Objects) /\ Len(<<>>) = 0 /\ Range(<<>>) = {}
  BY EmptySeq, EmptyRange
<1>4. /\ available + Len(items[t]) <= PoolSize /\ Len(items[t]) \in Nat
      /\ items[t] \in Seq(Objects) /\ Carried(t) = items[t] /\ built[t] = 0
  <2>1. items[t] \in Seq(Objects) /\ Carried(t) = items[t] /\ built[t] = 0
    BY <1>1, <1>2 DEF TypeOK, Carried, CopiesOK, CopyOK
  <2> QED BY <1>1, <1>2, <2>1, RoomForPut, LenProperties DEF IInv
<1>5. Range(Free') = Range(Free) \cup Range(items[t])
  <2>1. Free' = Free \o items[t]
    BY <1>4, PutRefines DEF Abstract!Put
  <2>2. Free \in Seq(Objects)
    BY <1>1, FreeType
  <2> QED BY <1>4, <2>1, <2>2, ConcatApart
<1>6. TypeOK'
  <2>1. ASSUME NEW u \in Threads PROVE built'[u] <= Len(items'[u])
    <3>1. CASE u = t
      BY <1>2, <1>3, <1>4, <3>1
    <3>2. CASE u # t
      BY <1>1, <1>2, <3>2 DEF TypeOK
    <3> QED BY <3>1, <3>2
  <2>2. available' \in 0..PoolSize
    BY <1>1, <1>2, <1>4, PoolSizeType DEF TypeOK
  <2>3. pc' \in [Threads -> Points] /\ items' \in [Threads -> Seq(Objects)]
    BY <1>1, <1>3 DEF PutCount, TypeOK, Points
  <2> QED BY <1>1, <1>2, <2>1, <2>2, <2>3 DEF TypeOK
<1>7. InsideOK'
  BY <1>1, <1>2, InsideKept DEF Inside
<1>8. CopiesOK'
  <2>1. CopyOK(t)'
    BY <1>2, <1>4 DEF CopyOK
  <2>2. ASSUME NEW u \in Threads \ {t} PROVE CopyOK(u)'
    BY <1>1, <1>2, OthersCopies DEF Inside
  <2> QED BY <2>1, <2>2 DEF CopiesOK
<1>9. Lifetimes'
  <2>1. Range(Free') \cap alive' = {}
    BY <1>1, <1>2, <1>5 DEF Lifetimes, AliveOK
  <2> QED BY <1>1, <1>2, <2>1 DEF Lifetimes
<1>10. AliveOK'
  BY <1>1, <1>2, <1>3 DEF AliveOK
<1> QED BY <1>6, <1>7, <1>8, <1>9, <1>10 DEF Rest

\* The critical section ends.
LEMMA UnlockKeeps == ASSUME IInv, NEW t \in Threads, Unlock(t) PROVE Rest'
<1> USE DEF At, Goto
<1>1. TypeOK /\ InsideOK /\ CopiesOK /\ Lifetimes /\ AliveOK
  BY DEF IInv
<1>2. /\ pc[t] = "unlock" /\ pc'[t] = "idle" /\ items'[t] = <<>> /\ want'[t] = 0
      /\ \A u \in Threads \ {t} : pc'[u] = pc[u] /\ items'[u] = items[u] /\ want'[u] = want[u]
      /\ built' = built /\ UNCHANGED pool
      /\ holders = {t} /\ holders' = {} /\ alive' = alive
      /\ held' = held \cup Range(items[t]) /\ leaked' = leaked
  BY <1>1 DEF Unlock, Leave, TypeOK, PoolMutex!Release
<1>3. <<>> \in Seq(Objects) /\ Len(<<>>) = 0 /\ Range(<<>>) = {} /\ built[t] = 0
  BY <1>1, <1>2, EmptySeq, EmptyRange DEF CopiesOK, CopyOK
<1>4. TypeOK'
  <2>1. Range(items[t]) \subseteq Objects
    BY <1>1, RangeOfSequence DEF TypeOK
  <2>2. ASSUME NEW u \in Threads PROVE built'[u] <= Len(items'[u])
    <3>1. CASE u = t
      BY <1>2, <1>3, <3>1
    <3>2. CASE u # t
      BY <1>1, <1>2, <3>2 DEF TypeOK
    <3> QED BY <3>1, <3>2
  <2>3. /\ pc' \in [Threads -> Points] /\ items' \in [Threads -> Seq(Objects)]
        /\ held' \subseteq Objects
    BY <1>1, <1>3, <2>1 DEF Unlock, Leave, TypeOK, Points
  <2>4. want' \in [Threads -> 0..MaxBatch]
    <3>1. 0 \in 0..MaxBatch
      BY BatchAssumption
    <3> QED BY <1>1, <3>1 DEF Unlock, Leave, TypeOK
  <2> QED BY <1>1, <1>2, <2>2, <2>3, <2>4 DEF TypeOK, pool
<1>5. InsideOK'
  BY <1>1, <1>2 DEF InsideOK
<1>6. CopiesOK'
  <2>1. CopyOK(t)'
    BY <1>2, <1>3 DEF CopyOK
  <2>2. ASSUME NEW u \in Threads \ {t} PROVE CopyOK(u)'
    BY <1>1, <1>2, OthersCopies
  <2> QED BY <2>1, <2>2 DEF CopiesOK
<1>7. Lifetimes' /\ AliveOK'
  <2>1. Free' = Free /\ Range(items[t]) \subseteq alive
    BY <1>1, <1>2, SamePool DEF AliveOK
  <2> QED BY <1>1, <1>2, <1>3, <2>1 DEF Lifetimes, AliveOK
<1> QED BY <1>4, <1>5, <1>6, <1>7 DEF Rest
-----------------------------------------------------------------------------
LEMMA RestKept == ASSUME IInv, [Next]_vars PROVE Rest'
<1>1. ASSUME NEW t \in Threads, CallStep(t) PROVE Rest'
  BY <1>1, LockKeeps, UnlockKeeps, TakeReadKeeps, TakeAdvanceKeeps, ConstructKeeps,
     ConstructThrowsKeeps, DestroyKeeps, PutWriteKeeps, PutCountKeeps DEF CallStep
<1>2. CASE UNCHANGED vars
  <2>1. TypeOK /\ InsideOK /\ CopiesOK /\ Lifetimes /\ AliveOK
    BY DEF IInv
  <2>2. Free' = Free
    BY <1>2, SamePool DEF vars, pool
  <2>3. TypeOK' /\ InsideOK'
    BY <1>2, <2>1 DEF vars, TypeOK, InsideOK
  <2>4. ASSUME NEW t \in Threads PROVE CopyOK(t)'
    BY <1>2, <2>1, <2>2 DEF vars, CopiesOK, CopyOK, At, Num, TailIndex
  <2>5. Lifetimes' /\ AliveOK'
    BY <1>2, <2>1, <2>2 DEF vars, Lifetimes, AliveOK, At
  <2> QED BY <2>3, <2>4, <2>5 DEF Rest, CopiesOK
<1> QED
  BY <1>1, <1>2, AcquireBeginKeeps, ReleaseBeginKeeps DEF Next

\* The invariant is inductive: what the abstract pool has of it follows from the
\* refinement.
LEMMA IInvStep == ASSUME IInv, [Next]_vars PROVE IInv'
<1>1. Rest'
  BY RestKept
<1>2. Abstract!PoolInv' <=> AP!PoolInv'
  BY DEF Abstract!PoolInv, AP!PoolInv, Abstract!PoolTypeOK, AP!PoolTypeOK,
         Abstract!EachInOnePlace, AP!EachInOnePlace,
         Abstract!Range, AP!Range, Abstract!IsInjective, AP!IsInjective
<1>3. Abstract!PoolInv => AP!PoolInv
  BY DEF Abstract!PoolInv, AP!PoolInv, Abstract!PoolTypeOK, AP!PoolTypeOK,
         Abstract!EachInOnePlace, AP!EachInOnePlace,
         Abstract!Range, AP!Range, Abstract!IsInjective, AP!IsInjective
<1>4. [Abstract!PoolNext]_Abstract!poolVars => [AP!PoolNext]_AP!poolVars
  BY DEF Abstract!PoolNext, AP!PoolNext, Abstract!poolVars, AP!poolVars,
         Abstract!Ask, AP!Ask, Abstract!Give, AP!Give, Abstract!Take, AP!Take,
         Abstract!Lose, AP!Lose, Abstract!Put, AP!Put, Abstract!Return, AP!Return,
         Abstract!Granted, AP!Granted, Abstract!Batches, AP!Batches,
         Abstract!Range, AP!Range, Abstract!IsInjective, AP!IsInjective
<1>5. MaxBatch \in Nat
  BY BatchAssumption
<1>6. Abstract!PoolInv'
  BY <1>2, <1>3, <1>4, <1>5, StepRefines, AP!PoolStep DEF IInv
<1> QED
  BY <1>1, <1>6 DEF IInv, Rest

\* At first every node is free, and each slot of the buffer has its own.
LEMMA InitRefines == Init => Abstract!PoolInit
<1> SUFFICES ASSUME Init PROVE Abstract!PoolInit
  OBVIOUS
<1>1. ring \in [Slots -> Objects] /\ IsInjective(ring) /\ headIndex = 0 /\ available = PoolSize
  BY DEF Init
<1>2. PICK n \in Nat : n > 0 /\ n = PoolSize
  BY PoolSizeType
<1>3. 0 \in Slots /\ available \in 0..PoolSize /\ Slots = 0..(n - 1)
  BY <1>1, <1>2 DEF Slots
<1>4. Free \in Seq(Objects) /\ Len(Free) = n
  BY <1>1, <1>2, <1>3, PoolLine DEF Free
<1>5. ASSUME NEW k \in 1..n PROVE Free[k] = ring[k - 1] /\ k - 1 \in Slots
  <2>1. k - 1 \in 0..(n - 1) /\ (0 + k) - 1 = k - 1
    OBVIOUS
  <2>2. (k - 1) % n = k - 1
    BY <1>2, <2>1, Small
  <2>3. Free = [j \in 1..n |-> ring[(0 + j - 1) % n]]
    BY <1>1, <1>2 DEF Free, FreeList
  <2> QED BY <1>3, <2>1, <2>2, <2>3
<1>6. IsInjective(Free)
  <2>1. ASSUME NEW i \in 1..n, NEW j \in 1..n, Free[i] = Free[j] PROVE i = j
    <3>1. i - 1 = j - 1
      BY <1>1, <1>5, <2>1 DEF IsInjective
    <3> QED BY <3>1
  <2>2. DOMAIN Free = 1..n
    BY <1>4, LenProperties
  <2> QED BY <2>1, <2>2 DEF IsInjective
<1>7. Range(Free) = Objects
  <2>1. ring \in Surjection(Slots, Objects)
    <3>1. ring \in Injection(Slots, Objects)
      BY <1>1 DEF Injection, IsInjective
    <3>2. Cardinality(0..(n - 1)) = IF 0 > n - 1 THEN 0 ELSE n - 1 - 0 + 1
      BY <1>2, FS_Interval
    <3>3. Cardinality(Slots) = Cardinality(Objects)
      BY <1>2, <1>3, <3>2, NodesAssumption
    <3> QED BY <3>1, <3>3, NodesAssumption, FS_Injection
  <2>2. ASSUME NEW o \in Objects PROVE o \in Range(Free)
    <3>1. PICK q \in Slots : ring[q] = o
      BY <2>1 DEF Surjection
    <3>2. q + 1 \in 1..n /\ (q + 1) - 1 = q
      BY <1>2, <1>3
    <3>3. Free[q + 1] = o
      BY <1>5, <3>1, <3>2
    <3>4. DOMAIN Free = 1..n
      BY <1>4, LenProperties
    <3> QED BY <3>2, <3>3, <3>4 DEF Range
  <2>3. Range(Free) \subseteq Objects
    BY <1>4, RangeOfSequence
  <2> QED BY <2>2, <2>3
<1>8. \A t \in Threads : Progress(t) = "idle" /\ Carried(t) = <<>>
  BY DEF Init, Progress, Carried, At
<1> QED
  BY <1>4, <1>6, <1>7, <1>8, SameWords DEF Init, Abstract!PoolInit

LEMMA IInvInit == Init => IInv
<1> SUFFICES ASSUME Init PROVE IInv
  OBVIOUS
<1>1. Abstract!PoolInv
  <2>1. AP!PoolInit
    BY InitRefines DEF Abstract!PoolInit, AP!PoolInit, Abstract!Range, AP!Range,
                       Abstract!IsInjective, AP!IsInjective
  <2>2. AP!PoolInv
    BY <2>1, AP!PoolInitInv
  <2> QED
    BY <2>2 DEF Abstract!PoolInv, AP!PoolInv, Abstract!PoolTypeOK, AP!PoolTypeOK,
                Abstract!EachInOnePlace, AP!EachInOnePlace,
                Abstract!Range, AP!Range, Abstract!IsInjective, AP!IsInjective
<1>2. <<>> \in Seq(Objects) /\ Len(<<>>) = 0
  BY EmptySeq
<1>3. TypeOK
  <2>1. 0 \in Slots /\ PoolSize \in 0..PoolSize
    BY PoolSizeType DEF Slots
  <2>2. 0 \in 0..MaxBatch
    BY BatchAssumption
  <2> QED BY <1>2, <2>1, <2>2 DEF Init, TypeOK, Points, PoolMutex!LockInit
<1>4. InsideOK /\ CopiesOK /\ Lifetimes /\ AliveOK
  BY DEF Init, InsideOK, CopiesOK, CopyOK, Lifetimes, AliveOK, At, PoolMutex!LockInit
<1> QED
  BY <1>1, <1>3, <1>4 DEF IInv
-----------------------------------------------------------------------------
LEMMA PoolInvariant == Spec => []IInv
  BY IInvInit, IInvStep, PTL DEF Spec

\* The type of every variable of ObjectPool: the count of free objects stays
\* between 0 and the capacity, and the buffer is indexed within bounds.
THEOREM TypeCorrect == Spec => []TypeOK
<1>1. IInv => TypeOK
  BY DEF IInv
<1> QED BY <1>1, PoolInvariant, PTL

\* acquire and release, from any number of threads, never hand out an object
\* twice, never overwrite one in the buffer, and lose none but those whose
\* constructor has thrown.
THEOREM OneOwnerEach == Spec => []OneOwner
<1>1. IInv => OneOwner
  BY DEF IInv, OneOwner, Abstract!PoolInv
<1> QED BY <1>1, PoolInvariant, PTL

\* acquire constructs only in raw storage and release destroys only what lives.
THEOREM LifetimesKept == Spec => []Lifetimes
<1>1. IInv => Lifetimes
  BY DEF IInv
<1> QED BY <1>1, PoolInvariant, PTL

\* The circular buffer has as many slots as the least power of two that is at
\* least what the constructor was asked for.
THEOREM RoundsUpAlways == Spec => []RoundsUp
<1>1. IInv => RoundsUp
  <2> SUFFICES ASSUME IInv PROVE RoundsUp
    OBVIOUS
  <2>1. LeastPowers
    BY RoundsUpToPower DEF LeastPowers
  <2>2. DOMAIN ring = 0..(PoolSize - 1)
    BY DEF IInv, TypeOK, Slots
  <2>3. Cardinality(0..(PoolSize - 1)) = PoolSize
    <3>1. PoolSize \in Nat /\ PoolSize > 0
      BY PoolSizeType
    <3> HIDE DEF PoolSize
    <3>2. 0 \in Int /\ PoolSize - 1 \in Int
      BY <3>1
    <3>3. Cardinality(0..(PoolSize - 1)) = (PoolSize - 1) - 0 + 1
      BY <3>1, <3>2, FS_Interval
    <3> QED BY <3>1, <3>3
  <2>4. LeastPower(Requested, PoolSize)
    BY RequestedAssumption, RoundsUpToPower DEF PoolSize
  <2> QED BY <2>1, <2>2, <2>3, <2>4 DEF RoundsUp
<1> QED BY <1>1, PoolInvariant, PTL

\* Under its mutex the pool is linearizable: acquire and release act as in
\* AbstractPool, each at one moment of the call.
THEOREM ImplementsAbstractPool == Spec => ImplementsPool
<1>1. Init => Abstract!PoolInit
  BY InitRefines
<1>2. IInv /\ [Next]_vars => [Abstract!PoolNext]_Abstract!poolVars
  BY StepRefines
<1> QED BY <1>1, <1>2, PoolInvariant, PTL DEF Spec, ImplementsPool, Abstract!PoolSpec
=============================================================================
