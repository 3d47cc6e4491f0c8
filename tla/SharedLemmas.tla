---------------------------- MODULE SharedLemmas ----------------------------
(***************************************************************************)
(* Lemmas that several of the proofs use.  The first are about what        *)
(* `k & _mask` does over one lap of a ring of n cells, n being a power of  *)
(* two: the remainder of k by n.  The queues and the pool all index their  *)
(* storage that way.  Then come the parts of a sequence and their elements, *)
(* for the lines of objects of the pools, and the least-number principle,  *)
(* by which what holds of all numbers is proved.                           *)
(***************************************************************************)
EXTENDS Integers, Functions, SequenceTheorems, WellFoundedInduction, TLAPS

\* What quotient and remainder are.
LEMMA Division ==
    ASSUME NEW n \in Nat, n > 0, NEW k \in Nat
    PROVE  \E q \in Int : k = (n * q) + (k % n) /\ k % n \in 0..(n - 1)
<1>1. k = (n * (k \div n)) + (k % n)
  OBVIOUS
<1>2. k \div n \in Int /\ k % n \in 0..(n - 1)
  OBVIOUS
<1> QED
  BY <1>1, <1>2

\* A multiple of n strictly between -n and n is zero.
LEMMA SmallMultiple ==
    ASSUME NEW n \in Nat, n > 0, NEW d \in Int, -n < n * d, n * d < n
    PROVE  d = 0
<1>1. CASE d >= 1
  <2>1. n * d >= n
    BY <1>1
  <2> QED BY <2>1
<1>2. CASE d <= -1
  <2>1. n * d <= -n
    BY <1>2
  <2> QED BY <2>1
<1> QED BY <1>1, <1>2

\* The remainder is the one number below n at a multiple of n from k.
LEMMA RemainderUnique ==
    ASSUME NEW n \in Nat, n > 0, NEW k \in Nat, NEW r \in 0..(n - 1),
           NEW q \in Int, k = (n * q) + r
    PROVE  k % n = r
<1>1. PICK s \in Int : k = (n * s) + (k % n) /\ k % n \in 0..(n - 1)
  BY Division
<1>2. n * (q - s) = (k % n) - r
  BY <1>1
<1>3. q - s = 0
  BY <1>1, <1>2, SmallMultiple
<1>4. n * (q - s) = 0
  BY <1>3
<1> QED
  BY <1>1, <1>2, <1>4

\* A number below n is its own remainder.
LEMMA Small == ASSUME NEW n \in Nat, n > 0, NEW k \in 0..(n - 1) PROVE k % n = k
<1>1. k \in Nat /\ k = (n * 0) + k
  OBVIOUS
<1> QED BY <1>1, RemainderUnique

\* Adding n does not change the remainder.
LEMMA Shift == ASSUME NEW n \in Nat, n > 0, NEW k \in Nat PROVE (k + n) % n = k % n
<1>1. PICK q \in Int : k = (n * q) + (k % n) /\ k % n \in 0..(n - 1)
  BY Division
<1> DEFINE r == k % n
<1> HIDE DEF r
<1>2. k + n \in Nat /\ r \in 0..(n - 1) /\ q + 1 \in Int
  BY <1>1 DEF r
<1>3. k + n = (n * (q + 1)) + r
  BY <1>1, <1>2 DEF r
<1>4. (k + n) % n = r
  BY <1>2, <1>3, RemainderUnique
<1> QED BY <1>4 DEF r

\* Masking after each addition is masking at the end.
LEMMA AddThenMask ==
    ASSUME NEW n \in Nat, n > 0, NEW k \in Nat, NEW m \in Nat
    PROVE  ((k % n) + m) % n = (k + m) % n
<1>1. PICK q \in Int : k = (n * q) + (k % n) /\ k % n \in 0..(n - 1)
  BY Division
<1> DEFINE r == k % n
<1> HIDE DEF r
<1>2. r \in Nat /\ k = (n * q) + r /\ r + m \in Nat /\ k + m \in Nat
  BY <1>1 DEF r
<1>3. PICK s \in Int : r + m = (n * s) + ((r + m) % n) /\ (r + m) % n \in 0..(n - 1)
  BY <1>2, Division
<1> DEFINE t == (r + m) % n
<1> HIDE DEF t
<1>4. t \in 0..(n - 1) /\ r + m = (n * s) + t /\ q + s \in Int
  BY <1>3 DEF t
<1>5. k + m = (n * (q + s)) + t
  BY <1>2, <1>4
<1>6. (k + m) % n = t
  BY <1>2, <1>4, <1>5, RemainderUnique
<1> QED BY <1>6 DEF t, r

\* Positions less than a lap apart lie in different cells.
LEMMA LessThanALap ==
    ASSUME NEW n \in Nat, n > 0, NEW a \in Nat, NEW b \in Nat, a < b, b < a + n
    PROVE  a % n # b % n
<1> SUFFICES ASSUME a % n = b % n PROVE FALSE
  OBVIOUS
<1>1. PICK q \in Int : a = (n * q) + (a % n) /\ a % n \in 0..(n - 1)
  BY Division
<1>2. PICK s \in Int : b = (n * s) + (b % n) /\ b % n \in 0..(n - 1)
  BY Division
<1>3. n * (s - q) = b - a
  BY <1>1, <1>2
<1>4. s - q = 0
  BY <1>1, <1>2, <1>3, SmallMultiple
<1>5. n * (s - q) = 0
  BY <1>4
<1> QED
  BY <1>3, <1>5

\* The positions of one lap lie in different cells.
LEMMA LapInjective ==
    ASSUME NEW n \in Nat, n > 0, NEW a \in Nat,
           NEW j \in a..(a + n - 1), NEW k \in a..(a + n - 1), j # k
    PROVE  j % n # k % n
<1>1. j \in Nat /\ k \in Nat /\ (j < k \/ k < j) /\ j < k + n /\ k < j + n
  OBVIOUS
<1> QED
  BY <1>1, LessThanALap

\* Every cell has a position in the lap that begins at a.
LEMMA LapCovers ==
    ASSUME NEW n \in Nat, n > 0, NEW a \in Nat, NEW i \in 0..(n - 1)
    PROVE  \E k \in a..(a + n - 1) : k % n = i
<1>1. PICK q \in Int : a = (n * q) + (a % n) /\ a % n \in 0..(n - 1)
  BY Division
<1> DEFINE r == a % n
<1> HIDE DEF r
<1>2. r \in 0..(n - 1) /\ a = (n * q) + r
  BY <1>1 DEF r
<1>3. CASE i >= r
  <2>1. (a + i) - r \in a..(a + n - 1) /\ (a + i) - r \in Nat
    BY <1>2, <1>3
  <2>2. (a + i) - r = (n * q) + i
    BY <1>2
  <2>3. ((a + i) - r) % n = i
    BY <2>1, <2>2, RemainderUnique
  <2> QED BY <2>1, <2>3
<1>4. CASE i < r
  <2> DEFINE k == ((a + i) - r) + n
  <2>1. k \in a..(a + n - 1) /\ k \in Nat /\ q + 1 \in Int
    BY <1>2, <1>4
  <2>2. k = (n * (q + 1)) + i
    BY <1>2
  <2> HIDE DEF k
  <2>3. k % n = i
    BY <2>1, <2>2, RemainderUnique
  <2> QED BY <2>1, <2>3
<1> QED BY <1>2, <1>3, <1>4
-----------------------------------------------------------------------------
\* The elements of a sequence, by their places.
LEMMA RangeOfSequence ==
    ASSUME NEW S, NEW s \in Seq(S)
    PROVE  /\ \A x : x \in Range(s) <=> \E i \in 1..Len(s) : s[i] = x
           /\ Range(s) \subseteq S
           /\ IsInjective(s) <=> \A i, j \in 1..Len(s) : s[i] = s[j] => i = j
<1>1. DOMAIN s = 1..Len(s) /\ s \in [1..Len(s) -> S]
  BY LenProperties
<1> QED
  BY <1>1 DEF Range, IsInjective

\* Without its first element.
LEMMA TailAt ==
    ASSUME NEW n \in Nat, n > 0, NEW f, f = [i \in 1..n |-> f[i]]
    PROVE  Tail(f) = [i \in 1..(n - 1) |-> f[i + 1]]
<1> DEFINE S == {f[i] : i \in 1..n}
<1>1. f \in [1..n -> S]
  OBVIOUS
<1>2. f \in Seq(S) /\ Len(f) = n /\ f # <<>>
  <2>1. f \in Seq(S)
    BY <1>1, SeqDef
  <2>2. Len(f) = n
    BY <1>1, <2>1, LenProperties
  <2> QED BY <2>1, <2>2, EmptySeq
<1> HIDE DEF S
<1>3. /\ Tail(f) \in Seq(S) /\ Len(Tail(f)) = n - 1
      /\ \A i \in 1..(n - 1) : Tail(f)[i] = f[i + 1]
  BY <1>2, HeadTailProperties
<1>4. Tail(f) = [i \in 1..(n - 1) |-> Tail(f)[i]]
  BY <1>3, LenProperties
<1> QED BY <1>3, <1>4

\* A prefix and what is left.
LEMMA Split ==
    ASSUME NEW S, NEW s \in Seq(S), NEW n \in 0..Len(s)
    PROVE  /\ SubSeq(s, 1, n) \in Seq(S) /\ Len(SubSeq(s, 1, n)) = n
           /\ \A i \in 1..n : SubSeq(s, 1, n)[i] = s[i]
           /\ SubSeq(s, n + 1, Len(s)) \in Seq(S) /\ Len(SubSeq(s, n + 1, Len(s))) = Len(s) - n
           /\ \A i \in 1..(Len(s) - n) : SubSeq(s, n + 1, Len(s))[i] = s[n + i]
<1>1. Len(s) \in Nat /\ n \in Nat /\ n <= Len(s)
  BY LenProperties
<1>2. \A i \in 1..Len(s) : s[i] \in S
  BY ElementOfSeq
<1>3. (\A i \in 1..n : s[i] \in S) /\ (\A i \in (n + 1)..Len(s) : s[i] \in S)
  BY <1>1, <1>2
<1>4. /\ SubSeq(s, 1, n) \in Seq(S)
      /\ Len(SubSeq(s, 1, n)) = IF 1 <= n THEN n - 1 + 1 ELSE 0
      /\ \A i \in 1..(n - 1 + 1) : SubSeq(s, 1, n)[i] = s[1 + i - 1]
  BY <1>1, <1>3, SubSeqProperties
<1>5. /\ SubSeq(s, n + 1, Len(s)) \in Seq(S)
      /\ Len(SubSeq(s, n + 1, Len(s))) = IF n + 1 <= Len(s) THEN Len(s) - (n + 1) + 1 ELSE 0
      /\ \A i \in 1..(Len(s) - (n + 1) + 1) : SubSeq(s, n + 1, Len(s))[i] = s[n + 1 + i - 1]
  BY <1>1, <1>3, SubSeqProperties
<1> QED
  BY <1>1, <1>4, <1>5

\* Splitting a sequence without duplicates makes two that share no element.
LEMMA SplitApart ==
    ASSUME NEW S, NEW s \in Seq(S), NEW n \in 0..Len(s)
    PROVE  /\ Range(s) = Range(SubSeq(s, 1, n)) \cup Range(SubSeq(s, n + 1, Len(s)))
           /\ IsInjective(s) =>
                /\ IsInjective(SubSeq(s, 1, n)) /\ IsInjective(SubSeq(s, n + 1, Len(s)))
                /\ Range(SubSeq(s, 1, n)) \cap Range(SubSeq(s, n + 1, Len(s))) = {}
<1> DEFINE a == SubSeq(s, 1, n)
           b == SubSeq(s, n + 1, Len(s))
<1>1. Len(s) \in Nat /\ n \in Nat /\ n <= Len(s)
  BY LenProperties
<1>2. /\ a \in Seq(S) /\ Len(a) = n /\ \A i \in 1..n : a[i] = s[i]
      /\ b \in Seq(S) /\ Len(b) = Len(s) - n /\ \A i \in 1..(Len(s) - n) : b[i] = s[n + i]
  BY Split
<1> HIDE DEF a, b
<1>0. a \in Seq(S) /\ b \in Seq(S)
  BY <1>2
<1>3. /\ \A x : x \in Range(a) <=> \E i \in 1..n : s[i] = x
      /\ IsInjective(a) <=> \A i, j \in 1..n : s[i] = s[j] => i = j
  <2>1. /\ \A x : x \in Range(a) <=> \E i \in 1..Len(a) : a[i] = x
        /\ IsInjective(a) <=> \A i, j \in 1..Len(a) : a[i] = a[j] => i = j
    BY <1>0, RangeOfSequence
  <2> QED BY <1>2, <2>1
<1>4. /\ \A x : x \in Range(b) <=> \E i \in 1..(Len(s) - n) : s[n + i] = x
      /\ IsInjective(b) <=> \A i, j \in 1..(Len(s) - n) : s[n + i] = s[n + j] => i = j
  <2>1. /\ \A x : x \in Range(b) <=> \E i \in 1..Len(b) : b[i] = x
        /\ IsInjective(b) <=> \A i, j \in 1..Len(b) : b[i] = b[j] => i = j
    BY <1>0, RangeOfSequence
  <2>2. 1..Len(b) = 1..(Len(s) - n) /\ \A i \in 1..Len(b) : b[i] = s[n + i]
    BY <1>2
  <2>3. \A x : x \in Range(b) <=> \E i \in 1..Len(b) : s[n + i] = x
    BY <2>1, <2>2
  <2>4. IsInjective(b) <=> \A i, j \in 1..Len(b) : s[n + i] = s[n + j] => i = j
    BY <2>1, <2>2
  <2> QED BY <2>2, <2>3, <2>4
<1>5. /\ \A x : x \in Range(s) <=> \E i \in 1..Len(s) : s[i] = x
      /\ IsInjective(s) <=> \A i, j \in 1..Len(s) : s[i] = s[j] => i = j
  BY RangeOfSequence
<1>6. ASSUME NEW x PROVE x \in Range(s) <=> x \in Range(a) \/ x \in Range(b)
  <2>1. ASSUME NEW i \in 1..Len(s), s[i] = x PROVE x \in Range(a) \/ x \in Range(b)
    <3>1. CASE i <= n
      BY <1>1, <1>3, <2>1, <3>1
    <3>2. CASE i > n
      <4>1. i - n \in 1..(Len(s) - n) /\ s[n + (i - n)] = x
        BY <1>1, <2>1, <3>2
      <4> QED BY <1>4, <4>1
    <3> QED BY <1>1, <3>1, <3>2
  <2>2. ASSUME NEW i \in 1..n PROVE i \in 1..Len(s)
    BY <1>1
  <2>3. ASSUME NEW i \in 1..(Len(s) - n) PROVE n + i \in 1..Len(s)
    BY <1>1
  <2> QED BY <1>3, <1>4, <1>5, <2>1, <2>2, <2>3
<1>7. ASSUME IsInjective(s)
      PROVE  IsInjective(a) /\ IsInjective(b) /\ \A x : ~(x \in Range(a) /\ x \in Range(b))
  <2>1. \A i, j \in 1..Len(s) : s[i] = s[j] => i = j
    BY <1>5, <1>7
  <2>2. IsInjective(a)
    BY <1>1, <1>3, <2>1
  <2>3. ASSUME NEW i \in 1..(Len(s) - n), NEW j \in 1..(Len(s) - n), s[n + i] = s[n + j]
        PROVE  i = j
    <3>1. n + i \in 1..Len(s) /\ n + j \in 1..Len(s)
      BY <1>1
    <3> QED BY <1>1, <2>1, <2>3, <3>1
  <2>4. ASSUME NEW i \in 1..n, NEW j \in 1..(Len(s) - n) PROVE s[i] # s[n + j]
    <3>1. i \in 1..Len(s) /\ n + j \in 1..Len(s) /\ i # n + j
      BY <1>1
    <3> QED BY <2>1, <3>1
  <2> QED BY <1>3, <1>4, <2>2, <2>3, <2>4
<1> QED
  BY <1>6, <1>7 DEF a, b

\* Two sequences without duplicates that share no element make one.
LEMMA ConcatApart ==
    ASSUME NEW S, NEW s \in Seq(S), NEW u \in Seq(S)
    PROVE  /\ Range(s \o u) = Range(s) \cup Range(u)
           /\ (IsInjective(s) /\ IsInjective(u) /\ Range(s) \cap Range(u) = {})
                => IsInjective(s \o u)
<1> DEFINE c == s \o u
<1>1. Len(s) \in Nat /\ Len(u) \in Nat
  BY LenProperties
<1>2. /\ c \in Seq(S) /\ Len(c) = Len(s) + Len(u)
      /\ \A i \in 1..(Len(s) + Len(u)) : c[i] = IF i <= Len(s) THEN s[i] ELSE u[i - Len(s)]
  BY ConcatProperties
<1> HIDE DEF c
<1>3. /\ \A x : x \in Range(c) <=> \E i \in 1..(Len(s) + Len(u)) : c[i] = x
      /\ IsInjective(c) <=> \A i, j \in 1..(Len(s) + Len(u)) : c[i] = c[j] => i = j
  <2>1. /\ \A x : x \in Range(c) <=> \E i \in 1..Len(c) : c[i] = x
        /\ IsInjective(c) <=> \A i, j \in 1..Len(c) : c[i] = c[j] => i = j
    BY <1>2, RangeOfSequence
  <2> QED BY <1>2, <2>1
<1>4. /\ \A x : x \in Range(s) <=> \E i \in 1..Len(s) : s[i] = x
      /\ IsInjective(s) <=> \A i, j \in 1..Len(s) : s[i] = s[j] => i = j
  BY RangeOfSequence
<1>5. /\ \A x : x \in Range(u) <=> \E i \in 1..Len(u) : u[i] = x
      /\ IsInjective(u) <=> \A i, j \in 1..Len(u) : u[i] = u[j] => i = j
  BY RangeOfSequence
<1>6. \A i \in 1..(Len(s) + Len(u)) :
         \/ i \in 1..Len(s) /\ c[i] = s[i]
         \/ i - Len(s) \in 1..Len(u) /\ i > Len(s) /\ c[i] = u[i - Len(s)]
  BY <1>1, <1>2
<1>7. \A i \in 1..Len(s) : i \in 1..(Len(s) + Len(u)) /\ c[i] = s[i]
  BY <1>1, <1>2
<1>8. ASSUME NEW i \in 1..Len(u)
      PROVE  Len(s) + i \in 1..(Len(s) + Len(u)) /\ c[Len(s) + i] = u[i]
  <2>1. Len(s) + i \in 1..(Len(s) + Len(u)) /\ ~(Len(s) + i <= Len(s)) /\ (Len(s) + i) - Len(s) = i
    BY <1>1
  <2> QED BY <1>2, <2>1
<1>9. ASSUME NEW x PROVE x \in Range(c) <=> x \in Range(s) \/ x \in Range(u)
  <2>1. ASSUME NEW i \in 1..(Len(s) + Len(u)), c[i] = x PROVE x \in Range(s) \/ x \in Range(u)
    BY <1>4, <1>5, <1>6, <2>1
  <2>2. ASSUME NEW i \in 1..Len(s), s[i] = x PROVE x \in Range(c)
    BY <1>3, <1>7, <2>2
  <2>3. ASSUME NEW i \in 1..Len(u), u[i] = x PROVE x \in Range(c)
    BY <1>3, <1>8, <2>3
  <2> QED BY <1>3, <1>4, <1>5, <2>1, <2>2, <2>3
<1>10. ASSUME IsInjective(s), IsInjective(u), Range(s) \cap Range(u) = {},
              NEW i \in 1..(Len(s) + Len(u)), NEW j \in 1..(Len(s) + Len(u)), c[i] = c[j]
       PROVE  i = j
  <2>1. CASE i \in 1..Len(s) /\ j \in 1..Len(s) /\ c[i] = s[i] /\ c[j] = s[j]
    BY <1>4, <1>10, <2>1
  <2>2. CASE /\ i - Len(s) \in 1..Len(u) /\ j - Len(s) \in 1..Len(u)
             /\ c[i] = u[i - Len(s)] /\ c[j] = u[j - Len(s)]
    <3>1. i - Len(s) = j - Len(s)
      BY <1>5, <1>10, <2>2
    <3> QED BY <1>1, <3>1
  <2>3. CASE i \in 1..Len(s) /\ c[i] = s[i] /\ j - Len(s) \in 1..Len(u) /\ c[j] = u[j - Len(s)]
    BY <1>4, <1>5, <1>10, <2>3
  <2>4. CASE j \in 1..Len(s) /\ c[j] = s[j] /\ i - Len(s) \in 1..Len(u) /\ c[i] = u[i - Len(s)]
    BY <1>4, <1>5, <1>10, <2>4
  <2> QED BY <1>6, <2>1, <2>2, <2>3, <2>4
<1> QED
  BY <1>3, <1>9, <1>10 DEF c
\* The empty sequence has no elements.
LEMMA EmptyRange == Range(<<>>) = {} /\ IsInjective(<<>>) /\ \A S : <<>> \in Seq(S)
<1>1. \A S : <<>> \in Seq(S) /\ Len(<<>>) = 0
  BY EmptySeq
<1>2. DOMAIN <<>> = {}
  <2>1. DOMAIN <<>> = 1..Len(<<>>)
    BY <1>1, LenProperties
  <2> QED BY <1>1, <2>1
<1> QED
  BY <1>1, <1>2 DEF Range, IsInjective
-----------------------------------------------------------------------------
\* A set of natural numbers that is not empty has a least one.
LEMMA NatMin ==
    ASSUME NEW T \in SUBSET Nat, T # {}
    PROVE  \E m \in T : \A n \in T : m <= n
<1> DEFINE R == {ss \in Nat \X Nat : ss[1] < ss[2]}
<1>1. IsWellFoundedOn(R, Nat)
  BY NatLessThanWellFounded DEF OpToRel
<1>2. \E m \in T : \A n \in T : ~ (<<n, m>> \in R)
  <2> HIDE DEF R
  <2> QED BY <1>1, WFMin, Zenon
<1>3. PICK m \in T : \A n \in T : ~ (<<n, m>> \in R)
  BY <1>2, Zenon
<1>4. ASSUME NEW n \in T PROVE m <= n
  <2>1. ~ (<<n, m>> \in R)
    BY <1>3
  <2>2. n \in Nat /\ m \in Nat
    OBVIOUS
  <2> QED BY <2>1, <2>2
<1> QED BY <1>4
-----------------------------------------------------------------------------
(***************************************************************************)
(* Words: numbers of which only the remainder by w is kept.                *)
(***************************************************************************)
\* RemainderUnique, for a number that may be negative.
LEMMA IntRemainder ==
    ASSUME NEW n \in Nat, n > 0, NEW k \in Int, NEW r \in 0..(n - 1),
           NEW q \in Int, k = (n * q) + r
    PROVE  k % n = r
<1>1. k \div n \in Int /\ k % n \in 0..(n - 1) /\ k = (n * (k \div n)) + (k % n)
  OBVIOUS
<1>2. PICK s \in Int, x \in 0..(n - 1) : x = k % n /\ k = (n * s) + x
  BY <1>1
<1>3. n * (q - s) = x - r
  BY <1>2
<1>4. q - s = 0
  BY <1>2, <1>3, SmallMultiple
<1>5. n * (q - s) = 0
  BY <1>4
<1> QED BY <1>2, <1>3, <1>5

\* The difference of two words, read in two's complement, is the difference of
\* the numbers they stand for, as long as that is within half of what a word
\* can tell apart.
SignedDifference(x, y, w) ==
    LET d == (x - y) % w IN IF d < w \div 2 THEN d ELSE d - w

LEMMA WordDifference ==
    ASSUME NEW h \in Nat, h > 0, NEW w, w = 2 * h, NEW a \in Nat, NEW b \in Nat,
           -h <= a - b, a - b < h
    PROVE  SignedDifference(a % w, b % w, w) = a - b
<1>1. w \in Nat /\ w > 0 /\ w \div 2 = h
  OBVIOUS
<1>2. PICK p \in Int : a = (w * p) + (a % w) /\ a % w \in 0..(w - 1)
  BY <1>1, Division
<1>3. PICK q \in Int : b = (w * q) + (b % w) /\ b % w \in 0..(w - 1)
  BY <1>1, Division
<1>4. PICK x \in Int, y \in Int : x = a % w /\ y = b % w
  BY <1>2, <1>3
<1>5. x - y = (w * (q - p)) + (a - b)
  BY <1>1, <1>2, <1>3, <1>4
<1>6. CASE a - b >= 0
  <2>1. PICK d \in 0..(w - 1), k \in Int, s \in Int : d = a - b /\ k = x - y /\ s = q - p
    BY <1>1, <1>6
  <2>2. k = (w * s) + d
    BY <1>5, <2>1
  <2>3. k % w = d
    BY <1>1, <2>2, IntRemainder
  <2>4. (x - y) % w = a - b
    BY <2>1, <2>3
  <2> QED BY <1>1, <1>4, <2>4 DEF SignedDifference
<1>7. CASE a - b < 0
  <2>1. PICK d \in 0..(w - 1), k \in Int, s \in Int :
            d = (a - b) + w /\ k = x - y /\ s = (q - p) - 1
    BY <1>1, <1>7
  <2>2. k = (w * s) + d
    BY <1>1, <1>5, <2>1
  <2>3. k % w = d
    BY <1>1, <2>2, IntRemainder
  <2>4. (x - y) % w = (a - b) + w
    BY <2>1, <2>3
  <2> QED BY <1>1, <1>4, <1>7, <2>1, <2>4 DEF SignedDifference
<1> QED BY <1>6, <1>7

\* Masking a word is masking the number, when a word is a whole number of laps.
LEMMA MaskedWord ==
    ASSUME NEW n \in Nat, n > 0, NEW w \in Nat, NEW k \in Nat,
           NEW m \in Nat, m > 0, w = n * m
    PROVE  (k % w) % n = k % n
<1>1. w > 0
  <2>1. n * m >= n
    OBVIOUS
  <2> QED BY <2>1
<1>2. PICK q \in Int : k = (w * q) + (k % w) /\ k % w \in 0..(w - 1)
  BY <1>1, Division
<1>3. PICK r \in Nat : r = k % w
  BY <1>1, <1>2
<1>4. PICK s \in Int : r = (n * s) + (r % n) /\ r % n \in 0..(n - 1)
  BY Division
<1>5. PICK x \in 0..(n - 1) : x = r % n
  BY <1>4
<1>6. w * q = n * (m * q) /\ m * q \in Int
  OBVIOUS
<1>7. PICK z \in Int : z = m * q
  BY <1>6
<1>8. k = (n * (z + s)) + x
  <2>1. n * (z + s) = (n * z) + (n * s)
    OBVIOUS
  <2> QED BY <1>2, <1>3, <1>4, <1>5, <1>6, <1>7, <2>1
<1>9. k % n = x
  BY <1>8, RemainderUnique
<1> QED BY <1>3, <1>5, <1>9
=============================================================================
