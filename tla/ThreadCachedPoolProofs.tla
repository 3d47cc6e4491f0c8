----------------------- MODULE ThreadCachedPoolProofs -----------------------
(***************************************************************************)
(* Theorems about ThreadCachedPool, for any number of threads, any         *)
(* capacity, and every BatchSize and CacheFlushThreshold that fit each     *)
(* other.  Pools of one type share their caches.  What is proved of their  *)
(* objects assumes that none is flushed to a pool it does not belong to    *)
(* (FlushesOwn), as is certain when there is one pool only (OnePool):      *)
(* otherwise a buffer may be given more than it has places.                *)
(***************************************************************************)
EXTENDS ThreadCachedPool, SharedLemmas, FiniteSetTheorems

\* The inductive invariant: the properties together.
IInv == TypeOK /\ OneOwner /\ Lifetimes /\ OwnObjectsOnly

\* No other pool of the same type.
OnePool == \A p, q \in Pools : p = q

\* Without its last element.
LEMMA FrontAndLast ==
    ASSUME NEW S, NEW s \in Seq(S), s # <<>>
    PROVE  /\ Front(s) \in Seq(S) /\ Len(Front(s)) = Len(s) - 1 /\ Last(s) \in S
           /\ Range(s) = Range(Front(s)) \cup {Last(s)}
           /\ IsInjective(s) => IsInjective(Front(s)) /\ Last(s) \notin Range(Front(s))
<1>1. PICK n \in Nat : n = Len(s) /\ n > 0
  <2>1. Len(s) \in Nat /\ Len(s) # 0
    BY LenProperties, EmptySeq
  <2> QED BY <2>1
<1>2. n - 1 \in 0..Len(s) /\ (n - 1) + 1 = n
  BY <1>1
<1> DEFINE f == SubSeq(s, 1, n - 1)
<1>3. f \in Seq(S) /\ Len(f) = n - 1 /\ \A i \in 1..(n - 1) : f[i] = s[i]
  BY <1>2, Split
<1>4. f = Front(s) /\ Last(s) = s[n]
  BY <1>1 DEF Front, Last
<1> HIDE DEF f
<1>5. f \in Seq(S)
  BY <1>3
<1>6. /\ \A x : x \in Range(s) <=> \E i \in 1..Len(s) : s[i] = x
      /\ IsInjective(s) <=> \A i, j \in 1..Len(s) : s[i] = s[j] => i = j
  BY RangeOfSequence
<1>7. /\ \A x : x \in Range(f) <=> \E i \in 1..Len(f) : f[i] = x
      /\ IsInjective(f) <=> \A i, j \in 1..Len(f) : f[i] = f[j] => i = j
  BY <1>5, RangeOfSequence
<1>8. /\ \A x : x \in Range(f) <=> \E i \in 1..(n - 1) : s[i] = x
      /\ IsInjective(f) <=> \A i, j \in 1..(n - 1) : s[i] = s[j] => i = j
  BY <1>3, <1>7
<1>9. ASSUME NEW x PROVE x \in Range(s) <=> x \in Range(f) \/ x = s[n]
  <2>1. \A i \in 1..Len(s) : i \in 1..(n - 1) \/ i = n
    BY <1>1
  <2>2. n \in 1..Len(s) /\ \A i \in 1..(n - 1) : i \in 1..Len(s)
    BY <1>1
  <2> QED BY <1>6, <1>8, <2>1, <2>2
<1>10. ASSUME IsInjective(s) PROVE IsInjective(f) /\ s[n] \notin Range(f)
  <2>1. n \in 1..Len(s) /\ \A i \in 1..(n - 1) : i \in 1..Len(s) /\ i # n
    BY <1>1
  <2> QED BY <1>6, <1>8, <1>10, <2>1
<1>11. s[n] \in S
  BY <1>1, ElementOfSeq
<1> QED
  BY <1>1, <1>3, <1>4, <1>9, <1>10, <1>11

\* With one more.
LEMMA Appended ==
    ASSUME NEW S, NEW s \in Seq(S), NEW o \in S
    PROVE  /\ Append(s, o) \in Seq(S) /\ Len(Append(s, o)) = Len(s) + 1
           /\ Range(Append(s, o)) = Range(s) \cup {o}
           /\ IsInjective(s) /\ o \notin Range(s) => IsInjective(Append(s, o))
<1> DEFINE a == Append(s, o)
<1>1. PICK n \in Nat : n = Len(s)
  BY LenProperties
<1>2. /\ a \in Seq(S) /\ Len(a) = n + 1 /\ a[n + 1] = o /\ \A i \in 1..n : a[i] = s[i]
  BY <1>1, AppendProperties
<1> HIDE DEF a
<1>3. a \in Seq(S)
  BY <1>2
<1>4. /\ \A x : x \in Range(s) <=> \E i \in 1..Len(s) : s[i] = x
      /\ IsInjective(s) <=> \A i, j \in 1..Len(s) : s[i] = s[j] => i = j
  BY RangeOfSequence
<1>5. /\ \A x : x \in Range(a) <=> \E i \in 1..Len(a) : a[i] = x
      /\ IsInjective(a) <=> \A i, j \in 1..Len(a) : a[i] = a[j] => i = j
  BY <1>3, RangeOfSequence
<1>6. /\ 1..Len(s) = 1..n /\ 1..Len(a) = 1..(n + 1) /\ n + 1 \in 1..(n + 1)
      /\ \A i \in 1..(n + 1) : (i \in 1..n /\ a[i] = s[i]) \/ (i = n + 1 /\ a[i] = o)
      /\ \A i \in 1..n : i \in 1..(n + 1) /\ i # n + 1
  BY <1>1, <1>2
<1>7. ASSUME NEW x PROVE x \in Range(a) <=> x \in Range(s) \/ x = o
  BY <1>2, <1>4, <1>5, <1>6
<1>8. ASSUME IsInjective(s), o \notin Range(s) PROVE IsInjective(a)
  BY <1>2, <1>4, <1>5, <1>6, <1>8
<1> QED
  BY <1>1, <1>2, <1>7, <1>8 DEF a
-----------------------------------------------------------------------------
\* When objects move between two of the caches and pools, the program and the
\* lost ones, and stay in one place each, every object stays in one place.
LEMMA TwoMove ==
    ASSUME OneOwner, NEW k \in Keepers, NEW l \in Keepers,
           \A m \in Keepers \ {k, l} : Kept(m)' = Kept(m),
           Range(Kept(k)') \cup Range(Kept(l)') \cup Held' \cup lost'
             = Range(Kept(k)) \cup Range(Kept(l)) \cup Held \cup lost,
           IsInjective(Kept(k)'), IsInjective(Kept(l)'),
           k # l => Range(Kept(k)') \cap Range(Kept(l)') = {},
           Range(Kept(k)') \cap (Held' \cup lost') = {},
           Range(Kept(l)') \cap (Held' \cup lost') = {},
           Held' \cap lost' = {}, \A g, h \in held' : g[1] = h[1] => g = h
    PROVE  OneOwner'
<1> DEFINE R(m) == Range(Kept(m))
           Q(m) == Range(Kept(m)')
           before == Held \cup lost
           after == Held' \cup lost'
<1>1. /\ \A o : o \in Objects <=> o \in before \/ \E m \in Keepers : o \in R(m)
      /\ \A m \in Keepers : /\ IsInjective(Kept(m)) /\ R(m) \cap before = {}
                            /\ \A n \in Keepers \ {m} : R(m) \cap R(n) = {}
  <2>1. Objects = (UNION {R(m) : m \in Keepers}) \cup Held \cup lost
    BY DEF OneOwner
  <2>2. \A o : o \in Objects <=> o \in before \/ \E m \in Keepers : o \in R(m)
    BY <2>1
  <2>3. \A m \in Keepers : /\ IsInjective(Kept(m)) /\ R(m) \cap before = {}
                            /\ \A n \in Keepers \ {m} : R(m) \cap R(n) = {}
    BY DEF OneOwner
  <2> QED BY <2>2, <2>3
<1>2. Q(k) \cup Q(l) \cup after = R(k) \cup R(l) \cup before
  OBVIOUS
<1>3. /\ k # l => Q(k) \cap Q(l) = {}
      /\ Q(k) \cap after = {} /\ Q(l) \cap after = {}
  OBVIOUS
<1>4. \A m \in Keepers \ {k, l} : Q(m) = R(m)
  OBVIOUS
<1>5. IsInjective(Kept(k)') /\ IsInjective(Kept(l)') /\ \A m \in Keepers \ {k, l} : IsInjective(Kept(m)')
  BY <1>1
<1>6. Held' \cap lost' = {} /\ \A g, h \in held' : g[1] = h[1] => g = h
  OBVIOUS
<1> HIDE DEF R, Q, before, after
<1>7. ASSUME NEW o PROVE o \in Objects <=> o \in after \/ \E m \in Keepers : o \in Q(m)
  BY <1>1, <1>2, <1>4
<1>8. ASSUME NEW m \in Keepers \ {k, l}
      PROVE  Q(m) \cap after = {} /\ Q(m) \cap Q(k) = {} /\ Q(m) \cap Q(l) = {}
  BY <1>1, <1>2, <1>4
<1>9. ASSUME NEW m \in Keepers
      PROVE  /\ IsInjective(Kept(m)') /\ Q(m) \cap after = {}
             /\ \A n \in Keepers \ {m} : Q(m) \cap Q(n) = {}
  <2>1. CASE m \in {k, l}
    BY <1>3, <1>5, <1>8, <2>1
  <2>2. CASE m \notin {k, l}
    <3>1. \A n \in Keepers \ {k, l} : n # m => Q(m) \cap Q(n) = {}
      BY <1>1, <1>4, <2>2
    <3> QED BY <1>5, <1>8, <2>2, <3>1
  <2> QED BY <2>1, <2>2
<1>10. Objects = (UNION {Q(m) : m \in Keepers}) \cup after
  BY <1>7
<1>11. \A m \in Keepers : /\ IsInjective(Kept(m)') /\ Q(m) \cap after = {}
                           /\ \A n \in Keepers \ {m} : Q(m) \cap Q(n) = {}
  BY <1>9
<1>12. /\ Keepers' = Keepers /\ Objects' = Objects
       /\ Objects = (UNION {Q(m) : m \in Keepers}) \cup Held' \cup lost'
  BY <1>10 DEF Keepers, Objects, after
<1> QED
  BY <1>6, <1>11, <1>12 DEF OneOwner, Q, after

\* What the keepers keep.
LEMMA Places ==
    /\ \A t \in Threads : t \in Keepers /\ t \notin Pools /\ Kept(t) = cache[t] /\ Kept(t)' = cache'[t]
    /\ \A p \in Pools : p \in Keepers /\ p \notin Threads /\ Kept(p) = global[p] /\ Kept(p)' = global'[p]
  BY KeepersAssumption DEF Keepers, Kept

\* A call changes the cache of its thread, and the line of one pool.  When the
\* objects of the two, of the program and the lost ones stay apart, and a T lives
\* where it should in these, the invariant is kept.
LEMMA CallMoves ==
    ASSUME IInv, NEW t \in Threads, NEW p \in Pools, NEW c \in Seq(Objects), NEW g \in Seq(Objects),
           cache' = [cache EXCEPT ![t] = c], global' = [global EXCEPT ![p] = g],
           Len(c) <= CacheFlushThreshold,
           alive' \subseteq Objects, held' \subseteq Objects \X Pools, lost' \subseteq Objects,
           Range(c) \cup Range(g) \cup Held' \cup lost'
             = Range(cache[t]) \cup Range(global[p]) \cup Held \cup lost,
           IsInjective(c), IsInjective(g), Range(c) \cap Range(g) = {},
           Range(c) \cap (Held' \cup lost') = {}, Range(g) \cap (Held' \cup lost') = {},
           Held' \cap lost' = {}, \A x, y \in held' : x[1] = y[1] => x = y,
           Held' \cup Range(c) \subseteq alive', Range(g) \cap alive' = {},
           \A o \in Objects \ (Range(cache[t]) \cup Range(global[p])) : o \in alive <=> o \in alive',
           Range(g) \subseteq {p} \X Nodes
    PROVE  IInv'
<1>1. /\ cache \in [Threads -> Seq(Objects)] /\ global \in [Pools -> Seq(Objects)]
      /\ \A u \in Threads : Len(cache[u]) <= CacheFlushThreshold
  BY DEF IInv, TypeOK, Size
<1>2. /\ cache'[t] = c /\ \A u \in Threads \ {t} : cache'[u] = cache[u]
      /\ global'[p] = g /\ \A q \in Pools \ {p} : global'[q] = global[q]
      /\ cache' \in [Threads -> Seq(Objects)] /\ global' \in [Pools -> Seq(Objects)]
  BY <1>1
<1>3. TypeOK'
  <2>1. \A u \in Threads : Len(cache'[u]) <= CacheFlushThreshold
    BY <1>1, <1>2
  <2>2. Objects' = Objects
    BY DEF Objects
  <2> QED BY <1>2, <2>1, <2>2 DEF TypeOK, Size
<1>4. /\ t \in Keepers /\ p \in Keepers /\ t # p
      /\ Kept(t) = cache[t] /\ Kept(p) = global[p] /\ Kept(t)' = c /\ Kept(p)' = g
  BY <1>2, Places
<1>5. ASSUME NEW m \in Keepers \ {t, p} PROVE Kept(m)' = Kept(m)
  BY <1>2 DEF Keepers, Kept
<1>6. OneOwner
  BY DEF IInv
<1>7. OneOwner'
  BY <1>4, <1>5, <1>6, TwoMove
<1>8. ASSUME NEW m \in Keepers \ {t, p}
      PROVE  Range(Kept(m)) \cap (Range(cache[t]) \cup Range(global[p])) = {}
  <2>1. Range(Kept(m)) \cap Range(Kept(t)) = {} /\ Range(Kept(m)) \cap Range(Kept(p)) = {}
    BY <1>4, <1>6 DEF OneOwner
  <2> QED BY <1>4, <2>1
<1>9. ASSUME NEW u \in Threads PROVE Range(cache'[u]) \subseteq alive'
  <2>1. CASE u = t
    BY <1>2, <2>1
  <2>2. CASE u # t
    <3>1. u \in Keepers \ {t, p} /\ Kept(u) = cache[u] /\ cache'[u] = cache[u]
      BY <1>2, <2>2, Places
    <3>2. Range(cache[u]) \subseteq Objects /\ Range(cache[u]) \subseteq alive
      BY <1>1, RangeOfSequence DEF IInv, Lifetimes
    <3> QED BY <1>8, <3>1, <3>2
  <2> QED BY <2>1, <2>2
<1>10. ASSUME NEW q \in Pools PROVE Range(global'[q]) \cap alive' = {}
  <2>1. CASE q = p
    BY <1>2, <2>1
  <2>2. CASE q # p
    <3>1. q \in Keepers \ {t, p} /\ Kept(q) = global[q] /\ global'[q] = global[q]
      BY <1>2, <2>2, Places
    <3>2. Range(global[q]) \subseteq Objects /\ Range(global[q]) \cap alive = {}
      BY <1>1, RangeOfSequence DEF IInv, Lifetimes
    <3> QED BY <1>8, <3>1, <3>2
  <2> QED BY <2>1, <2>2
<1>11. Lifetimes'
  BY <1>9, <1>10 DEF Lifetimes
<1>12. OwnObjectsOnly'
  BY <1>2 DEF IInv, OwnObjectsOnly
<1> QED
  BY <1>3, <1>7, <1>11, <1>12 DEF IInv

\* What the invariant says of the objects that one call can touch.
LEMMA Apart ==
    ASSUME IInv, NEW t \in Threads, NEW p \in Pools
    PROVE  /\ cache \in [Threads -> Seq(Objects)] /\ global \in [Pools -> Seq(Objects)]
           /\ cache[t] \in Seq(Objects) /\ global[p] \in Seq(Objects)
           /\ IsInjective(cache[t]) /\ IsInjective(global[p])
           /\ Range(cache[t]) \cap Range(global[p]) = {}
           /\ Range(cache[t]) \cap (Held \cup lost) = {} /\ Range(global[p]) \cap (Held \cup lost) = {}
           /\ Held \cap lost = {} /\ \A x, y \in held : x[1] = y[1] => x = y
           /\ Held \cup Range(cache[t]) \subseteq alive /\ Range(global[p]) \cap alive = {}
           /\ alive \subseteq Objects /\ held \subseteq Objects \X Pools /\ lost \subseteq Objects
           /\ Range(cache[t]) \subseteq Objects /\ Range(global[p]) \subseteq Objects
           /\ Len(cache[t]) \in Nat /\ Len(cache[t]) <= CacheFlushThreshold
           /\ Range(global[p]) \subseteq {p} \X Nodes
<1>1. /\ cache \in [Threads -> Seq(Objects)] /\ global \in [Pools -> Seq(Objects)]
      /\ alive \subseteq Objects /\ held \subseteq Objects \X Pools /\ lost \subseteq Objects
      /\ Len(cache[t]) <= CacheFlushThreshold
  BY DEF IInv, TypeOK, Size
<1>2. cache[t] \in Seq(Objects) /\ global[p] \in Seq(Objects)
  BY <1>1
<1>3. /\ Range(cache[t]) \subseteq Objects /\ Range(global[p]) \subseteq Objects
      /\ Len(cache[t]) \in Nat
  BY <1>2, RangeOfSequence, LenProperties
<1>4. t \in Keepers /\ p \in Keepers /\ t # p /\ Kept(t) = cache[t] /\ Kept(p) = global[p]
  BY Places
<1>5. /\ IsInjective(Kept(t)) /\ IsInjective(Kept(p)) /\ Range(Kept(t)) \cap Range(Kept(p)) = {}
      /\ Range(Kept(t)) \cap (Held \cup lost) = {} /\ Range(Kept(p)) \cap (Held \cup lost) = {}
      /\ Held \cap lost = {} /\ \A x, y \in held : x[1] = y[1] => x = y
  BY <1>4 DEF IInv, OneOwner
<1>6. Held \subseteq alive /\ Range(cache[t]) \subseteq alive /\ Range(global[p]) \cap alive = {}
  BY DEF IInv, Lifetimes
<1>7. Range(global[p]) \subseteq {p} \X Nodes
  BY DEF IInv, OwnObjectsOnly
<1> QED
  BY <1>1, <1>2, <1>3, <1>4, <1>5, <1>6, <1>7

\* The program takes an object, or gives one back.
LEMMA HeldGrows ==
    ASSUME NEW o, NEW p, held' = held \cup {<<o, p>>}, o \notin Held,
           \A x, y \in held : x[1] = y[1] => x = y
    PROVE  Held' = Held \cup {o} /\ \A x, y \in held' : x[1] = y[1] => x = y
<1>1. \A x \in held : x[1] \in Held
  BY DEF Held
<1>2. <<o, p>>[1] = o
  OBVIOUS
<1>3. ASSUME NEW x \in held', NEW y \in held', x[1] = y[1] PROVE x = y
  BY <1>1, <1>2, <1>3
<1> QED
  BY <1>2, <1>3 DEF Held

LEMMA HeldShrinks ==
    ASSUME NEW o, NEW p, held' = held \ {<<o, p>>}, <<o, p>> \in held,
           \A x, y \in held : x[1] = y[1] => x = y
    PROVE  o \in Held /\ Held' = Held \ {o} /\ \A x, y \in held' : x[1] = y[1] => x = y
<1>1. <<o, p>>[1] = o
  OBVIOUS
<1>2. \A x \in held : x[1] = o => x = <<o, p>>
  BY <1>1
<1>3. ASSUME NEW e PROVE e \in Held' <=> e \in Held \ {o}
  BY <1>1, <1>2 DEF Held
<1> QED
  BY <1>1, <1>3 DEF Held
-----------------------------------------------------------------------------
\* acquire() from the cache.
LEMMA TakeCached ==
    ASSUME IInv, NEW t \in Threads, NEW p \in Pools, AcquireCached(t, p) PROVE IInv'
<1> DEFINE s == cache[t]
           o == Last(s)
           c == Front(s)
           g == global[p]
<1>1. /\ s \in Seq(Objects) /\ g \in Seq(Objects) /\ IsInjective(s) /\ IsInjective(g)
      /\ Range(s) \cap Range(g) = {} /\ Range(s) \cap (Held \cup lost) = {}
      /\ Range(g) \cap (Held \cup lost) = {} /\ Held \cap lost = {}
      /\ \A x, y \in held : x[1] = y[1] => x = y
      /\ Held \cup Range(s) \subseteq alive /\ Range(g) \cap alive = {}
      /\ alive \subseteq Objects /\ held \subseteq Objects \X Pools /\ lost \subseteq Objects
      /\ Len(s) \in Nat /\ Len(s) <= CacheFlushThreshold
  BY Apart
<1>2. s # <<>>
  BY EmptySeq DEF AcquireCached, Size
<1>3. /\ c \in Seq(Objects) /\ Len(c) = Len(s) - 1 /\ o \in Objects
      /\ Range(s) = Range(c) \cup {o} /\ IsInjective(c) /\ o \notin Range(c)
  BY <1>1, <1>2, FrontAndLast
<1>4. /\ held' = held \cup {<<o, p>>} /\ alive' = alive /\ lost' = lost
      /\ cache' = [cache EXCEPT ![t] = c] /\ global' = [global EXCEPT ![p] = g]
  BY Apart DEF AcquireCached
<1> HIDE DEF s, o, c, g
<1>5. Held' = Held \cup {o} /\ \A x, y \in held' : x[1] = y[1] => x = y
  BY <1>1, <1>3, <1>4, HeldGrows
<1>6. Len(c) <= CacheFlushThreshold
  BY <1>1, <1>3, FitsAssumption
<1>7. held' \subseteq Objects \X Pools
  BY <1>1, <1>3, <1>4
<1>8. /\ Range(c) \cup Range(g) \cup Held' \cup lost' = Range(s) \cup Range(g) \cup Held \cup lost
      /\ Range(c) \cap Range(g) = {}
      /\ Range(c) \cap (Held' \cup lost') = {} /\ Range(g) \cap (Held' \cup lost') = {}
      /\ Held' \cap lost' = {}
  BY <1>1, <1>3, <1>4, <1>5
<1>9. /\ Held' \cup Range(c) \subseteq alive' /\ Range(g) \cap alive' = {}
      /\ alive' \subseteq Objects /\ lost' \subseteq Objects
      /\ \A e \in Objects \ (Range(s) \cup Range(g)) : e \in alive <=> e \in alive'
  BY <1>1, <1>3, <1>4, <1>5
<1>10. s = cache[t] /\ g = global[p]
  BY DEF s, g
<1>11. IsInjective(g) /\ g \in Seq(Objects) /\ Range(g) \subseteq {p} \X Nodes
  BY <1>1, <1>10, Apart
<1> QED
  BY <1>3, <1>4, <1>5, <1>6, <1>7, <1>8, <1>9, <1>10, <1>11, CallMoves

\* What acquire_batch takes, and what it leaves.
LEMMA BatchTaken ==
    ASSUME TypeOK, NEW p \in Pools
    PROVE  /\ Batch(p) \in Seq(Objects) /\ WithoutBatch(p) \in Seq(Objects)
           /\ Len(Batch(p)) \in Nat /\ Len(Batch(p)) <= BatchSize
           /\ Range(global[p]) = Range(Batch(p)) \cup Range(WithoutBatch(p))
           /\ IsInjective(global[p]) =>
                /\ IsInjective(Batch(p)) /\ IsInjective(WithoutBatch(p))
                /\ Range(Batch(p)) \cap Range(WithoutBatch(p)) = {}
<1> DEFINE g == global[p]
           n == IF BatchSize < Len(g) THEN BatchSize ELSE Len(g)
<1>1. g \in Seq(Objects)
  BY DEF TypeOK
<1>2. Len(g) \in Nat /\ n \in 0..Len(g) /\ n <= BatchSize
  BY <1>1, LenProperties, FitsAssumption
<1>3. Batch(p) = SubSeq(g, 1, n)
  BY DEF Batch
<1> HIDE DEF n
<1>4. Batch(p) \in Seq(Objects) /\ Len(Batch(p)) = n /\ SubSeq(g, n + 1, Len(g)) \in Seq(Objects)
  BY <1>1, <1>2, <1>3, Split
<1>5. WithoutBatch(p) = SubSeq(g, n + 1, Len(g))
  BY <1>4 DEF WithoutBatch
<1>6. /\ Range(g) = Range(SubSeq(g, 1, n)) \cup Range(SubSeq(g, n + 1, Len(g)))
      /\ IsInjective(g) =>
           /\ IsInjective(SubSeq(g, 1, n)) /\ IsInjective(SubSeq(g, n + 1, Len(g)))
           /\ Range(SubSeq(g, 1, n)) \cap Range(SubSeq(g, n + 1, Len(g))) = {}
  BY <1>1, <1>2, SplitApart
<1> QED
  BY <1>2, <1>3, <1>4, <1>5, <1>6

\* acquire() with an empty cache.
LEMMA TakeBatch ==
    ASSUME IInv, NEW t \in Threads, NEW p \in Pools, AcquireBatch(t, p) PROVE IInv'
<1> DEFINE b == Batch(p)
           o == Last(b)
           c == Front(b)
           g == WithoutBatch(p)
<1>1. /\ IsInjective(global[p]) /\ Range(global[p]) \cap (Held \cup lost) = {} /\ Held \cap lost = {}
      /\ \A x, y \in held : x[1] = y[1] => x = y
      /\ Held \cup Range(cache[t]) \subseteq alive /\ Range(global[p]) \cap alive = {}
      /\ alive \subseteq Objects /\ held \subseteq Objects \X Pools /\ lost \subseteq Objects
      /\ Range(global[p]) \subseteq Objects /\ cache[t] \in Seq(Objects)
  BY Apart
<1>2. /\ b \in Seq(Objects) /\ g \in Seq(Objects) /\ Len(b) \in Nat /\ Len(b) <= BatchSize
      /\ Range(global[p]) = Range(b) \cup Range(g)
      /\ IsInjective(b) /\ IsInjective(g) /\ Range(b) \cap Range(g) = {}
  BY <1>1, BatchTaken DEF IInv
<1>3. /\ c \in Seq(Objects) /\ Len(c) = Len(b) - 1 /\ o \in Objects
      /\ Range(b) = Range(c) \cup {o} /\ IsInjective(c) /\ o \notin Range(c)
  BY <1>2, FrontAndLast DEF AcquireBatch, Refuses
<1>4. /\ held' = held \cup {<<o, p>>} /\ alive' = alive \cup Range(b) /\ lost' = lost
      /\ cache' = [cache EXCEPT ![t] = c] /\ global' = [global EXCEPT ![p] = g]
  BY DEF AcquireBatch
<1>5. Range(cache[t]) = {}
  BY <1>1, EmptySeq, EmptyRange DEF AcquireBatch, Size
<1> HIDE DEF b, o, c, g
<1>6. Held' = Held \cup {o} /\ \A x, y \in held' : x[1] = y[1] => x = y
  <2>1. o \notin Held
    BY <1>1, <1>2, <1>3
  <2> QED BY <1>1, <1>4, <2>1, HeldGrows
<1>7. Len(c) <= CacheFlushThreshold
  BY <1>2, <1>3, FitsAssumption
<1>8. held' \subseteq Objects \X Pools /\ alive' \subseteq Objects
  BY <1>1, <1>2, <1>3, <1>4
<1>9. /\ Range(c) \cup Range(g) \cup Held' \cup lost'
           = Range(cache[t]) \cup Range(global[p]) \cup Held \cup lost
      /\ Range(c) \cap Range(g) = {}
      /\ Range(c) \cap (Held' \cup lost') = {} /\ Range(g) \cap (Held' \cup lost') = {}
      /\ Held' \cap lost' = {}
  BY <1>1, <1>2, <1>3, <1>4, <1>5, <1>6
<1>10. /\ Held' \cup Range(c) \subseteq alive' /\ Range(g) \cap alive' = {}
       /\ \A e \in Objects \ (Range(cache[t]) \cup Range(global[p])) : e \in alive <=> e \in alive'
  BY <1>1, <1>2, <1>3, <1>4, <1>5, <1>6
<1>11. lost' \subseteq Objects /\ Range(g) \subseteq {p} \X Nodes
  BY <1>1, <1>2, <1>4, Apart
<1> QED
  BY <1>2, <1>3, <1>4, <1>6, <1>7, <1>8, <1>9, <1>10, <1>11, CallMoves

\* acquire() with an empty cache, when a constructor throws.
LEMMA LoseBatch ==
    ASSUME IInv, NEW t \in Threads, NEW p \in Pools, NEW k \in 0..(BatchSize - 1),
           AcquireThrows(t, p, k)
    PROVE  IInv'
<1> DEFINE b == Batch(p)
           c == cache[t]
           g == WithoutBatch(p)
           built == {b[i] : i \in 1..k}
<1>1. /\ IsInjective(global[p]) /\ Range(global[p]) \cap (Held \cup lost) = {} /\ Held \cap lost = {}
      /\ \A x, y \in held : x[1] = y[1] => x = y
      /\ Held \cup Range(cache[t]) \subseteq alive /\ Range(global[p]) \cap alive = {}
      /\ alive \subseteq Objects /\ held \subseteq Objects \X Pools /\ lost \subseteq Objects
      /\ Range(global[p]) \subseteq Objects
      /\ c \in Seq(Objects) /\ IsInjective(c) /\ Len(c) <= CacheFlushThreshold
  BY Apart
<1>2. /\ b \in Seq(Objects) /\ g \in Seq(Objects) /\ Len(b) \in Nat
      /\ Range(global[p]) = Range(b) \cup Range(g)
      /\ IsInjective(g) /\ Range(b) \cap Range(g) = {}
  BY <1>1, BatchTaken DEF IInv
<1>3. built \subseteq Range(b)
  <2>1. \A i \in 1..k : i \in 1..Len(b)
    BY <1>2, FitsAssumption DEF AcquireThrows
  <2>2. \A i \in 1..Len(b) : b[i] \in Range(b)
    BY <1>2, RangeOfSequence
  <2> QED BY <2>1, <2>2
<1>4. /\ held' = held /\ alive' = alive \cup built /\ lost' = lost \cup Range(b)
      /\ cache' = [cache EXCEPT ![t] = c] /\ global' = [global EXCEPT ![p] = g]
  BY Apart DEF AcquireThrows
<1>5. Range(cache[t]) = {}
  BY <1>1, EmptySeq, EmptyRange DEF AcquireThrows, Size
<1>6. Held' = Held
  BY <1>4 DEF Held
<1> HIDE DEF b, g, built
<1>7. held' \subseteq Objects \X Pools /\ alive' \subseteq Objects /\ lost' \subseteq Objects
  BY <1>1, <1>2, <1>3, <1>4
<1>8. /\ Range(c) \cup Range(g) \cup Held' \cup lost'
           = Range(cache[t]) \cup Range(global[p]) \cup Held \cup lost
      /\ Range(c) \cap Range(g) = {}
      /\ Range(c) \cap (Held' \cup lost') = {} /\ Range(g) \cap (Held' \cup lost') = {}
      /\ Held' \cap lost' = {}
  BY <1>1, <1>2, <1>4, <1>5, <1>6
<1>9. /\ Held' \cup Range(c) \subseteq alive' /\ Range(g) \cap alive' = {}
      /\ \A e \in Objects \ (Range(cache[t]) \cup Range(global[p])) : e \in alive <=> e \in alive'
  BY <1>1, <1>2, <1>3, <1>4, <1>5, <1>6
<1>10. /\ \A x, y \in held' : x[1] = y[1] => x = y
       /\ Range(g) \subseteq {p} \X Nodes
  BY <1>1, <1>2, <1>4, Apart
<1> HIDE DEF c
<1> QED
  BY <1>1, <1>2, <1>4, <1>7, <1>8, <1>9, <1>10, CallMoves

\* release() into a cache with room.
LEMMA GiveCached ==
    ASSUME IInv, NEW t \in Threads, NEW p \in Pools, NEW o \in Objects, Release(t, p, o)
    PROVE  IInv'
<1> DEFINE s == cache[t]
           c == Append(s, o)
           g == global[p]
<1>1. /\ s \in Seq(Objects) /\ g \in Seq(Objects) /\ IsInjective(s) /\ IsInjective(g)
      /\ Range(s) \cap Range(g) = {} /\ Range(s) \cap (Held \cup lost) = {}
      /\ Range(g) \cap (Held \cup lost) = {} /\ Held \cap lost = {}
      /\ \A x, y \in held : x[1] = y[1] => x = y
      /\ Held \cup Range(s) \subseteq alive /\ Range(g) \cap alive = {}
      /\ alive \subseteq Objects /\ held \subseteq Objects \X Pools /\ lost \subseteq Objects
      /\ Len(s) \in Nat
  BY Apart
<1>2. /\ <<o, p>> \in held /\ held' = held \ {<<o, p>>} /\ alive' = alive /\ lost' = lost
      /\ cache' = [cache EXCEPT ![t] = c] /\ global' = [global EXCEPT ![p] = g]
      /\ Len(s) < CacheFlushThreshold
  BY <1>1, Apart, FitsAssumption DEF Release, CacheIsFull, Size
<1>3. o \in Held /\ Held' = Held \ {o} /\ \A x, y \in held' : x[1] = y[1] => x = y
  BY <1>1, <1>2, HeldShrinks
<1>4. /\ c \in Seq(Objects) /\ Len(c) = Len(s) + 1 /\ Range(c) = Range(s) \cup {o}
      /\ IsInjective(c)
  BY <1>1, <1>3, Appended
<1>5. Len(c) <= CacheFlushThreshold
  BY <1>1, <1>2, <1>4, FitsAssumption
<1>6. s = cache[t] /\ g = global[p]
  OBVIOUS
<1> HIDE DEF s, c, g
<1>7. /\ Range(c) \cup Range(g) \cup Held' \cup lost' = Range(s) \cup Range(g) \cup Held \cup lost
      /\ Range(c) \cap Range(g) = {}
      /\ Range(c) \cap (Held' \cup lost') = {} /\ Range(g) \cap (Held' \cup lost') = {}
      /\ Held' \cap lost' = {}
  BY <1>1, <1>2, <1>3, <1>4
<1>8. /\ Held' \cup Range(c) \subseteq alive' /\ Range(g) \cap alive' = {}
      /\ alive' \subseteq Objects /\ lost' \subseteq Objects /\ held' \subseteq Objects \X Pools
      /\ \A e \in Objects \ (Range(s) \cup Range(g)) : e \in alive <=> e \in alive'
  BY <1>1, <1>2, <1>3, <1>4
<1>9. IsInjective(g) /\ g \in Seq(Objects) /\ Range(g) \subseteq {p} \X Nodes
  BY <1>1, <1>6, Apart
<1> QED
  BY <1>2, <1>3, <1>4, <1>5, <1>6, <1>7, <1>8, <1>9, CallMoves

\* However much is written to a buffer, objects are what it shows.
LEMMA StoredType ==
    ASSUME NEW s \in Seq(Objects)
    PROVE  Stored(s) \in Seq(Objects) /\ Len(Stored(s)) = Len(s)
<1>1. PICK n \in Nat : n = Len(s)
  BY LenProperties
<1>2. Capacity \in Nat /\ Capacity > 0
  <2>1. Cardinality(Nodes) \in Nat /\ Cardinality(Nodes) # 0
    BY NodesAssumption, FS_CardinalityType, FS_EmptySet
  <2> QED BY <2>1 DEF Capacity
<1>3. ASSUME NEW k \in 1..n PROVE k + (Capacity * ((n - k) \div Capacity)) \in 1..n
  <2>1. PICK c \in Nat, d \in Nat : c = Capacity /\ d = n - k /\ c > 0
    BY <1>2
  <2>2. PICK q \in Int : d = (c * q) + (d % c) /\ d % c \in 0..(c - 1) /\ q = d \div c
    BY <2>1
  <2>3. PICK z \in Int : z = c * q
    BY <2>1
  <2>4. z <= d /\ z > -c
    BY <2>1, <2>2, <2>3
  <2>5. q >= 0
    BY <2>1, <2>3, <2>4
  <2>6. z >= 0
    BY <2>1, <2>3, <2>5
  <2>7. k + z \in 1..n
    BY <2>1, <2>4, <2>6
  <2> QED BY <2>1, <2>2, <2>3, <2>7
<1>4. \A i \in 1..n : s[i] \in Objects
  BY <1>1, ElementOfSeq
<1>5. Stored(s) = [k \in 1..n |-> s[k + (Capacity * ((n - k) \div Capacity))]]
  BY <1>1 DEF Stored
<1>6. Stored(s) \in [1..n -> Objects]
  BY <1>3, <1>4, <1>5
<1>7. DOMAIN Stored(s) = 1..n /\ Stored(s) \in Seq(Objects)
  BY <1>6, SeqDef
<1> HIDE DEF Stored
<1> QED BY <1>1, <1>7, LenProperties

\* The objects of one pool fit its buffer.
LEMMA NothingOverwritten ==
    ASSUME NEW p \in Pools, NEW s \in Seq(Objects), IsInjective(s), Range(s) \subseteq {p} \X Nodes
    PROVE  Copied(s) /\ Stored(s) = s
<1> DEFINE h == [i \in 1..Len(s) |-> s[i][2]]
<1>1. Len(s) \in Nat /\ DOMAIN s = 1..Len(s) /\ s \in [1..Len(s) -> Objects]
  BY LenProperties
<1>2. \A o \in Range(s) : o[2] \in Nodes /\ o = <<p, o[2]>>
  OBVIOUS
<1>10. \A i \in 1..Len(s) : s[i] \in Range(s)
  BY RangeOfSequence
<1>3. h \in Injection(1..Len(s), Nodes)
  <2>1. h \in [1..Len(s) -> Nodes]
    BY <1>1, <1>2, <1>10
  <2>2. ASSUME NEW i \in 1..Len(s), NEW j \in 1..Len(s), h[i] = h[j] PROVE i = j
    <3>1. s[i] \in Range(s) /\ s[j] \in Range(s) /\ s[i][2] = s[j][2]
      BY <1>10, <2>2
    <3>2. s[i] = s[j]
      BY <1>2, <3>1
    <3> QED BY <1>1, <3>2 DEF IsInjective
  <2>3. DOMAIN h = 1..Len(s)
    OBVIOUS
  <2> HIDE DEF h
  <2>4. IsInjective(h)
    BY <2>2, <2>3 DEF IsInjective
  <2> QED BY <2>1, <2>4 DEF Injection
<1>4. Cardinality(1..Len(s)) <= Cardinality(Nodes)
  BY <1>3, NodesAssumption, FS_Injection
<1>5. Cardinality(1..Len(s)) = Len(s)
  BY <1>1, FS_Interval
<1>6. Capacity \in Nat /\ Len(s) <= Capacity
  BY <1>4, <1>5, NodesAssumption, FS_CardinalityType DEF Capacity
<1>7. \A c \in Nat, d \in Nat : d < c => d \div c = 0
  OBVIOUS
<1>8. ASSUME NEW k \in 1..Len(s) PROVE k + (Capacity * ((Len(s) - k) \div Capacity)) = k
  <2>1. Len(s) - k \in Nat /\ Len(s) - k < Capacity
    BY <1>1, <1>6
  <2>2. (Len(s) - k) \div Capacity = 0
    BY <1>6, <1>7, <2>1
  <2>3. Capacity * 0 = 0 /\ k + 0 = k
    BY <1>1, <1>6
  <2> QED BY <2>2, <2>3
<1>9. Stored(s) = [k \in 1..Len(s) |-> s[k]]
  BY <1>8 DEF Stored
<1> QED
  BY <1>1, <1>6, <1>9 DEF Copied

\* Half of a full cache leaves room for one more.
LEMMA HalfLeaves ==
    ASSUME NEW t \in Threads, Size(t) \in Nat, Size(t) >= CacheFlushThreshold,
           Size(t) <= CacheFlushThreshold
    PROVE  /\ Size(t) - Half(t) \in 0..Len(cache[t]) /\ (Size(t) - Half(t)) + 1 <= CacheFlushThreshold
           /\ Size(t) - Half(t) < Len(cache[t])
<1>1. PICK m \in Nat : m = Size(t) /\ m = Len(cache[t]) /\ m >= 2 /\ m = CacheFlushThreshold
  BY FitsAssumption DEF Size
<1>2. \A i \in Nat : i >= 2 => i \div 2 \in 1..i
  OBVIOUS
<1>3. PICK h \in 1..m : h = Half(t)
  BY <1>1, <1>2 DEF Half
<1> QED BY <1>1, <1>3

\* release() into a full cache, half of which goes to the pool.
LEMMA GiveHalf ==
    ASSUME IInv, FlushesOwn, NEW t \in Threads, NEW p \in Pools, NEW o \in Objects,
           ReleaseAndFlush(t, p, o)
    PROVE  IInv'
<1> DEFINE s == cache[t]
           n == Size(t) - Half(t)
           a == SubSeq(s, 1, n)
           f == Flushed(t)
           c == Append(a, o)
           r == global[p]
           g == r \o f
<1>1. /\ s \in Seq(Objects) /\ r \in Seq(Objects) /\ IsInjective(s) /\ IsInjective(r)
      /\ Range(s) \cap Range(r) = {} /\ Range(s) \cap (Held \cup lost) = {}
      /\ Range(r) \cap (Held \cup lost) = {} /\ Held \cap lost = {}
      /\ \A x, y \in held : x[1] = y[1] => x = y
      /\ Held \cup Range(s) \subseteq alive /\ Range(r) \cap alive = {}
      /\ alive \subseteq Objects /\ held \subseteq Objects \X Pools /\ lost \subseteq Objects
      /\ Len(s) \in Nat /\ Len(s) <= CacheFlushThreshold
  BY Apart
<1>2. /\ <<o, p>> \in held /\ held' = held \ {<<o, p>>} /\ alive' = alive \ Range(f) /\ lost' = lost
      /\ cache' = [cache EXCEPT ![t] = c] /\ global' = [global EXCEPT ![p] = Stored(g)]
  BY DEF ReleaseAndFlush
<1>3. n \in 0..Len(s) /\ n + 1 <= CacheFlushThreshold /\ n < Len(s)
  BY <1>1, HalfLeaves DEF ReleaseAndFlush, CacheIsFull, Size
<1>17. Len(s) - n > 0
  BY <1>1, <1>3
<1>4. f = SubSeq(s, n + 1, Len(s))
  BY DEF Flushed, Size
<1> HIDE DEF n, f
<1>5. a \in Seq(Objects) /\ Len(a) = n /\ f \in Seq(Objects)
  BY <1>1, <1>3, <1>4, Split
<1>6. /\ Range(s) = Range(a) \cup Range(f)
      /\ IsInjective(a) /\ IsInjective(f) /\ Range(a) \cap Range(f) = {}
  BY <1>1, <1>3, <1>4, SplitApart
<1>7. o \in Held /\ Held' = Held \ {o} /\ \A x, y \in held' : x[1] = y[1] => x = y
  BY <1>1, <1>2, HeldShrinks
<1> HIDE DEF a
<1>8. o \notin Range(a) /\ Range(r) \cap Range(f) = {}
  BY <1>1, <1>6, <1>7
<1>9. /\ c \in Seq(Objects) /\ Len(c) = Len(a) + 1 /\ Range(c) = Range(a) \cup {o}
      /\ IsInjective(c)
  BY <1>5, <1>6, <1>8, Appended
<1>10. g \in Seq(Objects) /\ Range(g) = Range(r) \cup Range(f) /\ IsInjective(g)
  BY <1>1, <1>5, <1>6, <1>8, ConcatApart, ConcatProperties
<1>16. Len(g) = Len(r) + Len(f) /\ Len(f) = Len(s) - n /\ Len(f) > 0
  BY <1>1, <1>3, <1>4, <1>5, <1>17, ConcatProperties, Split
<1> HIDE DEF g
<1>18. Range(f) \subseteq {p} \X Nodes
  <2>1. Range(s) \ Range(c) = Range(f)
    BY <1>1, <1>6, <1>7, <1>9
  <2>2. Range(f) # {}
    <3>1. Len(f) \in Nat /\ 1 \in 1..Len(f)
      BY <1>5, <1>16, LenProperties
    <3> QED BY <1>5, <3>1, RangeOfSequence
  <2>3. cache'[t] = c /\ global'[p] = Stored(g)
    BY <1>2, Apart
  <2>4. c # s
    BY <2>1, <2>2
  <2>5. Len(Stored(g)) = Len(g)
    BY <1>10, StoredType
  <2>6. Len(r) \in Nat /\ Len(r) < Len(g)
    BY <1>1, <1>16, LenProperties
  <2>7. /\ Len(global[p]) < Len(global'[p]) /\ cache'[t] # cache[t]
        /\ Range(cache[t]) \ Range(cache'[t]) = Range(f)
    BY <2>1, <2>3, <2>4, <2>5, <2>6
  <2> QED BY <2>7 DEF FlushesOwn
<1>19. Range(g) \subseteq {p} \X Nodes
  BY <1>10, <1>18, Apart
<1>15. global' = [global EXCEPT ![p] = g]
  BY <1>2, <1>10, <1>19, NothingOverwritten
<1>11. Len(c) <= CacheFlushThreshold
  BY <1>3, <1>5, <1>9
<1>12. s = cache[t] /\ r = global[p]
  OBVIOUS
<1> HIDE DEF s, c, g, r
<1>13. /\ Range(c) \cup Range(g) \cup Held' \cup lost' = Range(s) \cup Range(r) \cup Held \cup lost
       /\ Range(c) \cap Range(g) = {}
       /\ Range(c) \cap (Held' \cup lost') = {} /\ Range(g) \cap (Held' \cup lost') = {}
       /\ Held' \cap lost' = {}
  BY <1>1, <1>2, <1>6, <1>7, <1>8, <1>9, <1>10
<1>14. /\ Held' \cup Range(c) \subseteq alive' /\ Range(g) \cap alive' = {}
       /\ alive' \subseteq Objects /\ lost' \subseteq Objects /\ held' \subseteq Objects \X Pools
       /\ \A e \in Objects \ (Range(s) \cup Range(r)) : e \in alive <=> e \in alive'
  BY <1>1, <1>2, <1>6, <1>7, <1>8, <1>9, <1>10
<1> QED
  BY <1>2, <1>7, <1>9, <1>10, <1>11, <1>12, <1>13, <1>14, <1>15, <1>19, CallMoves

\* flush().
LEMMA GiveAll ==
    ASSUME IInv, FlushesOwn, NEW t \in Threads, NEW p \in Pools, Flush(t, p) PROVE IInv'
<1> DEFINE s == cache[t]
           c == <<>>
           r == global[p]
           g == r \o s
<1>1. /\ s \in Seq(Objects) /\ r \in Seq(Objects) /\ IsInjective(s) /\ IsInjective(r)
      /\ Range(s) \cap Range(r) = {} /\ Range(s) \cap (Held \cup lost) = {}
      /\ Range(r) \cap (Held \cup lost) = {} /\ Held \cap lost = {}
      /\ \A x, y \in held : x[1] = y[1] => x = y
      /\ Held \cup Range(s) \subseteq alive /\ Range(r) \cap alive = {}
      /\ alive \subseteq Objects /\ held \subseteq Objects \X Pools /\ lost \subseteq Objects
  BY Apart
<1>2. /\ held' = held /\ alive' = alive \ Range(s) /\ lost' = lost
      /\ cache' = [cache EXCEPT ![t] = c] /\ global' = [global EXCEPT ![p] = Stored(g)]
  BY DEF Flush
<1>3. g \in Seq(Objects) /\ Range(g) = Range(r) \cup Range(s) /\ IsInjective(g)
  BY <1>1, ConcatApart, ConcatProperties
<1>4. c \in Seq(Objects) /\ Len(c) <= CacheFlushThreshold /\ Range(c) = {} /\ IsInjective(c)
  BY EmptyRange, FitsAssumption
<1>5. s = cache[t] /\ r = global[p] /\ Held' = Held
  BY <1>2 DEF Held
<1>9. Range(s) \subseteq {p} \X Nodes
  <2>1. cache'[t] = <<>> /\ global'[p] = Stored(g)
    BY <1>2, Apart
  <2>2. Len(s) \in Nat /\ Len(s) > 0 /\ s # <<>> /\ Len(r) \in Nat
    <3>1. Len(s) \in Nat /\ Len(r) \in Nat /\ Len(s) > 0
      BY <1>1, LenProperties DEF Flush, Size
    <3> QED BY <3>1, EmptySeq
  <2>3. Len(g) = Len(r) + Len(s)
    BY <1>1, ConcatProperties
  <2> HIDE DEF g
  <2>4. Len(Stored(g)) = Len(g)
    BY <1>3, StoredType
  <2>5. Len(global[p]) < Len(global'[p])
    <3>1. Len(global'[p]) = Len(r) + Len(s)
      BY <2>1, <2>3, <2>4
    <3> HIDE DEF r, s
    <3>2. Len(r) < Len(r) + Len(s)
      BY <2>2
    <3> QED BY <1>5, <3>1, <3>2
  <2>6. cache'[t] # cache[t] /\ Range(cache[t]) \ Range(cache'[t]) = Range(s)
    BY <1>4, <1>5, <2>1, <2>2
  <2> QED BY <2>5, <2>6 DEF FlushesOwn
<1>10. Range(g) \subseteq {p} \X Nodes
  BY <1>3, <1>9, Apart
<1> HIDE DEF s, c, g, r
<1>8. global' = [global EXCEPT ![p] = g]
  BY <1>2, <1>3, <1>10, NothingOverwritten
<1>6. /\ Range(c) \cup Range(g) \cup Held' \cup lost' = Range(s) \cup Range(r) \cup Held \cup lost
      /\ Range(c) \cap Range(g) = {}
      /\ Range(c) \cap (Held' \cup lost') = {} /\ Range(g) \cap (Held' \cup lost') = {}
      /\ Held' \cap lost' = {} /\ \A x, y \in held' : x[1] = y[1] => x = y
  BY <1>1, <1>2, <1>3, <1>4, <1>5
<1>7. /\ Held' \cup Range(c) \subseteq alive' /\ Range(g) \cap alive' = {}
      /\ alive' \subseteq Objects /\ lost' \subseteq Objects /\ held' \subseteq Objects \X Pools
      /\ \A e \in Objects \ (Range(s) \cup Range(r)) : e \in alive <=> e \in alive'
  BY <1>1, <1>2, <1>3, <1>4, <1>5
<1> QED
  BY <1>2, <1>3, <1>4, <1>5, <1>6, <1>7, <1>8, <1>10, CallMoves

\* A thread ends.
LEMMA CacheLost == ASSUME IInv, NEW t \in Threads, ThreadEnds(t) PROVE IInv'
<1> DEFINE s == cache[t]
<1>1. /\ cache \in [Threads -> Seq(Objects)] /\ global \in [Pools -> Seq(Objects)]
      /\ alive \subseteq Objects /\ held \subseteq Objects \X Pools /\ lost \subseteq Objects
      /\ \A u \in Threads : Len(cache[u]) <= CacheFlushThreshold
  BY DEF IInv, TypeOK, Size
<1>2. s \in Seq(Objects) /\ Range(s) \subseteq Objects
  BY <1>1, RangeOfSequence
<1>3. /\ lost' = lost \cup Range(s) /\ cache' = [cache EXCEPT ![t] = <<>>]
      /\ held' = held /\ alive' = alive /\ global' = global
  BY DEF ThreadEnds
<1>4. /\ Len(<<>>) = 0 /\ <<>> \in Seq(Objects) /\ Range(<<>>) = {} /\ IsInjective(<<>>)
  BY EmptySeq, EmptyRange
<1>5. /\ cache'[t] = <<>> /\ \A u \in Threads \ {t} : cache'[u] = cache[u]
      /\ cache' \in [Threads -> Seq(Objects)]
  BY <1>1, <1>3, <1>4
<1>6. TypeOK'
  <2>1. \A u \in Threads : Len(cache'[u]) <= CacheFlushThreshold
    BY <1>1, <1>4, <1>5, FitsAssumption
  <2>2. Objects' = Objects
    BY DEF Objects
  <2>3. lost' \subseteq Objects
    BY <1>1, <1>2, <1>3
  <2> QED BY <1>1, <1>3, <1>5, <2>1, <2>2, <2>3 DEF TypeOK, Size
<1>7. t \in Keepers /\ Kept(t) = s /\ Kept(t)' = <<>>
  BY <1>5, Places
<1>8. ASSUME NEW m \in Keepers \ {t, t} PROVE Kept(m)' = Kept(m)
  BY <1>3, <1>5 DEF Keepers, Kept
<1>9. OneOwner
  BY DEF IInv
<1>10. Held' = Held
  BY <1>3 DEF Held
<1>11. /\ Range(Kept(t)) \cap (Held \cup lost) = {} /\ Held \cap lost = {}
       /\ \A x, y \in held : x[1] = y[1] => x = y
  BY <1>7, <1>9 DEF OneOwner
<1>12. /\ Range(Kept(t)') = {} /\ IsInjective(Kept(t)')
       /\ Range(Kept(t)') \cup Range(Kept(t)') \cup Held' \cup lost'
            = Range(Kept(t)) \cup Range(Kept(t)) \cup Held \cup lost
       /\ Held' \cap lost' = {} /\ \A x, y \in held' : x[1] = y[1] => x = y
  BY <1>3, <1>4, <1>7, <1>10, <1>11
<1>13. OneOwner'
  BY <1>7, <1>8, <1>9, <1>12, TwoMove
<1>14. Lifetimes'
  <2>1. /\ Held \subseteq alive /\ \A u \in Threads : Range(cache[u]) \subseteq alive
        /\ \A q \in Pools : Range(global[q]) \cap alive = {}
    BY DEF IInv, Lifetimes
  <2>2. \A u \in Threads : Range(cache'[u]) \subseteq alive
    BY <1>4, <1>5, <2>1
  <2> QED BY <1>3, <1>10, <2>1, <2>2 DEF Lifetimes
<1>15. OwnObjectsOnly'
  BY <1>3 DEF IInv, OwnObjectsOnly
<1> QED
  BY <1>6, <1>13, <1>14, <1>15 DEF IInv
-----------------------------------------------------------------------------
\* A new pool: `line` has every node once, so the pool has every object once.
LEMMA NewLine ==
    ASSUME NEW line \in SetToSeqs(Nodes), NEW p \in Pools
    PROVE  LET g == [k \in DOMAIN line |-> <<p, line[k]>>]
           IN  g \in Seq(Objects) /\ IsInjective(g) /\ Range(g) = {p} \X Nodes
<1> DEFINE n == Cardinality(Nodes)
           g == [k \in DOMAIN line |-> <<p, line[k]>>]
<1>1. n \in Nat
  BY NodesAssumption, FS_CardinalityType
<1>2. line \in [1..n -> Nodes] /\ \A i, j \in 1..n : i # j => line[i] # line[j]
  BY DEF SetToSeqs
<1>3. line \in Surjection(1..n, Nodes)
  <2>1. line \in Injection(1..n, Nodes)
    BY <1>2 DEF Injection, IsInjective
  <2>2. Cardinality(1..n) = Cardinality(Nodes)
    BY <1>1, FS_Interval
  <2> QED BY <2>1, <2>2, NodesAssumption, FS_Injection
<1>4. g = [k \in 1..n |-> <<p, line[k]>>]
  BY <1>2
<1> HIDE DEF n, g
<1>5. \A i \in 1..n : <<p, line[i]>> \in Objects
  BY <1>2 DEF Objects
<1>6. g \in [1..n -> Objects] /\ g \in Seq(Objects)
  BY <1>1, <1>4, <1>5, SeqDef
<1>7. IsInjective(g)
  BY <1>2, <1>4 DEF IsInjective
<1>8. Range(g) = {p} \X Nodes
  <2>1. ASSUME NEW m \in Nodes PROVE <<p, m>> \in Range(g)
    <3>1. PICK i \in 1..n : line[i] = m
      BY <1>3 DEF Surjection
    <3> QED BY <1>4, <3>1 DEF Range
  <2>2. ASSUME NEW o \in Range(g) PROVE o \in {p} \X Nodes
    BY <1>2, <1>4 DEF Range
  <2> QED BY <2>1, <2>2
<1> QED
  BY <1>6, <1>7, <1>8 DEF g

\* New pools, and threads that have not used them.
LEMMA IInvInit == ASSUME Init PROVE IInv
<1>1. PICK line \in SetToSeqs(Nodes) :
        global = [p \in Pools |-> [k \in DOMAIN line |-> <<p, line[k]>>]]
  BY DEF Init
<1>2. /\ cache = [t \in Threads |-> <<>>] /\ alive = {} /\ held = {} /\ lost = {}
  BY DEF Init
<1>3. /\ Len(<<>>) = 0 /\ <<>> \in Seq(Objects) /\ Range(<<>>) = {} /\ IsInjective(<<>>)
  BY EmptySeq, EmptyRange
<1>4. \A p \in Pools : global[p] \in Seq(Objects) /\ IsInjective(global[p])
                       /\ Range(global[p]) = {p} \X Nodes
  BY <1>1, NewLine
<1>5. \A t \in Threads : cache[t] = <<>>
  BY <1>2
<1>6. TypeOK
  <2>1. global \in [Pools -> Seq(Objects)]
    BY <1>1, <1>4
  <2>2. cache \in [Threads -> Seq(Objects)]
    BY <1>2, <1>3
  <2>3. \A t \in Threads : Len(cache[t]) <= CacheFlushThreshold
    BY <1>3, <1>5, FitsAssumption
  <2> QED BY <1>2, <2>1, <2>2, <2>3 DEF TypeOK, Size
<1>7. Held = {}
  BY <1>2 DEF Held
<1>8. ASSUME NEW k \in Keepers
      PROVE  /\ IsInjective(Kept(k)) /\ (k \notin Pools => Range(Kept(k)) = {})
             /\ k \in Pools => Range(Kept(k)) = {k} \X Nodes
  BY <1>3, <1>4, <1>5 DEF Keepers, Kept
<1>9. ASSUME NEW k \in Keepers, NEW l \in Keepers \ {k}
      PROVE  Range(Kept(k)) \cap Range(Kept(l)) = {}
  <2>1. CASE k \in Pools /\ l \in Pools
    <3>1. Range(Kept(k)) = {k} \X Nodes /\ Range(Kept(l)) = {l} \X Nodes
      BY <1>8, <2>1
    <3> QED BY <3>1
  <2>2. CASE k \notin Pools
    BY <1>8, <2>2
  <2>3. CASE l \notin Pools
    BY <1>8, <2>3
  <2> QED BY <2>1, <2>2, <2>3
<1>10. ASSUME NEW o PROVE o \in Objects <=> \E k \in Keepers : o \in Range(Kept(k))
  <2>1. ASSUME o \in Objects PROVE \E k \in Keepers : o \in Range(Kept(k))
    <3>1. PICK p \in Pools : o \in {p} \X Nodes
      BY <2>1 DEF Objects
    <3>2. p \in Keepers
      BY DEF Keepers
    <3> QED BY <1>8, <3>1, <3>2
  <2>2. ASSUME NEW k \in Keepers, o \in Range(Kept(k)) PROVE o \in Objects
    <3>1. k \in Pools /\ o \in {k} \X Nodes
      BY <1>8, <2>2
    <3> QED BY <3>1 DEF Objects
  <2> QED BY <2>1, <2>2
<1>11. Objects = (UNION {Range(Kept(k)) : k \in Keepers}) \cup Held \cup lost
  BY <1>2, <1>7, <1>10
<1>12. OneOwner
  <2>1. Held \cup lost = {} /\ Held \cap lost = {}
    BY <1>2, <1>7
  <2>2. \A k \in Keepers : Range(Kept(k)) \cap (Held \cup lost) = {}
    BY <2>1
  <2>3. \A x, y \in held : x[1] = y[1] => x = y
    BY <1>2
  <2> QED BY <1>8, <1>9, <1>11, <2>1, <2>2, <2>3 DEF OneOwner
<1>13. Lifetimes
  BY <1>2, <1>3, <1>5, <1>7 DEF Lifetimes
<1>14. OwnObjectsOnly
  BY <1>4 DEF OwnObjectsOnly
<1> QED
  BY <1>6, <1>12, <1>13, <1>14 DEF IInv

\* Every step of Next keeps the invariant, and so does one that changes nothing.
LEMMA IInvStep == ASSUME IInv, [FlushesOwn]_vars, [Next]_vars PROVE IInv'
<1>1. CASE UNCHANGED vars
  <2>1. TypeOK'
    BY <1>1 DEF IInv, vars, TypeOK, Size, Objects
  <2>2. \A k \in Keepers : Kept(k)' = Kept(k)
    BY <1>1 DEF vars, Kept, Keepers
  <2>3. Held' = Held /\ lost' = lost /\ held' = held
    BY <1>1 DEF vars, Held
  <2>4. OneOwner'
    BY <2>2, <2>3 DEF IInv, OneOwner, Keepers, Objects
  <2>5. Lifetimes'
    BY <1>1, <2>3 DEF IInv, Lifetimes, vars
  <2>6. OwnObjectsOnly'
    BY <1>1 DEF IInv, OwnObjectsOnly, vars
  <2> QED BY <2>1, <2>4, <2>5, <2>6 DEF IInv
<1>2. CASE Next /\ ~UNCHANGED vars
  <2>1. PICK t \in Threads :
           \/ \E p \in Pools :
                 \/ AcquireCached(t, p)
                 \/ AcquireBatch(t, p)
                 \/ \E k \in 0..(BatchSize - 1) : AcquireThrows(t, p, k)
                 \/ \E o \in Objects : Release(t, p, o)
                 \/ \E o \in Objects : ReleaseAndFlush(t, p, o)
                 \/ Flush(t, p)
           \/ ThreadEnds(t)
    BY <1>2 DEF Next
  <2>2. CASE ThreadEnds(t)
    BY <2>2, CacheLost
  <2>3. ASSUME NEW p \in Pools, AcquireCached(t, p) PROVE IInv'
    BY <2>3, TakeCached
  <2>4. ASSUME NEW p \in Pools, AcquireBatch(t, p) PROVE IInv'
    BY <2>4, TakeBatch
  <2>5. ASSUME NEW p \in Pools, NEW k \in 0..(BatchSize - 1), AcquireThrows(t, p, k) PROVE IInv'
    BY <2>5, LoseBatch
  <2>6. ASSUME NEW p \in Pools, NEW o \in Objects, Release(t, p, o) PROVE IInv'
    BY <2>6, GiveCached
  <2>7. ASSUME NEW p \in Pools, NEW o \in Objects, ReleaseAndFlush(t, p, o) PROVE IInv'
    BY <1>2, <2>7, GiveHalf
  <2>8. ASSUME NEW p \in Pools, Flush(t, p) PROVE IInv'
    BY <1>2, <2>8, GiveAll
  <2> QED BY <2>1, <2>2, <2>3, <2>4, <2>5, <2>6, <2>7, <2>8
<1> QED BY <1>1, <1>2

\* The invariant holds in every reachable state.
LEMMA PoolInvariant == Spec /\ [][FlushesOwn]_vars => []IInv
<1>1. Init => IInv
  BY IInvInit
<1>2. IInv /\ [FlushesOwn]_vars /\ [Next]_vars => IInv'
  BY IInvStep
<1> QED BY <1>1, <1>2, PTL DEF Spec

\* Whatever pools share the caches, the types are kept.
LEMMA TypeStep == ASSUME TypeOK, [Next]_vars PROVE TypeOK'
<1>1. /\ cache \in [Threads -> Seq(Objects)] /\ global \in [Pools -> Seq(Objects)]
      /\ alive \subseteq Objects /\ held \subseteq Objects \X Pools /\ lost \subseteq Objects
      /\ \A t \in Threads : /\ Len(cache[t]) <= CacheFlushThreshold /\ Len(cache[t]) \in Nat
                            /\ Range(cache[t]) \subseteq Objects
  <2>1. \A t \in Threads : cache[t] \in Seq(Objects)
    BY DEF TypeOK
  <2> QED BY <2>1, LenProperties, RangeOfSequence DEF TypeOK, Size
<1>2. Objects' = Objects
  BY DEF Objects
<1>3. ASSUME NEW t \in Threads, NEW c \in Seq(Objects), cache' = [cache EXCEPT ![t] = c],
             Len(c) <= CacheFlushThreshold, global' \in [Pools -> Seq(Objects)],
             alive' \subseteq Objects, held' \subseteq Objects \X Pools, lost' \subseteq Objects
      PROVE  TypeOK'
  <2>1. cache' \in [Threads -> Seq(Objects)]
    BY <1>1, <1>3
  <2>2. \A u \in Threads : Len(cache'[u]) <= CacheFlushThreshold
    BY <1>1, <1>3
  <2> QED BY <1>2, <1>3, <2>1, <2>2 DEF TypeOK, Size
<1>4. ASSUME NEW t \in Threads, NEW p \in Pools, AcquireCached(t, p) PROVE TypeOK'
  <2>1. cache[t] # <<>> /\ cache[t] \in Seq(Objects)
    BY <1>1, <1>4, EmptySeq DEF AcquireCached, Size
  <2>2. /\ Front(cache[t]) \in Seq(Objects) /\ Len(Front(cache[t])) = Len(cache[t]) - 1
        /\ Last(cache[t]) \in Objects
    BY <2>1, FrontAndLast
  <2>3. Len(Front(cache[t])) <= CacheFlushThreshold
    BY <1>1, <2>2, FitsAssumption
  <2>4. /\ cache' = [cache EXCEPT ![t] = Front(cache[t])] /\ held' = held \cup {<<Last(cache[t]), p>>}
        /\ UNCHANGED <<global, alive, lost>>
    BY <1>4 DEF AcquireCached
  <2>5. held' \subseteq Objects \X Pools
    BY <1>1, <2>2, <2>4
  <2> QED BY <1>1, <1>3, <2>2, <2>3, <2>4, <2>5
<1>5. ASSUME NEW p \in Pools
      PROVE  /\ Batch(p) \in Seq(Objects) /\ WithoutBatch(p) \in Seq(Objects)
             /\ Len(Batch(p)) \in Nat /\ Len(Batch(p)) <= BatchSize
             /\ Range(Batch(p)) \subseteq Objects
  BY BatchTaken, RangeOfSequence
<1>6. ASSUME NEW t \in Threads, NEW p \in Pools, AcquireBatch(t, p) PROVE TypeOK'
  <2>1. /\ Front(Batch(p)) \in Seq(Objects) /\ Len(Front(Batch(p))) <= CacheFlushThreshold
        /\ Last(Batch(p)) \in Objects
    BY <1>5, <1>6, FrontAndLast, FitsAssumption DEF AcquireBatch, Refuses
  <2>2. global' \in [Pools -> Seq(Objects)]
    BY <1>1, <1>5, <1>6 DEF AcquireBatch
  <2>3. alive' \subseteq Objects /\ held' \subseteq Objects \X Pools
    BY <1>1, <1>5, <1>6, <2>1 DEF AcquireBatch
  <2> QED BY <1>1, <1>3, <1>6, <2>1, <2>2, <2>3 DEF AcquireBatch
<1>7. ASSUME NEW t \in Threads, NEW p \in Pools, NEW k \in 0..(BatchSize - 1), AcquireThrows(t, p, k)
      PROVE  TypeOK'
  <2>1. {Batch(p)[i] : i \in 1..k} \subseteq Objects
    <3>1. \A i \in 1..k : i \in 1..Len(Batch(p))
      BY <1>5, <1>7, FitsAssumption DEF AcquireThrows
    <3> QED BY <1>5, <3>1, ElementOfSeq
  <2>2. global' \in [Pools -> Seq(Objects)]
    BY <1>1, <1>5, <1>7 DEF AcquireThrows
  <2>3. alive' \subseteq Objects /\ lost' \subseteq Objects
    BY <1>1, <1>5, <1>7, <2>1 DEF AcquireThrows
  <2> QED BY <1>1, <1>2, <1>7, <2>2, <2>3 DEF AcquireThrows, TypeOK, Size
<1>8. ASSUME NEW t \in Threads, NEW p \in Pools, NEW o \in Objects, Release(t, p, o) PROVE TypeOK'
  <2>1. Append(cache[t], o) \in Seq(Objects) /\ Len(Append(cache[t], o)) = Len(cache[t]) + 1
    BY <1>1, Appended
  <2>2. Len(cache[t]) + 1 <= CacheFlushThreshold
    BY <1>1, <1>8, FitsAssumption DEF Release, CacheIsFull, Size
  <2> QED BY <1>1, <1>3, <1>8, <2>1, <2>2 DEF Release
<1>9. ASSUME NEW t \in Threads, NEW p \in Pools, NEW s \in Seq(Objects)
      PROVE  [global EXCEPT ![p] = Stored(@ \o s)] \in [Pools -> Seq(Objects)]
  <2>1. global[p] \o s \in Seq(Objects)
    BY <1>1, ConcatProperties
  <2>2. Stored(global[p] \o s) \in Seq(Objects)
    BY <2>1, StoredType
  <2> QED BY <1>1, <2>2
<1>10. ASSUME NEW t \in Threads, NEW p \in Pools, NEW o \in Objects, ReleaseAndFlush(t, p, o)
       PROVE  TypeOK'
  <2> DEFINE m == Size(t) - Half(t)
             a == SubSeq(cache[t], 1, m)
  <2>1. m \in 0..Len(cache[t]) /\ m + 1 <= CacheFlushThreshold
    <3>1. /\ Size(t) \in Nat /\ Size(t) >= CacheFlushThreshold
          /\ Size(t) <= CacheFlushThreshold
      BY <1>1, <1>10 DEF ReleaseAndFlush, CacheIsFull, Size
    <3> QED BY <3>1, HalfLeaves
  <2>2. a \in Seq(Objects) /\ Len(a) = m /\ Flushed(t) \in Seq(Objects)
    BY <1>1, <2>1, Split DEF Flushed, Size
  <2>3. Append(a, o) \in Seq(Objects) /\ Len(Append(a, o)) = m + 1
    BY <2>2, Appended
  <2>4. global' \in [Pools -> Seq(Objects)]
    BY <1>9, <1>10, <2>2 DEF ReleaseAndFlush
  <2>5. cache' = [cache EXCEPT ![t] = Append(a, o)]
    BY <1>10 DEF ReleaseAndFlush
  <2>6. alive' \subseteq Objects /\ held' \subseteq Objects \X Pools /\ lost' \subseteq Objects
    BY <1>1, <1>10 DEF ReleaseAndFlush
  <2> HIDE DEF a, m
  <2> QED BY <1>3, <2>1, <2>3, <2>4, <2>5, <2>6
<1>11. ASSUME NEW t \in Threads, cache' = [cache EXCEPT ![t] = <<>>],
              global' \in [Pools -> Seq(Objects)], alive' \subseteq Objects,
              held' = held, lost' \subseteq Objects
       PROVE  TypeOK'
  <2>1. <<>> \in Seq(Objects) /\ Len(<<>>) <= CacheFlushThreshold
    BY EmptySeq, FitsAssumption
  <2> QED BY <1>1, <1>3, <1>11, <2>1
<1>12. ASSUME NEW t \in Threads, NEW p \in Pools, Flush(t, p) PROVE TypeOK'
  <2>1. global' \in [Pools -> Seq(Objects)]
    BY <1>1, <1>9, <1>12 DEF Flush
  <2> QED BY <1>1, <1>11, <1>12, <2>1 DEF Flush
<1>13. ASSUME NEW t \in Threads, ThreadEnds(t) PROVE TypeOK'
  BY <1>1, <1>11, <1>13 DEF ThreadEnds
<1>14. CASE UNCHANGED vars
  BY <1>2, <1>14 DEF vars, TypeOK, Size
<1> QED
  BY <1>4, <1>6, <1>7, <1>8, <1>10, <1>12, <1>13, <1>14 DEF Next
-----------------------------------------------------------------------------
\* Every variable keeps its type.
LEMMA Typed == Spec => []TypeOK
<1>1. Init => TypeOK
  BY IInvInit DEF IInv
<1>2. TypeOK /\ [Next]_vars => TypeOK'
  BY TypeStep
<1> QED BY <1>1, <1>2, PTL DEF Spec

\* For any number of pools of one type, whose caches are the same: while each
\* object is flushed to its own pool, every object is in one place and once and
\* lives where it should, no pool gets another's object and nothing in a buffer
\* is ever overwritten.
THEOREM OwnFlushesSuffice ==
    Spec /\ [][FlushesOwn]_vars => [](OneOwner /\ Lifetimes /\ OwnObjectsOnly)
<1>1. IInv => OneOwner /\ Lifetimes /\ OwnObjectsOnly
  BY DEF IInv
<1> QED BY <1>1, PoolInvariant, PTL

\* A pool that shares its caches with no other flushes nothing but its own.
LEMMA OnlyOwnObjects == ASSUME OnePool PROVE Spec => [][FlushesOwn]_vars
<1>1. TypeOK => FlushesOwn
  <2> SUFFICES ASSUME TypeOK, NEW t \in Threads, NEW p \in Pools
               PROVE  Range(cache[t]) \subseteq {p} \X Nodes
    BY DEF FlushesOwn
  <2>1. Range(cache[t]) \subseteq Objects
    BY RangeOfSequence DEF TypeOK
  <2> QED BY <2>1 DEF Objects, OnePool
<1> QED BY <1>1, Typed, PTL

\* Half a cache is no more than the cache.
LEMMA HalfIsLess ==
    ASSUME TypeOK, NEW t \in Threads
    PROVE  /\ cache[t] \in Seq(Objects) /\ Len(cache[t]) \in Nat /\ Len(Flushed(t)) \in Nat
           /\ Len(cache[t]) <= CacheFlushThreshold /\ Len(Flushed(t)) <= Len(cache[t])
<1>1. /\ cache[t] \in Seq(Objects) /\ Len(cache[t]) \in Nat /\ Len(cache[t]) <= CacheFlushThreshold
  BY LenProperties DEF TypeOK, Size
<1>2. PICK n \in Nat : n = Len(cache[t])
  BY <1>1
<1>3. PICK m \in 0..n : m = Size(t) - Half(t)
  <2>1. \A i \in Nat : i \div 2 \in 0..i
    OBVIOUS
  <2>2. PICK h \in 0..n : h = Half(t)
    BY <1>2, <2>1 DEF Size, Half
  <2> QED BY <1>2, <2>2 DEF Size
<1>4. Flushed(t) = SubSeq(cache[t], m + 1, n)
  BY <1>2, <1>3 DEF Flushed, Size
<1>5. Len(Flushed(t)) = n - m
  BY <1>1, <1>2, <1>3, <1>4, Split
<1> QED BY <1>1, <1>2, <1>3, <1>5

\* The only pool's objects fit its buffer, wherever they are.
LEMMA OwnFit == ASSUME IInv, OnePool PROVE CopiesFit
<1>1. Capacity \in Nat
  BY NodesAssumption, FS_CardinalityType DEF Capacity
<1>2. ASSUME NEW t \in Threads PROVE Copied(cache[t]) /\ Copied(Flushed(t))
  <2>1. /\ cache[t] \in Seq(Objects) /\ Len(cache[t]) \in Nat /\ Len(Flushed(t)) \in Nat
        /\ Len(Flushed(t)) <= Len(cache[t])
    BY HalfIsLess DEF IInv
  <2>2. CASE Len(cache[t]) = 0
    BY <1>1, <2>1, <2>2 DEF Copied
  <2>3. CASE Len(cache[t]) # 0
    <3>1. Range(cache[t]) \subseteq Objects /\ cache[t][1] \in Objects
      <4>1. 1 \in 1..Len(cache[t])
        BY <2>1, <2>3
      <4> QED BY <2>1, <4>1, RangeOfSequence, ElementOfSeq
    <3>2. PICK p \in Pools : Objects = {p} \X Nodes
      BY <3>1 DEF Objects, OnePool
    <3>3. IsInjective(cache[t])
      BY <3>2, Apart
    <3>4. Copied(cache[t])
      BY <2>1, <3>1, <3>2, <3>3, NothingOverwritten
    <3> QED BY <1>1, <2>1, <3>4 DEF Copied
  <2> QED BY <2>2, <2>3
<1>3. ASSUME NEW p \in Pools PROVE Copied(Batch(p))
  <2>1. /\ Batch(p) \in Seq(Objects) /\ IsInjective(Batch(p))
    BY BatchTaken DEF IInv, OneOwner, Keepers, Kept
  <2>2. Range(Batch(p)) \subseteq {p} \X Nodes
    <3>1. Range(Batch(p)) \subseteq Objects
      BY <2>1, RangeOfSequence
    <3> QED BY <3>1 DEF Objects, OnePool
  <2> QED BY <2>1, <2>2, NothingOverwritten
<1> QED BY <1>2, <1>3 DEF CopiesFit

\* Every variable keeps its type, no cache outgrows its array, and no batch is
\* copied past the buffer of a pool, when no other pool shares the caches or the
\* caches are no larger than the pools.
THEOREM TypeCorrect ==
    ASSUME OnePool \/ CacheFlushThreshold <= Capacity
    PROVE  Spec => [](TypeOK /\ CopiesFit)
<1>1. CASE OnePool
  <2>1. IInv => TypeOK /\ CopiesFit
    BY <1>1, OwnFit DEF IInv
  <2> QED BY <1>1, <2>1, OnlyOwnObjects, PoolInvariant, PTL
<1>2. CASE CacheFlushThreshold <= Capacity
  <2>1. TypeOK => CopiesFit
    <3> SUFFICES ASSUME TypeOK PROVE CopiesFit
      OBVIOUS
    <3>1. Capacity \in Nat
      BY NodesAssumption, FS_CardinalityType DEF Capacity
    <3>2. ASSUME NEW t \in Threads PROVE Copied(cache[t]) /\ Copied(Flushed(t))
      BY <1>2, <3>1, HalfIsLess, FitsAssumption DEF Copied
    <3>3. ASSUME NEW p \in Pools PROVE Copied(Batch(p))
      <4>1. Len(Batch(p)) \in Nat /\ Len(Batch(p)) <= BatchSize
        BY BatchTaken
      <4> QED BY <1>2, <3>1, <4>1, FitsAssumption DEF Copied
    <3> QED BY <3>2, <3>3 DEF CopiesFit
  <2> QED BY <2>1, Typed, PTL
<1> QED BY <1>1, <1>2

\* Every object is in one place and once, however many threads cache objects,
\* through batches, half flushes, throwing constructors and threads that end with a
\* full cache; and so nothing in the pool's buffer is ever overwritten.
THEOREM OneOwnerEach == ASSUME OnePool PROVE Spec => []OneOwner
BY OnlyOwnObjects, OwnFlushesSuffice, PTL

\* A T lives in what the program and the caches hold and in nothing that is free
\* in a pool: acquire() and _flush_half() construct and destroy each object in turn.
THEOREM LifetimesKept == ASSUME OnePool PROVE Spec => []Lifetimes
BY OnlyOwnObjects, OwnFlushesSuffice, PTL
-----------------------------------------------------------------------------
\* When acquire() has nothing to return, what is neither held nor lost is in the
\* caches of the other threads.
LEMMA Elsewhere ==
    ASSUME IInv, NEW t \in Threads, NEW p \in Pools, Refuses(t, p),
           NEW o \in {p} \X Nodes, o \notin Held \cup lost
    PROVE  \E w \in (Threads \ {t}) \X (1..CacheFlushThreshold) : cache[w[1]][w[2]] = o
<1>1. /\ cache \in [Threads -> Seq(Objects)] /\ global \in [Pools -> Seq(Objects)]
      /\ \A u \in Threads : Len(cache[u]) <= CacheFlushThreshold
  BY DEF IInv, TypeOK, Size
<1>2. o \in Objects
  BY DEF Objects
<1>3. PICK k \in Keepers : o \in Range(Kept(k))
  BY <1>2 DEF IInv, OneOwner
<1>4. global[p] = <<>>
  <2>1. PICK n \in Nat : n = Len(global[p])
    BY <1>1, LenProperties
  <2>2. CASE n > 0
    <3>1. PICK b \in 0..n : b = (IF BatchSize < n THEN BatchSize ELSE n) /\ b > 0
      BY <2>2, FitsAssumption
    <3>2. Batch(p) = SubSeq(global[p], 1, b)
      BY <2>1, <3>1 DEF Batch
    <3>3. Len(SubSeq(global[p], 1, b)) = b
      BY <1>1, <2>1, Split
    <3> QED BY <3>1, <3>2, <3>3, EmptySeq DEF Refuses
  <2> QED BY <1>1, <2>1, <2>2, EmptySeq
<1>5. CASE k \in Pools
  <2>1. Kept(k) = global[k] /\ Range(global[k]) \subseteq {k} \X Nodes
    BY <1>5, Places DEF IInv, OwnObjectsOnly
  <2>2. k = p
    BY <1>3, <2>1
  <2> QED BY <1>3, <1>4, <2>1, <2>2, EmptyRange
<1>6. CASE k \in Threads
  <2>1. Kept(k) = cache[k] /\ cache[k] \in Seq(Objects)
    BY <1>1, <1>6, Places
  <2>2. PICK i \in 1..Len(cache[k]) : cache[k][i] = o
    BY <1>3, <2>1, RangeOfSequence
  <2>3. k # t
    BY <2>2 DEF Refuses, Size
  <2>4. i \in 1..CacheFlushThreshold
    BY <1>1, <1>6, <2>1, LenProperties, FitsAssumption
  <2>5. <<k, i>> \in (Threads \ {t}) \X (1..CacheFlushThreshold)
    BY <1>6, <2>3, <2>4
  <2>6. cache[<<k, i>>[1]][<<k, i>>[2]] = o
    BY <2>2
  <2> QED BY <2>5, <2>6
<1> QED BY <1>5, <1>6 DEF Keepers

\* Those are no more than the caches have room for.
LEMMA Stranded ==
    ASSUME IInv, IsFiniteSet(Threads), NEW t \in Threads, NEW p \in Pools,
           Refuses(t, p)
    PROVE  Capacity <= Cardinality((Held \cup lost) \cap ({p} \X Nodes))
                         + ((Cardinality(Threads) - 1) * CacheFlushThreshold)
<1> DEFINE S == {p} \X Nodes
           A == (Held \cup lost) \cap S
           D == S \ A
           W == (Threads \ {t}) \X (1..CacheFlushThreshold)
           f == [o \in D |-> CHOOSE w \in W : cache[w[1]][w[2]] = o]
<1>1. IsFiniteSet(S) /\ Cardinality(S) = Capacity /\ Capacity \in Nat
  <2>1. IsFiniteSet({p}) /\ Cardinality({p}) = 1
    BY FS_Singleton
  <2>2. Cardinality(Nodes) \in Nat
    BY NodesAssumption, FS_CardinalityType
  <2>3. IsFiniteSet(S) /\ Cardinality(S) = Cardinality({p}) * Cardinality(Nodes)
    BY <2>1, NodesAssumption, FS_Product
  <2> HIDE DEF S
  <2> QED BY <2>1, <2>2, <2>3 DEF Capacity
<1>2. \A o \in D : \E w \in W : cache[w[1]][w[2]] = o
  BY Elsewhere
<1>3. IsFiniteSet(W) /\ Cardinality(W) = (Cardinality(Threads) - 1) * CacheFlushThreshold
  <2>1. /\ IsFiniteSet(Threads \ {t}) /\ Cardinality(Threads \ {t}) = Cardinality(Threads) - 1
    BY FS_RemoveElement
  <2>2. IsFiniteSet(1..CacheFlushThreshold) /\ Cardinality(1..CacheFlushThreshold) = CacheFlushThreshold
    BY FS_Interval, FitsAssumption
  <2>3. /\ IsFiniteSet(W)
        /\ Cardinality(W) = Cardinality(Threads \ {t}) * Cardinality(1..CacheFlushThreshold)
    BY <2>1, <2>2, FS_Product, Zenon
  <2> HIDE DEF W
  <2> QED BY <2>1, <2>2, <2>3
<1>4. IsFiniteSet(D) /\ IsFiniteSet(A) /\ Cardinality(D) = Cardinality(S) - Cardinality(A)
  <2>1. S \cap A = A /\ A \in SUBSET S
    OBVIOUS
  <2> HIDE DEF S, A
  <2> QED BY <1>1, <2>1, FS_Difference, FS_Subset
<1> HIDE DEF D, W
<1>5. f \in [D -> W] /\ \A o \in D : cache[f[o][1]][f[o][2]] = o
  BY <1>2
<1> HIDE DEF f
<1>6. f \in Injection(D, W)
  BY <1>5 DEF Injection, IsInjective
<1>7. Cardinality(D) <= Cardinality(W)
  BY <1>3, <1>6, FS_Injection
<1>8. Cardinality(A) \in Nat /\ Cardinality(D) \in Nat /\ Cardinality(W) \in Nat
  BY <1>3, <1>4, FS_CardinalityType
<1>9. Capacity <= Cardinality(A) + Cardinality(W)
  BY <1>1, <1>4, <1>7, <1>8
<1> QED BY <1>3, <1>9

\* A pool that has objects for what the program holds, for what it loses, and for
\* a full cache in every thread but one never answers nullptr: so much can be out
\* of a thread's reach and no more.
THEOREM RefusalsBounded ==
    ASSUME IsFiniteSet(Threads)
    PROVE  Spec /\ [][FlushesOwn]_vars => []RefusedOnlyNearlyEmpty
<1>1. IInv => RefusedOnlyNearlyEmpty
  BY Stranded DEF RefusedOnlyNearlyEmpty
<1> QED BY <1>1, PoolInvariant, PTL
=============================================================================
