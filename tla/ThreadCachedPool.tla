-------------------------- MODULE ThreadCachedPool --------------------------
(***************************************************************************)
(* ThreadCachedObjectPool<T, BatchSize, CacheFlushThreshold> of            *)
(* include/sync_tools/object_pool.hpp: a cache of pointers per thread over *)
(* a global ObjectPool.                                                    *)
(*                                                                         *)
(* The cache is a `static thread_local` of the class, so there is one per  *)
(* thread and type: every pool of one type, Pools here, uses the same.     *)
(* Each call touches its own thread's cache and enters at most one         *)
(* critical section of one global pool, which is taken here for what       *)
(* ObjectPool is checked to implement, AbstractPool: a line of free        *)
(* objects from which a batch is taken, or put back, at one moment.  A     *)
(* call is therefore one step.  AbstractPool's callers give back what they *)
(* took from it; through a cache a pool can also be given the objects of   *)
(* another, more of them than its buffer has places, so what a buffer does *)
(* with those is here as well (Stored).                                    *)
(***************************************************************************)
EXTENDS Naturals, FiniteSets, SequencesExt

CONSTANTS Threads, Pools,
          Nodes,            \* the storage of a pool: `n` of pool p is <<p, n>>
          BatchSize, CacheFlushThreshold,
          Throws            \* may T's constructor throw?

ASSUME NodesAssumption == IsFiniteSet(Nodes) /\ Nodes # {}
\* _round_up_pow2.
ASSUME CapacityAssumption == \E k \in 0..Cardinality(Nodes) : Cardinality(Nodes) = 2^k
ASSUME KeepersAssumption == Threads \cap Pools = {}
ASSUME ThrowsAssumption == Throws \in BOOLEAN
\* The cache is an array of CacheFlushThreshold pointers, which nothing in the
\* code compares with BatchSize: a batch that does not fit overflows it, and so
\* does release() when half of the threshold is nothing to flush.
ASSUME FitsAssumption == /\ BatchSize \in Nat \ {0} /\ CacheFlushThreshold \in Nat
                         /\ BatchSize <= CacheFlushThreshold /\ CacheFlushThreshold >= 2

VARIABLES global,   \* per pool: _global_pool, as the line of its free objects
          cache,    \* per thread: what _get_thread_cache() refers to
          alive,    \* the objects in whose storage a T lives
          held,     \* the objects in the hands of the program, with their pool
          lost      \* history: objects no pool, cache or program knows of

vars == <<global, cache, alive, held, lost>>

Objects == Pools \X Nodes

Init == /\ \E line \in SetToSeqs(Nodes) :
              global = [p \in Pools |-> [k \in DOMAIN line |-> <<p, line[k]>>]]
        /\ cache = [t \in Threads |-> <<>>]
        /\ alive = {} /\ held = {} /\ lost = {}

Size(t) == Len(cache[t])                    \* cache_size
Half(t) == Size(t) \div 2

\* What the global pool's acquire_batch(out, BatchSize) stores in `out`.
Batch(p) == SubSeq(global[p], 1, IF BatchSize < Len(global[p]) THEN BatchSize ELSE Len(global[p]))
WithoutBatch(p) == SubSeq(global[p], Len(Batch(p)) + 1, Len(global[p]))

\* acquire() returns nullptr: it looks into its own cache and into the pool only.
Refuses(t, p) == Size(t) = 0 /\ Batch(p) = <<>>

\* Both batch calls copy in two parts, of which the second stays within the buffer
\* if the batch does not exceed _pool_size.  A larger one, which several pools and
\* large caches make possible, runs past _available_objects unless the first part
\* is long enough; what it then reads or destroys is undefined.  No step below
\* copies so much: the model ends where a program does that.
Capacity == Cardinality(Nodes)
Copied(s) == Len(s) <= Capacity

\* The line s after release_batch has written its end, no more than _pool_size
\* objects: what the buffer has no places for overwrites the front, a lap earlier.
Stored(s) == [k \in 1..Len(s) |-> s[k + (Capacity * ((Len(s) - k) \div Capacity))]]
-----------------------------------------------------------------------------
(***************************************************************************)
(* Faults: what plausible mistakes would turn some definitions below into. *)
(* Nothing uses them; they show that each property can be broken.          *)
(***************************************************************************)
FlushedFromFront(t) ==      \* release_batch(&cache.cache[0], half)
    SubSeq(cache[t], 1, Half(t))

OneTooLate(t) == Size(t) > CacheFlushThreshold  \* `>` for `>=`

DestroyedTwice(t, p, o) ==  \* release() runs ~T, and the flush runs it again
    /\ <<o, p>> \in held
    /\ Size(t) < CacheFlushThreshold
    /\ cache' = [cache EXCEPT ![t] = Append(@, o)]
    /\ alive' = alive \ {o}
    /\ held' = held \ {<<o, p>>}
    /\ UNCHANGED <<global, lost>>
-----------------------------------------------------------------------------
(***************************************************************************)
(* acquire().                                                              *)
(***************************************************************************)
AcquireCached(t, p) ==
    /\ Size(t) > 0
    /\ held' = held \cup {<<Last(cache[t]), p>>}
    /\ cache' = [cache EXCEPT ![t] = Front(@)]
    /\ UNCHANGED <<global, alive, lost>>

AcquireBatch(t, p) ==
    /\ Size(t) = 0 /\ ~Refuses(t, p) /\ Copied(Batch(p))
    /\ global' = [global EXCEPT ![p] = WithoutBatch(p)]
    /\ alive' = alive \cup Range(Batch(p))
    /\ held' = held \cup {<<Last(Batch(p)), p>>}
    /\ cache' = [cache EXCEPT ![t] = Front(Batch(p))]
    /\ UNCHANGED lost

\* Constructor k + 1 throws.  The objects have left the pool, k of them are
\* constructed, and cache_size still says that the cache is empty.
AcquireThrows(t, p, k) ==
    /\ Throws /\ Size(t) = 0 /\ k < Len(Batch(p)) /\ Copied(Batch(p))
    /\ global' = [global EXCEPT ![p] = WithoutBatch(p)]
    /\ alive' = alive \cup {Batch(p)[i] : i \in 1..k}
    /\ lost' = lost \cup Range(Batch(p))
    /\ UNCHANGED <<cache, held>>

(***************************************************************************)
(* release() and flush().  The program releases, from whatever thread,     *)
(* what it has acquired, to the pool it acquired it from.                  *)
(***************************************************************************)
CacheIsFull(t) == Size(t) >= CacheFlushThreshold

Flushed(t) ==       \* what _flush_half gives back
    SubSeq(cache[t], Size(t) - Half(t) + 1, Size(t))

Release(t, p, o) ==
    /\ <<o, p>> \in held
    /\ ~CacheIsFull(t)
    /\ cache' = [cache EXCEPT ![t] = Append(@, o)]
    /\ held' = held \ {<<o, p>>}
    /\ UNCHANGED <<global, alive, lost>>

ReleaseAndFlush(t, p, o) ==
    /\ <<o, p>> \in held
    /\ CacheIsFull(t) /\ Copied(Flushed(t))
    /\ global' = [global EXCEPT ![p] = Stored(@ \o Flushed(t))]
    /\ alive' = alive \ Range(Flushed(t))
    /\ cache' = [cache EXCEPT ![t] = Append(SubSeq(@, 1, Size(t) - Half(t)), o)]
    /\ held' = held \ {<<o, p>>}
    /\ UNCHANGED lost

Flush(t, p) ==
    /\ Size(t) > 0 /\ Copied(cache[t])
    /\ global' = [global EXCEPT ![p] = Stored(@ \o cache[t])]
    /\ alive' = alive \ Range(cache[t])
    /\ cache' = [cache EXCEPT ![t] = <<>>]
    /\ UNCHANGED <<held, lost>>

\* A thread ends and another starts in its place with a cache of its own.
\* ThreadCache has no destructor to give the objects back.
ThreadEnds(t) ==
    /\ lost' = lost \cup Range(cache[t])
    /\ cache' = [cache EXCEPT ![t] = <<>>]
    /\ UNCHANGED <<global, alive, held>>
-----------------------------------------------------------------------------
Next == \E t \in Threads :
           \/ \E p \in Pools :
                 \/ AcquireCached(t, p)
                 \/ AcquireBatch(t, p)
                 \/ \E k \in 0..(BatchSize - 1) : AcquireThrows(t, p, k)
                 \/ \E o \in Objects : Release(t, p, o)
                 \/ \E o \in Objects : ReleaseAndFlush(t, p, o)
                 \/ Flush(t, p)
           \/ ThreadEnds(t)

Spec == Init /\ [][Next]_vars
-----------------------------------------------------------------------------
(***************************************************************************)
(* Properties.                                                             *)
(***************************************************************************)
\* The type of every variable; in particular no cache outgrows its array.
TypeOK ==
    /\ global \in [Pools -> Seq(Objects)]
    /\ cache \in [Threads -> Seq(Objects)] /\ \A t \in Threads : Size(t) <= CacheFlushThreshold
    /\ alive \subseteq Objects
    /\ held \subseteq Objects \X Pools
    /\ lost \subseteq Objects

Held == {h[1] : h \in held}
Keepers == Threads \cup Pools
Kept(k) == IF k \in Pools THEN global[k] ELSE cache[k]

\* Every object is in one place, and there once: free in a pool, in a cache, in
\* the hands of the program, or lost.  A batch of several objects and a flush of
\* half a cache neither hand an object to two owners nor drop one.  For one pool, or
\* several whose threads flush each object to its own pool (FlushesOwn).
OneOwner ==
    /\ Objects = (UNION {Range(Kept(k)) : k \in Keepers}) \cup Held \cup lost
    /\ Held \cap lost = {} /\ \A g, h \in held : g[1] = h[1] => g = h
    /\ \A k \in Keepers :
          /\ IsInjective(Kept(k))
          /\ Range(Kept(k)) \cap (Held \cup lost) = {}
          /\ \A l \in Keepers \ {k} : Range(Kept(k)) \cap Range(Kept(l)) = {}

\* A T lives in what the program holds and in what a cache holds, and in nothing
\* that is free in a pool: an object is destroyed once for each construction,
\* when it leaves a cache for a pool and not when it enters the cache.  (What is
\* lost may hold a T as well, which nobody destroys.)
Lifetimes ==
    /\ Held \subseteq alive
    /\ \A t \in Threads : Range(cache[t]) \subseteq alive
    /\ \A p \in Pools : Range(global[p]) \cap alive = {}

\* No call is about to copy more than a buffer has places.
CopiesFit == /\ \A t \in Threads : Copied(cache[t]) /\ Copied(Flushed(t))
             /\ \A p \in Pools : Copied(Batch(p))

\* What ObjectPool's release and release_batch ask of their caller: a pool is
\* given back only "the object previously acquired from this pool".
OwnObjectsOnly == \A p \in Pools : Range(global[p]) \subseteq {p} \X Nodes

\* The same, of a step: what leaves a cache for a pool was built in that pool.
FlushesOwn ==
    \A t \in Threads, p \in Pools :
        Len(global[p]) < Len(global'[p]) /\ cache'[t] # cache[t] =>
            Range(cache[t]) \ Range(cache'[t]) \subseteq {p} \X Nodes

\* acquire() returns nullptr only when all of the pool's objects are held or lost,
\* but for as many as the caches of the other threads have room for.  Its comment,
\* "nullptr if none available", leaves those out of account.
RefusedOnlyNearlyEmpty ==
    \A t \in Threads, p \in Pools :
        Refuses(t, p) =>
            Capacity <= Cardinality((Held \cup lost) \cap ({p} \X Nodes))
                          + ((Cardinality(Threads) - 1) * CacheFlushThreshold)
=============================================================================
