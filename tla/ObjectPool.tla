----------------------------- MODULE ObjectPool -----------------------------
(***************************************************************************)
(* ObjectPool<T> of include/sync_tools/object_pool.hpp: storage for a      *)
(* fixed number of objects and a circular buffer of pointers to the free   *)
(* ones, guarded by a SyncTools::Mutex, which is taken here for what       *)
(* MutexProofs shows it to implement: AbstractLock.                        *)
(*                                                                         *)
(* acquire() does what acquire_batch(out, 1) does, and release() what      *)
(* release_batch(&obj, 1) does; each pair is one set of actions.  Inside   *)
(* the critical section reading the buffer, moving the indexes and running *)
(* T's constructor are separate steps, so that it is the mutex that keeps  *)
(* them together and nothing else.                                         *)
(***************************************************************************)
EXTENDS PoolRing, FiniteSets, Functions

CONSTANTS Threads,
          Objects,      \* the storage of one object each: the addresses of _nodes
          Requested,    \* the constructor's argument
          MaxBatch,     \* bound: the most objects a call acquires or releases
          Throws        \* may T's constructor throw?

ASSUME RequestedAssumption == Requested \in Nat
ASSUME BatchAssumption == MaxBatch \in Nat \ {0}
ASSUME ThrowsAssumption == Throws \in BOOLEAN

PoolSize == RoundUpPow2(Requested)      \* _pool_size
Slots == 0..(PoolSize - 1)

ASSUME NodesAssumption == /\ IsFiniteSet(Objects) /\ Objects # {}
                          /\ Cardinality(Objects) = PoolSize

VARIABLES ring,         \* _available_objects
          headIndex,    \* _head_index
          available,    \* _available_count
          holders,      \* who holds _mutex
          alive,        \* the objects in whose storage a T lives
          held,         \* the objects in the hands of the program
          pc,           \* per thread: the next step of its call
          want,         \* per thread: max_count
          items,        \* per thread: `out` or `items`
          built         \* per thread: how many of `out` are constructed

VARIABLE leaked         \* history: objects a throwing constructor has cost the pool

vars == <<ring, headIndex, available, holders, alive, held, pc, want, items, built, leaked>>
pool == <<ring, headIndex, available>>
locals == <<want, items, built>>

PoolMutex == INSTANCE AbstractLock

\* Every slot refers to a node of its own.
Init == /\ ring \in [Slots -> Objects] /\ IsInjective(ring)
        /\ headIndex = 0
        /\ available = PoolSize
        /\ PoolMutex!LockInit
        /\ alive = {} /\ held = {} /\ leaked = {}
        /\ pc = [t \in Threads |-> "idle"]
        /\ want = [t \in Threads |-> 0]
        /\ items = [t \in Threads |-> <<>>]
        /\ built = [t \in Threads |-> 0]

At(t, l) == pc[t] = l
Goto(t, l) == pc' = [pc EXCEPT ![t] = l]
Batches == UNION {[1..n -> held] : n \in 1..MaxBatch}
Num(t) == IF want[t] < available THEN want[t] ELSE available
TailIndex == (headIndex + available) % PoolSize     \* the local `tail`
-----------------------------------------------------------------------------
(***************************************************************************)
(* Faults: what plausible mistakes would turn some actions below into.     *)
(* Nothing uses them; they show that each property can be broken.          *)
(***************************************************************************)
CountKept(t) ==                  \* `_available_count -= num` forgotten
    /\ At(t, "advance")
    /\ headIndex' = (headIndex + Len(items[t])) % PoolSize
    /\ Goto(t, "construct")
    /\ UNCHANGED <<ring, available, holders, alive, held, locals, leaked>>

NotDestroyed(t) ==               \* ~T() forgotten
    /\ At(t, "destroy")
    /\ Goto(t, "lock to put")
    /\ UNCHANGED <<pool, holders, alive, held, locals, leaked>>
LockKeptOnThrow(t) ==            \* lock() and unlock() for the scoped_lock
    /\ Throws /\ At(t, "construct")
    /\ leaked' = leaked \cup Range(items[t])
    /\ items' = [items EXCEPT ![t] = <<>>]
    /\ built' = [built EXCEPT ![t] = 0]
    /\ Goto(t, "idle")
    /\ UNCHANGED <<pool, holders, alive, held, want>>
-----------------------------------------------------------------------------
(***************************************************************************)
(* The program: it releases only what it has acquired, each object once,   *)
(* from whatever thread.                                                   *)
(***************************************************************************)
AcquireBegin(t, n) ==
    /\ At(t, "idle")
    /\ want' = [want EXCEPT ![t] = n]
    /\ Goto(t, "lock to take")
    /\ UNCHANGED <<pool, holders, alive, held, items, built, leaked>>

ReleaseBegin(t, s) ==
    /\ At(t, "idle")
    /\ IsInjective(s)
    /\ items' = [items EXCEPT ![t] = s]
    /\ held' = held \ Range(s)
    /\ Goto(t, "destroy")
    /\ UNCHANGED <<pool, holders, alive, want, built, leaked>>
-----------------------------------------------------------------------------
\* The scoped_lock begins.
Enter(t) ==
    /\ pc[t] \in {"lock to take", "lock to put"}
    /\ Goto(t, IF At(t, "lock to take") THEN "read" ELSE "write")
    /\ UNCHANGED <<pool, alive, held, locals, leaked>>

LockForgotten(t) == Enter(t) /\ UNCHANGED holders       \* a fault

Lock(t) == Enter(t) /\ PoolMutex!Acquire(t)

(***************************************************************************)
(* acquire and acquire_batch.                                              *)
(***************************************************************************)
TakeRead(t) ==
    /\ At(t, "read")
    /\ IF available = 0
         THEN /\ Goto(t, "unlock")
              /\ UNCHANGED items
         ELSE /\ items' = [items EXCEPT ![t] = CopiedOut(ring, PoolSize, headIndex, Num(t))]
              /\ Goto(t, "advance")
    /\ UNCHANGED <<pool, holders, alive, held, want, built, leaked>>

TakeAdvance(t) ==
    /\ At(t, "advance")
    /\ headIndex' = (headIndex + Len(items[t])) % PoolSize
    /\ available' = available - Len(items[t])
    /\ Goto(t, "construct")
    /\ UNCHANGED <<ring, holders, alive, held, locals, leaked>>

Construct(t) ==
    /\ At(t, "construct")
    /\ alive' = alive \cup {items[t][built[t] + 1]}
    /\ IF built[t] + 1 < Len(items[t])
         THEN built' = [built EXCEPT ![t] = @ + 1] /\ UNCHANGED pc
         ELSE built' = [built EXCEPT ![t] = 0] /\ Goto(t, "unlock")
    /\ UNCHANGED <<pool, holders, held, want, items, leaked>>

\* The exception leaves the call, the lock is released on the way, and nobody
\* knows the objects any more: neither those built nor those still raw.
ConstructThrows(t) ==
    /\ Throws /\ At(t, "construct")
    /\ leaked' = leaked \cup Range(items[t])
    /\ items' = [items EXCEPT ![t] = <<>>]
    /\ built' = [built EXCEPT ![t] = 0]
    /\ Goto(t, "unlock")
    /\ UNCHANGED <<pool, holders, alive, held, want>>

(***************************************************************************)
(* release and release_batch.                                              *)
(***************************************************************************)
Destroy(t) ==
    /\ At(t, "destroy")
    /\ alive' = alive \ Range(items[t])
    /\ Goto(t, "lock to put")
    /\ UNCHANGED <<pool, holders, held, locals, leaked>>

PutWrite(t) ==
    /\ At(t, "write")
    /\ ring' = CopiedIn(ring, PoolSize, TailIndex, items[t])
    /\ Goto(t, "count")
    /\ UNCHANGED <<headIndex, available, holders, alive, held, locals, leaked>>

PutCount(t) ==
    /\ At(t, "count")
    /\ available' = available + Len(items[t])
    /\ items' = [items EXCEPT ![t] = <<>>]
    /\ Goto(t, "unlock")
    /\ UNCHANGED <<ring, headIndex, holders, alive, held, want, built, leaked>>

\* The scoped_lock ends; acquire returns what it has taken.
Leave(t) ==
    /\ At(t, "unlock")
    /\ held' = held \cup Range(items[t])
    /\ items' = [items EXCEPT ![t] = <<>>]
    /\ want' = [want EXCEPT ![t] = 0]
    /\ Goto(t, "idle")
    /\ UNCHANGED <<pool, alive, built, leaked>>

Unlock(t) == Leave(t) /\ PoolMutex!Release(t)
-----------------------------------------------------------------------------
CallStep(t) ==
    \/ Lock(t) \/ Unlock(t)
    \/ TakeRead(t) \/ TakeAdvance(t) \/ Construct(t) \/ ConstructThrows(t)
    \/ Destroy(t) \/ PutWrite(t) \/ PutCount(t)

Next == \E t \in Threads :
           \/ \E n \in 1..MaxBatch : AcquireBegin(t, n)
           \/ \E s \in Batches : ReleaseBegin(t, s)
           \/ CallStep(t)

Spec == Init /\ [][Next]_vars
-----------------------------------------------------------------------------
(***************************************************************************)
(* Properties.                                                             *)
(***************************************************************************)
Points == {"idle", "lock to take", "lock to put", "read", "advance", "construct", "destroy",
           "write", "count", "unlock"}

\* The type of every variable; the pool never counts more free objects than it
\* has, and indexes its buffer within bounds.
TypeOK ==
    /\ ring \in [Slots -> Objects]
    /\ headIndex \in Slots
    /\ available \in 0..PoolSize
    /\ holders \subseteq Threads
    /\ alive \subseteq Objects /\ held \subseteq Objects /\ leaked \subseteq Objects
    /\ pc \in [Threads -> Points]
    /\ want \in [Threads -> 0..MaxBatch]
    /\ items \in [Threads -> Seq(Objects)]
    /\ built \in [Threads -> Nat] /\ \A t \in Threads : built[t] <= Len(items[t])

\* The line of free objects, and how far each call has got, as a user of the
\* pool sees them: a call takes when it moves the indexes, and puts when it
\* raises the count.
Free == FreeList(ring, PoolSize, headIndex, available)
Progress(t) == CASE pc[t] = "idle" -> "idle"
                 [] pc[t] \in {"lock to take", "read", "advance"} -> "asking"
                 [] pc[t] \in {"destroy", "lock to put", "write", "count"} -> "giving"
                 [] pc[t] \in {"construct", "unlock"} -> "returning"
Carried(t) == IF At(t, "advance") THEN <<>> ELSE items[t]

Abstract == INSTANCE AbstractPool
                WITH free <- Free, lost <- leaked,
                     op <- [t \in Threads |-> Progress(t)],
                     asked <- want,
                     batch <- [t \in Threads |-> Carried(t)]

\* Every object is in one place: free, in the hands of the program, carried by
\* one call, or lost to a throwing constructor.  No object is handed out twice,
\* none is overwritten in the buffer, none disappears.
OneOwner == Abstract!EachInOnePlace

\* Each call takes effect at one moment.  acquire hands out the objects that
\* have been free longest, and nullptr or fewer than asked for only when that
\* leaves none; release puts its objects behind all others.
ImplementsPool == Abstract!PoolSpec

\* A T is constructed only in storage where none lives and destroyed only where
\* one does: what the program holds is alive, what is free is not, and a
\* constructor about to run finds raw storage.
Lifetimes ==
    /\ held \subseteq alive
    /\ Range(Free) \cap alive = {}
    /\ \A t \in Threads :
          /\ At(t, "destroy") => Range(items[t]) \subseteq alive
          /\ At(t, "construct") =>
                \A i \in DOMAIN items[t] : items[t][i] \in alive <=> i <= built[t]

\* The capacity is the least power of two that is at least what was asked for,
\* in this pool and for other arguments.
LeastPower(v, n) == /\ \E k \in 0..v : n = OneShifted[k]
                    /\ v <= n
                    /\ n > 1 => n \div 2 < v
LeastPowers == \A v \in 0..40 : LeastPower(v, RoundUpPow2(v))
RoundsUp == LeastPowers /\ LeastPower(Requested, Cardinality(DOMAIN ring))
-----------------------------------------------------------------------------
(***************************************************************************)
(* The inductive invariant.                                                *)
(***************************************************************************)
\* Who holds the mutex is inside.
InsideOK ==
    /\ \A t \in Threads :
          pc[t] \in {"read", "advance", "construct", "write", "count", "unlock"} <=> t \in holders
    /\ \A t, u \in holders : t = u

\* What has been read from the buffer is still its front; what has been written
\* behind its end is still there.
CopyOK(t) ==
    /\ pc[t] \in {"lock to take", "read", "advance"} => want[t] > 0
    /\ At(t, "advance") => available > 0 /\ items[t] = SubSeq(Free, 1, Num(t))
    /\ At(t, "count") =>
          \A i \in 1..Len(items[t]) : ring[(TailIndex + (i - 1)) % PoolSize] = items[t][i]
    /\ At(t, "construct") => built[t] < Len(items[t])
    /\ ~At(t, "construct") => built[t] = 0
CopiesOK == \A t \in Threads : CopyOK(t)

\* What is about to be handed out is alive, what is about to be put back is not.
AliveOK == \A t \in Threads :
              /\ At(t, "unlock") => Range(items[t]) \subseteq alive
              /\ pc[t] \in {"lock to put", "write", "count"} => Range(items[t]) \cap alive = {}

IInv == TypeOK /\ Abstract!PoolInv /\ InsideOK /\ CopiesOK /\ Lifetimes /\ AliveOK
=============================================================================
