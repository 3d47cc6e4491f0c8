# A verification of SyncTools

SyncTools is a header-only C++ library of five synchronisation primitives for
x86 Linux. This directory models them in TLA+, checks the models with TLC on
small instances, and proves the main results with TLAPS for every value of the
constants. Paths below are relative to the repository's root; the headers are
in `include/sync_tools/`.

## 1. Inventory

### Components, state, operations

| Component | State | Operations | Modelled in |
| --- | --- | --- | --- |
| `BoundedMPSCQueue<T, N>` (`mpsc_queue.hpp`) | `_head`, `_tail` (running counters), `_cells[i].seq`, `_cells[i].storage`, `_queue_status` | `try_push`, `blocking_push` (copy, move), `try_pop`, `blocking_pop` (optional, out-parameter), `run`, `stop`, `size`, `empty`, `full`, constructor, destructor | `MPSCQueue` |
| `BoundedSPSCQueue<T, N>` (`spsc_queue.hpp`) | `_head`, `_tail` (masked indexes), `_buffer`, `_status` | the same | `SPSCQueue` |
| `Mutex` (`mutex.hpp`) | `_state` (Free, Locked, Contended), the kernel's futex queue, `_owner`, `_owner_set` | `lock`, `try_lock`, `unlock`, `_lock_slow`, `_futex_wait`, `_futex_wake` | `Mutex` |
| `ObjectPool<T>` (`object_pool.hpp`) | `_available_objects` (a ring of pointers), `_head_index`, `_available_count`, `_mutex`, `_nodes` | `acquire`, `release`, `acquire_batch`, `release_batch`, `size`, constructor | `ObjectPool`, `PoolRing`; with the `Mutex` it has: `LockedPool` |
| `ThreadCachedObjectPool<T, B, F>` (`object_pool.hpp`) | a global `ObjectPool`, one `thread_local` cache per thread and type | `acquire`, `release`, `flush`, `size` | `ThreadCachedPool` |
| `utils/` | none | pause, branch hints, attributes, TSAN hooks | not modelled |
| tests, benchmarks, examples, build | none | | not modelled; read for what is expected of the library |

### How they interact

The two queues stand alone: their threads meet only in the atomics and in the
cells' storage. `ObjectPool` runs its operations under a `Mutex`
(`std::scoped_lock`); `ThreadCachedObjectPool` calls `acquire_batch` and
`release_batch` of its global pool when a cache runs empty or full. The mutex
meets the kernel through `FUTEX_WAIT` and `FUTEX_WAKE` on `_state`. T's
constructors and destructors are called back from the queues and the pools.

### What is hard

* **Interleaving.** A producer of the MPSC queue works with a `pos` that may be
  several laps old; the mutex is taken in three ways at once; both sides of the
  SPSC queue act on the other side's index as it was.
* **Ordering.** The element is constructed before, and destroyed after, the one
  store that tells the other side; the mutex clears its owner before it
  releases the word; the pool destroys before it locks.
* **Boundaries.** Ring full against ring empty; two laps in one cell; `_size =
  1`; batches that wrap around; a cache at its threshold.
* **Waiting.** A wakeup between a waiter's exchange and its sleep; several
  sleepers and one wakeup; `stop()` against a call about to look at the status;
  signals.
* **Partial failure.** A throwing constructor in the middle of a batch; a thread
  that ends with objects in its cache.

`PROJECT.json` lists each hazard at its line with the properties that would
notice it going wrong, or the reason why none does.

### What makes each component correct

* Queues: every element accepted is delivered or destroyed exactly once, in
  order; storage is used by one thread at a time and constructed only when raw;
  "full" is answered only when every position is spoken for (one fewer in the SPSC
  queue); blocked calls return. The SPSC queue answers "empty" only when it is; the
  MPSC queue also when its front element is not published yet, whatever stands behind
  it (`mpsc_empty`).
* Mutex: exclusion; no wakeup is lost; assertions do not fire in correct
  programs; `try_lock` fails only for a reason; progress.
* Pools: every object is in exactly one place; a T is constructed in raw storage
  and destroyed at most once; an `ObjectPool` gives fewer objects than asked for only
  when it has no more. The caches also answer "none" while objects are idle in the
  caches of other threads; how many, is bounded.

## 2. Modules

| Module | Contents |
| --- | --- |
| `BoundedFifo` | abstract: a bounded queue as a line of places, reserved, filled, delivered from the front |
| `AbstractLock` | abstract: at most one holder |
| `MPSCQueue`, `MCMPSCQueue`, `MPSCQueueProofs` | the MPSC queue; refines `BoundedFifo` with capacity `_size` |
| `MPSCQueueWords` | the MPSC queue's positions as the code compares them: words that wrap, masks, signed differences; proved to take the steps of `MPSCQueue` |
| `SPSCQueue`, `SPSCQueueProofs` | the SPSC queue; refines `BoundedFifo` with capacity `_size - 1` |
| `Mutex`, `MCMutex`, `MutexProofs` | the futex mutex; refines `AbstractLock` |
| `AbstractPool`, `AbstractPoolProofs` | abstract: a line of free objects, from whose front a call takes, and at whose end it puts, at one moment |
| `PoolRing` | the pool's arithmetic: rounding the capacity, copying batches in and out in two parts |
| `ObjectPool`, `MCObjectPool`, `ObjectPoolProofs` | the pool under concurrent calls, with an abstract lock for its mutex; refines `AbstractPool` |
| `LockedPool`, `MCLockedPool`, `LockedPoolProofs` | the pool composed with the futex mutex; refines `ObjectPool` |
| `ThreadCachedPool`, `MCThreadCachedPool`, `ThreadCachedPoolProofs` | the caches over one or more pools |
| `SharedLemmas` | lemmas on remainders, on words and signed differences, and on the parts of sequences, for the proofs |

How they fit together:

```
BoundedFifo <= MPSCQueue <= MPSCQueueWords   AbstractLock <= Mutex
BoundedFifo <= SPSCQueue
AbstractPool <= ObjectPool (with AbstractLock) <= LockedPool = ObjectPool + Mutex
ThreadCachedPool: caches over lines of free objects, each as in AbstractPool
```

`A <= B` reads "B implements A"; it is proved, and, but for `MPSCQueueWords`, also model-checked. `ObjectPool`
takes its mutex for a set of holders, which `AbstractLock` allows to change; what
that leaves open is whether the real mutex, whose `lock` and `unlock` take many steps,
serves as well. `LockedPool` answers it: it has the actions of both modules, joined
where the mutex changes hands, and implements `ObjectPool`. `ThreadCachedPool` in turn
takes a critical section of a pool for one step on the pool's line of free objects,
which is what `ObjectPool` implements. `ObjectPool`'s callers give back what they took
from it; with two pools of one type the caches break that rule (`cached_shared`), and
`ThreadCachedPool` says itself what a buffer does with more objects than it has places:
`Stored`, the identity for any line that fits; a copy of more than `_pool_size` objects,
which would leave the buffer, no step makes (`Copied`, section 5). What the run `cached` checks with one pool
is proved for any number of pools whose threads keep the rule that the code does not
enforce (`FlushesOwn`).

### State and actions against the code

Variables carry the names of the fields without the leading underscore, and each
declaration names its field. An action is one access to shared memory together
with the thread-local work up to the next one; the program counter (`pc`, and
`cpc` for the consumer) names the statement about to run. `map` in
`PROJECT.json` gives the lines for every definition. Points worth knowing:

* **Overloads** that differ only in copying or moving T are one set of actions.
* **`try_` and `blocking_` calls** share their steps: `blocking`, `mode` and
  `trying` say which call a thread is in and so what a failure leads to. The two
  status loads of the blocking loops are two steps, since `run()` may come
  between them.
* **The destructor** of a queue stops it and pops until it is empty, as another
  mode of the consumer. It starts only when no other call is in progress, which
  is the caller's duty in C++.
* **Elements** are the number of the push (with the producer, in the MPSC queue),
  so order and duplication are visible. `Raw` is the content of a cell in which no
  T lives. `log`, `popped`, `leaked` and `lost` are history variables: no action
  reads them.
* **The futex.** `FutexWait` compares and queues in one step, as the kernel does;
  `FutexAgain` and `FutexInterrupted` are `EAGAIN` and `EINTR`; `FutexWake` wakes
  the thread that has slept longest.
* **The pool's critical sections** are several steps (read the buffer, move the
  indexes, construct one by one), so it is the lock that makes them atomic and
  not the model. Objects are model values; `ring` is the buffer of pointers, and
  `FreeList` the line of free objects that it stands for.
* **The pool with its mutex.** In `LockedPool` `mpc` is the program counter of the
  mutex and `pc` that of the pool. The step that wins the word also enters the
  critical section, and the exchange in `unlock` also leaves it; all others belong to
  one of the two alone.
* **The cache** of a `ThreadCachedObjectPool` is indexed by thread only, because
  `_get_thread_cache` is static: the pools of one type share it.

The modules have a section *Faults*: operators no behaviour uses, each a plausible
mistake in one action (a dropped check, an off-by-one, a missing store). Put in
the place of the action they make a property fail; the list `mutants` in
`PROJECT.json` says which. They are the evidence that the properties can fail.

### Memory model

The models interleave the accesses one at a time (sequential consistency). The
library builds only for x86 (`utils/cpu_relax.hpp`), whose stores become visible
in order and whose only relaxation is that a store may be delayed past later
loads of the same thread. In the queues a delayed store of an index or sequence
number makes the other side see an older value, and each side acts on the
other's value in one direction only (it may refuse what would have been possible;
that refusal is honest as of the moment the value was current). The mutex
changes its word only with locked instructions, which drain the store buffer.
The relaxed accesses are: `_tail` of the MPSC queue, stored by the consumer and
read elsewhere only by `size`, `empty` and `full`; `_owner`, which every writer
brackets with accesses to `_owner_set` or to the word; the statuses, whose delay
only postpones their effect; and `_head` of the MPSC queue, on which
`compare_exchange_weak` decides anyway. Compilers that reorder relaxed accesses
are not modelled beyond that.

## 3. Runs

| Run | Question | Bounds | States |
| --- | --- | --- | --- |
| `mpsc` | safety, refinement and liveness of the MPSC queue | 2 producers with 2 and 1 pushes, 2 cells | 0.16 M |
| `mpsc_stop` | `blocking_pop` answers nullopt only if empty: **violated** | one push each | |
| `mpsc_empty` | `try_pop` answers nullopt only if no push has stored an element: **violated** | one push each | |
| `mpsc_size` | `size()` is a count: **violated** | one push each, size_t of 16 values | |
| `mpsc_one_cell` | `_size = 1` holds at most one element: **violated** | one push each, 1 cell | |
| `mutex` | safety, refinement and liveness of the mutex | 3 threads, spin limit 2, checks on | 0.23 M |
| `mutex_starve` | no thread starves: **violated** | 2 threads | |
| `spsc` | safety, refinement and liveness of the SPSC queue | 6 pushes, 4 cells | 47 k |
| `pool` | safety of the pool, and that it implements `AbstractPool` | 2 threads, 4 objects, batches up to 3, throwing constructors | 0.36 M |
| `locked_pool` | the pool and the futex mutex together implement `ObjectPool`, and calls return | 2 threads, 2 objects, batches up to 2, throwing constructors, spin limit 1, checks on | 0.37 M |
| `cached` | the caches | 3 threads, 4 objects, batches of 2, caches of 3, throwing constructors | 1.3 k |
| `cached_shared` | pools of one type keep their objects apart: **violated** | 2 pools of 2 objects | |

Why the bounds are enough to be interesting:

* Three pushes over two cells begin the second lap of the MPSC ring: a cell is
  reused, sequence numbers of two laps meet, and a producer's `pos` can be a lap
  old. The proofs cover any number of laps. Six pushes over the three usable places of the SPSC ring do the same there.
* Three mutex threads are a holder, a sleeper and a thread that barges in, or a
  holder and two sleepers, the case where the word must say Contended again. The
  deadlock checks are compiled in, which adds steps and takes no behaviour away.
  Threads lock and unlock without end; no counter is bounded. The library spins
  22 rounds (`_spin_count`); two tell a first round from a later one.
* Four objects with batches of up to three wrap around the pool's buffer at every
  offset, in and out; `Requested` is three, so that the capacity is rounded up. No call is bounded in number.
* A cache of three is filled by what is left of a batch and by released objects before
  half of it, one object, is flushed; `flush()` gives back up to three. Four objects, a
  capacity the pool can have, leave a third thread with a short batch or none while two
  hold theirs. Releases come from any thread, in any order. Larger caches and pools are
  left to the proofs.
* Two threads are enough for the pool over its mutex to meet every way into the
  critical section: the fast path, spinning, and sleeping with a wakeup or a signal;
  two objects let one call find the pool empty after the other.

Bounds by name: `MaxCalls` (pushes), `MaxBatch` (objects per call), `Word` (values
of a `size_t`, only for `SizeResult`). Positions of the MPSC queue are unbounded
naturals in place of 64-bit numbers; `WordsSuffice` (section 4) shows that nothing is
lost by it, as long as no producer is suspended for nearly 2^63 pushes.

Deadlock is not checked for the queues, the mutex and the pool over the mutex: a queue
stops for good after its destructor or its last push, and the mutex's abort point would
be one (`AssertionsHold` and `CallsReturn` cover it). In `pool` and in the caches a thread
can always make a call, and there it is checked. Symmetry (of threads, and of the
pool's objects) is declared only for runs without liveness: `pool`,
`cached`, `cached_shared`.

### What the violated runs show

* `mpsc_stop`: `blocking_pop` looks at the queue, then at the status. An element
  published between the two, followed by `stop()`, is left behind, ready in the front
  cell, although the comment says "nullopt if stopped and empty". The SPSC queue has
  the same code and the same comment.
* `mpsc_empty`: `try_pop` looks at the front cell only. While the producer that won this
  position has not published it, a push that another producer has completed behind it
  is hidden: `try_pop` answers nullopt, by its comment "if empty", with `size()` 2 and
  `empty()` false. `EmptyOnlyWhenFrontMissing` says that this is the only such case.
* `mpsc_size`: `size()` loads `_head`, then `_tail`; if the consumer passes the
  loaded `_head` in between, the unsigned difference is close to 2^64.
* `mpsc_one_cell`: with one cell `pos + 1` of a filled cell equals the next
  position, so a second push constructs over the first element. The `static_assert`
  accepts 1.
* `mutex_starve`: the README says "Wakes one waiter; prevents starvation". The woken
  thread has to win the word like everybody else and may lose for ever.
* `cached_shared`: a `flush()` on one pool gives it the objects a thread's cache took
  from another pool of the same type, which `ObjectPool::release` does not allow its
  callers.

Two more disagreements with the text need no run to be seen. The SPSC queue's `_size` is
its "Capacity" (`spsc_queue.hpp:40`, `README.md:389`), but one cell stays unused: it
implements a FIFO of `_size` - 1 places, and with `_size` = 1 refuses every push.
`ThreadCachedObjectPool::acquire` returns "nullptr if none available"
(`object_pool.hpp:243`; "pool exhausted", `README.md:357`), but objects idle in the caches
of other threads are out of its reach: `RefusalsBounded` says how many they can be.

### Fairness

The specifications used for safety have none. `FairSpec` of the queues has weak
fairness for each producer's steps inside a call and for the consumer's: a thread
in a call is scheduled; nobody has to make a call, stop the queue or destroy it.
`FairSpec` of the mutex has weak fairness for each thread's steps from the
beginning of `lock` to the end of `unlock`: threads that are awake are scheduled and
critical sections end. A sleeping thread has no step of its own, interruption by a
signal is not fair, and beginning a call is not. That is what a preemptive
scheduler gives. Where a property needs more, it says so itself: a
consumer that keeps trying, a status that settles, callers that stop coming.
`FairSpec` of `LockedPool`
has weak fairness for each thread's steps inside a call of the pool, the mutex's steps
included: constructors and destructors end. Beginning a call and signals are not fair;
`CallsReturn` speaks of executions in which new calls stop, since the mutex itself
promises no thread its turn (`mutex_starve`).
`SleepersWoken` also uses that the kernel wakes in the order of sleeping, which
holds for threads of equal priority.

## 4. Proofs

All theorems are about `Spec`, unless the table says otherwise, for any number of threads
(finitely many for `RefusalsBounded`), pushes and cells.

| Module | Theorems |
| --- | --- |
| `MPSCQueueProofs` (for `_size > 1`) | `RingInvariant`, `TypeCorrect`, `StorageIsOwned`, `ElementsKept`, `ProducersInOrder`, `DestructorIsComplete`, `RefusalsAreHonest`, `MissesAreHonest`, `ImplementsBoundedFifo`, `SizeIsHonest`, `TwoCellsSuffice`; for `WordSpec`, any length of a word: `WordsSuffice`, `WordsAreSafe` |
| `SPSCQueueProofs` (any power of two) | `RingInvariant`, `TypeCorrect`, `StorageIsOwned`, `ElementsKept`, `ArrivesInOrder`, `CountIsExact`, `DestructorIsComplete`, `RefusalsAreHonest`, `MissesAreHonest`, `ImplementsBoundedFifo` |
| `MutexProofs` (any spin limit, checks on or off) | `MutexInvariant`, `TypeCorrect`, `Exclusion`, `WakeupsKept`, `NeverAllAsleep`, `NoFalseAlarm`, `TryLockIsHonest`, `ImplementsAbstractLock` |
| `AbstractPoolProofs` (any objects, any `MaxBatch`) | `PoolKeepsEachInOnePlace` |
| `ObjectPoolProofs` (any capacity, batch size, throwing or not) | `TypeCorrect`, `OneOwnerEach`, `LifetimesKept`, `RoundsUpAlways`, `ImplementsAbstractPool`; of `_round_up_pow2`: `CapacityIsLeast`, `ShiftStaysBelow64` |
| `LockedPoolProofs` (any capacity, batch size, spin limit) | `PoolOverMutex`, `EachObjectOnce`, `LifetimesOverMutex`, `KeepsMutexContract`, `MutexServesPool`, `CallsNeverAllAsleep`, `ImplementsAbstractPool` |
| `ThreadCachedPoolProofs` (any `BatchSize` and `CacheFlushThreshold` that fit) | one pool, or any pools no smaller than the caches: `TypeCorrect`; any pools whose threads flush to each its own objects: `OwnFlushesSuffice`, `RefusalsBounded`; one pool: `OneOwnerEach`, `LifetimesKept` |
| `SharedLemmas` | remainders (`LessThanALap`, `LapCovers`, ...), words (`SignedDifference`, `WordDifference`, `MaskedWord`) and parts of sequences (`Split`, `SplitApart`, `ConcatApart`) |

Assumptions: those named in the modules (`_size` is a power of two, the objects are as
many as the rounded capacity, which is a power of two (`CapacityAssumption`), batches fit the caches, model values are distinct from
data) and, for the MPSC queue, that it has more than one cell,
without which the statements are false (`mpsc_one_cell`).

**MPSC queue.** Let F be the number of elements popped. `IInv` says that positions
F to F + _size - 1 are one lap, those below `_head` taken and the others free. A taken
position is claimed (its sequence number is its own and some producer is filling
it) or published (its sequence number is one more, and its cell holds the element
accepted at that position). A free position's cell is raw and carries its number. The
properties alone are not inductive, because a producer may compute with an old
`pos`: what saves it is that a sequence number equal to `pos` is only ever found
in the current lap, so a successful compare_exchange on `_head` implies that the
cell is free *now*. `PushersOK` states that for producers at `cas`, which is where the
proof needs it. The refinement maps the places in line to positions F to `_head` - 1,
`done` being "the sequence number says published".
`SizeIsHonest` (`SizeWrongOnlyIfOvertaken`) adds that the `_head` that `size` has loaded is
never ahead of the queue's. When `_tail` is loaded, and the consumer has not passed that
`_head`, the answer is no more than the elements accepted and not taken, at most `_size`,
and falls short of them only by pushes that won since. Otherwise it is off by 2^64
(`mpsc_size`).

**The MPSC queue in words.** `MPSCQueueWords` repeats the steps that look at a position,
each looking at it as the code does: cut to a word, masked, or as the sign of a difference
of two words. `WordsSuffice` proves that each is the step of `MPSCQueue`. Half a word is
enough to tell two numbers apart when they are less than that apart (`DiffIsExact`,
`WordsCompare`). `SeqBounds` takes from `IInv` that every sequence number is within a lap
of the oldest element; what remains is the producer's `pos`, which no invariant can bound:
it is as old as its producer was suspended. The hypothesis `Fresh` bounds it, by 2^63 -
`_size` pushes, at the two statements that compare it. It is on the schedule and not on the
constants, and the code relies on it: beyond it a stale position can look full, or a
compare_exchange succeed on a `_head` that has come round. A word is assumed to be a whole
number of double laps and longer than one, as 2^64 is for every power of two up to 2^62.

**SPSC queue.** The indexes are masked, so the invariant first restores what the code
throws away: `_head` is the number published modulo `_size` and `_tail` the number
popped modulo `_size`, at most `_size` - 1 apart. From `LessThanALap` equal indexes
then mean equal numbers, and every property follows.

**Mutex.** `IInv` ties the word to the threads (Free exactly if nobody is between
acquisition and release), the futex queue to the sleeping threads, and the owner's
two atomics to where the owner is in its call. `NoLostWakeup` is inductive with
these: whoever makes the word something other than Contended while threads
sleep is, or wakes, a thread that will mark it again. A sleeping thread is in the
futex queue, and not only the other way round, so its wakeup is somebody's duty:
`NeverAllAsleep`, the part of deadlock freedom that is a safety property.

**Pool.** "Every object is in one place" is not inductive for the ring, where a
half-finished call has read pointers that it has not yet taken out of the buffer. The
proof therefore goes through the refinement: `AbstractPool` keeps each object in one
place (`PoolInv`, inductive by itself), `IInv` says that the ring stands for such a pool, and
every step of the ring is one of the abstract pool or a stutter. What the ring adds to
`IInv`: who is inside its critical section holds the mutex, so the indexes a call has read
are still the indexes (`InsideOK`); what it has read or written is the front of the line,
or follows its end, whether or not the copy wraps around (`CopiesOK`); and which objects of
a batch are built (`AliveOK`, with `Lifetimes`). `CopyOut`, `Advance`, `CopyIn` and `Count`
are the four facts about the copies in two parts. That there is room to write a batch
back follows from counting: the free objects and the batch are distinct.

**Its capacity.** `1ULL << n` is the recursive function `OneShifted`. That it grows, and
exceeds any number, is shown by looking at the least number for which it would not
(`NatMin`); the CHOOSE in `SignificantBits` then has something to choose, and
`CapacityIsLeast` follows for every argument, not only for those up to 40 that the run
compares.

**Pool over the mutex.** The mutex's invariant holds of its part of the state, so one
thread holds it at a time and keeps it from winning the word to the exchange in `unlock`;
with that each step of the composition is a step of `ObjectPool` or a stutter. The theorems
about `ObjectPool` then hold of the composition, with nothing assumed of the mutex, and
`ImplementsAbstractPool` takes it down to the line of free objects. The other
half of the contract is `KeepsMutexContract`: on the mutex's variables the
composition behaves as `Mutex` lets its callers behave, so what the mutex promises correct
callers it gives to the pool (`MutexServesPool`, `CallsNeverAllAsleep`).

**Caches.** The properties are inductive together. A call moves objects between
one cache, one pool and the program; `CallMoves` reduces the invariant to those, and each
action has a lemma of its own. A buffer must never be given more objects than it has
places; it is not, if it is given its own only, of which there are no more
(`NothingOverwritten`), and a batch of which always fits its two-part copy. This the code does not see to when pools share caches
(`cached_shared`), so it is a hypothesis, on the steps: `FlushesOwn`, what leaves a cache
for a pool was built in that pool. `OwnFlushesSuffice` shows that nothing else is
missing. With a single pool the hypothesis holds by itself (`OnlyOwnObjects`), which gives
`OneOwnerEach` and `LifetimesKept` without it. `RefusalsBounded` counts the objects that a
refused thread cannot reach: those in the other threads' caches, each numbered by its
thread and its place there. `TypeCorrect` bounds the caches by their array, and shows
besides (`CopiesFit`) that no call is about to copy more than a buffer has places, so that
`Copied` cuts off no behaviour of the code: with one pool because the objects are distinct
and its own, and where pools share caches if these are no larger than the pools. In the
remaining case, larger caches over several pools, a copy can leave the array once objects
of one pool go to another; the other theorems exclude that by `FlushesOwn`, under which
every copy fits, since what is copied belongs to the one pool.

Only model-checked: liveness (under `FairSpec`), which is beyond the prover. `WordSpec`, in
turn, is proved about and not run: its interesting states are 2^63 pushes away. So is the type
invariant of the MPSC queue, part of its `IInv`.

## 5. Not modelled, and why

* Weaker memory models and compiler reordering (see above).
* A third thread calling `size`, `empty` or `full` of the SPSC queue, whose comment
  confines it to one producer and one consumer.
* Destroying a mutex while an `unlock` is about to call `FUTEX_WAKE`.
* `ThreadCachedObjectPool` with `BatchSize > CacheFlushThreshold` or
  `CacheFlushThreshold = 1`, where the cache's array overflows; `FitsAssumption`
  excludes them.
* Copies of more than `_pool_size` objects into or out of a pool's buffer (two pools of one
  type, `CacheFlushThreshold` or `BatchSize` above `_pool_size`, and objects of one pool
  flushed to the other): the second `memcpy` may leave the array. The model ends there.
* The contents of pooled objects (the arguments of an `acquire` served from the cache
  are ignored by the code); destroying one of two pools that share caches.
* Pools of more than 2^63 objects, where rounding the capacity up overflows.
* T whose copy or destructor throws in a queue (the functions are `noexcept`).
* Tests, benchmarks, examples, build files, hints and annotations.

## 6. Plan

Done, in this order, the most central behaviour first: the MPSC queue (model, runs,
proofs), the mutex (the same), the SPSC queue (the same), the pool and the caches (the
same), the abstract pool and its refinement, the pool over its futex mutex, the MPSC
queue in machine words, the caches of several pools.

What could follow:

1. Store buffers for the SPSC queue's indexes and for `_owner`, to check what *Memory
   model* argues.
2. The pool's capacity beyond 2^63, where the shift is by 64 (`ShiftStaysBelow64` stops there).
3. `ThreadCachedPool` over several steps per call, as a refinement of the present one.
