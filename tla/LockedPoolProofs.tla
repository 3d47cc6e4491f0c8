-------------------------- MODULE LockedPoolProofs --------------------------
(***************************************************************************)
(* Theorems about an ObjectPool under its futex mutex, for any number of   *)
(* threads, any capacity, spin count and batch size.  They put together    *)
(* what MutexProofs and ObjectPoolProofs show of the two parts.            *)
(***************************************************************************)
EXTENDS LockedPool, TLAPS, SequenceTheorems

MP == INSTANCE MutexProofs WITH pc <- mpc
PP == INSTANCE ObjectPoolProofs WITH holders <- {t \in Threads : M!Holds(t)}

Holders == {t \in Threads : M!Holds(t)}
-----------------------------------------------------------------------------
(***************************************************************************)
(* The mutex under the pool behaves as in Mutex.                           *)
(***************************************************************************)
LEMMA MutexSteps == [Next]_vars => [M!Next]_M!vars
<1>1. ASSUME NEW t \in Threads, NewCall(t) \/ BeforeLock(t) \/ Critical(t) PROVE UNCHANGED M!vars
  BY <1>1 DEF NewCall, BeforeLock, Critical, mutexVars, M!vars
<1>2. ASSUME NEW t \in Threads, LockBegin(t) \/ Locking(t) \/ Unlocking(t) \/ Interrupted(t)
      PROVE  M!Next
  BY <1>2 DEF LockBegin, Locking, Unlocking, Interrupted, M!Next
<1>3. CASE UNCHANGED vars
  BY <1>3 DEF vars, mutexVars, M!vars
<1> QED
  BY <1>1, <1>2, <1>3 DEF Next, CallStep

\* The instance with the theorems has the same actions.
LEMMA SameMutex ==
    /\ M!Init => MP!Init
    /\ [M!Next]_M!vars => [MP!Next]_MP!vars
<1> USE DEF M!Free, MP!Free, M!Locked, MP!Locked, M!Contended, MP!Contended,
        M!At, MP!At, M!Goto, MP!Goto, M!Got, MP!Got, M!locals, MP!locals,
        M!ownership, MP!ownership, M!HasLockedBit, MP!HasLockedBit, M!Without, MP!Without
<1>1. M!Init => MP!Init
  BY DEF M!Init, MP!Init
<1>2. ASSUME NEW t \in Threads PROVE M!LockStep(t) => MP!LockStep(t)
  BY DEF M!LockStep, MP!LockStep, M!CheckOwnerSet, MP!CheckOwnerSet, M!CheckOwner, MP!CheckOwner,
         M!CasWin, MP!CasWin, M!CasLose, MP!CasLose, M!SpinWin, MP!SpinWin,
         M!SpinLose, MP!SpinLose, M!Xchg, MP!Xchg, M!FutexWait, MP!FutexWait,
         M!FutexAgain, MP!FutexAgain, M!SetOwner, MP!SetOwner, M!SetOwnerSet, MP!SetOwnerSet
<1>3. ASSUME NEW t \in Threads PROVE M!UnlockStep(t) => MP!UnlockStep(t)
  BY DEF M!UnlockStep, MP!UnlockStep, M!UnlockBegin, MP!UnlockBegin, M!AssertOwner, MP!AssertOwner,
         M!ClearOwnerSet, MP!ClearOwnerSet, M!ClearOwner, MP!ClearOwner,
         M!Release, MP!Release, M!FutexWake, MP!FutexWake
<1>4. ASSUME NEW t \in Threads
      PROVE  /\ M!FutexInterrupted(t) => MP!FutexInterrupted(t)
             /\ \A b \in BOOLEAN : M!Begin(t, b) => MP!Begin(t, b)
  BY DEF M!FutexInterrupted, MP!FutexInterrupted, M!Begin, MP!Begin
<1>5. UNCHANGED M!vars => UNCHANGED MP!vars
  BY DEF M!vars, MP!vars
<1>6. M!Next => MP!Next
  <2> SUFFICES ASSUME M!Next PROVE MP!Next
    OBVIOUS
  <2>1. PICK t \in Threads : \/ \E b \in BOOLEAN : M!Begin(t, b)
                             \/ M!LockStep(t) \/ M!UnlockStep(t) \/ M!FutexInterrupted(t)
    BY DEF M!Next
  <2>2. \/ \E b \in BOOLEAN : MP!Begin(t, b)
        \/ MP!LockStep(t) \/ MP!UnlockStep(t) \/ MP!FutexInterrupted(t)
    BY <1>2, <1>3, <1>4, <2>1
  <2> QED BY <2>2 DEF MP!Next
<1> QED
  BY <1>1, <1>5, <1>6

LEMMA SameMutexInv == MP!IInv <=> M!IInv
  BY DEF MP!IInv, M!IInv, MP!TypeOK, M!TypeOK, MP!MutualExclusion, M!MutualExclusion,
         MP!StateOK, M!StateOK, MP!QueueOK, M!QueueOK, MP!OwnerOK, M!OwnerOK, MP!SpinOK, M!SpinOK,
         MP!NoLostWakeup, M!NoLostWakeup, MP!AssertionsHold, M!AssertionsHold,
         MP!Holds, M!Holds, MP!Owns, M!Owns, MP!Waits, M!Waits, MP!At, M!At,
         MP!Free, M!Free, MP!Locked, M!Locked, MP!Contended, M!Contended

LEMMA MutexKept == Spec => []M!IInv
<1>1. Init => MP!Init
  BY SameMutex DEF Init
<1>2. [Next]_vars => [MP!Next]_MP!vars
  BY MutexSteps, SameMutex
<1>3. MP!Spec => []MP!IInv
  BY MutexAssumption, MP!MutexInvariant
<1> QED
  BY <1>1, <1>2, <1>3, SameMutexInv, PTL DEF Spec, MP!Spec
-----------------------------------------------------------------------------
(***************************************************************************)
(* When the mutex changes hands.                                           *)
(***************************************************************************)
LEMMA HoldersKept ==
    ASSUME \A u \in Threads : mpc'[u] \in M!Owns <=> mpc[u] \in M!Owns
    PROVE  Holders' = Holders /\ \A t \in Threads : M!Holds(t)' = M!Holds(t)
  BY DEF Holders, M!Holds

\* lock() gives a thread the mutex when nobody has it, or changes no holder.
LEMMA LockingHolders ==
    ASSUME M!IInv, NEW t \in Threads, M!LockStep(t) \/ \E b \in BOOLEAN : M!Begin(t, b)
    PROVE  \/ Holders = {} /\ Holders' = {t} /\ M!Holds(t)' # M!Holds(t) /\ M!LockStep(t)
           \/ Holders' = Holders /\ M!Holds(t)' = M!Holds(t)
<1> USE DEF M!At, M!Goto, M!Got
<1>1. mpc \in [Threads -> M!Waits \cup M!Owns \cup {"out", "wake", "abort"}]
      /\ state \in {M!Free, M!Locked, M!Contended}
  BY DEF M!IInv, M!TypeOK
<1>2. CASE M!CasWin(t) \/ M!SpinWin(t) \/ (M!Xchg(t) /\ ~M!HasLockedBit(state))
  <2>1. /\ state = M!Free /\ mpc' = [mpc EXCEPT ![t] = IF Checks THEN "setowner" ELSE "cs"]
        /\ mpc[t] \in {"cas", "spin", "xchg"}
    BY <1>1, <1>2 DEF M!CasWin, M!SpinWin, M!Xchg, M!HasLockedBit, M!Free, M!Locked, M!Contended
  <2>2. Holders = {}
    BY <2>1 DEF M!IInv, M!StateOK, Holders
  <2>3. \A u \in Threads : mpc'[u] \in M!Owns <=> u = t
    BY <1>1, <2>1, <2>2 DEF Holders, M!Holds, M!Owns
  <2>4. Holders' = {t}
    BY <2>3 DEF Holders, M!Holds
  <2>5. ~M!Holds(t) /\ M!Holds(t)'
    BY <2>2, <2>3 DEF Holders, M!Holds
  <2> QED BY <1>2, <2>2, <2>4, <2>5 DEF M!LockStep
<1>3. CASE \/ \E b \in BOOLEAN : M!Begin(t, b)
           \/ M!CheckOwnerSet(t) \/ M!CheckOwner(t) \/ M!CasLose(t) \/ M!SpinLose(t)
           \/ (M!Xchg(t) /\ M!HasLockedBit(state)) \/ M!FutexWait(t) \/ M!FutexAgain(t)
           \/ M!SetOwner(t) \/ M!SetOwnerSet(t)
  <2>1. \A u \in Threads : mpc'[u] \in M!Owns <=> mpc[u] \in M!Owns
    BY <1>1, <1>3 DEF M!Begin, M!CheckOwnerSet, M!CheckOwner, M!CasLose, M!SpinLose, M!Xchg,
       M!FutexWait, M!FutexAgain, M!SetOwner, M!SetOwnerSet, M!Owns
  <2> QED BY <2>1, HoldersKept
<1> QED BY <1>2, <1>3 DEF M!LockStep

\* unlock() takes it from the one who has it, or changes no holder, and neither
\* does a signal.
LEMMA UnlockingHolders ==
    ASSUME M!IInv, NEW t \in Threads, M!UnlockStep(t) \/ M!FutexInterrupted(t)
    PROVE  \/ Holders = {t} /\ Holders' = {} /\ M!Holds(t)' # M!Holds(t) /\ M!UnlockStep(t)
           \/ Holders' = Holders /\ M!Holds(t)' = M!Holds(t)
<1> USE DEF M!At, M!Goto
<1>1. mpc \in [Threads -> M!Waits \cup M!Owns \cup {"out", "wake", "abort"}]
      /\ waiters \in Seq(Threads)
  BY DEF M!IInv, M!TypeOK
<1>2. CASE M!Release(t)
  <2>1. mpc[t] = "release" /\ mpc'[t] \in {"wake", "out"} /\ \A u \in Threads \ {t} : mpc'[u] = mpc[u]
    BY <1>1, <1>2 DEF M!Release
  <2>2. Holders = {t} /\ M!Holds(t)
    BY <2>1 DEF M!IInv, M!MutualExclusion, Holders, M!Holds, M!Owns
  <2>3. \A u \in Threads : mpc'[u] \notin M!Owns
    BY <2>1, <2>2 DEF Holders, M!Holds, M!Owns
  <2>4. Holders' = {} /\ ~M!Holds(t)'
    BY <2>3 DEF Holders, M!Holds
  <2> QED BY <1>2, <2>2, <2>4 DEF M!UnlockStep
<1>3. CASE M!UnlockBegin(t) \/ M!ClearOwnerSet(t) \/ M!ClearOwner(t) \/ M!AssertOwner(t)
  <2>1. M!AssertOwner(t) => ownerSet /\ owner = t
    BY DEF M!AssertOwner, M!IInv, M!OwnerOK
  <2>2. \A u \in Threads : mpc'[u] \in M!Owns <=> mpc[u] \in M!Owns
    BY <1>1, <1>3, <2>1 DEF M!UnlockBegin, M!ClearOwnerSet, M!ClearOwner, M!AssertOwner, M!Owns
  <2> QED BY <2>2, HoldersKept
<1>4. CASE M!FutexWake(t) \/ M!FutexInterrupted(t)
  <2>1. waiters # <<>> => mpc[Head(waiters)] = "asleep"
    <3>1. waiters # <<>> => 1 \in DOMAIN waiters /\ Head(waiters) = waiters[1]
      BY <1>1, LenProperties
    <3> QED BY <3>1 DEF M!IInv, M!QueueOK
  <2>2. \A u \in Threads : mpc'[u] \in M!Owns <=> mpc[u] \in M!Owns
    BY <1>1, <1>4, <2>1 DEF M!FutexWake, M!FutexInterrupted, M!Owns
  <2> QED BY <2>2, HoldersKept
<1> QED BY <1>2, <1>3, <1>4 DEF M!UnlockStep
-----------------------------------------------------------------------------
(***************************************************************************)
(* The pool over its mutex behaves as in ObjectPool.                       *)
(***************************************************************************)
LEMMA PoolStill == ASSUME UNCHANGED poolVars, Holders' = Holders PROVE UNCHANGED Pool!vars
  BY DEF poolVars, Pool!vars, Holders

LEMMA PoolSteps == ASSUME M!IInv, [Next]_vars PROVE [Pool!Next]_Pool!vars
<1>1. ASSUME NEW t \in Threads, NewCall(t) \/ BeforeLock(t) \/ Critical(t) PROVE Pool!Next
  BY <1>1 DEF NewCall, BeforeLock, Critical, Pool!Next, Pool!CallStep
<1>2. ASSUME NEW t \in Threads, LockBegin(t) PROVE UNCHANGED Pool!vars
  <2>1. Holders' = Holders
    <3>1. M!Begin(t, FALSE) /\ mpc \in [Threads -> M!Waits \cup M!Owns \cup {"out", "wake", "abort"}]
      BY <1>2 DEF LockBegin, M!IInv, M!TypeOK
    <3>2. ~M!Holds(t) /\ ~M!Holds(t)'
      BY <3>1 DEF M!Begin, M!Holds, M!Owns, M!At, M!Goto
    <3>3. \E b \in BOOLEAN : M!Begin(t, b)
      BY <3>1
    <3> QED BY <3>2, <3>3, LockingHolders DEF M!Holds
  <2> QED BY <1>2, <2>1, PoolStill DEF LockBegin
<1>3. ASSUME NEW t \in Threads, Locking(t) PROVE [Pool!Next]_Pool!vars
  <2>1. CASE M!Holds(t)' = M!Holds(t)
    <3>1. Holders' = Holders
      BY <1>3, <2>1, LockingHolders DEF Locking
    <3> QED BY <1>3, <2>1, <3>1, PoolStill DEF Locking
  <2>2. CASE M!Holds(t)' # M!Holds(t)
    <3>1. Holders = {} /\ Holders' = {t} /\ Pool!Enter(t)
      BY <1>3, <2>2, LockingHolders DEF Locking
    <3>2. Pool!Lock(t)
      BY <3>1 DEF Pool!Lock, Pool!PoolMutex!Acquire, Holders
    <3> QED BY <3>2 DEF Pool!Next, Pool!CallStep
  <2> QED BY <2>1, <2>2
<1>4. ASSUME NEW t \in Threads, Unlocking(t) PROVE [Pool!Next]_Pool!vars
  <2>1. CASE M!Holds(t)' = M!Holds(t)
    <3>1. Holders' = Holders
      BY <1>4, <2>1, UnlockingHolders DEF Unlocking
    <3> QED BY <1>4, <2>1, <3>1, PoolStill DEF Unlocking
  <2>2. CASE M!Holds(t)' # M!Holds(t)
    <3>1. Holders = {t} /\ Holders' = {} /\ Pool!Leave(t)
      BY <1>4, <2>2, UnlockingHolders DEF Unlocking
    <3>2. Pool!Unlock(t)
      BY <3>1 DEF Pool!Unlock, Pool!PoolMutex!Release, Holders
    <3> QED BY <3>2 DEF Pool!Next, Pool!CallStep
  <2> QED BY <2>1, <2>2
<1>5. ASSUME NEW t \in Threads, Interrupted(t) PROVE UNCHANGED Pool!vars
  <2>1. Holders' = Holders
    <3>1. /\ M!FutexInterrupted(t)
          /\ mpc \in [Threads -> M!Waits \cup M!Owns \cup {"out", "wake", "abort"}]
      BY <1>5 DEF Interrupted, M!IInv, M!TypeOK
    <3>2. ~M!Holds(t) /\ ~M!Holds(t)'
      BY <3>1 DEF M!FutexInterrupted, M!Holds, M!Owns, M!At, M!Goto
    <3> QED BY <3>1, <3>2, UnlockingHolders DEF M!Holds
  <2> QED BY <1>5, <2>1, PoolStill DEF Interrupted
<1>6. CASE UNCHANGED vars
  <2>1. Holders' = Holders
    BY <1>6 DEF vars, mutexVars, Holders, M!Holds
  <2> QED BY <1>6, <2>1, PoolStill DEF vars
<1> QED
  BY <1>1, <1>2, <1>3, <1>4, <1>5, <1>6 DEF Next, CallStep

\* A pool whose critical sections are those of the futex mutex does only what
\* ObjectPool, with an abstract lock, allows.
THEOREM PoolOverMutex == Spec => ImplementsObjectPool
<1>1. Init => Pool!Init
  BY DEF Init
<1> QED
  BY <1>1, PoolSteps, MutexKept, PTL DEF Spec, ImplementsObjectPool, Pool!Spec

\* The instance with the theorems has the same actions.
LEMMA SamePool ==
    /\ Pool!Init => PP!Init
    /\ [Pool!Next]_Pool!vars => [PP!Next]_PP!vars
<1> USE DEF Pool!PoolSize, PP!PoolSize, Pool!RoundUpPow2, PP!RoundUpPow2,
        Pool!SignificantBits, PP!SignificantBits,
        Pool!OneShifted, PP!OneShifted, Pool!Slots, PP!Slots,
        Pool!At, PP!At, Pool!Goto, PP!Goto, Pool!pool, PP!pool, Pool!locals, PP!locals,
        Pool!Num, PP!Num, Pool!TailIndex, PP!TailIndex,
        Pool!Range, PP!Range, Pool!IsInjective, PP!IsInjective
<1>1. Pool!Init => PP!Init
  BY DEF Pool!Init, PP!Init, Pool!PoolMutex!LockInit, PP!PoolMutex!LockInit
<1>2. ASSUME NEW t \in Threads PROVE Pool!Lock(t) \/ Pool!Unlock(t) => PP!Lock(t) \/ PP!Unlock(t)
  BY DEF Pool!Lock, PP!Lock, Pool!Unlock, PP!Unlock, Pool!Enter, PP!Enter, Pool!Leave, PP!Leave,
         Pool!PoolMutex!Acquire, PP!PoolMutex!Acquire, Pool!PoolMutex!Release, PP!PoolMutex!Release
<1>3. ASSUME NEW t \in Threads
      PROVE  Pool!TakeRead(t) \/ Pool!TakeAdvance(t) => PP!TakeRead(t) \/ PP!TakeAdvance(t)
  BY DEF Pool!TakeRead, PP!TakeRead, Pool!TakeAdvance, PP!TakeAdvance,
         Pool!CopiedOut, PP!CopiedOut
<1>4. ASSUME NEW t \in Threads
      PROVE  Pool!Construct(t) \/ Pool!ConstructThrows(t) \/ Pool!Destroy(t)
                => PP!Construct(t) \/ PP!ConstructThrows(t) \/ PP!Destroy(t)
  BY DEF Pool!Construct, PP!Construct, Pool!ConstructThrows, PP!ConstructThrows,
         Pool!Destroy, PP!Destroy
<1>5. ASSUME NEW t \in Threads
      PROVE  Pool!PutWrite(t) \/ Pool!PutCount(t) => PP!PutWrite(t) \/ PP!PutCount(t)
  BY DEF Pool!PutWrite, PP!PutWrite, Pool!PutCount, PP!PutCount, Pool!CopiedIn, PP!CopiedIn
<1>6. ASSUME NEW t \in Threads
      PROVE  /\ \A n \in 1..MaxBatch : Pool!AcquireBegin(t, n) => PP!AcquireBegin(t, n)
             /\ \A s : Pool!ReleaseBegin(t, s) => PP!ReleaseBegin(t, s)
  BY DEF Pool!AcquireBegin, PP!AcquireBegin, Pool!ReleaseBegin, PP!ReleaseBegin
<1>7. Pool!Batches = PP!Batches
  BY DEF Pool!Batches, PP!Batches
<1>8. UNCHANGED Pool!vars => UNCHANGED PP!vars
  BY DEF Pool!vars, PP!vars
<1>9. Pool!Next => PP!Next
  <2> SUFFICES ASSUME Pool!Next PROVE PP!Next
    OBVIOUS
  <2>1. PICK t \in Threads : \/ \E n \in 1..MaxBatch : Pool!AcquireBegin(t, n)
                             \/ \E s \in Pool!Batches : Pool!ReleaseBegin(t, s)
                             \/ Pool!CallStep(t)
    BY DEF Pool!Next
  <2>2. Pool!CallStep(t) => PP!CallStep(t)
    BY <1>2, <1>3, <1>4, <1>5 DEF Pool!CallStep, PP!CallStep
  <2>3. \/ \E n \in 1..MaxBatch : PP!AcquireBegin(t, n)
        \/ \E s \in PP!Batches : PP!ReleaseBegin(t, s)
        \/ PP!CallStep(t)
    BY <1>6, <1>7, <2>1, <2>2
  <2> QED BY <2>3 DEF PP!Next
<1> QED BY <1>1, <1>8, <1>9

LEMMA SamePoolConstants ==
    /\ PP!Cardinality(Objects) = PP!PoolSize /\ PP!IsFiniteSet(Objects) /\ Objects # {}
    /\ Requested \in Nat /\ MaxBatch \in Nat \ {0} /\ Throws \in BOOLEAN
<1>1. PP!PoolSize = Pool!PoolSize
  BY DEF PP!PoolSize, Pool!PoolSize, PP!RoundUpPow2, Pool!RoundUpPow2,
         PP!SignificantBits, Pool!SignificantBits,
         PP!OneShifted, Pool!OneShifted
<1>2. PP!Cardinality(Objects) = Cardinality(Objects)
  BY DEF PP!Cardinality, Cardinality, PP!IsFiniteSet, IsFiniteSet
<1>3. PP!IsFiniteSet(Objects) <=> IsFiniteSet(Objects)
  BY DEF PP!IsFiniteSet, IsFiniteSet
<1>4. PP!Cardinality(Objects) = PP!PoolSize /\ PP!IsFiniteSet(Objects)
  BY <1>1, <1>2, <1>3, PoolAssumption
<1> QED BY <1>4, PoolAssumption

LEMMA PoolKept == Spec => PP!Spec
<1>1. Init => PP!Init
  BY SamePool DEF Init
<1>2. M!IInv /\ [Next]_vars => [PP!Next]_PP!vars
  BY PoolSteps, SamePool
<1> QED
  BY <1>1, <1>2, MutexKept, PTL DEF Spec, PP!Spec

\* Whatever its callers do to get the futex mutex, every object is in one place:
\* free, with the program, with one call, or lost to a constructor that threw.
THEOREM EachObjectOnce == Spec => []Pool!OneOwner
<1>1. PP!Spec => []PP!OneOwner
  BY SamePoolConstants, PP!OneOwnerEach
<1>2. PP!Free = Pool!Free /\ \A t \in Threads : PP!Carried(t) = Pool!Carried(t)
  BY DEF PP!Free, Pool!Free, PP!FreeList, Pool!FreeList, PP!Carried, Pool!Carried, PP!At, Pool!At,
         PP!PoolSize, Pool!PoolSize, PP!RoundUpPow2, Pool!RoundUpPow2,
         PP!SignificantBits, Pool!SignificantBits,
         PP!OneShifted, Pool!OneShifted
<1>3. PP!OneOwner => Pool!OneOwner
  BY <1>2 DEF PP!OneOwner, Pool!OneOwner,
         PP!Abstract!EachInOnePlace, Pool!Abstract!EachInOnePlace, PP!Abstract!Range,
         Pool!Abstract!Range, PP!Abstract!IsInjective, Pool!Abstract!IsInjective
<1> QED
  BY <1>1, <1>3, PoolKept, PTL

\* And an object's constructor and destructor alternate.
THEOREM LifetimesOverMutex == Spec => []Pool!Lifetimes
<1>1. PP!Spec => []PP!Lifetimes
  BY SamePoolConstants, PP!LifetimesKept
<1>2. PP!Lifetimes => Pool!Lifetimes
  BY DEF PP!Lifetimes, Pool!Lifetimes, PP!Range, Pool!Range, PP!At, Pool!At, PP!Free, Pool!Free,
         PP!FreeList, Pool!FreeList, PP!PoolSize, Pool!PoolSize, PP!RoundUpPow2, Pool!RoundUpPow2,
         PP!SignificantBits, Pool!SignificantBits,
         PP!OneShifted, Pool!OneShifted
<1> QED
  BY <1>1, <1>2, PoolKept, PTL
-----------------------------------------------------------------------------
(***************************************************************************)
(* The whole pool, from the futex word to the line of free objects.        *)
(***************************************************************************)
\* The pool is a caller as Mutex expects one: a thread locks when it is out,
\* and unlocks when it is in.
THEOREM KeepsMutexContract == Spec => M!Spec
<1>1. Init => M!Init
  BY DEF Init
<1> QED
  BY <1>1, MutexSteps, PTL DEF Spec, M!Spec

\* So what the mutex promises its callers, the calls of the pool can count on:
\* one of them at a time under the scoped_lock, no wakeup lost, and no
\* assertion of the deadlock checks that fires.
THEOREM MutexServesPool == Spec => [](M!MutualExclusion /\ M!NoLostWakeup /\ M!AssertionsHold)
<1>1. M!IInv => M!MutualExclusion /\ M!NoLostWakeup /\ M!AssertionsHold
  BY DEF M!IInv
<1> QED
  BY <1>1, MutexKept, PTL

\* While a call sleeps on the futex, another thread is in lock(), in its critical
\* section or in unlock(), and awake: the pool never hangs as a whole.
THEOREM CallsNeverAllAsleep ==
    Spec => [](\A t \in Threads : mpc[t] = "asleep" =>
                  \E u \in Threads : mpc[u] \in (M!Waits \cup M!Owns \cup {"wake"}) \ {"asleep"})
<1>1. Init => MP!Init
  BY SameMutex DEF Init
<1>2. [Next]_vars => [MP!Next]_MP!vars
  BY MutexSteps, SameMutex
<1>3. MP!Spec => [](\A t \in Threads : MP!At(t, "asleep") =>
             \E u \in Threads : mpc[u] \in (MP!Waits \cup MP!Owns \cup {"wake"}) \ {"asleep"})
  BY MutexAssumption, MP!NeverAllAsleep
<1> QED
  BY <1>1, <1>2, <1>3, PTL
     DEF Spec, MP!Spec, MP!At, MP!Waits, M!Waits, MP!Owns, M!Owns

LEMMA SameAbstractPool ==
    /\ PP!Abstract!PoolInit => Pool!Abstract!PoolInit
    /\ [PP!Abstract!PoolNext]_PP!Abstract!poolVars
          => [Pool!Abstract!PoolNext]_Pool!Abstract!poolVars
<1> USE DEF PP!Free, Pool!Free, PP!FreeList, Pool!FreeList, PP!Carried, Pool!Carried,
        PP!Progress, Pool!Progress, PP!At, Pool!At,
        PP!PoolSize, Pool!PoolSize, PP!RoundUpPow2, Pool!RoundUpPow2,
        PP!SignificantBits, Pool!SignificantBits,
        PP!OneShifted, Pool!OneShifted,
        PP!Abstract!Range, Pool!Abstract!Range, PP!Abstract!IsInjective, Pool!Abstract!IsInjective
<1>1. PP!Abstract!PoolInit => Pool!Abstract!PoolInit
  BY DEF PP!Abstract!PoolInit, Pool!Abstract!PoolInit
<1>2. ASSUME NEW t \in Threads
      PROVE  /\ PP!Abstract!Take(t) => Pool!Abstract!Take(t)
             /\ PP!Abstract!Lose(t) => Pool!Abstract!Lose(t)
             /\ PP!Abstract!Put(t) => Pool!Abstract!Put(t)
             /\ PP!Abstract!Return(t) => Pool!Abstract!Return(t)
  BY DEF PP!Abstract!Take, Pool!Abstract!Take, PP!Abstract!Lose, Pool!Abstract!Lose,
         PP!Abstract!Put, Pool!Abstract!Put, PP!Abstract!Return, Pool!Abstract!Return,
         PP!Abstract!Granted, Pool!Abstract!Granted
<1>3. ASSUME NEW t \in Threads, NEW n PROVE PP!Abstract!Ask(t, n) => Pool!Abstract!Ask(t, n)
  BY DEF PP!Abstract!Ask, Pool!Abstract!Ask
<1>4. ASSUME NEW t \in Threads, NEW q PROVE PP!Abstract!Give(t, q) => Pool!Abstract!Give(t, q)
  BY DEF PP!Abstract!Give, Pool!Abstract!Give
<1>5. PP!Abstract!Batches = Pool!Abstract!Batches
  BY DEF PP!Abstract!Batches, Pool!Abstract!Batches
<1>6. UNCHANGED PP!Abstract!poolVars => UNCHANGED Pool!Abstract!poolVars
  BY DEF PP!Abstract!poolVars, Pool!Abstract!poolVars
<1>7. PP!Abstract!PoolNext => Pool!Abstract!PoolNext
  <2> SUFFICES ASSUME PP!Abstract!PoolNext PROVE Pool!Abstract!PoolNext
    OBVIOUS
  <2>1. PICK t \in Threads :
              \/ \E n \in 1..MaxBatch : PP!Abstract!Ask(t, n)
              \/ \E q \in PP!Abstract!Batches : PP!Abstract!Give(t, q)
              \/ PP!Abstract!Take(t) \/ PP!Abstract!Lose(t)
              \/ PP!Abstract!Put(t) \/ PP!Abstract!Return(t)
    BY DEF PP!Abstract!PoolNext
  <2>2. \/ \E n \in 1..MaxBatch : Pool!Abstract!Ask(t, n)
        \/ \E q \in Pool!Abstract!Batches : Pool!Abstract!Give(t, q)
        \/ Pool!Abstract!Take(t) \/ Pool!Abstract!Lose(t)
        \/ Pool!Abstract!Put(t) \/ Pool!Abstract!Return(t)
    BY <1>2, <1>3, <1>4, <1>5, <2>1
  <2> QED BY <2>2 DEF Pool!Abstract!PoolNext
<1> QED BY <1>1, <1>6, <1>7

\* Threads that spin, sleep, are woken and overtake one another in the futex
\* mutex still see a line of free objects that each call changes at one moment.
THEOREM ImplementsAbstractPool == Spec => Pool!ImplementsPool
<1>1. PP!Spec => PP!ImplementsPool
  BY SamePoolConstants, PP!ImplementsAbstractPool
<1> QED
  BY <1>1, PoolKept, SameAbstractPool, PTL
     DEF PP!ImplementsPool, Pool!ImplementsPool, PP!Abstract!PoolSpec, Pool!Abstract!PoolSpec

=============================================================================
