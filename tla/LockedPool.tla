----------------------------- MODULE LockedPool -----------------------------
(***************************************************************************)
(* An ObjectPool with the Mutex it really has.  ObjectPool takes its mutex *)
(* for an abstract lock that is acquired and released in one step; here    *)
(* every call goes through the word, the spinning and the futex queue of   *)
(* Mutex to reach its critical section, works there while others spin,     *)
(* fall asleep and are woken, and leaves through unlock().                 *)
(*                                                                         *)
(* A step of one of the two modules leaves the variables of the other      *)
(* alone, but for two: the step that gives a thread the mutex takes it     *)
(* into the critical section of its call, and the exchange in unlock()     *)
(* ends both.                                                              *)
(***************************************************************************)
EXTENDS Naturals, Sequences, FiniteSets

CONSTANTS Threads, NoThread, SpinCount, Checks,     \* of Mutex
          Objects, Requested, MaxBatch, Throws      \* of ObjectPool

VARIABLES ring, headIndex, available, alive, held, pc, want, items, built, leaked
VARIABLES state, waiters, owner, ownerSet, spins, trying,
          mpc           \* per thread: the next step of its call of the mutex

poolVars == <<ring, headIndex, available, alive, held, pc, want, items, built, leaked>>
mutexVars == <<state, waiters, owner, ownerSet, mpc, spins, trying>>
vars == <<poolVars, mutexVars>>

M == INSTANCE Mutex WITH pc <- mpc
Pool == INSTANCE ObjectPool WITH holders <- {t \in Threads : M!Holds(t)}

\* What the two modules assume of their constants.
ASSUME MutexAssumption == /\ NoThread \notin Threads /\ SpinCount \in Nat /\ Checks \in BOOLEAN
ASSUME PoolAssumption == /\ Requested \in Nat /\ MaxBatch \in Nat \ {0} /\ Throws \in BOOLEAN
                         /\ IsFiniteSet(Objects) /\ Objects # {}
                         /\ Cardinality(Objects) = Pool!PoolSize

Init == M!Init /\ Pool!Init
-----------------------------------------------------------------------------
\* A call of the pool begins, when the thread has left unlock() altogether.
NewCall(t) ==
    /\ mpc[t] = "out"
    /\ UNCHANGED mutexVars
    /\ \/ \E n \in 1..MaxBatch : Pool!AcquireBegin(t, n)
       \/ \E s \in Pool!Batches : Pool!ReleaseBegin(t, s)

\* What release does before it asks for the mutex.
BeforeLock(t) == UNCHANGED mutexVars /\ Pool!Destroy(t)

\* The scoped_lock begins: lock(), never try_lock().
LockBegin(t) ==
    /\ pc[t] \in {"lock to take", "lock to put"}
    /\ M!Begin(t, FALSE)
    /\ UNCHANGED poolVars

Locking(t) ==
    /\ M!LockStep(t)
    /\ IF M!Holds(t)' = M!Holds(t) THEN UNCHANGED poolVars ELSE Pool!Enter(t)

\* The statements under the scoped_lock.
Critical(t) ==
    /\ mpc[t] = "cs"
    /\ UNCHANGED mutexVars
    /\ \/ Pool!TakeRead(t) \/ Pool!TakeAdvance(t)
       \/ Pool!Construct(t) \/ Pool!ConstructThrows(t)
       \/ Pool!PutWrite(t) \/ Pool!PutCount(t)

\* The scoped_lock ends: unlock().
Unlocking(t) ==
    /\ M!UnlockStep(t)
    /\ mpc[t] = "cs" => pc[t] = "unlock"
    /\ IF M!Holds(t)' = M!Holds(t) THEN UNCHANGED poolVars ELSE Pool!Leave(t)

Interrupted(t) == M!FutexInterrupted(t) /\ UNCHANGED poolVars
-----------------------------------------------------------------------------
CallStep(t) == BeforeLock(t) \/ LockBegin(t) \/ Locking(t) \/ Critical(t) \/ Unlocking(t)

Next == \E t \in Threads : NewCall(t) \/ CallStep(t) \/ Interrupted(t)

Spec == Init /\ [][Next]_vars

\* A thread in a call goes on, unless it sleeps; constructors and destructors
\* end.  Nothing obliges a thread to call, and no signal has to come.
FairSpec == Spec /\ \A t \in Threads : WF_vars(CallStep(t))
-----------------------------------------------------------------------------
(***************************************************************************)
(* Properties.                                                             *)
(***************************************************************************)
\* With the real mutex in place of the abstract lock, the pool does only what
\* ObjectPool allows, whichever way its callers get past one another.
ImplementsObjectPool == Pool!Spec

\* Once no new calls are made, every call in progress returns, also when a
\* constructor has thrown while others waited for the mutex.
CallsReturn ==
    <>[][\A t \in Threads : pc[t] = "idle" => pc'[t] = "idle"]_vars =>
        \A t \in Threads : pc[t] # "idle" ~> pc[t] = "idle"
=============================================================================
