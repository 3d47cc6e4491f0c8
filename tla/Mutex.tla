------------------------------- MODULE Mutex -------------------------------
(***************************************************************************)
(* SyncTools::Mutex of include/sync_tools/mutex.hpp: an atomic word, the   *)
(* kernel's futex wait queue for it and, in builds with                    *)
(* SYNC_TOOLS_ENABLE_DEADLOCK_CHECKS, two atomics that name the owner.     *)
(*                                                                         *)
(* Each access to a shared atomic and each futex call is one step.  The    *)
(* threads keep the preconditions of the header: nobody locks what it      *)
(* already holds, and only the holder unlocks.                             *)
(***************************************************************************)
EXTENDS Naturals, Sequences

CONSTANTS Threads,
          NoThread,     \* pthread_t{}
          SpinCount,    \* _spin_count
          Checks        \* SYNC_TOOLS_ENABLE_DEADLOCK_CHECKS

ASSUME NoThreadAssumption == NoThread \notin Threads
ASSUME SpinAssumption == SpinCount \in Nat
ASSUME ChecksAssumption == Checks \in BOOLEAN

VARIABLES state,        \* _state
          waiters,      \* the kernel's queue of threads asleep on _state
          owner,        \* _owner
          ownerSet,     \* _owner_set
          pc,           \* per thread: the next step of its call
          spins,        \* per thread: the local `spin` of _lock_slow
          trying        \* per thread: is the call try_lock?

vars == <<state, waiters, owner, ownerSet, pc, spins, trying>>
ownership == <<owner, ownerSet>>
locals == <<spins, trying>>

\* MutexState: Contended has the bit of Locked set.
Free == 0
Locked == 1
Contended == 3
HasLockedBit(s) == s % 2 = Locked

Init == /\ state = Free
        /\ waiters = <<>>
        /\ owner = NoThread /\ ownerSet = FALSE
        /\ pc = [t \in Threads |-> "out"]
        /\ spins = [t \in Threads |-> 0]
        /\ trying = [t \in Threads |-> FALSE]

At(t, l) == pc[t] = l
Goto(t, l) == pc' = [pc EXCEPT ![t] = l]
Got(t) == Goto(t, IF Checks THEN "setowner" ELSE "cs")
Without(s, i) == [j \in 1..(Len(s) - 1) |-> IF j < i THEN s[j] ELSE s[j + 1]]
-----------------------------------------------------------------------------
(***************************************************************************)
(* Faults: what plausible mistakes would turn some actions below into.     *)
(* Nothing uses them; they show that each property can be broken.          *)
(***************************************************************************)
LoadThenStore(t) ==              \* the spin loop stores without comparing again
    /\ At(t, "spin")
    /\ state' = Locked
    /\ Got(t)
    /\ UNCHANGED <<waiters, ownership, locals>>

ForgetsSleepers(t) ==            \* a thread that finds the word Free leaves it Locked
    /\ At(t, "xchg")
    /\ state' = IF HasLockedBit(state) THEN Contended ELSE Locked
    /\ IF HasLockedBit(state) THEN Goto(t, "wait") ELSE Got(t)
    /\ UNCHANGED <<waiters, ownership, locals>>

SleepsUnconditionally(t) ==      \* FUTEX_WAIT without its compare
    /\ At(t, "wait")
    /\ waiters' = Append(waiters, t)
    /\ Goto(t, "asleep")
    /\ UNCHANGED <<state, ownership, locals>>

NeverWakes(t) ==                 \* unlock stores Free without looking at what was there
    /\ At(t, "release")
    /\ state' = Free
    /\ Goto(t, "out")
    /\ UNCHANGED <<waiters, ownership, locals>>

KeepsContended(t) ==             \* unlock leaves Contended in place for the waiters
    /\ At(t, "release")
    /\ state' = IF state = Contended THEN Contended ELSE Free
    /\ Goto(t, IF state = Contended THEN "wake" ELSE "out")
    /\ UNCHANGED <<waiters, ownership, locals>>

WakesNobody(t) ==                \* FUTEX_WAKE with a count of 0
    /\ At(t, "wake")
    /\ Goto(t, "out")
    /\ UNCHANGED <<state, waiters, ownership, locals>>

FlagBeforeOwner(t) ==            \* _owner_set raised before _owner is stored
    /\ At(t, "setowner")
    /\ ownerSet' = TRUE
    /\ Goto(t, "cs")
    /\ UNCHANGED <<state, waiters, owner, locals>>

TakesOnWakeup(t) ==              \* a woken thread believes it was handed the lock
    /\ At(t, "xchg")
    /\ state' = Contended
    /\ IF state = Locked THEN Goto(t, "wait") ELSE Got(t)
    /\ UNCHANGED <<waiters, ownership, locals>>
-----------------------------------------------------------------------------
(***************************************************************************)
(* lock and try_lock.                                                      *)
(***************************************************************************)
Begin(t, b) ==
    /\ At(t, "out")
    /\ trying' = [trying EXCEPT ![t] = b]
    /\ Goto(t, IF Checks THEN "check" ELSE "cas")
    /\ UNCHANGED <<state, waiters, ownership, spins>>

\* The assertion against recursion: two loads, the second only if needed.
CheckOwnerSet(t) ==
    /\ At(t, "check")
    /\ Goto(t, IF ownerSet THEN "checkowner" ELSE "cas")
    /\ UNCHANGED <<state, waiters, ownership, locals>>

CheckOwner(t) ==
    /\ At(t, "checkowner")
    /\ Goto(t, IF owner = t THEN "abort" ELSE "cas")
    /\ UNCHANGED <<state, waiters, ownership, locals>>

CasWin(t) ==
    /\ At(t, "cas") /\ state = Free
    /\ state' = Locked
    /\ Got(t)
    /\ UNCHANGED <<waiters, ownership, locals>>

CasLose(t) ==
    /\ At(t, "cas") /\ state # Free
    /\ spins' = [spins EXCEPT ![t] = 0]
    /\ Goto(t, IF trying[t] THEN "out" ELSE IF SpinCount = 0 THEN "xchg" ELSE "spin")
    /\ UNCHANGED <<state, waiters, ownership, trying>>

SpinWin(t) ==
    /\ At(t, "spin") /\ state = Free
    /\ state' = Locked
    /\ Got(t)
    /\ UNCHANGED <<waiters, ownership, locals>>

SpinLose(t) ==
    /\ At(t, "spin") /\ state # Free
    /\ spins' = [spins EXCEPT ![t] = @ + 1]
    /\ Goto(t, IF spins[t] + 1 < SpinCount THEN "spin" ELSE "xchg")
    /\ UNCHANGED <<state, waiters, ownership, trying>>

Xchg(t) ==
    /\ At(t, "xchg")
    /\ state' = Contended
    /\ IF HasLockedBit(state) THEN Goto(t, "wait") ELSE Got(t)
    /\ UNCHANGED <<waiters, ownership, locals>>

\* The kernel compares _state with Contended before it queues the thread.
FutexWait(t) ==
    /\ At(t, "wait") /\ state = Contended
    /\ waiters' = Append(waiters, t)
    /\ Goto(t, "asleep")
    /\ UNCHANGED <<state, ownership, locals>>

FutexAgain(t) ==        \* EAGAIN
    /\ At(t, "wait") /\ state # Contended
    /\ Goto(t, "xchg")
    /\ UNCHANGED <<state, waiters, ownership, locals>>

FutexInterrupted(t) ==  \* EINTR
    /\ At(t, "asleep")
    /\ \E i \in DOMAIN waiters : waiters[i] = t /\ waiters' = Without(waiters, i)
    /\ Goto(t, "xchg")
    /\ UNCHANGED <<state, ownership, locals>>

SetOwner(t) ==
    /\ At(t, "setowner")
    /\ owner' = t
    /\ Goto(t, "setflag")
    /\ UNCHANGED <<state, waiters, ownerSet, locals>>

SetOwnerSet(t) ==
    /\ At(t, "setflag")
    /\ ownerSet' = TRUE
    /\ Goto(t, "cs")
    /\ UNCHANGED <<state, waiters, owner, locals>>
-----------------------------------------------------------------------------
(***************************************************************************)
(* unlock.  The two loads of its assertion read what only the holder       *)
(* writes, so they are one step.                                           *)
(***************************************************************************)
UnlockBegin(t) ==
    /\ At(t, "cs")
    /\ Goto(t, IF Checks THEN "assert" ELSE "release")
    /\ UNCHANGED <<state, waiters, ownership, locals>>

AssertOwner(t) ==
    /\ At(t, "assert")
    /\ Goto(t, IF ownerSet /\ owner = t THEN "clearflag" ELSE "abort")
    /\ UNCHANGED <<state, waiters, ownership, locals>>

ClearOwnerSet(t) ==
    /\ At(t, "clearflag")
    /\ ownerSet' = FALSE
    /\ Goto(t, "clearowner")
    /\ UNCHANGED <<state, waiters, owner, locals>>

ClearOwner(t) ==
    /\ At(t, "clearowner")
    /\ owner' = NoThread
    /\ Goto(t, "release")
    /\ UNCHANGED <<state, waiters, ownerSet, locals>>

Release(t) ==
    /\ At(t, "release")
    /\ state' = Free
    /\ Goto(t, IF state = Contended THEN "wake" ELSE "out")
    /\ UNCHANGED <<waiters, ownership, locals>>

\* The kernel wakes the thread that has slept longest, if any sleeps.
FutexWake(t) ==
    /\ At(t, "wake")
    /\ IF waiters = <<>>
         THEN Goto(t, "out") /\ UNCHANGED waiters
         ELSE /\ pc' = [pc EXCEPT ![t] = "out", ![Head(waiters)] = "xchg"]
              /\ waiters' = Tail(waiters)
    /\ UNCHANGED <<state, ownership, locals>>
-----------------------------------------------------------------------------
\* What a thread does between the beginning of lock() and the end of unlock().
LockStep(t) ==
    \/ CheckOwnerSet(t) \/ CheckOwner(t) \/ CasWin(t) \/ CasLose(t)
    \/ SpinWin(t) \/ SpinLose(t) \/ Xchg(t) \/ FutexWait(t) \/ FutexAgain(t)
    \/ SetOwner(t) \/ SetOwnerSet(t)
UnlockStep(t) ==
    \/ UnlockBegin(t) \/ AssertOwner(t) \/ ClearOwnerSet(t) \/ ClearOwner(t)
    \/ Release(t) \/ FutexWake(t)

Next == \E t \in Threads :
           \/ \E b \in BOOLEAN : Begin(t, b)
           \/ LockStep(t)
           \/ UnlockStep(t)
           \/ FutexInterrupted(t)

Spec == Init /\ [][Next]_vars

(***************************************************************************)
(* A thread that is not asleep is scheduled, and its critical section      *)
(* ends.  Nothing obliges a thread to lock, and no signal has to come.     *)
(***************************************************************************)
FairSpec == Spec /\ \A t \in Threads : WF_vars(LockStep(t) \/ UnlockStep(t))
-----------------------------------------------------------------------------
(***************************************************************************)
(* Properties.                                                             *)
(***************************************************************************)
Waits == {"check", "checkowner", "cas", "spin", "xchg", "wait", "asleep"}
Owns == {"setowner", "setflag", "cs", "assert", "clearflag", "clearowner", "release"}

Holds(t) == pc[t] \in Owns

\* The type of every variable.
TypeOK == /\ state \in {Free, Locked, Contended}
          /\ waiters \in Seq(Threads)
          /\ owner \in Threads \cup {NoThread}
          /\ ownerSet \in BOOLEAN
          /\ pc \in [Threads -> Waits \cup Owns \cup {"out", "wake", "abort"}]
          /\ spins \in [Threads -> 0..SpinCount]
          /\ trying \in [Threads -> BOOLEAN]

\* At most one thread is between its acquisition and its release, whichever of
\* the three ways (fast path, spin, exchange after a sleep) each of them came.
MutualExclusion == \A t, u \in Threads : Holds(t) /\ Holds(u) => t = u

\* While a thread sleeps, the next unlock will see Contended, or a wakeup is on
\* its way, or a thread is about to write Contended: the wakeup is never lost.
NoLostWakeup ==
    waiters # <<>> => \/ state = Contended
                      \/ \E t \in Threads : pc[t] \in {"wake", "xchg"}

\* No assertion of the deadlock checks fires in a program that locks and
\* unlocks correctly, although _owner and _owner_set are separate atomics that
\* other threads read while the owner changes.
AssertionsHold == \A t \in Threads : ~At(t, "abort")

\* try_lock fails only at a moment when some thread owns the mutex.
TryLockFailsOnlyIfHeld ==
    [][\A t \in Threads : At(t, "cas") /\ At(t, "out")' => \E u \in Threads : Holds(u)]_vars

\* The mutex is a lock: the winning compare_exchange or exchange acquires it,
\* the exchange of unlock releases it.
Lock == INSTANCE AbstractLock WITH holders <- {t \in Threads : Holds(t)}
ImplementsLock == Lock!LockSpec

\* Whenever some thread is in lock(), some thread gets the mutex.
SomebodyGetsIn ==
    (\E t \in Threads : pc[t] \in Waits /\ ~trying[t]) ~> (\E t \in Threads : Holds(t))

\* A thread asleep on the futex is woken, even if other threads keep barging in.
SleepersWoken == \A t \in Threads : At(t, "asleep") ~> ~At(t, "asleep")

\* If threads stop making new calls, every lock() in progress succeeds.
EveryLockerServed ==
    <>[][\A t \in Threads : At(t, "out") => At(t, "out")']_vars =>
        \A t \in Threads : pc[t] \in Waits /\ ~trying[t] ~> At(t, "cs")

(***************************************************************************)
(* README, "Fairness: Wakes one waiter; prevents starvation".  Taken as    *)
(* what it says of one thread: its lock() succeeds in the end.             *)
(***************************************************************************)
NoStarvation == \A t \in Threads : pc[t] \in Waits /\ ~trying[t] ~> At(t, "cs")
-----------------------------------------------------------------------------
(***************************************************************************)
(* The inductive invariant.                                                *)
(***************************************************************************)
StateOK == state = Free <=> \A t \in Threads : ~Holds(t)
QueueOK == /\ \A i \in DOMAIN waiters : At(waiters[i], "asleep")
           /\ \A t \in Threads : At(t, "asleep") => \E i \in DOMAIN waiters : waiters[i] = t
           /\ \A i, j \in DOMAIN waiters : waiters[i] = waiters[j] => i = j
OwnerOK == /\ owner \in Threads =>
                 /\ Checks
                 /\ pc[owner] \in {"setflag", "cs", "assert", "clearflag", "clearowner"}
           /\ ownerSet => owner \in Threads /\ ~At(owner, "clearowner")
           /\ \A t \in Threads :
                 /\ pc[t] \in {"setowner", "setflag"} => Checks
                 /\ pc[t] \in {"setflag", "clearowner"} => owner = t
                 /\ pc[t] \in {"assert", "clearflag"} => ownerSet /\ owner = t
                 /\ Checks /\ At(t, "cs") => ownerSet /\ owner = t

SpinOK == \A t \in Threads : At(t, "spin") => spins[t] < SpinCount

\* The word, the futex queue and the owner agree with what the threads do.
IInv == /\ TypeOK /\ MutualExclusion /\ StateOK /\ QueueOK /\ OwnerOK /\ SpinOK
        /\ NoLostWakeup /\ AssertionsHold
=============================================================================
