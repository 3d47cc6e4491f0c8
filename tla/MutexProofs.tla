---------------------------- MODULE MutexProofs ----------------------------
(***************************************************************************)
(* Theorems about Mutex, for every set of threads, every spin count, and   *)
(* builds with or without the deadlock checks.                             *)
(***************************************************************************)
EXTENDS Mutex, TLAPS, SequenceTheorems

\* A new mutex satisfies the invariant.
LEMMA InitInv == Init => IInv
<1> SUFFICES ASSUME Init PROVE IInv
  OBVIOUS
<1>1. waiters \in Seq(Threads) /\ DOMAIN waiters = {}
  BY EmptySeq DEF Init
<1>2. TypeOK
  <2>1. pc \in [Threads -> Waits \cup Owns \cup {"out", "wake", "abort"}]
    BY DEF Init
  <2>2. spins \in [Threads -> 0..SpinCount] /\ trying \in [Threads -> BOOLEAN]
    BY SpinAssumption DEF Init
  <2> QED BY <1>1, <2>1, <2>2 DEF Init, TypeOK
<1>3. \A t \in Threads : ~Holds(t) /\ pc[t] = "out"
  BY DEF Init, Holds, Owns
<1>4. MutualExclusion /\ StateOK /\ NoLostWakeup /\ AssertionsHold /\ SpinOK
  BY <1>3 DEF Init, MutualExclusion, StateOK, NoLostWakeup, AssertionsHold, SpinOK, At, Holds, Owns
<1>5. QueueOK /\ OwnerOK
  BY <1>1, <1>3, NoThreadAssumption DEF Init, QueueOK, OwnerOK, At
<1> QED
  BY <1>2, <1>4, <1>5 DEF IInv

\* The queue without one of its entries.
LEMMA WithoutFacts ==
    ASSUME waiters \in Seq(Threads), NEW i \in DOMAIN waiters
    PROVE  /\ Without(waiters, i) \in Seq(Threads)
           /\ Len(Without(waiters, i)) = Len(waiters) - 1
           /\ \A j \in DOMAIN Without(waiters, i) :
                 \E k \in DOMAIN waiters : /\ k # i /\ k = (IF j < i THEN j ELSE j + 1)
                                          /\ Without(waiters, i)[j] = waiters[k]
           /\ \A k \in DOMAIN waiters \ {i} :
                 \E j \in DOMAIN Without(waiters, i) : Without(waiters, i)[j] = waiters[k]
<1>1. i \in 1..Len(waiters) /\ Len(waiters) \in Nat /\ Len(waiters) - 1 \in Nat
  OBVIOUS
<1>2. ASSUME NEW j \in 1..(Len(waiters) - 1)
      PROVE  \E k \in 1..Len(waiters) : /\ k # i /\ k = (IF j < i THEN j ELSE j + 1)
                                       /\ Without(waiters, i)[j] = waiters[k]
  BY <1>1 DEF Without
<1>3. \A j \in 1..(Len(waiters) - 1) : Without(waiters, i)[j] \in Threads
  BY <1>2
<1>4. Without(waiters, i) \in [1..(Len(waiters) - 1) -> Threads]
  BY <1>3 DEF Without
<1>5. Without(waiters, i) \in Seq(Threads)
  BY <1>1, <1>4, SeqDef
<1>6. DOMAIN Without(waiters, i) = 1..(Len(waiters) - 1)
  BY <1>4
<1>7. Len(Without(waiters, i)) = Len(waiters) - 1
  BY <1>1, <1>5, <1>6, LenProperties
<1>8. ASSUME NEW k \in 1..Len(waiters), k # i
      PROVE  \E j \in 1..(Len(waiters) - 1) : Without(waiters, i)[j] = waiters[k]
  <2>1. CASE k < i
    BY <1>1, <2>1 DEF Without
  <2>2. CASE k > i
    <3>1. k - 1 \in 1..(Len(waiters) - 1) /\ ~(k - 1 < i) /\ (k - 1) + 1 = k
      BY <1>1, <2>2
    <3>2. Without(waiters, i)[k - 1] = waiters[k]
      BY <1>1, <3>1 DEF Without
    <3> QED BY <3>1, <3>2
  <2> QED BY <1>1, <1>8, <2>1, <2>2
<1>9. \A k \in DOMAIN waiters \ {i} :
         \E j \in DOMAIN Without(waiters, i) : Without(waiters, i)[j] = waiters[k]
  <2>1. DOMAIN waiters = 1..Len(waiters)
    OBVIOUS
  <2> HIDE DEF Without
  <2> QED BY <1>6, <1>8, <2>1
<1> QED
  BY <1>2, <1>5, <1>6, <1>7, <1>9

\* Every step keeps the types.
LEMMA TypeStep == ASSUME IInv, [Next]_vars PROVE TypeOK'
<1> USE SpinAssumption, NoThreadAssumption
    DEF IInv, TypeOK, Goto, Got, At, Waits, Owns, ownership, locals, Free, Locked, Contended
<1>1. ASSUME NEW t \in Threads, NEW b \in BOOLEAN, Begin(t, b) PROVE TypeOK'
  BY <1>1 DEF Begin
<1>2. ASSUME NEW t \in Threads, LockStep(t) PROVE TypeOK'
  <2>1. CASE CheckOwnerSet(t) \/ CheckOwner(t) \/ CasWin(t) \/ SpinWin(t) \/ Xchg(t)
    BY <2>1 DEF CheckOwnerSet, CheckOwner, CasWin, SpinWin, Xchg
  <2>2. CASE CasLose(t)
    BY <2>2 DEF CasLose
  <2>3. CASE SpinLose(t)
    <3>1. spins[t] < SpinCount
      BY <2>3 DEF SpinLose, SpinOK
    <3> QED BY <2>3, <3>1 DEF SpinLose
  <2>4. CASE FutexWait(t) \/ FutexAgain(t)
    <3>1. Append(waiters, t) \in Seq(Threads)
      BY AppendProperties
    <3> QED BY <2>4, <3>1 DEF FutexWait, FutexAgain
  <2>5. CASE SetOwner(t) \/ SetOwnerSet(t)
    BY <2>5 DEF SetOwner, SetOwnerSet
  <2> QED BY <1>2, <2>1, <2>2, <2>3, <2>4, <2>5 DEF LockStep
<1>3. ASSUME NEW t \in Threads, UnlockStep(t) PROVE TypeOK'
  <2>1. CASE UnlockBegin(t) \/ AssertOwner(t) \/ ClearOwnerSet(t) \/ ClearOwner(t) \/ Release(t)
    BY <2>1 DEF UnlockBegin, AssertOwner, ClearOwnerSet, ClearOwner, Release
  <2>2. CASE FutexWake(t)
    <3>1. waiters # <<>> => Head(waiters) \in Threads /\ Tail(waiters) \in Seq(Threads)
      BY HeadTailProperties
    <3> QED BY <2>2, <3>1 DEF FutexWake
  <2> QED BY <1>3, <2>1, <2>2 DEF UnlockStep
<1>4. ASSUME NEW t \in Threads, FutexInterrupted(t) PROVE TypeOK'
  BY <1>4, WithoutFacts DEF FutexInterrupted
<1>5. CASE UNCHANGED vars
  BY <1>5 DEF vars
<1> QED
  BY <1>1, <1>2, <1>3, <1>4, <1>5 DEF Next

-----------------------------------------------------------------------------
(***************************************************************************)
(* Steps of one awake thread that leave the futex queue alone.             *)
(***************************************************************************)
LEMMA StepOfOne ==
    ASSUME IInv, TypeOK', NEW t \in Threads, pc[t] # "asleep", pc'[t] # "asleep",
           waiters' = waiters,
           \A u \in Threads \ {t} : pc'[u] = pc[u] /\ spins'[u] = spins[u]
    PROVE  /\ QueueOK'
           /\ \A u \in Threads \ {t} : Holds(u)' <=> Holds(u)
           /\ (pc'[t] = "spin" => spins'[t] < SpinCount) => SpinOK'
           /\ pc'[t] # "abort" => AssertionsHold'
<1>1. QueueOK'
  <2>1. \A i \in DOMAIN waiters : waiters[i] \in Threads /\ waiters[i] # t
    BY DEF IInv, TypeOK, QueueOK, At
  <2> QED BY <2>1 DEF IInv, QueueOK, At
<1>2. ASSUME NEW u \in Threads \ {t} PROVE Holds(u)' <=> Holds(u)
  BY DEF Holds
<1>3. (pc'[t] = "spin" => spins'[t] < SpinCount) => SpinOK'
  BY DEF IInv, SpinOK, At
<1>4. pc'[t] # "abort" => AssertionsHold'
  BY DEF IInv, AssertionsHold, At
<1> QED
  BY <1>1, <1>2, <1>3, <1>4

\* A step that neither acquires nor releases, and does not touch the word.
LEMMA QuietStep ==
    ASSUME IInv, TypeOK', NEW t \in Threads,
           pc[t] \notin {"asleep", "wake", "xchg"},
           UNCHANGED <<state, waiters>>,
           \A u \in Threads \ {t} : pc'[u] = pc[u] /\ spins'[u] = spins[u],
           pc[t] \in Owns <=> pc'[t] \in Owns,
           pc'[t] = "spin" => spins'[t] < SpinCount,
           pc'[t] \notin {"abort", "asleep"}, OwnerOK'
    PROVE  IInv'
<1>1. QueueOK' /\ SpinOK' /\ AssertionsHold'
  BY StepOfOne
<1>2. ASSUME NEW u \in Threads PROVE Holds(u)' <=> Holds(u)
  BY DEF Holds
<1>3. MutualExclusion' /\ StateOK'
  BY <1>2 DEF IInv, MutualExclusion, StateOK, Holds
<1>4. NoLostWakeup'
  BY DEF IInv, NoLostWakeup
<1> QED
  BY <1>1, <1>3, <1>4 DEF IInv

\* A step that makes t the owner of a free mutex.
LEMMA AcquireStep ==
    ASSUME IInv, TypeOK', NEW t \in Threads, pc[t] \in Waits \ {"asleep"},
           state = Free, state' # Free,
           state' = Contended \/ pc[t] # "xchg",
           UNCHANGED <<waiters, ownership, locals>>, Got(t)
    PROVE  IInv'
<1>0. /\ pc'[t] = (IF Checks THEN "setowner" ELSE "cs")
      /\ \A u \in Threads \ {t} : pc'[u] = pc[u] /\ spins'[u] = spins[u]
      /\ pc[t] \in Waits \ {"asleep"}
  BY DEF Got, Goto, locals, IInv, TypeOK
<1>1. QueueOK' /\ SpinOK' /\ AssertionsHold'
  BY <1>0, StepOfOne
<1>2. \A u \in Threads : ~Holds(u)
  BY DEF IInv, StateOK
<1>3. ASSUME NEW u \in Threads PROVE Holds(u)' <=> u = t
  BY <1>0, <1>2 DEF Holds, Owns
<1>4. MutualExclusion' /\ StateOK'
  BY <1>3 DEF MutualExclusion, StateOK, Holds
<1>5. owner \notin Threads /\ ~ownerSet
  BY <1>2 DEF IInv, OwnerOK, Holds, Owns
<1>6. OwnerOK'
  BY <1>0, <1>2, <1>5, ChecksAssumption DEF OwnerOK, ownership, At, Holds, Owns
<1>7. NoLostWakeup'
  <2>1. ASSUME waiters # <<>>, pc[t] # "xchg"
        PROVE  \E u \in Threads : pc'[u] \in {"wake", "xchg"}
    <3>1. PICK u \in Threads : pc[u] \in {"wake", "xchg"}
      BY <2>1 DEF IInv, NoLostWakeup, Free, Contended
    <3>2. u # t
      BY <2>1, <3>1 DEF Waits
    <3> QED BY <1>0, <3>1, <3>2
  <2> QED BY <2>1 DEF NoLostWakeup
<1> QED
  BY <1>1, <1>4, <1>6, <1>7 DEF IInv

\* Every step of lock and try_lock keeps the invariant.
LEMMA LockSteps ==
    ASSUME IInv, TypeOK', NEW t \in Threads,
           (\E b \in BOOLEAN : Begin(t, b)) \/ LockStep(t)
    PROVE  IInv'
<1> USE DEF Goto, At, ownership, locals
<1>0. /\ pc \in [Threads -> Waits \cup Owns \cup {"out", "wake", "abort"}]
      /\ state \in {Free, Locked, Contended}
      /\ spins \in [Threads -> 0..SpinCount]
      /\ OwnerOK
  BY DEF IInv, TypeOK
<1>1. CASE \E b \in BOOLEAN : Begin(t, b)
  <2>1. OwnerOK'
    BY <1>0, <1>1 DEF Begin, OwnerOK
  <2> QED BY <1>0, <1>1, <2>1, QuietStep DEF Begin, Owns
<1>2. CASE CheckOwnerSet(t)
  <2>1. OwnerOK'
    BY <1>0, <1>2 DEF CheckOwnerSet, OwnerOK
  <2> QED BY <1>0, <1>2, <2>1, QuietStep DEF CheckOwnerSet, Owns
<1>3. CASE CheckOwner(t)
  <2>1. owner # t
    BY <1>0, <1>3 DEF CheckOwner, OwnerOK
  <2>2. OwnerOK'
    BY <1>0, <1>3, <2>1 DEF CheckOwner, OwnerOK
  <2> QED BY <1>0, <1>3, <2>1, <2>2, QuietStep DEF CheckOwner, Owns
<1>4. CASE CasWin(t)
  BY <1>0, <1>4, AcquireStep DEF CasWin, Free, Locked, Waits
<1>5. CASE CasLose(t)
  <2>1. OwnerOK'
    BY <1>0, <1>5 DEF CasLose, OwnerOK
  <2>2. pc'[t] = "spin" => spins'[t] < SpinCount
    BY <1>0, <1>5, SpinAssumption DEF CasLose
  <2> QED BY <1>0, <1>5, <2>1, <2>2, QuietStep DEF CasLose, Owns
<1>6. CASE SpinWin(t)
  BY <1>0, <1>6, AcquireStep DEF SpinWin, Free, Locked, Waits
<1>7. CASE SpinLose(t)
  <2>1. OwnerOK'
    BY <1>0, <1>7 DEF SpinLose, OwnerOK
  <2>2. pc'[t] = "spin" => spins'[t] < SpinCount
    BY <1>0, <1>7, SpinAssumption DEF SpinLose
  <2> QED BY <1>0, <1>7, <2>1, <2>2, QuietStep DEF SpinLose, Owns
<1>8. CASE Xchg(t) /\ HasLockedBit(state)
  <2>1. /\ pc[t] = "xchg" /\ pc'[t] = "wait" /\ state # Free /\ state' = Contended
        /\ \A u \in Threads \ {t} : pc'[u] = pc[u]
        /\ UNCHANGED <<waiters, owner, ownerSet, spins>>
    BY <1>0, <1>8 DEF Xchg, HasLockedBit, Free, Locked
  <2>2. QueueOK' /\ SpinOK' /\ AssertionsHold'
    BY <2>1, StepOfOne
  <2>3. ASSUME NEW u \in Threads PROVE Holds(u)' <=> Holds(u)
    BY <2>1 DEF Holds, Owns
  <2>4. MutualExclusion' /\ StateOK'
    BY <2>1, <2>3 DEF IInv, MutualExclusion, StateOK, Holds, Free, Contended
  <2>5. OwnerOK'
    BY <1>0, <2>1 DEF OwnerOK
  <2>6. NoLostWakeup'
    BY <2>1 DEF NoLostWakeup
  <2> QED BY <2>2, <2>4, <2>5, <2>6 DEF IInv
<1>9. CASE Xchg(t) /\ ~HasLockedBit(state)
  <2>1. state = Free
    BY <1>0, <1>9 DEF HasLockedBit, Free, Locked, Contended
  <2> QED BY <1>0, <1>9, <2>1, AcquireStep DEF Xchg, Free, Contended, Waits
<1>10. CASE FutexWait(t)
  <2>1. /\ pc[t] = "wait" /\ pc'[t] = "asleep" /\ state = Contended /\ state' = state
        /\ \A u \in Threads \ {t} : pc'[u] = pc[u]
        /\ UNCHANGED <<owner, ownerSet, spins>> /\ waiters' = Append(waiters, t)
        /\ waiters \in Seq(Threads)
    BY <1>0, <1>10 DEF FutexWait, IInv, TypeOK
  <2>2. ASSUME NEW u \in Threads PROVE Holds(u)' <=> Holds(u)
    BY <2>1 DEF Holds, Owns
  <2>3. MutualExclusion' /\ StateOK' /\ NoLostWakeup' /\ SpinOK' /\ AssertionsHold'
    BY <2>1, <2>2 DEF IInv, MutualExclusion, StateOK, NoLostWakeup, SpinOK, AssertionsHold, Holds
  <2>4. OwnerOK'
    BY <1>0, <2>1 DEF OwnerOK
  <2>5. QueueOK'
    <3>1. /\ DOMAIN waiters = 1..Len(waiters) /\ Len(waiters) \in Nat
          /\ DOMAIN waiters' = 1..(Len(waiters) + 1)
          /\ waiters'[Len(waiters) + 1] = t
          /\ \A i \in 1..Len(waiters) : waiters'[i] = waiters[i]
      BY <2>1, AppendProperties, LenProperties
    <3>2. \A i \in 1..Len(waiters) : /\ waiters[i] \in Threads \ {t}
                                    /\ pc[waiters[i]] = "asleep"
      BY <2>1, <3>1 DEF IInv, QueueOK
    <3>3. \A i \in 1..(Len(waiters) + 1) : i \in 1..Len(waiters) \/ i = Len(waiters) + 1
      BY <3>1
    <3>4. \A i \in DOMAIN waiters' : pc'[waiters'[i]] = "asleep"
      BY <2>1, <3>1, <3>2, <3>3
    <3>5. ASSUME NEW i \in DOMAIN waiters', NEW j \in DOMAIN waiters',
                 waiters'[i] = waiters'[j]
          PROVE  i = j
      BY <3>1, <3>2, <3>3, <3>5 DEF IInv, QueueOK
    <3>6. ASSUME NEW u \in Threads, pc'[u] = "asleep" PROVE \E i \in DOMAIN waiters' : waiters'[i] = u
      <4>1. CASE u = t
        BY <3>1, <4>1
      <4>2. CASE u # t
        <5>1. pc[u] = "asleep"
          BY <1>0, <1>10, <3>6, <4>2 DEF FutexWait
        <5>2. PICK i \in 1..Len(waiters) : waiters[i] = u
          BY <3>1, <5>1 DEF IInv, QueueOK
        <5> QED BY <3>1, <5>2
      <4> QED BY <4>1, <4>2
    <3> QED BY <3>4, <3>5, <3>6 DEF QueueOK
  <2> QED BY <2>3, <2>4, <2>5 DEF IInv
<1>11. CASE FutexAgain(t)
  <2>1. OwnerOK'
    BY <1>0, <1>11 DEF FutexAgain, OwnerOK
  <2> QED BY <1>0, <1>11, <2>1, QuietStep DEF FutexAgain, Owns
<1>12. CASE SetOwner(t)
  <2>1. Holds(t)
    BY <1>12 DEF SetOwner, Holds, Owns
  <2>2. \A u \in Threads \ {t} : ~Holds(u)
    BY <2>1 DEF IInv, MutualExclusion
  <2>3. OwnerOK'
    BY <1>0, <1>12, <2>2 DEF SetOwner, OwnerOK, Holds, Owns
  <2> QED BY <1>0, <1>12, <2>3, QuietStep DEF SetOwner, Owns
<1>13. CASE SetOwnerSet(t)
  <2>1. Holds(t) /\ owner = t
    BY <1>0, <1>13 DEF SetOwnerSet, Holds, Owns, OwnerOK
  <2>2. \A u \in Threads \ {t} : ~Holds(u)
    BY <2>1 DEF IInv, MutualExclusion
  <2>3. Checks
    BY <1>0, <1>13 DEF SetOwnerSet, OwnerOK
  <2>4. OwnerOK'
    BY <1>0, <1>13, <2>1, <2>2, <2>3 DEF SetOwnerSet, OwnerOK, Holds, Owns
  <2> QED BY <1>0, <1>13, <2>4, QuietStep DEF SetOwnerSet, Owns
<1> QED
  BY <1>1, <1>2, <1>3, <1>4, <1>5, <1>6, <1>7, <1>8, <1>9, <1>10, <1>11, <1>12, <1>13 DEF LockStep

\* Taking one sleeper off the queue, to send it back to the exchange.
LEMMA SleeperLeaves ==
    ASSUME IInv, NEW i \in DOMAIN waiters, NEW s,
           s = Without(waiters, i),
           waiters' = s,
           pc'[waiters[i]] = "xchg",
           \A u \in Threads : pc[u] = "asleep" /\ u # waiters[i] <=> pc'[u] = "asleep"
    PROVE  QueueOK' /\ waiters[i] \in Threads /\ pc[waiters[i]] = "asleep"
<1>0. waiters \in Seq(Threads) /\ waiters[i] \in Threads
  BY DEF IInv, TypeOK
<1>1. ASSUME NEW j \in DOMAIN s
      PROVE  \E k \in DOMAIN waiters : /\ k # i /\ k = (IF j < i THEN j ELSE j + 1)
                                      /\ s[j] = waiters[k]
  BY <1>0, WithoutFacts
<1>2. DOMAIN s \subseteq Nat /\ DOMAIN waiters \subseteq Nat
  <2>1. s \in Seq(Threads)
    BY <1>0, WithoutFacts
  <2> QED BY <1>0, <2>1, LenProperties
<1>3. \A k \in DOMAIN waiters : waiters[k] \in Threads /\ pc[waiters[k]] = "asleep"
  BY <1>0 DEF IInv, QueueOK, At
<1>4. \A k, l \in DOMAIN waiters : waiters[k] = waiters[l] => k = l
  BY DEF IInv, QueueOK
<1>5. ASSUME NEW j \in DOMAIN s PROVE pc'[s[j]] = "asleep"
  BY <1>1, <1>3, <1>4
<1>6. ASSUME NEW j \in DOMAIN s, NEW l \in DOMAIN s, s[j] = s[l] PROVE j = l
  <2>1. PICK k \in DOMAIN waiters : k # i /\ k = (IF j < i THEN j ELSE j + 1) /\ s[j] = waiters[k]
    BY <1>1
  <2>2. PICK m \in DOMAIN waiters : m # i /\ m = (IF l < i THEN l ELSE l + 1) /\ s[l] = waiters[m]
    BY <1>1
  <2>3. k = m
    BY <1>4, <1>6, <2>1, <2>2
  <2> QED BY <1>2, <2>1, <2>2, <2>3
<1>7. ASSUME NEW u \in Threads, pc'[u] = "asleep" PROVE \E j \in DOMAIN s : s[j] = u
  <2>1. PICK k \in DOMAIN waiters : waiters[k] = u /\ k # i
    BY <1>7 DEF IInv, QueueOK, At
  <2> QED BY <1>0, <2>1, WithoutFacts
<1> QED
  BY <1>0, <1>3, <1>5, <1>6, <1>7 DEF QueueOK, At

\* Every step of unlock keeps the invariant.
LEMMA UnlockSteps ==
    ASSUME IInv, TypeOK', NEW t \in Threads, UnlockStep(t) \/ FutexInterrupted(t)
    PROVE  IInv'
<1> USE DEF Goto, At, ownership, locals
<1>0. /\ pc \in [Threads -> Waits \cup Owns \cup {"out", "wake", "abort"}]
      /\ state \in {Free, Locked, Contended}
      /\ waiters \in Seq(Threads)
      /\ OwnerOK
  BY DEF IInv, TypeOK
<1>1. CASE UnlockBegin(t)
  <2>1. OwnerOK'
    BY <1>0, <1>1 DEF UnlockBegin, OwnerOK
  <2> QED BY <1>0, <1>1, <2>1, QuietStep DEF UnlockBegin, Owns
<1>2. CASE AssertOwner(t)
  <2>1. ownerSet /\ owner = t
    BY <1>0, <1>2 DEF AssertOwner, OwnerOK
  <2>2. OwnerOK'
    BY <1>0, <1>2, <2>1 DEF AssertOwner, OwnerOK
  <2> QED BY <1>0, <1>2, <2>1, <2>2, QuietStep DEF AssertOwner, Owns
<1>3. CASE ClearOwnerSet(t)
  <2>1. Holds(t) /\ owner = t
    BY <1>0, <1>3 DEF ClearOwnerSet, Holds, Owns, OwnerOK
  <2>2. \A u \in Threads \ {t} : ~Holds(u)
    BY <2>1 DEF IInv, MutualExclusion
  <2>3. OwnerOK'
    BY <1>0, <1>3, <2>1, <2>2 DEF ClearOwnerSet, OwnerOK, Holds, Owns
  <2> QED BY <1>0, <1>3, <2>3, QuietStep DEF ClearOwnerSet, Owns
<1>4. CASE ClearOwner(t)
  <2>1. Holds(t) /\ owner = t
    BY <1>0, <1>4 DEF ClearOwner, Holds, Owns, OwnerOK
  <2>2. \A u \in Threads \ {t} : ~Holds(u)
    BY <2>1 DEF IInv, MutualExclusion
  <2>3. OwnerOK'
    BY <1>0, <1>4, <2>1, <2>2, NoThreadAssumption DEF ClearOwner, OwnerOK, Holds, Owns
  <2> QED BY <1>0, <1>4, <2>3, QuietStep DEF ClearOwner, Owns
<1>5. CASE Release(t)
  <2>1. /\ pc[t] = "release" /\ state' = Free
        /\ pc'[t] = (IF state = Contended THEN "wake" ELSE "out")
        /\ \A u \in Threads \ {t} : pc'[u] = pc[u]
        /\ UNCHANGED <<waiters, owner, ownerSet, spins>>
    BY <1>0, <1>5 DEF Release
  <2>2. QueueOK' /\ SpinOK' /\ AssertionsHold'
    BY <2>1, StepOfOne
  <2>3. \A u \in Threads \ {t} : ~Holds(u)
    BY <2>1 DEF IInv, MutualExclusion, Holds, Owns
  <2>4. ASSUME NEW u \in Threads PROVE ~Holds(u)'
    BY <2>1, <2>3 DEF Holds, Owns
  <2>5. MutualExclusion' /\ StateOK'
    BY <2>1, <2>4 DEF MutualExclusion, StateOK, Holds
  <2>6. OwnerOK'
    BY <1>0, <2>1, <2>3 DEF OwnerOK, Holds, Owns
  <2>7. ASSUME waiters # <<>> PROVE \E u \in Threads : pc'[u] \in {"wake", "xchg"}
    <3>1. CASE state = Contended
      BY <2>1, <3>1
    <3>2. CASE state # Contended
      <4>1. PICK u \in Threads : pc[u] \in {"wake", "xchg"}
        BY <2>7, <3>2 DEF IInv, NoLostWakeup
      <4> QED BY <2>1, <4>1
    <3> QED BY <3>1, <3>2
  <2>8. NoLostWakeup'
    BY <2>1, <2>7 DEF NoLostWakeup
  <2> QED BY <2>2, <2>5, <2>6, <2>8 DEF IInv
<1>6. CASE FutexWake(t) /\ waiters = <<>>
  <2>1. /\ pc[t] = "wake" /\ pc'[t] = "out"
        /\ \A u \in Threads \ {t} : pc'[u] = pc[u]
        /\ UNCHANGED <<state, waiters, owner, ownerSet, spins>>
    BY <1>0, <1>6 DEF FutexWake
  <2>2. QueueOK' /\ SpinOK' /\ AssertionsHold'
    BY <2>1, StepOfOne
  <2>3. ASSUME NEW u \in Threads PROVE Holds(u)' <=> Holds(u)
    BY <2>1 DEF Holds, Owns
  <2>4. MutualExclusion' /\ StateOK'
    BY <2>1, <2>3 DEF IInv, MutualExclusion, StateOK, Holds
  <2>5. OwnerOK' /\ NoLostWakeup'
    BY <1>0, <1>6, <2>1 DEF OwnerOK, NoLostWakeup
  <2> QED BY <2>2, <2>4, <2>5 DEF IInv
<1>7. ASSUME NEW i \in DOMAIN waiters, NEW s, s = Without(waiters, i), waiters' = s,
             pc'[waiters[i]] = "xchg",
             \A u \in Threads \ {waiters[i]} :
                 pc'[u] = pc[u] \/ (pc[u] = "wake" /\ pc'[u] = "out"),
             UNCHANGED <<state, owner, ownerSet, spins>>
      PROVE  IInv'
  <2>1. QueueOK' /\ waiters[i] \in Threads /\ pc[waiters[i]] = "asleep"
    BY <1>7, SleeperLeaves
  <2>2. ASSUME NEW u \in Threads PROVE Holds(u)' <=> Holds(u)
    BY <1>7, <2>1 DEF Holds, Owns
  <2>3. MutualExclusion' /\ StateOK'
    BY <1>7, <2>2 DEF IInv, MutualExclusion, StateOK, Holds
  <2>4. NoLostWakeup' /\ SpinOK' /\ AssertionsHold'
    BY <1>7, <2>1 DEF IInv, NoLostWakeup, SpinOK, AssertionsHold
  <2>5. OwnerOK'
    BY <1>0, <1>7, <2>1 DEF OwnerOK
  <2> QED BY <2>1, <2>3, <2>4, <2>5 DEF IInv
<1>8. CASE FutexWake(t) /\ waiters # <<>>
  <2>1. 1 \in DOMAIN waiters /\ Head(waiters) = waiters[1] /\ waiters[1] \in Threads
    BY <1>0, <1>8, LenProperties, HeadTailProperties
  <2>2. Tail(waiters) = Without(waiters, 1)
    <3>1. Tail(waiters) = [j \in 1..(Len(waiters) - 1) |-> waiters[j + 1]]
      <4>1. Tail(waiters) \in Seq(Threads) /\ Len(Tail(waiters)) = Len(waiters) - 1
        BY <1>0, <1>8, HeadTailProperties
      <4>2. \A j \in 1..(Len(waiters) - 1) : Tail(waiters)[j] = waiters[j + 1]
        BY <1>0, <1>8, <4>1, HeadTailProperties
      <4>3. Tail(waiters) \in [1..(Len(waiters) - 1) -> Threads]
        BY <4>1, LenProperties
      <4> QED BY <4>2, <4>3
    <3>2. \A j \in 1..(Len(waiters) - 1) : ~(j < 1)
      BY <1>0, LenProperties
    <3> QED BY <3>1, <3>2 DEF Without
  <2> QED BY <1>0, <1>7, <1>8, <2>1, <2>2 DEF FutexWake
<1>9. CASE FutexInterrupted(t)
  <2>1. PICK i \in DOMAIN waiters : waiters[i] = t /\ waiters' = Without(waiters, i)
    BY <1>9 DEF FutexInterrupted
  <2> QED BY <1>0, <1>7, <1>9, <2>1 DEF FutexInterrupted
<1> QED
  BY <1>1, <1>2, <1>3, <1>4, <1>5, <1>6, <1>8, <1>9 DEF UnlockStep

-----------------------------------------------------------------------------
(***************************************************************************)
(* The theorems.                                                           *)
(***************************************************************************)
\* The word, the futex queue and the owner variables always agree with what
\* the threads are doing.
THEOREM MutexInvariant == Spec => []IInv
<1>1. IInv /\ [Next]_vars => IInv'
  <2> SUFFICES ASSUME IInv, [Next]_vars PROVE IInv'
    OBVIOUS
  <2>0. TypeOK'
    BY TypeStep
  <2>1. CASE UNCHANGED vars
    <3>1. \A u : Holds(u)' <=> Holds(u)
      BY <2>1 DEF vars, Holds
    <3> QED BY <2>1 DEF vars, IInv, TypeOK, MutualExclusion, StateOK, QueueOK, OwnerOK,
            SpinOK, NoLostWakeup, AssertionsHold, Holds, At
  <2> QED BY <2>0, <2>1, LockSteps, UnlockSteps DEF Next
<1> QED
  BY <1>1, InitInv, PTL DEF Spec

\* No variable of the mutex ever leaves its type.
THEOREM TypeCorrect == Spec => []TypeOK
BY MutexInvariant, PTL DEF IInv

\* No two threads hold the mutex at once.
THEOREM Exclusion == Spec => []MutualExclusion
BY MutexInvariant, PTL DEF IInv

\* A sleeping thread is never forgotten.
THEOREM WakeupsKept == Spec => []NoLostWakeup
BY MutexInvariant, PTL DEF IInv

\* Never does everybody sleep: while one thread is asleep on the futex, another
\* is awake between the beginning of its lock() and the end of its unlock().
THEOREM NeverAllAsleep ==
    Spec => [](\A t \in Threads : At(t, "asleep") =>
                  \E u \in Threads : pc[u] \in (Waits \cup Owns \cup {"wake"}) \ {"asleep"})
<1> DEFINE Awake == \E u \in Threads : pc[u] \in (Waits \cup Owns \cup {"wake"}) \ {"asleep"}
<1>1. IInv => \A t \in Threads : At(t, "asleep") => Awake
  <2> SUFFICES ASSUME IInv, NEW t \in Threads, At(t, "asleep") PROVE Awake
    OBVIOUS
  <2>1. CASE state = Free
    <3>1. waiters # <<>>
      <4>1. PICK i \in DOMAIN waiters : waiters[i] = t
        BY DEF IInv, QueueOK
      <4>2. DOMAIN <<>> = {}
        BY EmptySeq
      <4> QED BY <4>1, <4>2
    <3>2. state # Contended
      BY <2>1 DEF Free, Contended
    <3>3. PICK u \in Threads : pc[u] \in {"wake", "xchg"}
      BY <3>1, <3>2 DEF IInv, NoLostWakeup
    <3> QED BY <3>3 DEF Waits
  <2>2. CASE state # Free
    <3>1. PICK u \in Threads : Holds(u)
      BY <2>2 DEF IInv, StateOK
    <3> QED BY <3>1 DEF Holds, Owns
  <2> QED BY <2>1, <2>2
<1> QED BY <1>1, MutexInvariant, PTL

\* The deadlock checks never accuse a correct program.
THEOREM NoFalseAlarm == Spec => []AssertionsHold
BY MutexInvariant, PTL DEF IInv

\* try_lock reports failure only while the mutex is held.
THEOREM TryLockIsHonest == Spec => TryLockFailsOnlyIfHeld
<1> DEFINE Honest == \A t \in Threads :
                        At(t, "cas") /\ At(t, "out")' => \E u \in Threads : Holds(u)
<1>1. IInv /\ [Next]_vars => Honest
  <2> SUFFICES ASSUME IInv, [Next]_vars, NEW t \in Threads, pc[t] = "cas", pc'[t] = "out"
               PROVE  \E u \in Threads : Holds(u)
    BY DEF At
  <2>0. pc \in [Threads -> Waits \cup Owns \cup {"out", "wake", "abort"}]
    BY DEF IInv, TypeOK
  <2>1. ~(UNCHANGED vars)
    BY DEF vars
  <2>2. PICK u \in Threads : \/ \E b \in BOOLEAN : Begin(u, b)
                             \/ LockStep(u) \/ UnlockStep(u) \/ FutexInterrupted(u)
    BY <2>1 DEF Next
  <2>3. u = t
    <3> SUFFICES ASSUME u # t PROVE FALSE
      OBVIOUS
    <3>1. ~\E b \in BOOLEAN : Begin(u, b)
      BY <2>0 DEF Begin, Goto
    <3>2. ~LockStep(u)
      BY <2>0 DEF LockStep, CheckOwnerSet, CheckOwner, CasWin, CasLose, SpinWin, SpinLose,
         Xchg, FutexWait, FutexAgain, SetOwner, SetOwnerSet, Goto, Got
    <3>3. ~UnlockStep(u)
      BY <2>0 DEF UnlockStep, UnlockBegin, AssertOwner, ClearOwnerSet, ClearOwner, Release,
         FutexWake, Goto
    <3>4. ~FutexInterrupted(u)
      BY <2>0 DEF FutexInterrupted, Goto
    <3> QED BY <2>2, <3>1, <3>2, <3>3, <3>4
  <2>4. state # Free
    BY <2>0, <2>2, <2>3 DEF Begin, LockStep, CheckOwnerSet, CheckOwner, CasWin, CasLose,
       SpinWin, SpinLose, Xchg, FutexWait, FutexAgain, SetOwner, SetOwnerSet, UnlockStep,
       UnlockBegin, AssertOwner, ClearOwnerSet, ClearOwner, Release, FutexWake,
       FutexInterrupted, Goto, Got, At
  <2> QED BY <2>4 DEF IInv, StateOK
<1>2. IInv /\ [Next]_vars => [Honest]_vars
  BY <1>1
<1> QED
  BY <1>2, MutexInvariant, PTL DEF Spec, TryLockFailsOnlyIfHeld

\* The mutex is a lock: whichever way a thread comes to own it, and however
\* many sleep, spin or barge meanwhile.
THEOREM ImplementsAbstractLock == Spec => ImplementsLock
<1> DEFINE H == {t \in Threads : Holds(t)}
<1>1. Init => Lock!LockInit
  BY DEF Init, Lock!LockInit, Holds, Owns
<1>2. IInv /\ [Next]_vars => [Lock!LockNext]_H
  <2> SUFFICES ASSUME IInv, [Next]_vars, H' # H PROVE Lock!LockNext
    OBVIOUS
  <2>0. pc \in [Threads -> Waits \cup Owns \cup {"out", "wake", "abort"}]
        /\ state \in {Free, Locked, Contended} /\ waiters \in Seq(Threads)
    BY DEF IInv, TypeOK
  <2>1. ~(UNCHANGED vars)
    BY DEF vars, Holds
  <2>2. PICK t \in Threads : \/ \E b \in BOOLEAN : Begin(t, b)
                             \/ LockStep(t) \/ UnlockStep(t) \/ FutexInterrupted(t)
    BY <2>1 DEF Next
  <2>4. CASE Release(t)
    <3>1. H = {t}
      BY <2>4 DEF Release, At, IInv, MutualExclusion, Holds, Owns
    <3>2. H' = {}
      <4>1. \A u \in Threads \ {t} : pc'[u] = pc[u]
        BY <2>0, <2>4 DEF Release, Goto
      <4>2. pc'[t] \in {"wake", "out"}
        BY <2>0, <2>4 DEF Release, Goto
      <4>3. \A u \in Threads : pc'[u] \notin Owns
        BY <3>1, <4>1, <4>2 DEF Holds, Owns
      <4> QED BY <4>3 DEF Holds
    <3> QED BY <3>1, <3>2 DEF Lock!LockNext, Lock!Release
  <2>5. CASE CasWin(t) \/ SpinWin(t) \/ (Xchg(t) /\ ~HasLockedBit(state))
    <3>1. state = Free /\ pc'= [pc EXCEPT ![t] = IF Checks THEN "setowner" ELSE "cs"]
      BY <2>0, <2>5 DEF CasWin, SpinWin, Xchg, HasLockedBit, Free, Locked, Contended, Got, Goto
    <3>2. H = {}
      BY <3>1 DEF IInv, StateOK
    <3>3. H' = {t}
      <4>1. \A u \in Threads : pc'[u] \in Owns <=> u = t
        BY <2>0, <3>1, <3>2 DEF Holds, Owns
      <4> QED BY <4>1 DEF Holds
    <3> QED BY <3>2, <3>3 DEF Lock!LockNext, Lock!Acquire
  <2>6. CASE \/ \E b \in BOOLEAN : Begin(t, b)
             \/ CheckOwnerSet(t) \/ CheckOwner(t) \/ CasLose(t) \/ SpinLose(t)
             \/ (Xchg(t) /\ HasLockedBit(state)) \/ FutexWait(t) \/ FutexAgain(t)
             \/ SetOwner(t) \/ SetOwnerSet(t)
    <3>1. \A u \in Threads : pc'[u] \in Owns <=> pc[u] \in Owns
      BY <2>0, <2>6 DEF Begin, CheckOwnerSet, CheckOwner, CasLose, SpinLose, Xchg, FutexWait,
         FutexAgain, SetOwner, SetOwnerSet, Goto, Got, At, Owns
    <3> QED BY <3>1 DEF Holds
  <2>7. CASE UnlockBegin(t) \/ ClearOwnerSet(t) \/ ClearOwner(t) \/ AssertOwner(t)
    <3>1. AssertOwner(t) => ownerSet /\ owner = t
      BY DEF AssertOwner, At, IInv, OwnerOK
    <3>2. \A u \in Threads : pc'[u] \in Owns <=> pc[u] \in Owns
      BY <2>0, <2>7, <3>1 DEF UnlockBegin, ClearOwnerSet, ClearOwner, AssertOwner, Goto, At, Owns
    <3> QED BY <3>2 DEF Holds
  <2>8. CASE FutexWake(t) \/ FutexInterrupted(t)
    <3>1. waiters # <<>> => pc[Head(waiters)] = "asleep"
      <4>1. waiters # <<>> => 1 \in DOMAIN waiters /\ Head(waiters) = waiters[1]
        BY <2>0, LenProperties
      <4> QED BY <4>1 DEF IInv, QueueOK, At
    <3>2. \A u \in Threads : pc'[u] \in Owns <=> pc[u] \in Owns
      BY <2>0, <2>8, <3>1 DEF FutexWake, FutexInterrupted, Goto, At, Owns
    <3> QED BY <3>2 DEF Holds
  <2> QED BY <2>2, <2>4, <2>5, <2>6, <2>7, <2>8 DEF LockStep, UnlockStep
<1> QED
  BY <1>1, <1>2, MutexInvariant, PTL DEF Spec, ImplementsLock, Lock!LockSpec
=============================================================================
