---------------------------- MODULE AbstractPool ----------------------------
(***************************************************************************)
(* What an object pool promises to the threads that share it, without      *)
(* buffers, indexes or locks: a line of free objects, from whose front a   *)
(* call to acquire takes as many as it asked for or all there are, at one  *)
(* moment between its beginning and its end, and at whose end a call to    *)
(* release puts its objects, again at one moment.                          *)
(***************************************************************************)
EXTENDS Naturals, Sequences, Functions

CONSTANTS Threads, Objects,
          MaxBatch      \* the most objects a call acquires or releases

VARIABLES free,         \* the free objects, first the one that has waited longest
          held,         \* the objects in the hands of the program
          lost,         \* the objects that left the pool for good
          op,           \* per thread: how far its call has got
          asked,        \* per thread: how many objects its acquire wants
          batch         \* per thread: the objects its call carries

poolVars == <<free, held, lost, op, asked, batch>>

PoolInit == /\ free \in Seq(Objects) /\ IsInjective(free) /\ Range(free) = Objects
            /\ held = {} /\ lost = {}
            /\ op = [t \in Threads |-> "idle"]
            /\ asked = [t \in Threads |-> 0]
            /\ batch = [t \in Threads |-> <<>>]

Ask(t, n) == /\ op[t] = "idle"
             /\ op' = [op EXCEPT ![t] = "asking"]
             /\ asked' = [asked EXCEPT ![t] = n]
             /\ UNCHANGED <<free, held, lost, batch>>

Granted(t) == IF asked[t] < Len(free) THEN asked[t] ELSE Len(free)

Take(t) == /\ op[t] = "asking"
           /\ op' = [op EXCEPT ![t] = "returning"]
           /\ batch' = [batch EXCEPT ![t] = SubSeq(free, 1, Granted(t))]
           /\ free' = SubSeq(free, Granted(t) + 1, Len(free))
           /\ UNCHANGED <<held, lost, asked>>

\* The call fails after it has taken objects, and they are lost with it.
Lose(t) == /\ op[t] = "returning"
           /\ lost' = lost \cup Range(batch[t])
           /\ batch' = [batch EXCEPT ![t] = <<>>]
           /\ UNCHANGED <<free, held, op, asked>>

Give(t, s) == /\ op[t] = "idle"
              /\ op' = [op EXCEPT ![t] = "giving"]
              /\ IsInjective(s)
              /\ batch' = [batch EXCEPT ![t] = s]
              /\ held' = held \ Range(s)
              /\ UNCHANGED <<free, lost, asked>>

Put(t) == /\ op[t] = "giving"
          /\ op' = [op EXCEPT ![t] = "returning"]
          /\ free' = free \o batch[t]
          /\ batch' = [batch EXCEPT ![t] = <<>>]
          /\ UNCHANGED <<held, lost, asked>>

Return(t) == /\ op[t] = "returning"
             /\ op' = [op EXCEPT ![t] = "idle"]
             /\ held' = held \cup Range(batch[t])
             /\ batch' = [batch EXCEPT ![t] = <<>>]
             /\ asked' = [asked EXCEPT ![t] = 0]
             /\ UNCHANGED <<free, lost>>

Batches == UNION {[1..n -> held] : n \in 1..MaxBatch}

PoolNext == \E t \in Threads :
               \/ \E n \in 1..MaxBatch : Ask(t, n)
               \/ \E s \in Batches : Give(t, s)
               \/ Take(t) \/ Lose(t) \/ Put(t) \/ Return(t)

PoolSpec == PoolInit /\ [][PoolNext]_poolVars

-----------------------------------------------------------------------------
PoolTypeOK == /\ free \in Seq(Objects)
              /\ held \subseteq Objects /\ lost \subseteq Objects
              /\ op \in [Threads -> {"idle", "asking", "giving", "returning"}]
              /\ asked \in [Threads -> Nat]
              /\ batch \in [Threads -> Seq(Objects)]

\* Every object is in one place, once: in the line, carried by one call, in the
\* hands of the program, or lost.
EachInOnePlace ==
    /\ \A o \in Objects : \/ o \in Range(free) \cup held \cup lost
                          \/ \E t \in Threads : o \in Range(batch[t])
    /\ IsInjective(free) /\ Range(free) \cap (held \cup lost) = {} /\ held \cap lost = {}
    /\ \A t \in Threads :
          /\ IsInjective(batch[t])
          /\ Range(batch[t]) \cap (Range(free) \cup held \cup lost) = {}
          /\ \A u \in Threads \ {t} : Range(batch[t]) \cap Range(batch[u]) = {}

\* The inductive invariant: a call that has not taken yet carries nothing.
PoolInv == /\ PoolTypeOK /\ EachInOnePlace
           /\ \A t \in Threads : op[t] \in {"idle", "asking"} => batch[t] = <<>>
=============================================================================
