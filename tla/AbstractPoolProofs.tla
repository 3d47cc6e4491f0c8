------------------------- MODULE AbstractPoolProofs -------------------------
(***************************************************************************)
(* Theorems about AbstractPool, for any threads and objects.               *)
(***************************************************************************)
EXTENDS AbstractPool, SharedLemmas, SequenceTheorems

\* When objects move between the line, the program, the lost ones and the batch
\* of one thread, and stay in one place each, every object stays in one place.
LEMMA OneThreadMoves ==
    ASSUME EachInOnePlace, NEW t \in Threads,
           \A u \in Threads \ {t} : batch'[u] = batch[u],
           Range(free') \cup held' \cup lost' \cup Range(batch'[t])
             = Range(free) \cup held \cup lost \cup Range(batch[t]),
           IsInjective(free'), IsInjective(batch'[t]),
           Range(free') \cap (held' \cup lost') = {}, held' \cap lost' = {},
           Range(batch'[t]) \cap (Range(free') \cup held' \cup lost') = {}
    PROVE  EachInOnePlace'
<1> DEFINE before == Range(free) \cup held \cup lost
           after == Range(free') \cup held' \cup lost'
           R(u) == Range(batch[u])
           Q(u) == Range(batch'[u])
<1>1. /\ \A o \in Objects : o \in before \/ \E u \in Threads : o \in R(u)
      /\ \A u \in Threads : /\ IsInjective(batch[u]) /\ R(u) \cap before = {}
                            /\ \A v \in Threads \ {u} : R(u) \cap R(v) = {}
  BY DEF EachInOnePlace
<1>2. after \cup Q(t) = before \cup R(t) /\ Q(t) \cap after = {}
  OBVIOUS
<1>3. \A u \in Threads \ {t} : Q(u) = R(u)
  OBVIOUS
<1> HIDE DEF before, after, R, Q
<1>4. ASSUME NEW o \in Objects PROVE o \in after \/ \E u \in Threads : o \in Q(u)
  BY <1>1, <1>2, <1>3
<1>5. ASSUME NEW u \in Threads \ {t}
      PROVE  /\ Q(u) \cap after = {} /\ Q(u) \cap Q(t) = {}
             /\ \A v \in Threads \ {u} : Q(u) \cap Q(v) = {}
  <2>1. R(u) \cap before = {} /\ R(u) \cap R(t) = {}
    BY <1>1
  <2>2. Q(u) \cap after = {} /\ Q(u) \cap Q(t) = {}
    BY <1>2, <1>3, <2>1
  <2>3. ASSUME NEW v \in Threads \ {u}, v # t PROVE Q(u) \cap Q(v) = {}
    BY <1>1, <1>3, <2>3
  <2> QED BY <2>2, <2>3
<1>6. ASSUME NEW u \in Threads
      PROVE  /\ IsInjective(batch'[u]) /\ Q(u) \cap after = {}
             /\ \A v \in Threads \ {u} : Q(u) \cap Q(v) = {}
  <2>1. CASE u = t
    <3>1. \A v \in Threads \ {t} : Q(t) \cap Q(v) = {}
      BY <1>5
    <3> QED BY <1>2, <2>1, <3>1
  <2>2. CASE u # t
    <3>1. IsInjective(batch'[u])
      BY <1>1, <2>2
    <3> QED BY <1>5, <2>2, <3>1
  <2> QED BY <2>1, <2>2
<1>7. IsInjective(free') /\ Range(free') \cap (held' \cup lost') = {} /\ held' \cap lost' = {}
  OBVIOUS
<1> QED
  BY <1>4, <1>6, <1>7 DEF EachInOnePlace, after, Q

\* Initially every object is in the line.
LEMMA PoolInitInv == PoolInit => PoolInv
<1> SUFFICES ASSUME PoolInit PROVE PoolInv
  OBVIOUS
<1>1. \A t \in Threads : batch[t] = <<>> /\ Range(batch[t]) = {} /\ IsInjective(batch[t])
  BY EmptyRange DEF PoolInit
<1>2. EachInOnePlace
  BY <1>1 DEF PoolInit, EachInOnePlace
<1>3. PoolTypeOK
  BY EmptyRange DEF PoolInit, PoolTypeOK
<1> QED
  BY <1>1, <1>2, <1>3 DEF PoolInv

\* A step of a call keeps the invariant.
LEMMA PoolStep == ASSUME MaxBatch \in Nat, PoolInv, [PoolNext]_poolVars PROVE PoolInv'
<1> USE DEF PoolTypeOK
<1>0. PoolTypeOK /\ EachInOnePlace
  BY DEF PoolInv
<1>1. ASSUME NEW t \in Threads, NEW n \in 1..MaxBatch, Ask(t, n) PROVE PoolInv'
  <2>1. PoolTypeOK' /\ \A u \in Threads : op'[u] \in {"idle", "asking"} => batch'[u] = <<>>
    BY <1>1 DEF PoolInv, Ask
  <2>2. EachInOnePlace'
    BY <1>0, <1>1 DEF Ask, EachInOnePlace
  <2> QED BY <2>1, <2>2 DEF PoolInv
<1>2. ASSUME NEW t \in Threads, NEW s \in Batches, Give(t, s) PROVE PoolInv'
  <2>1. s \in Seq(Objects) /\ Range(s) \subseteq held /\ IsInjective(s)
    <3>1. PICK n \in 1..MaxBatch : s \in [1..n -> held]
      BY DEF Batches
    <3>2. s \in Seq(Objects)
      BY <1>0, <3>1, SeqDef
    <3> QED BY <1>2, <3>1, <3>2 DEF Give, Range
  <2>2. batch[t] = <<>> /\ Range(batch[t]) = {}
    BY <1>2, EmptyRange DEF PoolInv, Give
  <2>3. PoolTypeOK' /\ \A u \in Threads : op'[u] \in {"idle", "asking"} => batch'[u] = <<>>
    BY <1>2, <2>1 DEF PoolInv, Give
  <2>4. batch'[t] = s /\ \A u \in Threads \ {t} : batch'[u] = batch[u]
    BY <1>0, <1>2 DEF Give
  <2>5. Range(free) \cap (held \cup lost) = {} /\ held \cap lost = {} /\ IsInjective(free)
    BY <1>0 DEF EachInOnePlace
  <2>6. EachInOnePlace'
    BY <1>0, <1>2, <2>1, <2>2, <2>4, <2>5, OneThreadMoves DEF Give
  <2> QED BY <2>3, <2>6 DEF PoolInv
<1>3. ASSUME NEW t \in Threads, Take(t) PROVE PoolInv'
  <2> DEFINE a == SubSeq(free, 1, Granted(t))
             b == SubSeq(free, Granted(t) + 1, Len(free))
  <2>1. Granted(t) \in 0..Len(free)
    BY <1>0, LenProperties DEF Granted
  <2>2. a \in Seq(Objects) /\ b \in Seq(Objects)
    BY <1>0, <2>1, Split
  <2>3. Range(free) \cap (held \cup lost) = {} /\ held \cap lost = {} /\ IsInjective(free)
    BY <1>0 DEF EachInOnePlace
  <2>4. /\ Range(free) = Range(a) \cup Range(b) /\ Range(a) \cap Range(b) = {}
        /\ IsInjective(a) /\ IsInjective(b)
    BY <1>0, <2>1, <2>3, SplitApart
  <2>5. batch[t] = <<>> /\ Range(batch[t]) = {}
    BY <1>3, EmptyRange DEF PoolInv, Take
  <2> HIDE DEF a, b
  <2>6. free' = b /\ batch' = [batch EXCEPT ![t] = a]
    BY <1>3 DEF Take, a, b
  <2>7. PoolTypeOK' /\ \A u \in Threads : op'[u] \in {"idle", "asking"} => batch'[u] = <<>>
    BY <1>3, <2>2, <2>6 DEF PoolInv, Take
  <2>8. batch'[t] = a /\ \A u \in Threads \ {t} : batch'[u] = batch[u]
    BY <1>0, <2>6
  <2>9. EachInOnePlace'
    BY <1>0, <1>3, <2>3, <2>4, <2>5, <2>6, <2>8, OneThreadMoves DEF Take
  <2> QED BY <2>7, <2>9 DEF PoolInv
<1>4. ASSUME NEW t \in Threads, Lose(t) \/ Return(t) PROVE PoolInv'
  <2>1. /\ Range(batch[t]) \cap (Range(free) \cup held \cup lost) = {} /\ IsInjective(free)
        /\ Range(free) \cap (held \cup lost) = {} /\ held \cap lost = {}
    BY <1>0 DEF EachInOnePlace
  <2>2. batch'[t] = <<>> /\ \A u \in Threads \ {t} : batch'[u] = batch[u]
    BY <1>0, <1>4 DEF Lose, Return
  <2>3. Range(batch'[t]) = {} /\ IsInjective(batch'[t])
    BY <2>2, EmptyRange
  <2>4. EachInOnePlace'
    BY <1>0, <1>4, <2>1, <2>2, <2>3, OneThreadMoves DEF Lose, Return
  <2>5. Range(batch[t]) \subseteq Objects
    BY <1>0, RangeOfSequence
  <2>6. PoolTypeOK' /\ \A u \in Threads : op'[u] \in {"idle", "asking"} => batch'[u] = <<>>
    <3>1. <<>> \in Seq(Objects)
      BY EmptyRange
    <3>2. CASE Lose(t)
      BY <1>0, <2>5, <3>1, <3>2 DEF PoolInv, Lose
    <3>3. CASE Return(t)
      BY <1>0, <2>5, <3>1, <3>3 DEF PoolInv, Return
    <3> QED BY <1>4, <3>2, <3>3
  <2> QED BY <2>4, <2>6 DEF PoolInv
<1>5. ASSUME NEW t \in Threads, Put(t) PROVE PoolInv'
  <2> DEFINE c == free \o batch[t]
  <2>1. /\ Range(batch[t]) \cap (Range(free) \cup held \cup lost) = {} /\ IsInjective(batch[t])
        /\ Range(free) \cap (held \cup lost) = {} /\ held \cap lost = {} /\ IsInjective(free)
    BY <1>0 DEF EachInOnePlace
  <2>2. c \in Seq(Objects) /\ Range(c) = Range(free) \cup Range(batch[t]) /\ IsInjective(c)
    BY <1>0, <2>1, ConcatApart, ConcatProperties
  <2> HIDE DEF c
  <2>3. free' = c
    BY <1>5 DEF Put, c
  <2>4. batch'[t] = <<>> /\ \A u \in Threads \ {t} : batch'[u] = batch[u]
    BY <1>0, <1>5 DEF Put
  <2>5. Range(batch'[t]) = {} /\ IsInjective(batch'[t])
    BY <2>4, EmptyRange
  <2>6. EachInOnePlace'
    BY <1>0, <1>5, <2>1, <2>2, <2>3, <2>4, <2>5, OneThreadMoves DEF Put
  <2>7. PoolTypeOK' /\ \A u \in Threads : op'[u] \in {"idle", "asking"} => batch'[u] = <<>>
    BY <1>5, <2>2, <2>3, EmptyRange DEF PoolInv, Put
  <2> QED BY <2>6, <2>7 DEF PoolInv
<1>6. CASE UNCHANGED poolVars
  BY <1>6 DEF poolVars, PoolInv, EachInOnePlace
<1> QED
  BY <1>1, <1>2, <1>3, <1>4, <1>5, <1>6 DEF PoolNext

\* However calls interleave, no object is in two places at once, and none is
\* anywhere but in the line, with the program, with one call, or lost.
THEOREM PoolKeepsEachInOnePlace == ASSUME MaxBatch \in Nat PROVE PoolSpec => []EachInOnePlace
<1>1. PoolInit => PoolInv
  BY PoolInitInv
<1>2. PoolInv /\ [PoolNext]_poolVars => PoolInv'
  BY PoolStep
<1>3. PoolInv => EachInOnePlace
  BY DEF PoolInv
<1> QED
  BY <1>1, <1>2, <1>3, PTL DEF PoolSpec
=============================================================================
