--------------------------- MODULE SPSCQueueProofs ---------------------------
(***************************************************************************)
(* Theorems about SPSCQueue, for every power of two as the number of cells *)
(* (one included) and every number of pushes.                              *)
(***************************************************************************)
EXTENDS SPSCQueue, SharedLemmas

\* There is at least one cell.
LEMMA SizePositive == Size \in Nat /\ Size > 0
BY SizeAssumption

\* A position taken modulo _size is the index of a cell.
LEMMA CellType == ASSUME NEW k \in Nat PROVE k % Size \in Cells
BY SizePositive, Division DEF Cells

\* The cell after that of position k is that of position k + 1.
LEMMA Successor == ASSUME NEW k \in Nat PROVE Succ(k % Size) = (k + 1) % Size
BY SizePositive, AddThenMask DEF Succ

\* Positions at most a lap apart share a cell only if they are equal or
\* exactly a lap apart.
LEMMA SameCell ==
    ASSUME NEW a \in Nat, NEW b \in Nat, a <= b, b <= a + Size
    PROVE  a % Size = b % Size <=> a = b \/ b = a + Size
<1>1. CASE a < b /\ b < a + Size
  <2>1. a % Size # b % Size
    BY <1>1, SizePositive, LessThanALap
  <2> QED BY <1>1, <2>1
<1>2. CASE b = a + Size
  BY <1>2, SizePositive, Shift
<1>3. CASE a = b
  BY <1>3
<1> QED BY <1>1, <1>2, <1>3, SizePositive

\* The types of the derived positions.
LEMMA Positions ==
    ASSUME TypeOK, IndexesOK, LogOK
    PROVE  /\ F \in Nat /\ Published \in Nat /\ Len(log) \in Nat
           /\ F <= Published /\ Published <= Len(log)
           /\ pc = "publish" => Len(log) = Published + 1
           /\ pc # "publish" => Len(log) = Published
           /\ head = Published % Size /\ tail = F % Size
<1>1. F \in Nat /\ Len(log) \in Nat
  BY DEF TypeOK, F
<1>2. pc = "publish" => Len(log) > 0
  BY <1>1 DEF LogOK, TypeOK
<1> QED BY <1>1, <1>2 DEF Published, IndexesOK

\* The constructor establishes the invariant.
LEMMA InitInv == Init => IInv
<1> SUFFICES ASSUME Init PROVE IInv
  OBVIOUS
<1> USE SizePositive DEF Init, Running, Stopped
<1>0. /\ Len(log) = 0 /\ Len(popped) = 0
      /\ log \in Seq(Values) /\ popped \in Seq(Values)
      /\ F = 0 /\ Published = 0
  BY DEF F, Published
<1>1. TypeOK
  <2>1. slot \in [Cells -> Values \cup {Raw}] /\ 0 \in 0..MaxCalls /\ 0 \in Cells
    BY CallsAssumption DEF Cells
  <2> QED BY <1>0, <2>1 DEF TypeOK
<1>2. 0 % Size = 0
  BY Small
<1>3. IndexesOK
  BY <1>0, <1>2 DEF IndexesOK
<1>4. CellsOK
  <2>1. ASSUME NEW k \in Len(log)..(F + Size - 1) PROVE slot[k % Size] = Raw
    <3>1. k \in Nat
      BY <1>0
    <3> QED BY <3>1, CellType
  <2> QED BY <1>0, <2>1 DEF CellsOK
<1>5. LogOK
  BY <1>0 DEF LogOK
<1>6. DrainOK
  BY DEF DrainOK
<1> QED BY <1>1, <1>3, <1>4, <1>5, <1>6 DEF IInv

-----------------------------------------------------------------------------
(***************************************************************************)
(* Steps that move neither an index nor an element.                        *)
(***************************************************************************)
LocalProducer == PushStatus \/ PushCheck \/ BlockingPeek \/ BlockingRecheck
LocalConsumer == PopCheck \/ PopPeek \/ PopRecheck

\* A step that only moves a thread along keeps the invariant if it keeps the
\* facts tied to where the threads are.
LEMMA LocalStep ==
    ASSUME IInv, UNCHANGED <<head, tail, slot, out, history>>,
           TypeOK',
           pc = "publish" <=> pc' = "publish",
           pc' = "construct" => pc = "construct" \/ Len(log) < F + Size - 1,
           cpc = "free" <=> cpc' = "free",
           cpc' \in {"take", "free"} => cpc \in {"take", "free"} \/ F < Published,
           \/ pc' = pc /\ calls' = calls
           \/ pc # "idle" /\ pc # "publish" /\ calls' = calls
           \/ pc = "idle" /\ pc' = "status" /\ calls' = calls + 1,
           DrainOK'
    PROVE  IInv'
<1> USE DEF IInv
<1>1. /\ F' = F /\ Published' = Published /\ Len(log)' = Len(log)
      /\ log' = log /\ popped' = popped /\ out' = out /\ slot' = slot
      /\ head' = head /\ tail' = tail
  BY DEF F, Published, history
<1>2. IndexesOK'
  BY <1>1 DEF IndexesOK
<1>3. CellsOK'
  BY <1>1 DEF CellsOK
<1>4. LogOK'
  <2>1. Len(log) \in Nat /\ \A i \in 1..Len(log) : log[i] \in Nat
    <3>1. log \in Seq(Values)
      BY DEF TypeOK
    <3>2. Len(log) \in Nat /\ \A i \in 1..Len(log) : log[i] \in Values
      BY <3>1
    <3> QED BY <3>2 DEF Values
  <2>2. calls \in Nat /\ calls' \in Nat
    BY DEF TypeOK
  <2>3. \A i \in 1..Len(log) : IF pc' \in {"idle", "publish"} THEN log[i] <= calls' ELSE log[i] < calls'
    BY <1>1, <2>1, <2>2 DEF LogOK
  <2>4. pc' # "idle" => calls' > 0
    BY <2>2 DEF LogOK
  <2> QED BY <1>1, <2>3, <2>4 DEF LogOK
<1> QED BY <1>2, <1>3, <1>4

\* Every step keeps the types.
LEMMA TypeStep == ASSUME IInv, [Next]_vars PROVE TypeOK'
<1> USE SizePositive DEF IInv, TypeOK, Refused, queue, prodVars, consVars, history,
        Running, Stopped
<1>1. ASSUME NEW b \in BOOLEAN, PushBegin(b) PROVE TypeOK'
  BY <1>1, CallsAssumption DEF PushBegin
<1>2. ASSUME NEW m \in {"try", "blocking"}, PopBegin(m) PROVE TypeOK'
  BY <1>2 DEF PopBegin
<1>3. CASE LocalProducer
  BY <1>3 DEF LocalProducer, PushStatus, PushCheck, BlockingPeek, BlockingRecheck
<1>4. CASE LocalConsumer
  <2>1. [try |-> "idle", blocking |-> "peek", dtor |-> "dead"][mode] \in {"idle", "peek", "dead"}
    OBVIOUS
  <2>2. CASE PopCheck
    BY <2>1, <2>2 DEF PopCheck
  <2>3. CASE PopPeek \/ PopRecheck
    BY <2>3 DEF PopPeek, PopRecheck
  <2> QED BY <1>4, <2>2, <2>3 DEF LocalConsumer
<1>5. CASE PushConstruct
  <2>1. calls \in Values
    BY <1>5 DEF PushConstruct, LogOK, Values
  <2>2. log' \in Seq(Values) /\ slot' \in [Cells -> Values \cup {Raw}]
    BY <1>5, <2>1 DEF PushConstruct
  <2> QED BY <1>5, <2>2 DEF PushConstruct
<1>6. CASE PushPublish
  <2>1. Succ(head) \in Cells
    BY Division DEF Succ, Cells
  <2> QED BY <1>6, <2>1 DEF PushPublish
<1>7. CASE PopTake
  <2>1. slot[tail] \in Values \cup {Raw}
    OBVIOUS
  <2>2. slot' \in [Cells -> Values \cup {Raw}]
    BY <1>7 DEF PopTake
  <2> QED BY <1>7, <2>1, <2>2 DEF PopTake
<1>8. CASE PopFree
  <2>1. Succ(tail) \in Cells
    BY Division DEF Succ, Cells
  <2>2. out \in Values
    <3>1. out = log[F + 1] /\ F < Published /\ cpc = "free"
      BY <1>8 DEF PopFree, CellsOK, IndexesOK
    <3>2. F + 1 \in 1..Len(log)
      BY <3>1, Positions
    <3> QED BY <3>1, <3>2
  <2>3. popped' \in Seq(Values)
    BY <1>8, <2>2 DEF PopFree
  <2> QED BY <1>8, <2>1, <2>3 DEF PopFree
<1>9. CASE Stop \/ Run \/ Destroy
  BY <1>9 DEF Stop, Run, Destroy
<1>10. CASE UNCHANGED vars
  BY <1>10 DEF vars
<1> QED
  BY <1>1, <1>2, <1>3, <1>4, <1>5, <1>6, <1>7, <1>8, <1>9, <1>10
     DEF Next, ProducerStep, ConsumerStep, LocalProducer, LocalConsumer

\* The cells of the elements not yet delivered, and of the position after them.
LEMMA PendingCells ==
    ASSUME IInv, NEW j \in F..(F + Size - 1), NEW k \in F..(F + Size - 1), j # k
    PROVE  /\ j \in Nat /\ k \in Nat
           /\ j % Size \in Cells /\ k % Size \in Cells
           /\ j % Size # k % Size
<1>1. F \in Nat /\ j \in Nat /\ k \in Nat
  BY SizePositive, Positions DEF IInv
<1> QED BY <1>1, SizePositive, CellType, LapInjective

\* Constructing the element at _head keeps the invariant.
LEMMA PushConstructStep == ASSUME IInv, TypeOK', PushConstruct PROVE IInv'
<1> USE SizePositive DEF IInv, PushConstruct, queue, prodVars, consVars, history
<1> DEFINE n == Len(log)
<1>0. log \in Seq(Values) /\ calls \in Values /\ calls \in Nat
  BY DEF TypeOK, LogOK, Values
<1>1. /\ F \in Nat /\ n \in Nat /\ Published = n /\ F <= n /\ n < F + Size - 1
      /\ head = n % Size
  BY Positions DEF IndexesOK
<1>2. /\ log' = Append(log, calls) /\ Len(log)' = n + 1 /\ log'[n + 1] = calls
      /\ \A i \in 1..n : log'[i] = log[i]
      /\ popped' = popped /\ F' = F /\ out' = out /\ cpc' = cpc /\ calls' = calls
      /\ head' = head /\ tail' = tail
  <2>1. log' = Append(log, calls)
    OBVIOUS
  <2>2. /\ Len(Append(log, calls)) = n + 1 /\ Append(log, calls)[n + 1] = calls
        /\ \A i \in 1..n : Append(log, calls)[i] = log[i]
    BY <1>0
  <2> QED BY <2>1, <2>2 DEF F
<1>3. Published' = n
  BY <1>1, <1>2 DEF Published
<1> HIDE DEF n
<1>4. IndexesOK'
  BY <1>1, <1>2, <1>3 DEF IndexesOK
<1>5. CellsOK'
  <2>1. slot \in [Cells -> Values \cup {Raw}] /\ n % Size \in Cells
    BY <1>1, CellType DEF TypeOK
  <2>2. slot'[n % Size] = calls
    BY <1>1, <2>1
  <2>3. ASSUME NEW k \in F..(F + Size - 1), k # n PROVE slot'[k % Size] = slot[k % Size]
    <3>1. k % Size # n % Size /\ k % Size \in Cells
      <4>1. n \in F..(F + Size - 1)
        BY <1>1
      <4> QED BY <2>3, <4>1, PendingCells
    <3> QED BY <1>1, <2>1, <3>1
  <2>4. ASSUME NEW k \in F'..(Len(log)' - 1)
        PROVE  slot'[k % Size] = IF k = F' /\ cpc' = "free" THEN Raw ELSE log'[k + 1]
    <3>1. CASE k = n
      <4>1. cpc = "free" => k # F
        BY <1>1, <3>1 DEF IndexesOK
      <4> QED BY <1>2, <2>2, <3>1, <4>1
    <3>2. CASE k # n
      <4>1. k \in F..(n - 1) /\ k \in F..(F + Size - 1) /\ k + 1 \in 1..n
        BY <1>1, <1>2, <3>2
      <4>2. slot[k % Size] = IF k = F /\ cpc = "free" THEN Raw ELSE log[k + 1]
        BY <4>1 DEF CellsOK, n
      <4> QED BY <1>2, <2>3, <3>2, <4>1, <4>2
    <3> QED BY <3>1, <3>2
  <2>5. ASSUME NEW k \in Len(log)'..(F' + Size - 1) PROVE slot'[k % Size] = Raw
    <3>1. k \in n..(F + Size - 1) /\ k \in F..(F + Size - 1) /\ k # n
      BY <1>1, <1>2
    <3> QED BY <2>3, <3>1 DEF CellsOK, n
  <2>6. cpc' = "free" => out' = log'[F' + 1]
    <3>1. cpc = "free" => F + 1 \in 1..n /\ out = log[F + 1]
      BY <1>1 DEF CellsOK, IndexesOK
    <3> QED BY <1>2, <3>1
  <2> QED BY <2>4, <2>5, <2>6 DEF CellsOK
<1>6. LogOK'
  <2>1. popped' = SubSeq(log', 1, F')
    <3>1. popped = SubSeq(log, 1, F)
      BY DEF LogOK
    <3>2. SubSeq(log, 1, F) = SubSeq(Append(log, calls), 1, F)
      BY <1>0, <1>1 DEF n
    <3> QED BY <1>2, <3>1, <3>2
  <2>2. \A i \in 1..n : log[i] \in Nat /\ log[i] < calls
    <3>1. \A i \in 1..n : log[i] \in Values
      BY <1>0 DEF n
    <3> QED BY <3>1 DEF LogOK, Values, n
  <2>3. \A i \in 1..Len(log)' : log'[i] <= calls'
    BY <1>0, <1>1, <1>2, <2>2
  <2>4. \A i, j \in 1..n : i < j => log[i] < log[j]
    BY DEF LogOK, n
  <2>5. \A i, j \in 1..Len(log)' : i < j => log'[i] < log'[j]
    <3> TAKE i, j \in 1..Len(log)'
    <3>1. i \in 1..(n + 1) /\ j \in 1..(n + 1)
      BY <1>2
    <3>2. CASE j = n + 1
      BY <1>1, <1>2, <2>2, <3>1, <3>2
    <3>3. CASE j # n + 1
      <4>1. j \in 1..n /\ (i < j => i \in 1..n)
        BY <1>1, <3>1, <3>3
      <4> QED BY <1>2, <2>4, <4>1
    <3> QED BY <3>2, <3>3
  <2>6. log' # <<>>
    BY <1>0, <1>2
  <2> QED BY <1>0, <1>2, <2>1, <2>3, <2>5, <2>6 DEF LogOK
<1>7. DrainOK'
  BY DEF DrainOK
<1> QED BY <1>4, <1>5, <1>6, <1>7

\* Storing the new _head keeps the invariant.
LEMMA PushPublishStep == ASSUME IInv, TypeOK', PushPublish PROVE IInv'
<1> USE SizePositive DEF IInv, PushPublish, queue, prodVars, consVars, history
<1>1. /\ F \in Nat /\ Published \in Nat /\ F <= Published
      /\ Len(log) = Published + 1 /\ head = Published % Size
  BY Positions
<1>2. F' = F /\ Len(log)' = Len(log) /\ Published' = Published + 1
  BY <1>1 DEF F, Published
<1>3. head' = (Published + 1) % Size
  BY <1>1, Successor
<1>4. IndexesOK'
  BY <1>1, <1>2, <1>3 DEF IndexesOK
<1>5. CellsOK'
  BY <1>2 DEF CellsOK
<1>6. LogOK'
  BY <1>2 DEF LogOK
<1>7. DrainOK'
  BY DEF DrainOK
<1> QED BY <1>4, <1>5, <1>6, <1>7

\* Moving the element at _tail out and destroying it keeps the invariant.
LEMMA PopTakeStep == ASSUME IInv, TypeOK', PopTake PROVE IInv'
<1> USE SizePositive DEF IInv, PopTake, queue, prodVars, consVars, history
<1>1. /\ F \in Nat /\ Published \in Nat /\ Len(log) \in Nat
      /\ F < Published /\ Published <= Len(log) /\ tail = F % Size
      /\ Len(log) <= F + Size - 1
  BY Positions DEF IndexesOK
<1>2. F' = F /\ Len(log)' = Len(log) /\ Published' = Published /\ log' = log
  BY <1>1 DEF F, Published
<1>3. IndexesOK'
  BY <1>1, <1>2 DEF IndexesOK
<1>4. CellsOK'
  <2>1. slot \in [Cells -> Values \cup {Raw}] /\ F % Size \in Cells
    BY <1>1, CellType DEF TypeOK
  <2>2. F \in F..(Len(log) - 1) /\ F \in F..(F + Size - 1)
    BY <1>1
  <2>3. slot[F % Size] = log[F + 1]
    BY <2>2 DEF CellsOK
  <2>4. ASSUME NEW k \in F..(F + Size - 1), k # F PROVE slot'[k % Size] = slot[k % Size]
    <3>1. k % Size # F % Size /\ k % Size \in Cells
      BY <2>2, <2>4, PendingCells
    <3> QED BY <1>1, <2>1, <3>1
  <2>5. ASSUME NEW k \in F'..(Len(log)' - 1)
        PROVE  slot'[k % Size] = IF k = F' /\ cpc' = "free" THEN Raw ELSE log'[k + 1]
    <3>1. k \in F..(Len(log) - 1) /\ k \in F..(F + Size - 1)
      BY <1>1, <1>2
    <3>2. CASE k = F
      BY <1>1, <1>2, <2>1, <3>2
    <3>3. CASE k # F
      BY <1>2, <2>4, <3>1, <3>3 DEF CellsOK
    <3> QED BY <3>2, <3>3
  <2>6. ASSUME NEW k \in Len(log)'..(F' + Size - 1) PROVE slot'[k % Size] = Raw
    <3>1. k \in Len(log)..(F + Size - 1) /\ k \in F..(F + Size - 1) /\ k # F
      BY <1>1, <1>2
    <3> QED BY <2>4, <3>1 DEF CellsOK
  <2>7. out' = log'[F' + 1]
    BY <1>1, <1>2, <2>3
  <2> QED BY <2>5, <2>6, <2>7 DEF CellsOK
<1>5. LogOK'
  BY <1>2 DEF LogOK
<1>6. DrainOK'
  BY <1>1 DEF DrainOK
<1> QED BY <1>3, <1>4, <1>5, <1>6

\* Storing the new _tail keeps the invariant.
LEMMA PopFreeStep == ASSUME IInv, TypeOK', PopFree PROVE IInv'
<1> USE SizePositive DEF IInv, PopFree, queue, prodVars, consVars, history
<1>0. log \in Seq(Values) /\ popped \in Seq(Values)
  BY DEF TypeOK
<1>1. /\ F \in Nat /\ Published \in Nat /\ Len(log) \in Nat
      /\ F < Published /\ Published <= Len(log) /\ tail = F % Size
      /\ Len(log) <= F + Size - 1
      /\ out = log[F + 1] /\ popped = SubSeq(log, 1, F)
  BY Positions DEF IndexesOK, CellsOK, LogOK
<1>2. /\ Len(log)' = Len(log) /\ Published' = Published /\ log' = log
      /\ popped' = Append(popped, out)
  BY <1>1 DEF Published
<1>3. F' = F + 1
  BY <1>0, <1>1, <1>2 DEF F
<1>4. tail' = (F + 1) % Size
  BY <1>1, Successor
<1>5. IndexesOK'
  BY <1>1, <1>2, <1>3, <1>4 DEF IndexesOK
<1>6. CellsOK'
  <2>1. ASSUME NEW k \in F'..(Len(log)' - 1) PROVE slot'[k % Size] = log'[k + 1]
    <3>1. k \in F..(Len(log) - 1) /\ k # F
      BY <1>1, <1>2, <1>3
    <3> QED BY <1>2, <3>1 DEF CellsOK
  <2>2. ASSUME NEW k \in Len(log)'..(F' + Size - 1) PROVE slot'[k % Size] = Raw
    <3>1. CASE k = F + Size
      <4>1. k % Size = F % Size
        BY <1>1, <3>1, Shift
      <4>2. F \in F..(Len(log) - 1)
        BY <1>1
      <4>3. slot[F % Size] = Raw
        BY <4>2 DEF CellsOK
      <4> QED BY <4>1, <4>3
    <3>2. CASE k # F + Size
      <4>1. k \in Len(log)..(F + Size - 1)
        BY <1>1, <1>2, <1>3, <3>2
      <4> QED BY <4>1 DEF CellsOK
    <3> QED BY <3>1, <3>2
  <2>3. cpc' # "free"
    OBVIOUS
  <2> QED BY <2>1, <2>2, <2>3 DEF CellsOK
<1>7. LogOK'
  <2>1. SubSeq(log, 1, F + 1) = Append(SubSeq(log, 1, F), log[F + 1])
    BY <1>0, <1>1
  <2>2. popped' = SubSeq(log', 1, F')
    BY <1>1, <1>2, <1>3, <2>1
  <2> QED BY <1>2, <2>2 DEF LogOK
<1>8. DrainOK'
  BY DEF DrainOK
<1> QED BY <1>5, <1>6, <1>7, <1>8

-----------------------------------------------------------------------------
(***************************************************************************)
(* The invariant and what it implies.                                      *)
(***************************************************************************)
LEMMA LocalSteps ==
    ASSUME IInv, TypeOK',
           \/ \E b \in BOOLEAN : PushBegin(b)
           \/ \E m \in {"try", "blocking"} : PopBegin(m)
           \/ LocalProducer \/ LocalConsumer \/ Stop \/ Run \/ Destroy
    PROVE  IInv'
<1> USE SizePositive DEF IInv, queue, prodVars, consVars, history
<1>0. /\ F \in Nat /\ Published \in Nat /\ F <= Published
      /\ Len(log) <= F + Size - 1 /\ Len(log) \in Nat /\ Published <= Len(log)
      /\ pc # "publish" => Len(log) = Published
      /\ head = Published % Size /\ tail = F % Size
  BY Positions DEF IndexesOK
<1>1. CASE \E b \in BOOLEAN : PushBegin(b)
  <2>1. DrainOK'
    BY <1>1 DEF PushBegin, DrainOK
  <2> QED BY <1>1, <2>1, LocalStep DEF PushBegin
<1>2. CASE \E m \in {"try", "blocking"} : PopBegin(m)
  <2>1. DrainOK'
    BY <1>2 DEF PopBegin, DrainOK
  <2> QED BY <1>2, <2>1, LocalStep DEF PopBegin
<1>3. CASE PushCheck
  <2>1. DrainOK'
    BY <1>3 DEF PushCheck, DrainOK, Published, F, Refused
  <2>2. pc' = "construct" => Len(log) < F + Size - 1
    <3>1. ASSUME Len(log) = F + Size - 1 PROVE Succ(head) = tail
      <4>1. Succ(head) = (Published + 1) % Size
        BY <1>0, Successor
      <4>2. Published + 1 = F + Size
        BY <1>0, <1>3, <3>1 DEF PushCheck
      <4> QED BY <1>0, <4>1, <4>2, Shift
    <3> QED BY <1>0, <1>3, <3>1 DEF PushCheck, Refused
  <2> QED BY <1>3, <2>1, <2>2, LocalStep DEF PushCheck, Refused
<1>4. CASE PushStatus \/ BlockingPeek \/ BlockingRecheck
  <2>1. DrainOK'
    BY <1>4 DEF PushStatus, BlockingPeek, BlockingRecheck, DrainOK, Published, F, Refused
  <2> QED BY <1>4, <2>1, LocalStep DEF PushStatus, BlockingPeek, BlockingRecheck, Refused
<1>5. CASE PopCheck
  <2>1. F % Size = Published % Size <=> F = Published
    BY <1>0, SameCell
  <2>2. tail = head <=> F = Published
    BY <1>0, <2>1
  <2>3. cpc' = "dead" => tail = head /\ mode = "dtor"
    BY <1>5 DEF PopCheck, TypeOK
  <2>4. DrainOK'
    BY <1>5, <2>2, <2>3 DEF PopCheck, DrainOK, Published, F
  <2>5. cpc' \in {"take", "free"} => F < Published
    BY <1>0, <1>5, <2>2 DEF PopCheck, TypeOK
  <2>6. cpc # "free" /\ cpc' # "free"
    BY <1>5 DEF PopCheck, TypeOK
  <2> QED BY <1>5, <2>4, <2>5, <2>6, LocalStep DEF PopCheck
<1>6. CASE PopPeek \/ PopRecheck
  <2>1. DrainOK'
    BY <1>6 DEF PopPeek, PopRecheck, DrainOK
  <2> QED BY <1>6, <2>1, LocalStep DEF PopPeek, PopRecheck
<1>7. CASE Stop \/ Run \/ Destroy
  <2>1. DrainOK'
    BY <1>7 DEF Stop, Run, Destroy, DrainOK, Published, F
  <2> QED BY <1>7, <2>1, LocalStep DEF Stop, Run, Destroy
<1> QED BY <1>1, <1>2, <1>3, <1>4, <1>5, <1>6, <1>7 DEF LocalProducer, LocalConsumer

\* The inductive invariant holds in every reachable state of the queue.
THEOREM RingInvariant == Spec => []IInv
<1>1. Init => IInv
  BY InitInv
<1>2. IInv /\ [Next]_vars => IInv'
  <2> SUFFICES ASSUME IInv, [Next]_vars PROVE IInv'
    OBVIOUS
  <2>1. TypeOK'
    BY TypeStep
  <2>2. CASE UNCHANGED vars
    <3>1. F' = F /\ Published' = Published
      BY <2>2 DEF F, Published, vars
    <3> QED
      BY <2>1, <2>2, <3>1 DEF vars, IInv, IndexesOK, CellsOK, LogOK, DrainOK
  <2>3. CASE Next
    BY <2>1, <2>3, LocalSteps, PushConstructStep, PushPublishStep, PopTakeStep, PopFreeStep
       DEF Next, ProducerStep, ConsumerStep, LocalProducer, LocalConsumer
  <2> QED BY <2>2, <2>3
<1> QED BY <1>1, <1>2, PTL DEF Spec

\* Every variable keeps its type.
THEOREM TypeCorrect == Spec => []TypeOK
BY RingInvariant, PTL DEF IInv

\* Between _head and _tail there are never more than _size - 1 elements.
LEMMA Bounds ==
    ASSUME IInv
    PROVE  /\ F \in Nat /\ Published \in Nat /\ Len(log) \in Nat
           /\ F <= Published /\ Published <= Len(log) /\ Len(log) <= F + Size - 1
           /\ pc = "publish" => Len(log) = Published + 1
           /\ pc # "publish" => Len(log) = Published
           /\ head = Published % Size /\ tail = F % Size
BY Positions DEF IInv, IndexesOK

\* The two threads never work on the same cell, and T's constructor and
\* destructor run on a cell in turn.
THEOREM StorageIsOwned == Spec => []StorageOwned
<1>1. IInv => StorageOwned
  <2> SUFFICES ASSUME IInv PROVE StorageOwned
    OBVIOUS
  <2>1. pc = "construct" => slot[head] = Raw
    <3> SUFFICES ASSUME pc = "construct" PROVE slot[head] = Raw
      OBVIOUS
    <3>1. Published \in Len(log)..(F + Size - 1) /\ head = Published % Size
      BY Bounds, SizePositive
    <3>2. slot[Published % Size] = Raw
      BY <3>1 DEF IInv, CellsOK
    <3> QED BY <3>1, <3>2
  <2>2. cpc = "take" => slot[tail] # Raw
    <3> SUFFICES ASSUME cpc = "take" PROVE slot[tail] # Raw
      OBVIOUS
    <3>1. F \in F..(Len(log) - 1) /\ F + 1 \in 1..Len(log) /\ tail = F % Size
      BY Bounds DEF IInv, IndexesOK
    <3>2. slot[tail] = log[F + 1]
      BY <3>1 DEF IInv, CellsOK
    <3>3. log[F + 1] \in Values
      BY <3>1 DEF IInv, TypeOK
    <3> QED BY <3>2, <3>3, RawAssumption
  <2>3. pc \in {"construct", "publish"} /\ cpc \in {"take", "free"} => head # tail
    <3> SUFFICES ASSUME cpc \in {"take", "free"} PROVE head # tail
      OBVIOUS
    <3>1. F < Published /\ Published < F + Size
      BY Bounds, SizePositive DEF IInv, IndexesOK
    <3> QED BY <3>1, Bounds, SizePositive, LessThanALap
  <2> QED BY <2>1, <2>2, <2>3 DEF StorageOwned
<1> QED
  BY <1>1, RingInvariant, PTL

\* Nothing accepted is lost, duplicated or reordered on its way out.
THEOREM ElementsKept == Spec => []NothingLost
<1>1. IInv => NothingLost
  <2> SUFFICES ASSUME IInv PROVE NothingLost
    OBVIOUS
  <2>1. F \in Nat /\ F <= Len(log) /\ popped = SubSeq(log, 1, F)
    BY Bounds DEF IInv, LogOK
  <2>2. ASSUME NEW i \in (F + 1)..Len(log)
        PROVE  \/ slot[(i - 1) % Size] = log[i]
               \/ i = F + 1 /\ cpc = "free" /\ out = log[i]
    <3>1. i - 1 \in F..(Len(log) - 1) /\ (i - 1) + 1 = i /\ (i - 1 = F => i = F + 1)
      BY <2>1, Bounds
    <3>2. slot[(i - 1) % Size] = IF i - 1 = F /\ cpc = "free" THEN Raw ELSE log[(i - 1) + 1]
      BY <3>1 DEF IInv, CellsOK
    <3>3. CASE i - 1 = F /\ cpc = "free"
      BY <3>1, <3>3 DEF IInv, CellsOK
    <3>4. CASE ~(i - 1 = F /\ cpc = "free")
      <4>1. log[(i - 1) + 1] = log[i]
        BY <3>1
      <4> QED BY <3>2, <3>4, <4>1
    <3> QED BY <3>3, <3>4
  <2> QED BY <2>1, <2>2 DEF NothingLost
<1> QED
  BY <1>1, RingInvariant, PTL

\* Elements come out in the order they were pushed.
THEOREM ArrivesInOrder == Spec => []InOrder
<1>1. IInv => InOrder
  <2> SUFFICES ASSUME IInv PROVE InOrder
    OBVIOUS
  <2>1. F \in Nat /\ F <= Len(log) /\ log \in Seq(Values) /\ popped = SubSeq(log, 1, F)
    BY Bounds DEF IInv, LogOK, TypeOK
  <2>2. ASSUME NEW i \in 1..F PROVE popped[i] = log[i] /\ i \in 1..Len(log)
    BY <2>1
  <2> QED BY <2>1, <2>2 DEF InOrder, IInv, LogOK
<1> QED
  BY <1>1, RingInvariant, PTL

\* The masked indexes always tell how many elements there are.
THEOREM CountIsExact == Spec => []CountExact
<1>1. IInv => CountExact
  <2> SUFFICES ASSUME IInv PROVE CountExact
    OBVIOUS
  <2> DEFINE d == Published - F
  <2>1. /\ F \in Nat /\ Published \in Nat /\ d \in 0..(Size - 1) /\ d \in Nat
        /\ F + d = Published
        /\ head = Published % Size /\ tail = F % Size
    BY Bounds, SizePositive
  <2>2. head = tail <=> Published = F
    BY <2>1, SizePositive, SameCell
  <2>3. Succ(head) = tail <=> d = Size - 1
    <3>1. Succ(head) = (Published + 1) % Size
      BY <2>1, Successor
    <3>2. F % Size = (Published + 1) % Size
            <=> F = Published + 1 \/ Published + 1 = F + Size
      BY <2>1, SizePositive, SameCell
    <3> QED BY <2>1, <3>1, <3>2, SizePositive
  <2>4. (head + Size - tail) % Size = d
    <3>1. tail \in Nat /\ tail < Size /\ head \in Nat /\ head < Size
      BY SizePositive DEF IInv, TypeOK, Cells
    <3>2. head = (tail + d) % Size
      <4>1. ((F % Size) + d) % Size = (F + d) % Size
        BY <2>1, SizePositive, AddThenMask
      <4> QED BY <2>1, <4>1
    <3> DEFINE e == tail + d
    <3>3. e \in Nat /\ e < Size + Size
      BY <2>1, <3>1, SizePositive
    <3>4. CASE e < Size
      <4>1. head = e
        BY <3>2, <3>3, <3>4, SizePositive, Small
      <4>2. head + Size - tail = d + Size
        BY <2>1, <3>1, <4>1, SizePositive
      <4> QED BY <2>1, <4>2, SizePositive, Shift, Small
    <3>5. CASE e >= Size
      <4>1. e - Size \in 0..(Size - 1) /\ e - Size \in Nat /\ (e - Size) + Size = e
        BY <3>3, <3>5, SizePositive
      <4>2. head = e - Size
        BY <3>2, <4>1, SizePositive, Shift, Small
      <4>3. head + Size - tail = d
        BY <2>1, <3>1, <4>2, SizePositive
      <4> QED BY <2>1, <4>3, SizePositive, Small
    <3> QED BY <3>3, <3>4, <3>5, SizePositive
  <2> QED BY <2>2, <2>3, <2>4 DEF CountExact
<1> QED
  BY <1>1, RingInvariant, PTL

\* The destructor leaves no element behind.
THEOREM DestructorIsComplete == Spec => []DestructorDrains
<1>1. IInv => DestructorDrains
  <2> SUFFICES ASSUME IInv, cpc = "dead" PROVE popped = log /\ \A i \in Cells : slot[i] = Raw
    BY DEF DestructorDrains
  <2>1. /\ F \in Nat /\ Len(log) = F /\ log \in Seq(Values)
    BY Bounds DEF IInv, DrainOK, TypeOK
  <2>2. popped = log
    BY <2>1 DEF IInv, LogOK
  <2>3. ASSUME NEW i \in Cells PROVE slot[i] = Raw
    <3>1. PICK k \in F..(F + Size - 1) : k % Size = i
      BY <2>1, SizePositive, LapCovers DEF Cells
    <3>2. k \in Len(log)..(F + Size - 1)
      BY <2>1, <3>1
    <3> QED BY <3>1, <3>2 DEF IInv, CellsOK
  <2> QED BY <2>2, <2>3
<1> QED
  BY <1>1, RingInvariant, PTL

\* A push is turned away as "full" only while _size - 1 elements are there.
THEOREM RefusalsAreHonest == Spec => RefusedOnlyWhenFull
<1> DEFINE Honest == pc = "check" /\ pc' \in {"idle", "peek"} => Len(log) - F = Size - 1
<1>1. IInv /\ [Next]_vars => Honest
  <2> SUFFICES ASSUME IInv, [Next]_vars, pc = "check", pc' \in {"idle", "peek"}
               PROVE  Len(log) - F = Size - 1
    OBVIOUS
  <2>1. PushCheck
    BY DEF Next, PushBegin, PopBegin, ProducerStep, ConsumerStep, PushStatus, PushConstruct,
       PushPublish, BlockingPeek, BlockingRecheck, PopCheck, PopTake, PopFree, PopPeek,
       PopRecheck, Stop, Run, Destroy, vars, prodVars
  <2>2. Succ(head) = tail
    BY <2>1 DEF PushCheck
  <2>3. Succ(head) = (Published + 1) % Size
    BY Bounds, Successor
  <2>4. F % Size = (Published + 1) % Size
          <=> F = Published + 1 \/ Published + 1 = F + Size
    <3>1. F \in Nat /\ Published + 1 \in Nat /\ F <= Published + 1 /\ Published + 1 <= F + Size
      BY Bounds, SizePositive
    <3> QED BY <3>1, SameCell
  <2> QED BY <2>2, <2>3, <2>4, Bounds, SizePositive
<1>2. IInv /\ [Next]_vars => [Honest]_vars
  BY <1>1
<1> QED
  BY <1>2, RingInvariant, PTL DEF Spec, RefusedOnlyWhenFull

\* A pop reports "empty" only when nothing is published.
THEOREM MissesAreHonest == Spec => EmptyOnlyWhenEmpty
<1> DEFINE Honest == cpc = "load" /\ cpc' \in {"idle", "peek", "dead"} => Published = F
<1>1. IInv /\ [Next]_vars => Honest
  <2> SUFFICES ASSUME IInv, [Next]_vars, cpc = "load", cpc' \in {"idle", "peek", "dead"}
               PROVE  Published = F
    OBVIOUS
  <2>1. PopCheck
    BY DEF Next, PushBegin, PopBegin, ProducerStep, ConsumerStep, PushStatus, PushCheck,
       PushConstruct, PushPublish, BlockingPeek, BlockingRecheck, PopTake, PopFree, PopPeek,
       PopRecheck, Stop, Run, Destroy, vars, consVars
  <2>2. tail = head
    BY <2>1 DEF PopCheck
  <2>3. F \in Nat /\ Published \in Nat /\ F <= Published /\ Published < F + Size
    BY Bounds, SizePositive
  <2>4. F % Size = Published % Size <=> F = Published \/ Published = F + Size
    BY <2>3, SizePositive, SameCell
  <2> QED BY <2>2, <2>3, <2>4, Bounds, SizePositive
<1>2. IInv /\ [Next]_vars => [Honest]_vars
  BY <1>1
<1> QED
  BY <1>2, RingInvariant, PTL DEF Spec, EmptyOnlyWhenEmpty

-----------------------------------------------------------------------------
(***************************************************************************)
(* The queue implements the bounded FIFO.                                  *)
(***************************************************************************)
LEMMA ConstructReserves ==
    ASSUME IInv, PushConstruct
    PROVE  \E v \in Values : Fifo!Reserve(v)
<1> DEFINE n == Len(log) - F
           new == [val |-> calls, done |-> FALSE]
<1>1. /\ F \in Nat /\ Len(log) \in Nat /\ F <= Len(log) /\ Len(log) < F + Size - 1
      /\ Published = Len(log) /\ log \in Seq(Values) /\ calls \in Values
  BY Bounds, SizePositive DEF PushConstruct, IInv, TypeOK, IndexesOK, LogOK, Values
<1>2. /\ log' = Append(log, calls) /\ popped' = popped /\ F' = F /\ pc' = "publish"
  BY DEF PushConstruct, F
<1>3. /\ Len(log') = Len(log) + 1 /\ log'[Len(log) + 1] = calls
      /\ \A i \in 1..Len(log) : log'[i] = log[i]
  BY <1>1, <1>2
<1>4. Published' = Len(log)
  BY <1>1, <1>2, <1>3 DEF Published
<1>5. n \in Nat /\ Len(Waiting) = n /\ n < Size - 1
  BY <1>1, SizePositive DEF Waiting
<1>6. Waiting' = Append(Waiting, new)
  <2> DEFINE later == [i \in 1..(n + 1) |->
                         [val |-> log'[F + i], done |-> F + i <= Len(log)]]
  <2>1. Waiting' = later
    <3>1. Len(log') - F = n + 1
      BY <1>1, <1>3
    <3> QED BY <1>2, <1>4, <3>1 DEF Waiting
  <2>2. ASSUME NEW i \in 1..(n + 1) PROVE later[i] = Append(Waiting, new)[i]
    <3>1. CASE i = n + 1
      <4>1. F + i = Len(log) + 1
        BY <1>1, <3>1
      <4>2. (F + i <= Len(log)) = FALSE
        BY <1>1, <4>1
      <4>3. later[i] = new
        BY <1>3, <4>1, <4>2
      <4>4. Append(Waiting, new)[i] = new
        BY <1>5, <3>1 DEF Waiting
      <4> QED BY <4>3, <4>4
    <3>2. CASE i \in 1..n
      <4>1. F + i \in 1..Len(log)
        BY <1>1, <3>2
      <4>2. later[i] = Waiting[i]
        BY <1>1, <1>3, <3>2, <4>1 DEF Waiting
      <4>3. Append(Waiting, new)[i] = Waiting[i]
        BY <1>5, <3>2 DEF Waiting
      <4> QED BY <4>2, <4>3
    <3> QED BY <1>5, <3>1, <3>2
  <2>3. Append(Waiting, new) = [i \in 1..(n + 1) |-> Append(Waiting, new)[i]]
    BY <1>5 DEF Waiting
  <2> HIDE DEF later, new
  <2>4. later = [i \in 1..(n + 1) |-> Append(Waiting, new)[i]]
    BY <2>2 DEF later
  <2> QED BY <2>1, <2>3, <2>4
<1> QED
  BY <1>1, <1>2, <1>5, <1>6 DEF Fifo!Reserve

\* The store of _head fills the place reserved.
LEMMA PublishCommits ==
    ASSUME IInv, PushPublish
    PROVE  \E i \in DOMAIN Waiting : Fifo!Commit(i)
<1> DEFINE n == Len(log) - F
<1>1. /\ F \in Nat /\ Published \in Nat /\ F <= Published /\ Len(log) = Published + 1
      /\ n \in Nat /\ n >= 1 /\ F + n = Len(log)
  BY Bounds DEF PushPublish
<1>2. /\ log' = log /\ popped' = popped /\ F' = F /\ Published' = Len(log)
  BY DEF PushPublish, history, F, Published
<1>3. n \in DOMAIN Waiting /\ DOMAIN Waiting = 1..n
  BY <1>1 DEF Waiting
<1>4. ~Waiting[n].done
  <2>1. (F + n <= Published) = FALSE
    BY <1>1
  <2>2. Waiting[n] = [val |-> log[F + n], done |-> FALSE]
    BY <1>3, <2>1 DEF Waiting
  <2> QED BY <2>2
<1>5. Waiting' = [i \in 1..n |-> [val |-> log[F + i], done |-> F + i <= Len(log)]]
  BY <1>2 DEF Waiting
<1>6. ASSUME NEW i \in 1..n
      PROVE  [val |-> log[F + i], done |-> F + i <= Len(log)] = [Waiting EXCEPT ![n].done = TRUE][i]
  <2>0. (F + i <= Len(log)) = TRUE
    BY <1>1
  <2>1. CASE i = n
    BY <1>3, <2>0, <2>1 DEF Waiting
  <2>2. CASE i # n
    <3>1. (F + i <= Published) = TRUE
      BY <1>1, <2>2
    <3> QED BY <1>3, <2>0, <2>2, <3>1 DEF Waiting
  <2> QED BY <2>1, <2>2
<1>7. [Waiting EXCEPT ![n].done = TRUE] = [i \in 1..n |-> [Waiting EXCEPT ![n].done = TRUE][i]]
  BY DEF Waiting
<1> HIDE DEF n
<1>8. Waiting' = [Waiting EXCEPT ![n].done = TRUE]
  BY <1>5, <1>6, <1>7
<1> QED
  BY <1>2, <1>3, <1>4, <1>8 DEF Fifo!Commit

\* The store of _tail delivers the first element.
LEMMA FreeDelivers == ASSUME IInv, PopFree PROVE Fifo!Deliver
<1> DEFINE n == Len(log) - F
<1>1. /\ F \in Nat /\ Published \in Nat /\ F < Published /\ Published <= Len(log)
      /\ Len(log) \in Nat /\ n \in Nat /\ n >= 1
      /\ out = log[F + 1] /\ popped \in Seq(Values)
  BY Bounds DEF PopFree, IInv, TypeOK, IndexesOK, CellsOK
<1>2. /\ log' = log /\ popped' = Append(popped, log[F + 1]) /\ Published' = Published
      /\ F' = F + 1
  BY <1>1 DEF PopFree, F, Published, prodVars
<1>3. Waiting # <<>> /\ Len(Waiting) = n /\ Head(Waiting) = [val |-> log[F + 1], done |-> TRUE]
  <2>1. Len(Waiting) = n /\ Waiting # <<>> /\ 1 \in 1..n
    <3>1. Len(Waiting) = n
      BY <1>1 DEF Waiting
    <3>2. Waiting # <<>>
      BY <1>1, <3>1
    <3> QED BY <1>1, <3>1, <3>2
  <2>2. (F + 1 <= Published) = TRUE
    BY <1>1
  <2>3. Waiting[1] = [val |-> log[F + 1], done |-> TRUE]
    BY <2>1, <2>2 DEF Waiting
  <2>4. Head(Waiting) = Waiting[1]
    BY <2>1
  <2> QED BY <2>1, <2>3, <2>4
<1>4. Tail(Waiting) = [i \in 1..(n - 1) |-> Waiting[i + 1]]
  <2>1. n \in Nat /\ n > 0
    BY <1>1
  <2>2. Waiting = [i \in 1..n |-> Waiting[i]]
    BY <1>1 DEF Waiting
  <2> QED BY <2>1, <2>2, TailAt
<1>5. Waiting' = [i \in 1..(n - 1) |->
                    [val |-> log[(F + 1) + i], done |-> (F + 1) + i <= Published]]
  <2>1. Len(log) - (F + 1) = n - 1
    BY <1>1
  <2> QED BY <1>2, <2>1 DEF Waiting
<1>6. ASSUME NEW i \in 1..(n - 1)
      PROVE  Waiting[i + 1] = [val |-> log[(F + 1) + i], done |-> (F + 1) + i <= Published]
  <2>1. i + 1 \in 1..n /\ (F + 1) + i = F + (i + 1)
    BY <1>1
  <2> QED BY <2>1 DEF Waiting
<1>7. Waiting' = Tail(Waiting)
  BY <1>4, <1>5, <1>6
<1> QED
  BY <1>2, <1>3, <1>7 DEF Fifo!Deliver

\* The queue is a bounded FIFO of _size - 1 places, whatever its threads do.
THEOREM ImplementsBoundedFifo == Spec => ImplementsFifo
<1>1. Init => Fifo!FifoInit
  BY DEF Init, Fifo!FifoInit, Waiting, F
<1>2. IInv /\ [Next]_vars => [Fifo!FifoNext]_(Fifo!fifoVars)
  <2> SUFFICES ASSUME IInv, [Next]_vars PROVE [Fifo!FifoNext]_(Fifo!fifoVars)
    OBVIOUS
  <2>1. ASSUME history' = history, pc = "publish" <=> pc' = "publish"
        PROVE  UNCHANGED Fifo!fifoVars
    BY <2>1 DEF Fifo!fifoVars, history, Waiting, F, Published
  <2>2. CASE PushConstruct
    BY <2>2, ConstructReserves DEF Fifo!FifoNext
  <2>3. CASE PushPublish
    BY <2>3, PublishCommits DEF Fifo!FifoNext
  <2>4. CASE PopFree
    BY <2>4, FreeDelivers DEF Fifo!FifoNext
  <2>5. CASE ~PushConstruct /\ ~PushPublish /\ ~PopFree
    BY <2>1, <2>5 DEF Next, PushBegin, PopBegin, ProducerStep, ConsumerStep, PushStatus,
       PushCheck, BlockingPeek, BlockingRecheck, PopCheck, PopTake, PopPeek, PopRecheck,
       Stop, Run, Destroy, vars, history, prodVars, Refused
  <2> QED BY <2>2, <2>3, <2>4, <2>5
<1> QED
  BY <1>1, <1>2, RingInvariant, PTL DEF Spec, ImplementsFifo, Fifo!FifoSpec
=============================================================================
