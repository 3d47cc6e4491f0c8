--------------------------- MODULE MPSCQueueProofs ---------------------------
(***************************************************************************)
(* Theorems about MPSCQueue, for every set of producers, every number of   *)
(* calls and every size of at least two cells.                             *)
(***************************************************************************)
EXTENDS MPSCQueueWords, SharedLemmas

(***************************************************************************)
(* The ring arithmetic, for the cells of this queue.                       *)
(***************************************************************************)
LEMMA SizePositive == Size \in Nat /\ Size > 0
BY SizeAssumption

\* A position taken modulo _size is the index of a cell.
LEMMA CellType == ASSUME NEW k \in Nat PROVE Cell(k) \in Cells
BY SizePositive, Division DEF Cell, Cells

\* Positions a lap apart share a cell.
LEMMA CellShift == ASSUME NEW k \in Nat PROVE Cell(k + Size) = Cell(k)
BY SizePositive, Shift DEF Cell

\* Positions less than a lap apart do not.
LEMMA CellInjective ==
    ASSUME NEW a \in Nat, NEW b \in Nat, a < b, b < a + Size
    PROVE  Cell(a) # Cell(b)
BY SizePositive, LessThanALap DEF Cell

\* Every cell has a position in the lap that begins at a.
LEMMA LapReaches ==
    ASSUME NEW a \in Nat, NEW i \in Cells
    PROVE  \E k \in a..(a + Size - 1) : Cell(k) = i
BY SizePositive, LapCovers DEF Cell, Cells

\* The positions of one lap lie in different cells.
LEMMA LapSeparates ==
    ASSUME NEW a \in Nat, NEW j \in a..(a + Size - 1), NEW k \in a..(a + Size - 1), j # k
    PROVE  Cell(j) # Cell(k)
BY SizePositive, LapInjective DEF Cell

-----------------------------------------------------------------------------
\* The constructor establishes the invariant.
LEMMA InitInv == Init => IInv
<1> SUFFICES ASSUME Init PROVE IInv
  OBVIOUS
<1> USE SizePositive DEF Init, Running, Stopped
<1>0. Len(log) = 0 /\ Len(popped) = 0 /\ log \in Seq(Values) /\ popped \in Seq(Values)
  OBVIOUS
<1>1. TypeOK
  BY <1>0, CallsAssumption DEF TypeOK, Cells, PushPoints, PopPoints
<1>2. CountersOK
  BY <1>0 DEF CountersOK, F, Emptying
<1>3. CellsOK
  <2>1. ASSUME NEW k \in Free PROVE seq[Cell(k)] = k /\ slot[Cell(k)] = Raw
    <3>1. k \in 0..(Size - 1) /\ k \in Nat
      BY <1>0 DEF Free, F
    <3>2. Cell(k) = k
      BY <3>1, Small DEF Cell
    <3> QED BY <3>1, <3>2 DEF Cells
  <2>2. Taken = {}
    BY <1>0 DEF Taken, F
  <2> QED BY <2>1, <2>2 DEF CellsOK
<1>4. PushersOK
  BY DEF PushersOK, At, Filling
<1>5. LogOK
  BY <1>0 DEF LogOK, F
<1>6. DrainOK
  BY DEF DrainOK
<1> QED BY <1>1, <1>2, <1>3, <1>4, <1>5, <1>6 DEF IInv

\* The values a program counter may take.
LEMMA PointTypes ==
    ASSUME TypeOK
    PROVE  /\ \A p \in Producers : /\ pc[p] \in PushPoints /\ pos[p] \in Nat
                                   /\ calls[p] \in Nat /\ Cell(pos[p]) \in Cells
           /\ F \in Nat /\ Len(log) \in Nat
BY CellType DEF TypeOK, F

\* A push in progress has an element to push.
LEMMA ItemType ==
    ASSUME TypeOK, NEW p \in Producers, calls[p] > 0
    PROVE  Item(p) \in Values
<1>1. calls[p] \in 1..MaxCalls[p]
  BY CallsAssumption DEF TypeOK
<1> QED BY <1>1 DEF Item, Values

\* What the consumer works on between its tail store and its seq store.
LEMMA EmptyingFacts ==
    ASSUME IInv, cpc \in {"advance", "take", "free"}
    PROVE  /\ F \in Nat /\ F \in Taken /\ F + 1 \in 1..Len(log)
           /\ log[F + 1] \in Values /\ Cell(F) \in Cells
           /\ seq[Cell(F)] = F + 1
           /\ cpc \in {"take", "free"} => tail = F + 1 /\ tail - 1 = F
           /\ cpc = "advance" => tail = F
           /\ cpc \in {"advance", "take"} => slot[Cell(F)] = log[F + 1]
           /\ cpc = "free" => slot[Cell(F)] = Raw /\ out = log[F + 1]
<1> USE DEF IInv
<1>1. F \in Nat /\ tail \in Nat /\ head \in Nat /\ log \in Seq(Values)
  BY DEF TypeOK, F
<1>2. /\ F < head /\ seq[Cell(F)] = F + 1
      /\ cpc \in {"take", "free"} => tail = F + 1
      /\ cpc = "advance" => tail = F
      /\ Len(log) = head
  BY <1>1 DEF CountersOK, Emptying
<1>3. F \in Taken /\ F + 1 \in 1..Len(log)
  BY <1>1, <1>2 DEF Taken
<1>4. Published(F)
  BY <1>1, <1>2, <1>3 DEF CellsOK, Claimed
<1>5. log[F + 1] \in Values
  BY <1>1, <1>3
<1> QED
  BY <1>1, <1>2, <1>3, <1>4, <1>5, CellType DEF Published

\* Every step keeps the types.
LEMMA TypeStep == ASSUME IInv, [Next]_vars PROVE TypeOK'
<1> USE DEF IInv, TypeOK, Goto, Refused, PushPoints, PopPoints, Running, Stopped,
            queue, prodVars, consVars, history, At
<1>1. ASSUME NEW p \in Producers, NEW b \in BOOLEAN, PushBegin(p, b) PROVE TypeOK'
  <2>1. calls[p] \in Nat /\ MaxCalls[p] \in Nat
    BY CallsAssumption
  <2>2. calls' \in [Producers -> Nat]
    BY <1>1, <2>1 DEF PushBegin
  <2>3. \A q \in Producers : calls'[q] <= MaxCalls[q]
    BY <1>1, <2>1, CallsAssumption DEF PushBegin
  <2>4. pc' \in [Producers -> PushPoints] /\ blocking' \in [Producers -> BOOLEAN]
    BY <1>1 DEF PushBegin
  <2> QED BY <1>1, <2>2, <2>3, <2>4 DEF PushBegin
<1>2. ASSUME NEW p \in Producers, SizeLoadHead(p) PROVE TypeOK'
  BY <1>2 DEF SizeLoadHead
<1>3. ASSUME NEW p \in Producers, ProducerStep(p) PROVE TypeOK'
  <2>1. CASE BlockingPeek(p) \/ BlockingRecheck(p) \/ PushStatus(p) \/ SizeLoadTail(p)
    BY <2>1 DEF BlockingPeek, BlockingRecheck, PushStatus, SizeLoadTail
  <2>2. CASE PushLoadHead(p) \/ PushLoadSeq(p) \/ PushCasLose(p)
    BY <2>2 DEF PushLoadHead, PushLoadSeq, PushCasLose
  <2>3. CASE PushCasWin(p)
    <3>1. Item(p) \in Values
      BY <2>3, ItemType DEF PushCasWin, PushersOK
    <3> QED BY <2>3, <3>1 DEF PushCasWin
  <2>4. CASE PushConstruct(p)
    <3>1. Item(p) \in Values
      BY <2>4, ItemType DEF PushConstruct, PushersOK
    <3> QED BY <2>4, <3>1 DEF PushConstruct
  <2>5. CASE PushPublish(p)
    <3>1. pos[p] + 1 \in Nat
      OBVIOUS
    <3>2. seq' \in [Cells -> Nat]
      BY <2>5, <3>1 DEF PushPublish
    <3> QED BY <2>5, <3>2 DEF PushPublish
  <2> QED BY <1>3, <2>1, <2>2, <2>3, <2>4, <2>5 DEF ProducerStep
<1>4. CASE PopCall
  BY <1>4 DEF PopCall, PopBegin
<1>5. CASE ConsumerStep
  <2>1. CASE PopHit \/ PopPeek \/ PopRecheck \/ PopAdvance
    BY <2>1 DEF PopHit, PopPeek, PopRecheck, PopAdvance
  <2>2. CASE PopMiss
    BY <2>2 DEF PopMiss
  <2>3. CASE PopTake
    <3>1. tail - 1 = F /\ Cell(F) \in Cells
      BY <2>3, EmptyingFacts DEF PopTake
    <3>2. slot' \in [Cells -> Values \cup {Raw}] /\ out' \in Values \cup {Raw}
      BY <2>3, <3>1 DEF PopTake
    <3> QED BY <2>3, <3>2 DEF PopTake
  <2>4. CASE PopFree
    <3>1. tail - 1 = F /\ F \in Nat /\ out \in Values
      BY <2>4, EmptyingFacts DEF PopFree
    <3>2. F + Size \in Nat
      BY <3>1, SizePositive
    <3>3. seq' \in [Cells -> Nat]
      BY <2>4, <3>1, <3>2 DEF PopFree
    <3>4. popped' \in Seq(Values)
      BY <2>4, <3>1 DEF PopFree
    <3> QED BY <2>4, <3>3, <3>4 DEF PopFree
  <2> QED BY <1>5, <2>1, <2>2, <2>3, <2>4 DEF ConsumerStep
<1>6. CASE Stop \/ Run \/ Destroy
  BY <1>6 DEF Stop, Run, Destroy
<1>7. CASE UNCHANGED vars
  BY <1>7 DEF vars
<1> QED
  BY <1>1, <1>2, <1>3, <1>4, <1>5, <1>6, <1>7 DEF Next

-----------------------------------------------------------------------------
(***************************************************************************)
(* Steps of a producer that leave the queue alone.                         *)
(***************************************************************************)
LEMMA LocalPush ==
    ASSUME IInv, TypeOK', NEW p \in Producers, mode # "dtor",
           UNCHANGED <<queue, consVars, history>>,
           \A q \in Producers \ {p} :
               pc'[q] = pc[q] /\ pos'[q] = pos[q] /\ calls'[q] = calls[q],
           ~Filling(p), pc'[p] \notin {"construct", "publish"},
           calls'[p] >= calls[p],
           pc'[p] \in {"peek", "recheck", "status", "head", "seq", "cas"} =>
               Claiming(p) \/ calls'[p] > calls[p],
           pc'[p] \notin {"idle", "size"} => calls'[p] > 0,
           pc'[p] \in {"seq", "cas"} => pos'[p] <= head,
           pc'[p] = "cas" => pos'[p] < F + Size
    PROVE  IInv'
<1> USE DEF IInv, queue, consVars, history
<1>0. F' = F /\ \A k : (Cell(k))' = Cell(k)
  BY DEF F, Cell
<1>1. CountersOK'
  BY <1>0 DEF CountersOK, Emptying
<1>2. \A q \in Producers : /\ Filling(q)' <=> Filling(q)
                          /\ Filling(q) => pos'[q] = pos[q] /\ calls'[q] = calls[q]
                                            /\ pc'[q] = pc[q]
  BY DEF Filling
<1>3. CellsOK'
  <2>1. Taken' = Taken /\ Free' = Free
    BY <1>0 DEF Taken, Free
  <2>2. \A k : Claimed(k) => Claimed(k)'
    BY <1>0, <1>2 DEF Claimed, Filling
  <2>3. \A k : Published(k) => Published(k)'
    BY <1>0 DEF Published
  <2> QED BY <1>0, <2>1, <2>2, <2>3 DEF CellsOK
<1>4. PushersOK'
  <2>1. Taken' = Taken
    BY <1>0 DEF Taken
  <2>2. \A q \in Producers : Filling(q) => Item(q)' = Item(q)
    BY <1>2 DEF Item
  <2>3. ASSUME NEW q \in Producers
        PROVE  /\ pc'[q] \notin {"idle", "size"} => calls'[q] > 0
               /\ pc'[q] \in {"seq", "cas"} => pos'[q] <= head'
               /\ pc'[q] = "cas" => pos'[q] < (F + Size)'
    BY <1>0 DEF PushersOK, At
  <2>4. ASSUME NEW q \in Producers, Filling(q)'
        PROVE  /\ pos'[q] \in Taken'
               /\ seq'[Cell(pos'[q])] = pos'[q]
               /\ log'[pos'[q] + 1] = Item(q)'
               /\ slot'[Cell(pos'[q])] = IF pc'[q] = "construct" THEN Raw ELSE Item(q)'
               /\ \A r \in Producers \ {q} : Filling(r)' => pos'[r] # pos'[q]
    <3>1. Filling(q) /\ pos'[q] = pos[q] /\ pc'[q] = pc[q]
      BY <1>2, <2>4 DEF Filling
    <3>2. \A r \in Producers : Filling(r)' => Filling(r) /\ pos'[r] = pos[r]
      BY <1>2 DEF Filling
    <3> QED BY <3>1, <3>2, <2>1, <2>2 DEF PushersOK, At
  <2> QED BY <1>0, <2>3, <2>4 DEF PushersOK, At
<1>5. LogOK'
  <2>1. \A q \in Producers \ {p} : Claiming(q)' <=> Claiming(q)
    BY DEF Claiming
  <2>2. Claiming(p)' => Claiming(p) \/ calls'[p] > calls[p]
    BY DEF Claiming
  <2>3. ASSUME NEW i \in 1..Len(log), NEW q \in Producers, log[i][1] = q
        PROVE  IF Claiming(q)' THEN log[i][2] < calls'[q] ELSE log[i][2] <= calls'[q]
    <3>1. log[i] \in Values
      BY DEF TypeOK
    <3>2. log[i][2] \in Nat
      BY <3>1 DEF Values
    <3>3. IF Claiming(q) THEN log[i][2] < calls[q] ELSE log[i][2] <= calls[q]
      BY <2>3 DEF LogOK
    <3>4. calls[q] \in Nat /\ calls'[q] \in Nat
      BY DEF TypeOK
    <3>5. CASE q = p
      BY <3>2, <3>3, <3>4, <3>5, <2>2
    <3>6. CASE q # p
      BY <3>2, <3>3, <3>4, <3>6, <2>1
    <3> QED BY <3>5, <3>6
  <2>4. Len(log)' = Len(log) /\ log' = log /\ popped' = popped
    OBVIOUS
  <2> QED BY <1>0, <2>3, <2>4 DEF LogOK
<1>6. DrainOK'
  BY DEF DrainOK
<1> QED BY <1>1, <1>3, <1>4, <1>5, <1>6

\* A cell that shows `pos` to its producer is free: with two cells or more,
\* a full ring shows an older number.
LEMMA VacantCell ==
    ASSUME Size > 1, IInv, NEW k \in Nat, k <= head, seq[Cell(k)] = k
    PROVE  k < F + Size
<1> USE DEF IInv
<1>1. F \in Nat /\ head \in Nat /\ head <= F + Size
  BY DEF TypeOK, F, CountersOK
<1> SUFFICES ASSUME k >= F + Size PROVE FALSE
  BY <1>1, SizePositive
<1>2. k = F + Size /\ head = F + Size
  BY <1>1, SizePositive
<1>3. Cell(k) = Cell(F)
  BY <1>1, <1>2, CellShift
<1>4. F \in Taken
  BY <1>1, <1>2, SizePositive DEF Taken
<1>5. seq[Cell(F)] = F \/ seq[Cell(F)] = F + 1
  BY <1>4 DEF CellsOK, Claimed, Published
<1> QED
  BY <1>1, <1>2, <1>3, <1>5, SizePositive

\* The steps of a push that only read the queue keep the invariant.
LEMMA LocalPushSteps ==
    ASSUME Size > 1, IInv, TypeOK', NEW p \in Producers,
           \/ \E b \in BOOLEAN : PushBegin(p, b)
           \/ SizeLoadHead(p) \/ SizeLoadTail(p)
           \/ BlockingPeek(p) \/ BlockingRecheck(p) \/ PushStatus(p)
           \/ PushLoadHead(p) \/ PushLoadSeq(p) \/ PushCasLose(p)
    PROVE  IInv'
<1> USE DEF At, Goto, Refused, Filling, Claiming, queue, consVars, history
<1>1. pc \in [Producers -> PushPoints] /\ pos \in [Producers -> Nat]
      /\ calls \in [Producers -> Nat] /\ head \in Nat
  BY DEF IInv, TypeOK
<1>2. pc[p] \notin {"idle", "size"} => calls[p] > 0 /\ mode # "dtor"
  BY DEF IInv, PushersOK, DrainOK
<1>3. CASE \E b \in BOOLEAN : PushBegin(p, b)
  BY <1>1, <1>3, LocalPush DEF PushBegin
<1>4. CASE SizeLoadHead(p) \/ SizeLoadTail(p)
  <2>1. mode # "dtor"
    BY <1>4 DEF SizeLoadHead, SizeLoadTail, IInv, DrainOK
  <2> QED BY <1>1, <1>4, <2>1, LocalPush DEF SizeLoadHead, SizeLoadTail
<1>5. CASE BlockingPeek(p) \/ BlockingRecheck(p) \/ PushStatus(p)
  BY <1>1, <1>2, <1>5, LocalPush DEF BlockingPeek, BlockingRecheck, PushStatus
<1>6. CASE PushLoadHead(p) \/ PushCasLose(p)
  BY <1>1, <1>2, <1>6, LocalPush DEF PushLoadHead, PushCasLose
<1>7. CASE PushLoadSeq(p)
  <2>1. pos[p] <= head
    BY <1>7 DEF PushLoadSeq, IInv, PushersOK
  <2>2. Cell(pos[p]) \in Cells /\ seq[Cell(pos[p])] \in Nat
    BY CellType DEF IInv, TypeOK
  <2>3. pc'[p] = "cas" => pos'[p] < F + Size
    BY <1>1, <1>7, <2>1, <2>2, VacantCell DEF PushLoadSeq
  <2> QED BY <1>1, <1>2, <1>7, <2>1, <2>3, LocalPush DEF PushLoadSeq
<1> QED
  BY <1>3, <1>4, <1>5, <1>6, <1>7

(***************************************************************************)
(* Steps that change neither the ring nor a producer: most of a pop, and   *)
(* stop, run and the beginning of the destructor.                          *)
(***************************************************************************)
LEMMA LocalPop ==
    ASSUME IInv, TypeOK',
           UNCHANGED <<head, tail, seq, slot, prodVars, out, history>>,
           \/ cpc' = cpc
           \/ cpc \notin {"take", "free"} /\ cpc' \notin {"take", "free"},
           cpc' = "advance" => F < head /\ seq[Cell(F)] = F + 1,
           mode' = "dtor" => \A p \in Producers : At(p, "idle"),
           cpc' = "dead" => mode' = "dtor" /\ head = F
    PROVE  IInv'
<1> USE DEF IInv, prodVars, history
<1>0. F' = F /\ \A k : (Cell(k))' = Cell(k)
  BY DEF F, Cell
<1>1. CountersOK'
  BY <1>0 DEF CountersOK, Emptying
<1>2. CellsOK'
  <2>1. Taken' = Taken /\ Free' = Free
    BY <1>0 DEF Taken, Free
  <2>2. \A k : Claimed(k) => Claimed(k)'
    BY <1>0 DEF Claimed, Filling
  <2>3. \A k : Published(k) => Published(k)'
    BY <1>0 DEF Published
  <2> QED BY <1>0, <2>1, <2>2, <2>3 DEF CellsOK
<1>3. PushersOK'
  BY <1>0 DEF PushersOK, At, Filling, Item, Taken
<1>4. LogOK'
  BY <1>0 DEF LogOK, Claiming
<1>5. DrainOK'
  BY <1>0 DEF DrainOK, At
<1> QED BY <1>1, <1>2, <1>3, <1>4, <1>5

\* A pop finds the front ready exactly when it has been published.
LEMMA FrontOfQueue ==
    ASSUME IInv, cpc = "load"
    PROVE  /\ tail = F /\ F \in Nat
           /\ FrontReady => F < head /\ seq[Cell(F)] = F + 1
           /\ ~FrontReady => head = F \/ \E p \in Producers : Filling(p) /\ pos[p] = F
<1> USE DEF IInv
<1>1. F \in Nat /\ head \in Nat /\ tail = F /\ tail <= head /\ head <= F + Size
  BY DEF TypeOK, F, CountersOK, Emptying
<1>2. Cell(F) \in Cells /\ seq[Cell(F)] \in Nat
  BY <1>1, CellType DEF TypeOK
<1>3. CASE head = F
  <2>1. F \in Free
    BY <1>1, <1>3, SizePositive DEF Free
  <2>2. seq[Cell(F)] = F
    BY <2>1 DEF CellsOK
  <2> QED BY <1>1, <1>3, <2>2 DEF FrontReady
<1>4. CASE F < head
  <2>1. F \in Taken
    BY <1>1, <1>4 DEF Taken
  <2>2. Claimed(F) \/ Published(F)
    BY <2>1 DEF CellsOK
  <2> QED BY <1>1, <1>2, <1>4, <2>2 DEF FrontReady, Claimed, Published
<1> QED BY <1>1, <1>3, <1>4

\* So do the steps of a pop that only read the queue.
LEMMA LocalPopSteps ==
    ASSUME IInv, TypeOK',
           \/ PopCall \/ PopHit \/ PopMiss \/ PopPeek \/ PopRecheck
           \/ Stop \/ Run \/ Destroy \/ UNCHANGED vars
    PROVE  IInv'
<1> USE DEF queue, prodVars
<1>1. CASE PopCall
  BY <1>1, LocalPop DEF PopCall, PopBegin
<1>2. CASE PopHit
  <2>1. F < head /\ seq[Cell(F)] = F + 1
    BY <1>2, FrontOfQueue DEF PopHit
  <2> QED BY <1>2, <2>1, LocalPop DEF PopHit, IInv, DrainOK
<1>3. CASE PopMiss
  <2>1. head = F \/ \E p \in Producers : Filling(p) /\ pos[p] = F
    BY <1>3, FrontOfQueue DEF PopMiss
  <2>2. mode \in {"try", "blocking", "dtor"}
    BY DEF IInv, TypeOK
  <2>3. mode = "dtor" => \A p \in Producers : At(p, "idle")
    BY DEF IInv, DrainOK
  <2>4. mode = "dtor" => head = F
    BY <2>1, <2>3 DEF At, Filling
  <2>5. cpc' = "dead" => mode = "dtor"
    BY <1>3, <2>2 DEF PopMiss
  <2>6. cpc = "load" /\ cpc' \in {"idle", "peek", "dead"}
    BY <1>3, <2>2 DEF PopMiss
  <2>7. UNCHANGED <<head, tail, seq, slot, prodVars, out, history, mode>>
    BY <1>3 DEF PopMiss
  <2> QED BY <2>3, <2>4, <2>5, <2>6, <2>7, LocalPop
<1>4. CASE PopPeek \/ PopRecheck
  BY <1>4, LocalPop DEF PopPeek, PopRecheck, IInv, DrainOK
<1>5. CASE Stop \/ Run
  <2>1. cpc = "advance" => F < head /\ seq[Cell(F)] = F + 1
    BY DEF IInv, CountersOK
  <2>2. DrainOK
    BY DEF IInv
  <2> QED BY <1>5, <2>1, <2>2, LocalPop DEF Stop, Run, consVars, DrainOK
<1>6. CASE Destroy
  BY <1>6, LocalPop DEF Destroy
<1>7. CASE UNCHANGED vars
  <2>1. cpc = "advance" => F < head /\ seq[Cell(F)] = F + 1
    BY DEF IInv, CountersOK
  <2>2. DrainOK
    BY DEF IInv
  <2> QED BY <1>7, <2>1, <2>2, LocalPop DEF vars, history, DrainOK
<1> QED
  BY <1>1, <1>2, <1>3, <1>4, <1>5, <1>6, <1>7

-----------------------------------------------------------------------------
(***************************************************************************)
(* Steps of a producer that change the ring.                               *)
(***************************************************************************)
\* Two positions of the current lap that differ lie in different cells.
LEMMA OtherCell ==
    ASSUME IInv, NEW j \in F..(F + Size - 1), NEW k \in F..(F + Size - 1), j # k
    PROVE  Cell(j) # Cell(k) /\ Cell(j) \in Cells
<1>1. F \in Nat /\ j \in Nat
  BY DEF IInv, TypeOK, F
<1> QED BY <1>1, LapSeparates, CellType

\* No two positions in use are more than a lap apart.
LEMMA LapBounds ==
    ASSUME IInv
    PROVE  /\ F \in Nat /\ head \in Nat /\ tail \in Nat
           /\ F <= tail /\ tail <= head /\ head <= F + Size
           /\ Taken \subseteq F..(F + Size - 1)
           /\ Free \subseteq F..(F + Size - 1)
           /\ Len(log) = head
<1>1. F \in Nat /\ head \in Nat /\ tail \in Nat
  BY DEF IInv, TypeOK, F
<1>2. F <= tail /\ tail <= head /\ head <= F + Size /\ Len(log) = head
  BY <1>1 DEF IInv, CountersOK
<1> QED
  BY <1>1, <1>2, SizePositive DEF Taken, Free

\* Winning the compare_exchange keeps the invariant: the cell becomes the winner's.
LEMMA PushCasWinStep ==
    ASSUME IInv, TypeOK', NEW p \in Producers, PushCasWin(p)
    PROVE  IInv'
<1> USE DEF IInv
<1>0. /\ F' = F /\ head' = head + 1 /\ pos[p] = head /\ head < F + Size
      /\ F \in Nat /\ head \in Nat /\ tail \in Nat /\ F <= tail /\ tail <= head
      /\ log \in Seq(Values) /\ Len(log) = head
      /\ Item(p) \in Values /\ mode # "dtor" /\ Item(p)' = Item(p)
  <2>1. Item(p) \in Values
    BY ItemType DEF PushCasWin, PushersOK, At
  <2> QED
    BY <2>1, LapBounds DEF PushCasWin, PushersOK, At, DrainOK, F, TypeOK, Item
<1>1. /\ log' = Append(log, Item(p)) /\ Len(log') = head + 1
      /\ \A i \in 1..head : log'[i] = log[i]
      /\ log'[head + 1] = Item(p)
  BY <1>0 DEF PushCasWin
<1>2. \A q \in Producers :
         /\ Filling(q)' <=> (Filling(q) \/ q = p)
         /\ Filling(q) => q # p
         /\ q # p => pc'[q] = pc[q]
         /\ pos'[q] = pos[q] /\ calls'[q] = calls[q] /\ Item(q)' = Item(q)
  BY DEF PushCasWin, Goto, Filling, TypeOK, At, Item
<1>3. pc[p] = "cas" /\ pc'[p] = "construct"
  BY DEF PushCasWin, Goto, TypeOK, At
<1>4. CountersOK'
  <2>1. UNCHANGED <<tail, seq, cpc>> /\ Cell(F)' = Cell(F) /\ Len(log)' = head + 1
    BY <1>0, <1>1 DEF PushCasWin, consVars, Cell
  <2>2. tail' = F' + (IF Emptying' THEN 1 ELSE 0)
    BY <1>0, <2>1 DEF CountersOK, Emptying
  <2>3. tail' <= head' /\ head' <= F' + Size /\ F < head'
    BY <1>0, <2>1, SizePositive
  <2>4. cpc' \in {"advance", "take", "free"} => seq'[Cell(F)'] = F' + 1
    BY <1>0, <2>1 DEF CountersOK
  <2> QED BY <1>0, <2>1, <2>2, <2>3, <2>4 DEF CountersOK
<1>5. head \in Free /\ Free' \subseteq Free /\ Taken' = Taken \cup {head}
  BY <1>0, SizePositive DEF Free, Taken
<1>6. CellsOK'
  <2>1. ASSUME NEW k \in Taken' PROVE Claimed(k)' \/ Published(k)'
    <3>1. CASE k = head
      BY <1>0, <1>2, <1>5, <3>1 DEF CellsOK, Claimed, PushCasWin
    <3>2. CASE k \in Taken /\ Claimed(k)
      BY <1>2, <3>2 DEF Claimed, PushCasWin, Filling
    <3>3. CASE k \in Taken /\ Published(k)
      <4>1. k + 1 \in 1..head
        BY <1>0, <3>3 DEF Taken
      <4> QED BY <1>0, <1>1, <3>3, <4>1 DEF Published, PushCasWin, consVars
    <3> QED BY <1>5, <2>1, <3>1, <3>2, <3>3 DEF CellsOK
  <2>2. \A k \in Free' : (seq[Cell(k)] = k /\ slot[Cell(k)] = Raw)'
    BY <1>5 DEF CellsOK, PushCasWin
  <2> QED BY <2>1, <2>2 DEF CellsOK
<1>7. PushersOK'
  <2>1. ASSUME NEW q \in Producers
        PROVE  /\ pc'[q] \notin {"idle", "size"} => calls'[q] > 0
               /\ pc'[q] \in {"seq", "cas"} => pos'[q] <= head'
               /\ pc'[q] = "cas" => pos'[q] < F' + Size
    <3>1. pos[q] \in Nat
      BY DEF TypeOK
    <3> QED BY <1>0, <1>2, <1>3, <3>1 DEF PushersOK, At
  <2>2. ASSUME NEW q \in Producers, Filling(q)
        PROVE  /\ pos'[q] \in Taken' /\ pos'[q] # head
               /\ seq'[Cell(pos'[q])] = pos'[q]
               /\ log'[pos'[q] + 1] = Item(q)'
               /\ slot'[Cell(pos'[q])] = IF pc'[q] = "construct" THEN Raw ELSE Item(q)'
               /\ \A r \in Producers \ {q} : Filling(r)' => pos'[r] # pos'[q]
    <3>1. pos[q] \in Taken /\ pos[q] + 1 \in 1..head /\ pos[q] # head
      BY <1>0, <2>2 DEF PushersOK, Taken
    <3> QED
      BY <1>0, <1>1, <1>2, <1>5, <2>2, <3>1 DEF PushersOK, PushCasWin, At
  <2>3. /\ pos'[p] \in Taken'
        /\ seq'[Cell(pos'[p])] = pos'[p]
        /\ log'[pos'[p] + 1] = Item(p)'
        /\ slot'[Cell(pos'[p])] = Raw
        /\ \A r \in Producers \ {p} : Filling(r)' => pos'[r] # pos'[p]
    BY <1>0, <1>1, <1>2, <1>5, <2>2 DEF CellsOK, PushCasWin
  <2> QED BY <1>2, <1>3, <2>1, <2>2, <2>3 DEF PushersOK, At
<1>8. LogOK'
  <2>1. popped' = SubSeq(log', 1, F')
    <3>1. F <= Len(log) /\ popped = SubSeq(log, 1, F) /\ popped' = popped
      BY <1>0, LapBounds DEF LogOK, PushCasWin
    <3> QED BY <1>0, <1>1, <3>1
  <2>2. ASSUME NEW i \in 1..head, NEW q \in Producers, log[i][1] = q
        PROVE  /\ log[i][2] \in Nat
               /\ IF Claiming(q)' THEN log[i][2] < calls'[q] ELSE log[i][2] <= calls'[q]
               /\ q = p => log[i][2] < calls[p]
    <3>1. log[i] \in Values
      BY <1>0
    <3>2. log[i][2] \in Nat
      BY <3>1 DEF Values
    <3>3. IF Claiming(q) THEN log[i][2] < calls[q] ELSE log[i][2] <= calls[q]
      BY <1>0, <2>2 DEF LogOK
    <3>4. calls[q] \in Nat /\ calls'[q] = calls[q]
      BY <1>2 DEF TypeOK
    <3>5. q # p => (Claiming(q)' <=> Claiming(q))
      BY <1>2 DEF Claiming
    <3>6. q = p => Claiming(q) /\ ~Claiming(q)'
      BY <1>3 DEF Claiming
    <3> QED BY <3>2, <3>3, <3>4, <3>5, <3>6
  <2>3. log'[head + 1][1] = p /\ log'[head + 1][2] = calls[p] /\ ~Claiming(p)'
    BY <1>1, <1>3 DEF Item, Claiming
  <2>4. calls[p] \in Nat /\ calls'[p] = calls[p]
    BY <1>2 DEF TypeOK
  <2>5. ASSUME NEW i \in 1..(head + 1), NEW q \in Producers, log'[i][1] = q
        PROVE  IF Claiming(q)' THEN log'[i][2] < calls'[q] ELSE log'[i][2] <= calls'[q]
    <3>1. CASE i \in 1..head
      BY <1>1, <2>2, <2>5, <3>1
    <3>2. CASE i = head + 1
      BY <2>3, <2>4, <2>5, <3>2
    <3> QED BY <1>0, <3>1, <3>2
  <2>6. ASSUME NEW i \in 1..(head + 1), NEW j \in 1..(head + 1), i < j,
               log'[i][1] = log'[j][1]
        PROVE  log'[i][2] < log'[j][2]
    <3>1. i \in 1..head
      BY <1>0, <2>6
    <3>2. CASE j \in 1..head
      BY <1>0, <1>1, <2>6, <3>1, <3>2 DEF LogOK
    <3>3. CASE j = head + 1
      <4>1. log[i][1] = p
        BY <1>1, <2>3, <2>6, <3>1, <3>3
      <4> QED BY <1>1, <2>2, <2>3, <3>1, <3>3, <4>1
    <3> QED BY <1>0, <3>2, <3>3
  <2> QED BY <1>1, <2>1, <2>5, <2>6 DEF LogOK
<1>9. DrainOK'
  BY <1>0 DEF DrainOK, PushCasWin, consVars
<1> QED BY <1>4, <1>6, <1>7, <1>8, <1>9

\* What a producer that fills a cell knows of it, and of everybody else's.
LEMMA FillingFacts ==
    ASSUME IInv, NEW p \in Producers, Filling(p)
    PROVE  /\ pos[p] \in Taken /\ pos[p] \in Nat /\ Cell(pos[p]) \in Cells
           /\ seq[Cell(pos[p])] = pos[p]
           /\ log[pos[p] + 1] = Item(p) /\ Item(p) \in Values
           /\ slot[Cell(pos[p])] = IF At(p, "construct") THEN Raw ELSE Item(p)
           /\ mode # "dtor"
           /\ pos[p] = F => cpc \notin {"advance", "take", "free"}
           /\ \A k \in Taken \cup Free : k # pos[p] => Cell(k) # Cell(pos[p])
           /\ \A q \in Producers \ {p} : Filling(q) => /\ pos[q] # pos[p]
                                                    /\ Cell(pos[q]) # Cell(pos[p])
<1>1. /\ pos[p] \in Taken /\ seq[Cell(pos[p])] = pos[p] /\ log[pos[p] + 1] = Item(p)
      /\ slot[Cell(pos[p])] = IF At(p, "construct") THEN Raw ELSE Item(p)
      /\ \A q \in Producers \ {p} : Filling(q) => pos[q] # pos[p] /\ pos[q] \in Taken
      /\ calls[p] > 0
  BY DEF IInv, PushersOK, Filling
<1>2. pos[p] \in Nat /\ Cell(pos[p]) \in Cells /\ Item(p) \in Values
  BY <1>1, CellType, ItemType DEF IInv, TypeOK
<1>3. mode # "dtor"
  BY DEF IInv, DrainOK, At, Filling
<1>4. pos[p] = F => cpc \notin {"advance", "take", "free"}
  BY <1>1, <1>2 DEF IInv, CountersOK
<1>5. \A k \in Taken \cup Free : k # pos[p] => Cell(k) # Cell(pos[p])
  BY <1>1, LapBounds, OtherCell
<1> QED BY <1>1, <1>2, <1>3, <1>4, <1>5

\* Constructing the element in the cell won keeps the invariant.
LEMMA PushConstructStep ==
    ASSUME IInv, TypeOK', NEW p \in Producers, PushConstruct(p)
    PROVE  IInv'
<1>0. At(p, "construct") /\ Filling(p) /\ F' = F /\ (\A k : Cell(k)' = Cell(k))
  BY DEF PushConstruct, At, Filling, F, Cell, history
<1>1. /\ UNCHANGED <<head, tail, seq, pos, calls, cpc, mode, out, log, popped>>
      /\ slot' = [slot EXCEPT ![Cell(pos[p])] = Item(p)]
      /\ pc' = [pc EXCEPT ![p] = "publish"]
  BY DEF PushConstruct, Goto, consVars, history
<1>2. ASSUME NEW q \in Producers
      PROVE  /\ Filling(q)' <=> Filling(q)
             /\ Claiming(q)' <=> Claiming(q)
             /\ q # p => pc'[q] = pc[q]
             /\ Item(q)' = Item(q)
  <2>1. pc \in [Producers -> PushPoints]
    BY DEF IInv, TypeOK
  <2>2. (q # p => pc'[q] = pc[q]) /\ Item(q)' = Item(q)
    BY <1>1, <2>1 DEF Item
  <2>3. Claiming(q)' <=> Claiming(q)
    BY <1>0, <1>1, <2>1 DEF Claiming, At
  <2>4. Filling(q)' <=> Filling(q)
    BY <1>0, <1>1, <2>1 DEF Filling, At
  <2> QED BY <2>2, <2>3, <2>4
<1>3. /\ pc \in [Producers -> PushPoints] /\ slot \in [Cells -> Values \cup {Raw}]
      /\ pc'[p] = "publish"
  BY <1>1 DEF IInv, TypeOK
<1>4. CountersOK'
  BY <1>0, <1>1 DEF IInv, CountersOK, Emptying
<1>5. Taken' = Taken /\ Free' = Free
  BY <1>0, <1>1 DEF Taken, Free
<1>6. \A k \in Taken \cup Free : k # pos[p] => slot'[Cell(k)] = slot[Cell(k)]
  BY <1>0, <1>1, <1>3, FillingFacts
<1>7. CellsOK'
  <2>1. ASSUME NEW k \in Taken, Claimed(k) PROVE Claimed(k)'
    BY <1>0, <1>1, <1>2, <2>1 DEF Claimed, Filling
  <2>2. ASSUME NEW k \in Taken, Published(k) PROVE Published(k)'
    <3>1. k # pos[p]
      BY <1>0, <2>2, FillingFacts DEF Published
    <3> QED BY <1>0, <1>1, <1>6, <2>2, <3>1 DEF Published
  <2>3. ASSUME NEW k \in Free PROVE seq'[Cell(k)] = k /\ slot'[Cell(k)] = Raw
    <3>1. k # pos[p]
      BY <1>0, FillingFacts, LapBounds DEF Taken, Free
    <3> QED BY <1>1, <1>6, <3>1 DEF IInv, CellsOK
  <2> QED BY <1>0, <1>5, <2>1, <2>2, <2>3 DEF IInv, CellsOK
<1>8. PushersOK'
  <2>1. ASSUME NEW q \in Producers
        PROVE  /\ pc'[q] \notin {"idle", "size"} => calls'[q] > 0
               /\ pc'[q] \in {"seq", "cas"} => pos'[q] <= head'
               /\ pc'[q] = "cas" => pos'[q] < F' + Size
    BY <1>0, <1>1, <1>2, <1>3 DEF IInv, PushersOK, At
  <2>2. ASSUME NEW q \in Producers, Filling(q)
        PROVE  /\ pos'[q] \in Taken' /\ seq'[Cell(pos'[q])] = pos'[q]
               /\ log'[pos'[q] + 1] = Item(q)'
               /\ slot'[Cell(pos'[q])] = IF pc'[q] = "construct" THEN Raw ELSE Item(q)'
               /\ \A r \in Producers \ {q} : Filling(r)' => pos'[r] # pos'[q]
    <3>0. /\ pos[q] \in Taken /\ seq[Cell(pos[q])] = pos[q]
          /\ Cell(pos[q]) \in Cells /\ log[pos[q] + 1] = Item(q)
          /\ slot[Cell(pos[q])] = IF pc[q] = "construct" THEN Raw ELSE Item(q)
          /\ \A r \in Producers \ {q} : Filling(r) => pos[r] # pos[q]
      BY <2>2, FillingFacts DEF At
    <3>1. slot'[Cell(pos[q])] = IF pc'[q] = "construct" THEN Raw ELSE Item(q)
      <4>1. CASE q = p
        BY <1>1, <1>3, <3>0, <4>1
      <4>2. CASE q # p
        <5>1. Cell(pos[q]) # Cell(pos[p])
          BY <1>0, <2>2, <4>2, FillingFacts
        <5> QED BY <1>1, <1>2, <1>3, <3>0, <4>2, <5>1
      <4> QED BY <4>1, <4>2
    <3> QED BY <1>1, <1>2, <1>5, <3>0, <3>1 DEF Filling, Item
  <2> QED BY <1>0, <1>2, <2>1, <2>2 DEF PushersOK, At, Filling, Item
<1>9. LogOK'
  <2>1. LogOK
    BY DEF IInv
  <2>2. \A q \in Producers : Claiming(q)' <=> Claiming(q)
    BY <1>2 DEF Claiming, Filling, Item
  <2> QED BY <1>0, <1>1, <2>1, <2>2 DEF LogOK
<1>10. DrainOK'
  BY <1>0, <1>1, FillingFacts DEF IInv, DrainOK
<1> QED BY <1>4, <1>7, <1>8, <1>9, <1>10 DEF IInv

\* Storing pos + 1 in the cell keeps the invariant.
LEMMA PushPublishStep ==
    ASSUME IInv, TypeOK', NEW p \in Producers, PushPublish(p)
    PROVE  IInv'
<1>0. At(p, "publish") /\ Filling(p) /\ F' = F /\ (\A k : Cell(k)' = Cell(k))
  BY DEF PushPublish, At, Filling, F, Cell, history
<1>1. /\ UNCHANGED <<head, tail, slot, pos, calls, cpc, mode, out, log, popped>>
      /\ seq' = [seq EXCEPT ![Cell(pos[p])] = pos[p] + 1]
      /\ pc' = [pc EXCEPT ![p] = "idle"]
  BY DEF PushPublish, Goto, consVars, history
<1>2. ASSUME NEW q \in Producers
      PROVE  /\ Filling(q)' <=> (Filling(q) /\ q # p)
             /\ Claiming(q)' <=> Claiming(q)
             /\ q # p => pc'[q] = pc[q]
             /\ Item(q)' = Item(q)
  <2>1. pc \in [Producers -> PushPoints]
    BY DEF IInv, TypeOK
  <2>2. (q # p => pc'[q] = pc[q]) /\ Item(q)' = Item(q)
    BY <1>1, <2>1 DEF Item
  <2>3. Claiming(q)' <=> Claiming(q)
    BY <1>0, <1>1, <2>1 DEF Claiming, At
  <2>4. Filling(q)' <=> (Filling(q) /\ q # p)
    BY <1>0, <1>1, <2>1 DEF Filling, At
  <2> QED BY <2>2, <2>3, <2>4
<1>3. /\ pc \in [Producers -> PushPoints] /\ seq \in [Cells -> Nat]
      /\ pc'[p] = "idle"
  BY <1>1 DEF IInv, TypeOK
<1>4. Taken' = Taken /\ Free' = Free
  BY <1>0, <1>1 DEF Taken, Free
<1>5. \A k \in Taken \cup Free : k # pos[p] => seq'[Cell(k)] = seq[Cell(k)]
  BY <1>0, <1>1, <1>3, FillingFacts
<1>6. CountersOK'
  <2>1. cpc \in {"advance", "take", "free"} => seq'[Cell(F)] = seq[Cell(F)]
    BY <1>0, <1>5, FillingFacts, EmptyingFacts
  <2> QED BY <1>0, <1>1, <2>1 DEF IInv, CountersOK, Emptying
<1>7. CellsOK'
  <2>1. ASSUME NEW k \in Taken, k # pos[p], Claimed(k) PROVE Claimed(k)'
    <3>1. PICK q \in Producers : Filling(q) /\ pos[q] = k
      BY <2>1 DEF Claimed
    <3>2. Filling(q)' /\ pos'[q] = k
      BY <1>1, <1>2, <2>1, <3>1 DEF Filling, Claiming, Item
    <3> QED BY <1>0, <1>5, <2>1, <3>2 DEF Claimed
  <2>2. ASSUME NEW k \in Taken, k # pos[p], Published(k) PROVE Published(k)'
    BY <1>0, <1>1, <1>5, <2>2 DEF Published
  <2>3. Published(pos[p])'
    <3>1. slot[Cell(pos[p])] = log[pos[p] + 1]
      BY <1>0, FillingFacts DEF At
    <3>2. seq'[Cell(pos[p])] = pos[p] + 1
      BY <1>0, <1>1, <1>3, FillingFacts
    <3> QED BY <1>0, <1>1, <3>1, <3>2, FillingFacts DEF Published
  <2>4. ASSUME NEW k \in Free PROVE seq'[Cell(k)] = k /\ slot'[Cell(k)] = Raw
    <3>1. k # pos[p]
      BY <1>0, FillingFacts, LapBounds DEF Taken, Free
    <3> QED BY <1>1, <1>5, <3>1 DEF IInv, CellsOK
  <2>5. ASSUME NEW k \in Taken PROVE Claimed(k)' \/ Published(k)'
    <3>1. CASE k = pos[p]
      BY <1>1, <2>3, <3>1 DEF Published, F, Emptying
    <3>2. CASE k # pos[p]
      BY <2>1, <2>2, <3>2 DEF IInv, CellsOK
    <3> QED BY <3>1, <3>2
  <2> QED BY <1>4, <2>4, <2>5 DEF CellsOK
<1>8. PushersOK'
  <2>1. ASSUME NEW q \in Producers
        PROVE  /\ pc'[q] \notin {"idle", "size"} => calls'[q] > 0
               /\ pc'[q] \in {"seq", "cas"} => pos'[q] <= head'
               /\ pc'[q] = "cas" => pos'[q] < F' + Size
    BY <1>0, <1>1, <1>2, <1>3 DEF IInv, PushersOK, At
  <2>2. ASSUME NEW q \in Producers, Filling(q), q # p
        PROVE  /\ pos'[q] \in Taken' /\ seq'[Cell(pos'[q])] = pos'[q]
               /\ log'[pos'[q] + 1] = Item(q)'
               /\ slot'[Cell(pos'[q])] = IF pc'[q] = "construct" THEN Raw ELSE Item(q)'
               /\ \A r \in Producers \ {q} : Filling(r)' => pos'[r] # pos'[q]
    <3>0. /\ pos[q] \in Taken /\ seq[Cell(pos[q])] = pos[q]
          /\ log[pos[q] + 1] = Item(q)
          /\ slot[Cell(pos[q])] = IF pc[q] = "construct" THEN Raw ELSE Item(q)
          /\ \A r \in Producers \ {q} : Filling(r) => pos[r] # pos[q]
      BY <2>2, FillingFacts DEF At
    <3>1. pos[q] # pos[p]
      BY <1>0, <2>2, FillingFacts
    <3>2. seq'[Cell(pos[q])] = pos[q]
      BY <1>5, <3>0, <3>1
    <3> QED BY <1>1, <1>2, <1>4, <2>2, <3>0, <3>2 DEF Filling, Item
  <2> QED BY <1>0, <1>2, <2>1, <2>2 DEF PushersOK, At, Filling, Item
<1>9. LogOK'
  <2>1. LogOK
    BY DEF IInv
  <2>2. \A q \in Producers : Claiming(q)' <=> Claiming(q)
    BY <1>2 DEF Claiming, Filling, Item
  <2> QED BY <1>0, <1>1, <2>1, <2>2 DEF LogOK
<1>10. DrainOK'
  BY <1>0, <1>1, FillingFacts DEF IInv, DrainOK
<1> QED BY <1>6, <1>7, <1>8, <1>9, <1>10 DEF IInv

-----------------------------------------------------------------------------
(***************************************************************************)
(* Steps of the consumer that change the ring.                             *)
(***************************************************************************)
LEMMA PopAdvanceStep ==
    ASSUME IInv, TypeOK', PopAdvance
    PROVE  IInv'
<1>0. /\ tail = F /\ F \in Nat /\ F < head /\ head <= F + Size
      /\ head \in Nat /\ F' = F /\ \A k : Cell(k)' = Cell(k)
  BY EmptyingFacts, LapBounds DEF PopAdvance, F, Cell, history, IInv, CountersOK
<1>1. /\ UNCHANGED <<head, seq, slot, pc, pos, calls, mode, out, log, popped>>
      /\ tail' = F + 1 /\ cpc = "advance" /\ cpc' = "take"
  BY <1>0 DEF PopAdvance, prodVars, history
<1>2. CountersOK'
  BY <1>0, <1>1 DEF IInv, CountersOK, Emptying
<1>3. Taken' = Taken /\ Free' = Free
  BY <1>0, <1>1 DEF Taken, Free
<1>4. CellsOK'
  <2>1. ASSUME NEW k, Claimed(k) PROVE Claimed(k)'
    BY <1>0, <1>1, <2>1 DEF Claimed, Filling
  <2>2. ASSUME NEW k, Published(k) PROVE Published(k)'
    BY <1>0, <1>1, <2>2 DEF Published
  <2> QED BY <1>0, <1>1, <1>3, <2>1, <2>2 DEF IInv, CellsOK
<1>5. PushersOK'
  BY <1>0, <1>1, <1>3 DEF IInv, PushersOK, At, Filling, Item
<1>6. LogOK'
  BY <1>0, <1>1 DEF IInv, LogOK, Claiming
<1>7. DrainOK'
  BY <1>0, <1>1 DEF IInv, DrainOK, At
<1> QED BY <1>2, <1>4, <1>5, <1>6, <1>7 DEF IInv

\* Moving the element out of the cell and destroying it keeps the invariant.
LEMMA PopTakeStep ==
    ASSUME IInv, TypeOK', PopTake
    PROVE  IInv'
<1>0. /\ tail = F + 1 /\ tail - 1 = F /\ F \in Nat /\ F \in Taken
      /\ Cell(F) \in Cells /\ seq[Cell(F)] = F + 1 /\ slot[Cell(F)] = log[F + 1]
      /\ F' = F /\ \A k : Cell(k)' = Cell(k)
  BY EmptyingFacts DEF PopTake, F, Cell, history
<1>1. /\ UNCHANGED <<head, tail, seq, pc, pos, calls, mode, log, popped>>
      /\ out' = log[F + 1] /\ slot' = [slot EXCEPT ![Cell(F)] = Raw]
      /\ cpc = "take" /\ cpc' = "free"
  BY <1>0 DEF PopTake, prodVars, history
<1>2. slot'[Cell(F)] = Raw
  BY <1>0, <1>1 DEF IInv, TypeOK
<1>3. Taken' = Taken /\ Free' = Free
  BY <1>0, <1>1 DEF Taken, Free
<1>4. ASSUME NEW k \in Taken \cup Free, k # F PROVE slot'[Cell(k)] = slot[Cell(k)]
  <2>1. Cell(k) # Cell(F)
    BY <1>0, <1>4, LapBounds, OtherCell
  <2> QED BY <1>1, <2>1 DEF IInv, TypeOK
<1>5. CountersOK'
  BY <1>0, <1>1 DEF IInv, CountersOK, Emptying
<1>6. CellsOK'
  <2>1. ASSUME NEW k \in Taken, Claimed(k) PROVE Claimed(k)'
    BY <1>0, <1>1, <2>1 DEF Claimed, Filling
  <2>2. ASSUME NEW k \in Taken, Published(k) PROVE Published(k)'
    <3>1. CASE k = F
      BY <1>0, <1>1, <1>2, <2>2, <3>1 DEF Published
    <3>2. CASE k # F
      BY <1>0, <1>1, <1>4, <2>2, <3>2 DEF Published
    <3> QED BY <3>1, <3>2
  <2>3. ASSUME NEW k \in Free PROVE seq'[Cell(k)] = k /\ slot'[Cell(k)] = Raw
    <3>1. k # F
      BY <1>0, LapBounds DEF Taken, Free
    <3> QED BY <1>1, <1>4, <3>1 DEF IInv, CellsOK
  <2> QED BY <1>0, <1>3, <2>1, <2>2, <2>3 DEF IInv, CellsOK
<1>7. PushersOK'
  <2>1. ASSUME NEW q \in Producers, Filling(q) PROVE slot'[Cell(pos[q])] = slot[Cell(pos[q])]
    BY <1>1, <1>4, <2>1, FillingFacts
  <2>2. ASSUME NEW q \in Producers PROVE Item(q)' = Item(q) /\ (Filling(q)' <=> Filling(q))
    BY <1>1 DEF Item, Filling
  <2> QED BY <1>0, <1>1, <1>3, <2>1, <2>2 DEF IInv, PushersOK, At, Filling, Item
<1>8. LogOK'
  BY <1>0, <1>1 DEF IInv, LogOK, Claiming
<1>9. DrainOK'
  BY <1>0, <1>1 DEF IInv, DrainOK, At
<1> QED BY <1>5, <1>6, <1>7, <1>8, <1>9 DEF IInv

\* Storing the next lap's sequence number keeps the invariant.
LEMMA PopFreeStep ==
    ASSUME IInv, TypeOK', PopFree
    PROVE  IInv'
<1>0. /\ tail = F + 1 /\ tail - 1 = F /\ F \in Nat /\ F < head /\ head <= F + Size
      /\ head \in Nat /\ Len(log) = head /\ F \in Taken
      /\ Cell(F) \in Cells /\ seq[Cell(F)] = F + 1 /\ slot[Cell(F)] = Raw
      /\ out = log[F + 1] /\ log[F + 1] \in Values
      /\ log \in Seq(Values) /\ popped \in Seq(Values)
  BY EmptyingFacts, LapBounds DEF PopFree, IInv, TypeOK, Taken
<1>1. /\ UNCHANGED <<head, tail, slot, pc, pos, calls, mode, log>>
      /\ popped' = Append(popped, log[F + 1])
      /\ seq' = [seq EXCEPT ![Cell(F)] = F + Size]
      /\ cpc = "free" /\ cpc' \in {"load", "idle"}
  BY <1>0 DEF PopFree, prodVars
<1>2. F' = F + 1 /\ \A k : Cell(k)' = Cell(k)
  BY <1>0, <1>1 DEF F, Cell
<1>3. /\ Taken' = Taken \ {F} /\ Free' = Free \cup {F + Size}
      /\ Cell(F + Size) = Cell(F) /\ seq'[Cell(F)] = F + Size
  <2>1. Taken' = Taken \ {F} /\ Free' = Free \cup {F + Size}
    <3>1. F + 1 + Size - 1 = F + Size /\ head <= F + Size /\ F + Size - 1 \in Int
      BY <1>0, SizePositive
    <3>2. Taken' = Taken \ {F}
      BY <1>0, <1>1, <1>2 DEF Taken
    <3>3. Free' = head..(F + Size)
      BY <1>0, <1>1, <1>2, <3>1, SizePositive DEF Free
    <3>4. head..(F + Size) = (head..(F + Size - 1)) \cup {F + Size}
      BY <1>0, SizePositive
    <3> QED BY <3>2, <3>3, <3>4 DEF Free
  <2>2. seq'[Cell(F)] = F + Size
    BY <1>0, <1>1 DEF IInv, TypeOK
  <2> QED BY <1>0, <2>1, <2>2, CellShift
<1>4. ASSUME NEW k \in Taken \cup Free, k # F PROVE seq'[Cell(k)] = seq[Cell(k)]
  <2>1. Cell(k) # Cell(F)
    BY <1>0, <1>4, LapBounds, OtherCell
  <2> QED BY <1>1, <2>1 DEF IInv, TypeOK
<1>5. CountersOK'
  BY <1>0, <1>1, <1>2, SizePositive DEF CountersOK, Emptying
<1>6. CellsOK'
  <2>1. ASSUME NEW k \in Taken', Claimed(k) PROVE Claimed(k)'
    <3>1. seq'[Cell(k)] = k
      BY <1>3, <1>4, <2>1 DEF Claimed
    <3> QED BY <1>1, <1>2, <2>1, <3>1 DEF Claimed, Filling
  <2>2. ASSUME NEW k \in Taken', Published(k) PROVE Published(k)'
    <3>1. seq'[Cell(k)] = k + 1 /\ k # F
      BY <1>3, <1>4, <2>2 DEF Published
    <3> QED BY <1>1, <1>2, <2>2, <3>1 DEF Published
  <2>3. ASSUME NEW k \in Free' PROVE seq'[Cell(k)] = k /\ slot'[Cell(k)] = Raw
    <3>1. CASE k = F + Size
      BY <1>0, <1>1, <1>3, <3>1
    <3>2. CASE k \in Free
      <4>1. k # F
        BY <1>0, <3>2 DEF Free
      <4> QED BY <1>1, <1>4, <3>2, <4>1 DEF IInv, CellsOK
    <3> QED BY <1>3, <3>1, <3>2
  <2> QED BY <1>2, <1>3, <2>1, <2>2, <2>3 DEF IInv, CellsOK
<1>7. PushersOK'
  <2>1. ASSUME NEW q \in Producers, Filling(q)
        PROVE  pos[q] \in Taken' /\ seq'[Cell(pos[q])] = pos[q]
    <3>1. pos[q] \in Taken /\ pos[q] # F /\ seq[Cell(pos[q])] = pos[q]
      BY <1>1, <2>1, FillingFacts
    <3> QED BY <1>3, <1>4, <3>1
  <2>2. ASSUME NEW q \in Producers, pc[q] = "cas" PROVE pos[q] < F + 1 + Size
    BY <1>0, <2>2, SizePositive DEF IInv, PushersOK, At, TypeOK
  <2> QED BY <1>1, <1>2, <2>1, <2>2 DEF IInv, PushersOK, At, Filling, Item
<1>8. LogOK'
  <2>1. popped' = SubSeq(log, 1, F + 1)
    <3>1. popped = SubSeq(log, 1, F) /\ Len(popped) = F
      BY DEF IInv, LogOK, F
    <3>2. popped' \in Seq(Values) /\ SubSeq(log, 1, F + 1) \in Seq(Values)
      BY <1>0, <1>1
    <3>3. Len(popped') = F + 1 /\ Len(SubSeq(log, 1, F + 1)) = F + 1
      BY <1>0, <1>1, <3>1
    <3>4. ASSUME NEW i \in 1..(F + 1) PROVE popped'[i] = SubSeq(log, 1, F + 1)[i]
      <4>1. CASE i <= F
        BY <1>0, <1>1, <3>1, <4>1
      <4>2. CASE i = F + 1
        BY <1>0, <1>1, <3>1, <4>2
      <4> QED BY <1>0, <4>1, <4>2
    <3> QED BY <3>2, <3>3, <3>4
  <2> QED BY <1>1, <1>2, <2>1 DEF IInv, LogOK, Claiming
<1>9. DrainOK'
  BY <1>1 DEF IInv, DrainOK, At
<1> QED BY <1>5, <1>6, <1>7, <1>8, <1>9 DEF IInv

\* Every step of every thread keeps cells, counters and threads in agreement.
LEMMA InvStep == ASSUME Size > 1, IInv, [Next]_vars PROVE IInv'
<1>0. TypeOK'
  BY TypeStep
<1>1. ASSUME NEW p \in Producers,
             (\E b \in BOOLEAN : PushBegin(p, b)) \/ SizeLoadHead(p)
      PROVE  IInv'
  BY <1>0, <1>1, LocalPushSteps
<1>2. ASSUME NEW p \in Producers, ProducerStep(p) PROVE IInv'
  <2>1. CASE PushCasWin(p)
    BY <1>0, <2>1, PushCasWinStep
  <2>2. CASE PushConstruct(p)
    BY <1>0, <2>2, PushConstructStep
  <2>3. CASE PushPublish(p)
    BY <1>0, <2>3, PushPublishStep
  <2> QED BY <1>0, <1>2, <2>1, <2>2, <2>3, LocalPushSteps DEF ProducerStep
<1>3. CASE ConsumerStep
  <2>1. CASE PopAdvance
    BY <1>0, <2>1, PopAdvanceStep
  <2>2. CASE PopTake
    BY <1>0, <2>2, PopTakeStep
  <2>3. CASE PopFree
    BY <1>0, <2>3, PopFreeStep
  <2> QED BY <1>0, <1>3, <2>1, <2>2, <2>3, LocalPopSteps DEF ConsumerStep
<1>4. CASE PopCall \/ Stop \/ Run \/ Destroy \/ UNCHANGED vars
  BY <1>0, <1>4, LocalPopSteps
<1> QED BY <1>1, <1>2, <1>3, <1>4 DEF Next

-----------------------------------------------------------------------------
(***************************************************************************)
(* The theorems.                                                           *)
(***************************************************************************)
\* With two cells or more, the invariant of the ring always holds.
THEOREM RingInvariant == ASSUME Size > 1 PROVE Spec => []IInv
<1>1. IInv /\ [Next]_vars => IInv'
  BY InvStep
<1> QED
  BY <1>1, InitInv, PTL DEF Spec

\* One cell is the only capacity at which more elements are accepted than there
\* are cells.
THEOREM TwoCellsSuffice == ASSUME Size > 1 PROVE Spec => []NeverOverfull
<1>1. IInv => NeverOverfull
  <2> SUFFICES ASSUME IInv PROVE head - F <= Size
    BY DEF NeverOverfull
  <2>1. head \in Nat /\ F \in Nat /\ head <= F + Size
    BY DEF IInv, TypeOK, CountersOK, F
  <2> QED BY <2>1, SizePositive
<1> QED BY <1>1, RingInvariant, PTL

\* No variable ever leaves its type; in particular no pop returns the raw
\* content of a cell.
THEOREM TypeCorrect == ASSUME Size > 1 PROVE Spec => []TypeOK
BY RingInvariant, PTL DEF IInv

\* No two threads ever touch the storage of one cell at a time, and T's
\* constructor and destructor run on it in turn.
THEOREM StorageIsOwned == ASSUME Size > 1 PROVE Spec => []StorageOwned
<1>1. IInv => StorageOwned
  <2> SUFFICES ASSUME IInv PROVE StorageOwned
    OBVIOUS
  <2>1. ASSUME NEW p \in Producers, Filling(p)
        PROVE  /\ \A q \in Producers \ {p} : Filling(q) => Cell(pos[p]) # Cell(pos[q])
               /\ At(p, "construct") => slot[Cell(pos[p])] = Raw
    BY <2>1, FillingFacts
  <2>2. ASSUME NEW p \in Producers, Filling(p), Emptying
        PROVE  Cell(pos[p]) # Cell(tail - 1)
    <3>1. tail - 1 = F /\ F \in Taken /\ pos[p] # F
      BY <2>2, EmptyingFacts, FillingFacts DEF Emptying
    <3> QED BY <2>2, <3>1, FillingFacts
  <2>3. cpc = "take" => slot[Cell(tail - 1)] # Raw
    BY EmptyingFacts, RawAssumption
  <2> QED BY <2>1, <2>2, <2>3 DEF StorageOwned
<1> QED
  BY <1>1, RingInvariant, PTL

\* Nothing accepted is lost, duplicated or reordered on its way out.
THEOREM ElementsKept == ASSUME Size > 1 PROVE Spec => []NothingLost
<1>1. IInv => NothingLost
  <2> SUFFICES ASSUME IInv PROVE NothingLost
    OBVIOUS
  <2>1. F \in Nat /\ F <= Len(log) /\ head = Len(log)
    BY LapBounds
  <2>2. popped = SubSeq(log, 1, F)
    BY DEF IInv, LogOK
  <2>3. ASSUME NEW i \in Undelivered
        PROVE  \/ slot[Cell(i - 1)] = log[i]
               \/ \E p \in Producers : At(p, "construct") /\ pos[p] = i - 1 /\ Item(p) = log[i]
               \/ i = F + 1 /\ cpc = "free" /\ out = log[i]
    <3>1. i \in Nat /\ i - 1 \in Taken /\ (i - 1) + 1 = i /\ (i - 1 = F => i = F + 1)
      BY <2>1, LapBounds DEF Undelivered, Taken
    <3>2. CASE Published(i - 1)
      BY <3>1, <3>2 DEF Published
    <3>3. CASE Claimed(i - 1)
      <4>1. PICK p \in Producers : Filling(p) /\ pos[p] = i - 1
        BY <3>3 DEF Claimed
      <4>2. log[i] = Item(p) /\ slot[Cell(i - 1)] = IF At(p, "construct") THEN Raw ELSE Item(p)
        BY <3>1, <4>1, FillingFacts
      <4> QED BY <4>1, <4>2
    <3> QED BY <3>1, <3>2, <3>3 DEF IInv, CellsOK
  <2> QED BY <2>1, <2>2, <2>3 DEF NothingLost
<1> QED
  BY <1>1, RingInvariant, PTL

\* Each producer's elements come out in the order it pushed them.
THEOREM ProducersInOrder == ASSUME Size > 1 PROVE Spec => []PerProducerFifo
<1>1. IInv => PerProducerFifo
  <2> SUFFICES ASSUME IInv PROVE PerProducerFifo
    OBVIOUS
  <2>1. F \in Nat /\ F <= Len(log) /\ log \in Seq(Values) /\ popped = SubSeq(log, 1, F)
    BY LapBounds DEF IInv, LogOK, TypeOK
  <2>2. ASSUME NEW i \in 1..F PROVE popped[i] = log[i] /\ i \in 1..Len(log)
    BY <2>1
  <2> QED BY <2>1, <2>2 DEF PerProducerFifo, IInv, LogOK
<1> QED
  BY <1>1, RingInvariant, PTL

\* The destructor leaves no element behind.
THEOREM DestructorIsComplete == ASSUME Size > 1 PROVE Spec => []DestructorDrains
<1>1. IInv => DestructorDrains
  <2> SUFFICES ASSUME IInv, cpc = "dead" PROVE popped = log /\ \A i \in Cells : slot[i] = Raw
    BY DEF DestructorDrains
  <2>1. head = F /\ F \in Nat /\ Len(log) = F /\ log \in Seq(Values)
    BY LapBounds DEF IInv, DrainOK, TypeOK
  <2>2. popped = log
    BY <2>1 DEF IInv, LogOK
  <2>3. ASSUME NEW i \in Cells PROVE slot[i] = Raw
    <3>1. PICK k \in F..(F + Size - 1) : Cell(k) = i
      BY <2>1, LapReaches
    <3>2. k \in Free
      BY <2>1, <3>1 DEF Free
    <3> QED BY <3>1, <3>2 DEF IInv, CellsOK
  <2> QED BY <2>2, <2>3
<1> QED
  BY <1>1, RingInvariant, PTL

\* A push is turned away as "full" only while every cell is spoken for.
THEOREM RefusalsAreHonest == ASSUME Size > 1 PROVE Spec => RefusedOnlyWhenFull
<1> DEFINE Honest == \A p \in Producers :
                        At(p, "seq") /\ pc'[p] \in {"idle", "peek"} => head - F >= Size
<1>1. IInv /\ [Next]_vars => Honest
  <2> SUFFICES ASSUME IInv, [Next]_vars, NEW p \in Producers,
                      At(p, "seq"), pc'[p] \in {"idle", "peek"}
               PROVE  head - F >= Size
    OBVIOUS
  <2>0. pc \in [Producers -> PushPoints] /\ pos[p] \in Nat /\ Cell(pos[p]) \in Cells
        /\ seq \in [Cells -> Nat]
    BY CellType DEF IInv, TypeOK
  <2>1. PushLoadSeq(p)
    <3>1. pc'[p] # pc[p]
      BY DEF At
    <3>2. ASSUME NEW q \in Producers, q # p,
                 (\E b \in BOOLEAN : PushBegin(q, b)) \/ SizeLoadHead(q) \/ ProducerStep(q)
          PROVE  pc'[p] = pc[p]
      BY <2>0, <3>2 DEF PushBegin, SizeLoadHead, ProducerStep, BlockingPeek,
         BlockingRecheck, PushStatus, PushLoadHead, PushLoadSeq, PushCasWin, PushCasLose,
         PushConstruct, PushPublish, SizeLoadTail, Goto, Refused
    <3>3. ASSUME PopCall \/ ConsumerStep \/ Stop \/ Run \/ Destroy \/ UNCHANGED vars
          PROVE  pc' = pc
      BY <3>3 DEF PopCall, PopBegin, ConsumerStep, PopHit, PopMiss, PopAdvance, PopTake,
         PopFree, PopPeek, PopRecheck, Stop, Run, Destroy, vars, prodVars
    <3>4. ~\E b \in BOOLEAN : PushBegin(p, b)
      BY DEF PushBegin, At
    <3>5. ~SizeLoadHead(p)
      BY DEF SizeLoadHead, At
    <3>6. ProducerStep(p) => PushLoadSeq(p)
      BY DEF At, ProducerStep, BlockingPeek, BlockingRecheck, PushStatus, PushLoadHead,
         PushCasWin, PushCasLose, PushConstruct, PushPublish, SizeLoadTail
    <3> QED BY <3>1, <3>2, <3>3, <3>4, <3>5, <3>6 DEF Next
  <2>2. seq[Cell(pos[p])] < pos[p]
    BY <2>0, <2>1 DEF PushLoadSeq, Goto
  <2>3. pos[p] <= head
    BY DEF IInv, PushersOK, At
  <2>4. PICK k \in F..(F + Size - 1) : Cell(k) = Cell(pos[p])
    BY <2>0, LapBounds, LapReaches
  <2>5. k \in Nat /\ (k \in Taken \/ k \in Free)
    BY <2>4, LapBounds DEF Taken, Free
  <2>6. seq[Cell(k)] >= k
    BY <2>5 DEF IInv, CellsOK, Claimed, Published
  <2>7. k < pos[p]
    BY <2>0, <2>2, <2>4, <2>5, <2>6
  <2>8. ~(pos[p] \in F..(F + Size - 1))
    BY <2>0, <2>4, <2>7, LapBounds, OtherCell
  <2> QED BY <2>0, <2>3, <2>4, <2>7, <2>8, LapBounds, SizePositive
<1>2. IInv /\ [Next]_vars => [Honest]_vars
  BY <1>1
<1> QED
  BY <1>2, RingInvariant, PTL DEF Spec, RefusedOnlyWhenFull

\* A pop reports "empty" only if no published element waits at the front.
THEOREM MissesAreHonest == ASSUME Size > 1 PROVE Spec => EmptyOnlyWhenFrontMissing
<1> DEFINE Honest == cpc = "load" /\ cpc' \in {"idle", "peek", "dead"} =>
                        \/ head = tail
                        \/ \E p \in Producers : Filling(p) /\ pos[p] = tail
<1>1. IInv /\ [Next]_vars => Honest
  <2> SUFFICES ASSUME IInv, [Next]_vars, cpc = "load", cpc' \in {"idle", "peek", "dead"}
               PROVE  head = tail \/ \E p \in Producers : Filling(p) /\ pos[p] = tail
    OBVIOUS
  <2>1. ASSUME NEW q \in Producers,
               (\E b \in BOOLEAN : PushBegin(q, b)) \/ SizeLoadHead(q) \/ ProducerStep(q)
        PROVE  cpc' = cpc
    BY <2>1 DEF PushBegin, SizeLoadHead, ProducerStep, BlockingPeek,
       BlockingRecheck, PushStatus, PushLoadHead, PushLoadSeq, PushCasWin, PushCasLose,
       PushConstruct, PushPublish, SizeLoadTail, consVars
  <2>2. PopMiss
    BY <2>1 DEF Next, PopCall, PopBegin, ConsumerStep, PopHit, PopAdvance, PopTake,
       PopFree, PopPeek, PopRecheck, Stop, Run, Destroy, vars, consVars
  <2> QED BY <2>2, FrontOfQueue DEF PopMiss
<1>2. IInv /\ [Next]_vars => [Honest]_vars
  BY <1>1
<1> QED
  BY <1>2, RingInvariant, PTL DEF Spec, EmptyOnlyWhenFrontMissing

-----------------------------------------------------------------------------
(***************************************************************************)
(* The queue implements the bounded FIFO.                                  *)
(***************************************************************************)
\* Steps that move neither head nor the history and keep every sequence number
\* of the line are invisible to the users of the FIFO.
LEMMA WaitingUnchanged ==
    ASSUME IInv, head' = head, popped' = popped, log' = log,
           \A k \in Taken : seq'[Cell(k)] = seq[Cell(k)]
    PROVE  Waiting' = Waiting
<1>1. F' = F /\ F \in Nat /\ head \in Nat
  BY LapBounds DEF F
<1>2. \A i \in 1..(head - F) : F + i - 1 \in Taken
  BY <1>1 DEF Taken
<1>3. \A i \in 1..(head - F) : seq'[Cell(F + i - 1)] = seq[Cell(F + i - 1)]
  BY <1>2
<1> QED
  BY <1>1, <1>3 DEF Waiting, Cell

\* The winning compare_exchange reserves a place of the abstract queue.
LEMMA CasReserves ==
    ASSUME IInv, NEW p \in Producers, PushCasWin(p)
    PROVE  Fifo!Reserve(Item(p))
<1>1. /\ F \in Nat /\ head \in Nat /\ F <= head /\ head < F + Size /\ Len(log) = head
      /\ head' = head + 1 /\ F' = F /\ log' = Append(log, Item(p)) /\ log \in Seq(Values)
      /\ UNCHANGED <<seq, popped>>
  BY LapBounds DEF PushCasWin, IInv, TypeOK, PushersOK, At, F
<1>2. seq[Cell(head)] = head
  <2>1. head \in Free
    BY <1>1, SizePositive DEF Free
  <2> QED BY <2>1 DEF IInv, CellsOK
<1>3. Len(Waiting) = head - F
  BY <1>1 DEF Waiting
<1>4. Waiting' = Append(Waiting, [val |-> Item(p), done |-> FALSE])
  <2> DEFINE new == [i \in 1..((head + 1) - F) |->
                       [val |-> log'[F + i], done |-> seq[Cell(F + i - 1)] = F + i]]
  <2>1. Waiting' = new
    BY <1>1 DEF Waiting, Cell
  <2>2. ASSUME NEW i \in 1..((head + 1) - F)
        PROVE  new[i] = Append(Waiting, [val |-> Item(p), done |-> FALSE])[i]
    <3>1. CASE i = (head + 1) - F
      <4>1. F + i = head + 1 /\ F + i - 1 = head
        BY <1>1, <3>1
      <4>2. (seq[Cell(F + i - 1)] = F + i) = FALSE
        BY <1>1, <1>2, <4>1
      <4>3. log'[F + i] = Item(p)
        BY <1>1, <4>1
      <4>4. Append(Waiting, [val |-> Item(p), done |-> FALSE])[i]
              = [val |-> Item(p), done |-> FALSE]
        BY <1>1, <1>3, <3>1 DEF Waiting
      <4> QED BY <4>2, <4>3, <4>4
    <3>2. CASE i \in 1..(head - F)
      <4>1. log'[F + i] = log[F + i]
        BY <1>1, <3>2
      <4>2. Append(Waiting, [val |-> Item(p), done |-> FALSE])[i] = Waiting[i]
        BY <1>1, <1>3, <3>2 DEF Waiting
      <4> QED BY <3>2, <4>1, <4>2 DEF Waiting
    <3>3. i = (head + 1) - F \/ i \in 1..(head - F)
      BY <1>1
    <3> QED BY <3>1, <3>2, <3>3
  <2>3. /\ DOMAIN new = 1..((head + 1) - F)
        /\ Append(Waiting, [val |-> Item(p), done |-> FALSE])
             = [i \in 1..((head + 1) - F) |->
                  Append(Waiting, [val |-> Item(p), done |-> FALSE])[i]]
    BY <1>1, <1>3 DEF Waiting
  <2> HIDE DEF new
  <2> QED BY <2>1, <2>2, <2>3 DEF new
<1> QED
  <2>1. Len(Waiting) < Size /\ popped' = popped
    BY <1>1, <1>3, SizePositive
  <2> QED BY <1>4, <2>1 DEF Fifo!Reserve

\* The sequence number store fills that place.
LEMMA PublishCommits ==
    ASSUME IInv, NEW p \in Producers, PushPublish(p)
    PROVE  \E i \in DOMAIN Waiting : Fifo!Commit(i)
<1>1. Filling(p)
  BY DEF PushPublish, Filling, At
<1>2. /\ F \in Nat /\ head \in Nat /\ F <= pos[p] /\ pos[p] < head /\ pos[p] \in Nat
      /\ Cell(pos[p]) \in Cells /\ seq[Cell(pos[p])] = pos[p]
      /\ \A k \in Taken : k # pos[p] => Cell(k) # Cell(pos[p])
  BY <1>1, FillingFacts, LapBounds DEF Taken
<1>3. /\ head' = head /\ F' = F /\ log' = log /\ popped' = popped
      /\ seq' = [seq EXCEPT ![Cell(pos[p])] = pos[p] + 1]
      /\ seq \in [Cells -> Nat]
  BY DEF PushPublish, history, F, IInv, TypeOK
<1> DEFINE j == (pos[p] - F) + 1
<1>4. j \in 1..(head - F) /\ DOMAIN Waiting = 1..(head - F)
  BY <1>2 DEF Waiting
<1>5. F + j = pos[p] + 1 /\ F + j - 1 = pos[p]
  BY <1>2
<1>6. ~Waiting[j].done
  <2>1. Waiting[j] = [val |-> log[F + j], done |-> seq[Cell(F + j - 1)] = F + j]
    BY <1>4 DEF Waiting
  <2>2. seq[Cell(F + j - 1)] # F + j
    BY <1>2, <1>5
  <2>3. (seq[Cell(F + j - 1)] = F + j) = FALSE
    BY <2>2
  <2>4. Waiting[j] = [val |-> log[F + j], done |-> FALSE]
    BY <2>1, <2>3
  <2> QED BY <2>4
<1>7. Waiting' = [i \in 1..(head - F) |->
                    [val |-> log[F + i], done |-> seq'[Cell(F + i - 1)] = F + i]]
  BY <1>3 DEF Waiting, Cell
<1>8. seq'[Cell(F + j - 1)] = F + j
  BY <1>2, <1>3, <1>5
<1>9. ASSUME NEW i \in 1..(head - F), i # j
      PROVE  seq'[Cell(F + i - 1)] = seq[Cell(F + i - 1)]
  <2>1. F + i - 1 \in Taken /\ F + i - 1 # pos[p]
    BY <1>2, <1>9 DEF Taken
  <2>2. Cell(F + i - 1) # Cell(pos[p])
    BY <1>2, <2>1
  <2> QED BY <1>3, <2>2
<1> HIDE DEF j
<1>10. Waiting' = [Waiting EXCEPT ![j].done = TRUE]
  <2>1. ASSUME NEW i \in 1..(head - F)
        PROVE  [val |-> log[F + i], done |-> seq'[Cell(F + i - 1)] = F + i]
                 = [Waiting EXCEPT ![j].done = TRUE][i]
    <3>1. CASE i = j
      BY <1>4, <1>8, <3>1 DEF Waiting
    <3>2. CASE i # j
      BY <1>4, <1>9, <3>2 DEF Waiting
    <3> QED BY <3>1, <3>2
  <2>2. [Waiting EXCEPT ![j].done = TRUE]
           = [i \in 1..(head - F) |-> [Waiting EXCEPT ![j].done = TRUE][i]]
    BY DEF Waiting
  <2> QED BY <1>7, <2>1, <2>2
<1> QED
  BY <1>3, <1>4, <1>6, <1>10 DEF Fifo!Commit

\* Freeing the cell delivers the first element.
LEMMA FreeDelivers ==
    ASSUME IInv, PopFree
    PROVE  Fifo!Deliver
<1>1. /\ F \in Nat /\ head \in Nat /\ F < head /\ head <= F + Size /\ F \in Taken
      /\ seq[Cell(F)] = F + 1 /\ tail - 1 = F /\ out = log[F + 1]
  BY EmptyingFacts, LapBounds DEF PopFree, Taken
<1>2. /\ head' = head /\ log' = log /\ popped' = Append(popped, log[F + 1])
      /\ seq' = [seq EXCEPT ![Cell(F)] = F + Size]
      /\ seq \in [Cells -> Nat] /\ popped \in Seq(Values)
  BY <1>1 DEF PopFree, IInv, TypeOK
<1>3. F' = F + 1
  BY <1>2 DEF F
<1>4. ASSUME NEW k \in Taken, k # F PROVE seq'[Cell(k)] = seq[Cell(k)]
  <2>1. Cell(k) # Cell(F)
    BY <1>1, <1>4, LapBounds, OtherCell
  <2> QED BY <1>2, <2>1
<1>5. /\ Waiting # <<>> /\ Len(Waiting) = head - F
      /\ Head(Waiting) = [val |-> log[F + 1], done |-> TRUE]
  <2>1. Len(Waiting) = head - F /\ Waiting # <<>>
    BY <1>1 DEF Waiting
  <2>2. 1 \in 1..(head - F) /\ F + 1 - 1 = F
    BY <1>1
  <2>3. Waiting[1] = [val |-> log[F + 1], done |-> seq[Cell(F + 1 - 1)] = F + 1]
    BY <2>2 DEF Waiting
  <2>4. (seq[Cell(F + 1 - 1)] = F + 1) = TRUE
    BY <1>1, <2>2
  <2>5. Head(Waiting) = Waiting[1]
    BY <2>1
  <2> QED BY <2>1, <2>3, <2>4, <2>5
<1>6. Tail(Waiting) = [i \in 1..((head - F) - 1) |-> Waiting[i + 1]]
  <2>1. head - F \in Nat /\ head - F > 0
    BY <1>1
  <2>2. Waiting = [i \in 1..(head - F) |-> Waiting[i]]
    BY DEF Waiting
  <2> QED BY <2>1, <2>2, TailAt
<1>7. Waiting' = [i \in 1..(head - (F + 1)) |->
                    [val |-> log[(F + 1) + i], done |-> seq'[Cell((F + 1) + i - 1)] = (F + 1) + i]]
  BY <1>2, <1>3 DEF Waiting, Cell
<1>8. ASSUME NEW i \in 1..((head - F) - 1)
      PROVE  Waiting[i + 1] = [val |-> log[(F + 1) + i],
                               done |-> seq'[Cell((F + 1) + i - 1)] = (F + 1) + i]
  <2>1. (F + 1) + i - 1 \in Taken /\ (F + 1) + i - 1 # F /\ (F + 1) + i - 1 = F + (i + 1) - 1
        /\ (F + 1) + i = F + (i + 1) /\ i + 1 \in 1..(head - F)
    BY <1>1 DEF Taken
  <2> QED BY <1>4, <2>1 DEF Waiting
<1>9. head - (F + 1) = (head - F) - 1
  BY <1>1
<1>10. Waiting' = Tail(Waiting)
  BY <1>6, <1>7, <1>8, <1>9
<1> QED
  BY <1>2, <1>5, <1>10 DEF Fifo!Deliver

\* The queue is a bounded FIFO of Size places, whatever its threads do.
THEOREM ImplementsBoundedFifo == ASSUME Size > 1 PROVE Spec => ImplementsFifo
<1>1. Init => Fifo!FifoInit
  BY DEF Init, Fifo!FifoInit, Waiting, F
<1>2. IInv /\ [Next]_vars => [Fifo!FifoNext]_(Fifo!fifoVars)
  <2> SUFFICES ASSUME IInv, [Next]_vars PROVE [Fifo!FifoNext]_(Fifo!fifoVars)
    OBVIOUS
  <2>0. ASSUME head' = head, popped' = popped, log' = log, seq' = seq
        PROVE  UNCHANGED Fifo!fifoVars
    BY <2>0, WaitingUnchanged DEF Fifo!fifoVars
  <2>1. ASSUME NEW p \in Producers,
               (\E b \in BOOLEAN : PushBegin(p, b)) \/ SizeLoadHead(p)
        PROVE  UNCHANGED Fifo!fifoVars
    BY <2>0, <2>1 DEF PushBegin, SizeLoadHead, queue, history
  <2>2. ASSUME NEW p \in Producers, ProducerStep(p)
        PROVE  Fifo!FifoNext \/ UNCHANGED Fifo!fifoVars
    <3>1. CASE PushCasWin(p)
      <4>1. Item(p) \in Values
        BY <3>1, ItemType DEF IInv, PushersOK, PushCasWin, At
      <4> QED BY <3>1, <4>1, CasReserves DEF Fifo!FifoNext
    <3>2. CASE PushPublish(p)
      BY <3>2, PublishCommits DEF Fifo!FifoNext
    <3>3. CASE ~PushCasWin(p) /\ ~PushPublish(p)
      BY <2>0, <2>2, <3>3 DEF ProducerStep, BlockingPeek, BlockingRecheck, PushStatus,
         PushLoadHead, PushLoadSeq, PushCasLose, PushConstruct, SizeLoadTail, queue, history
    <3> QED BY <3>1, <3>2, <3>3
  <2>3. ASSUME ConsumerStep
        PROVE  Fifo!FifoNext \/ UNCHANGED Fifo!fifoVars
    <3>1. CASE PopFree
      BY <3>1, FreeDelivers DEF Fifo!FifoNext
    <3>2. CASE ~PopFree
      BY <2>0, <2>3, <3>2 DEF ConsumerStep, PopHit, PopMiss, PopAdvance, PopTake, PopPeek,
         PopRecheck, queue, history
    <3> QED BY <3>1, <3>2
  <2>4. ASSUME PopCall \/ Stop \/ Run \/ Destroy \/ UNCHANGED vars
        PROVE  UNCHANGED Fifo!fifoVars
    BY <2>0, <2>4 DEF PopCall, PopBegin, Stop, Run, Destroy, vars, queue, history
  <2> QED BY <2>1, <2>2, <2>3, <2>4 DEF Next
<1> QED
  BY <1>1, <1>2, RingInvariant, PTL DEF Spec, ImplementsFifo, Fifo!FifoSpec

-----------------------------------------------------------------------------
(***************************************************************************)
(* The arithmetic of the machine.                                          *)
(***************************************************************************)
\* Half of what a word can tell apart is more than a lap.
LEMMA HalfAWord == Half \in Nat /\ Half > Size /\ Word = 2 * Half /\ Word \in Nat
<1>1. PICK laps \in 1..Word : Word = Size * (2 * laps)
  BY WordAssumption
<1>2. PICK z \in Nat : z = Size * laps
  BY <1>1, WordAssumption, SizePositive
<1>3. Word = 2 * z
  BY <1>1, <1>2, WordAssumption, SizePositive
<1>4. Half = z
  BY <1>2, <1>3 DEF Half
<1> QED BY <1>2, <1>3, <1>4, WordAssumption, SizePositive

\* A masked word finds the cell of the position it was cut from.
LEMMA WordFindsCell == ASSUME NEW k \in Nat PROVE WordCell(k) = Cell(k)
<1>1. PICK laps \in 1..Word : Word = Size * (2 * laps)
  BY WordAssumption
<1>2. PICK m \in Nat : m = 2 * laps /\ m > 0 /\ Word = Size * m
  BY <1>1, WordAssumption
<1>3. (k % Word) % Size = k % Size
  <2>1. Word \in Nat
    BY WordAssumption
  <2> QED BY <1>2, <2>1, SizePositive, MaskedWord, Zenon
<1> QED BY <1>3 DEF WordCell, Cut, Cell

\* The signed difference of two words is that of the numbers they were cut
\* from, when these are less than half a word apart.
LEMMA DiffIsExact ==
    ASSUME NEW a \in Nat, NEW b \in Nat, -Half <= a - b, a - b < Half
    PROVE  Diff(a, b) = a - b
<1>1. Half \in Nat /\ Half > 0 /\ Word = 2 * Half
  BY HalfAWord, SizePositive
<1>2. SignedDifference(a % Word, b % Word, Word) = a - b
  BY <1>1, WordDifference, Zenon
<1> QED BY <1>2 DEF SignedDifference, Diff, Signed, Cut, Half

\* Words tell positions apart that are less than a word apart.
LEMMA WordsCompare ==
    ASSUME NEW a \in Nat, NEW b \in Nat, a <= b, b - a < Word
    PROVE  Cut(b) = Cut(a) <=> b = a
<1>1. Word \in Nat /\ Word > 0
  BY HalfAWord, SizePositive
<1>2. CASE a < b
  <2>1. b < a + Word
    BY <1>1
  <2>2. a % Word # b % Word
    BY <1>1, <1>2, <2>1, LessThanALap, Zenon
  <2> QED BY <1>2, <2>2 DEF Cut
<1>3. CASE a = b
  BY <1>3
<1> QED BY <1>2, <1>3

\* Every sequence number lies in the lap that begins at the oldest element,
\* or is the first of the next.
LEMMA SeqBounds == ASSUME IInv, NEW i \in Cells PROVE seq[i] \in F..(F + Size)
<1>1. F \in Nat /\ head \in Nat /\ F <= head /\ head <= F + Size
  BY LapBounds DEF IInv, TypeOK
<1>2. PICK k \in F..(F + Size - 1) : Cell(k) = i
  BY <1>1, LapReaches
<1>3. CASE k \in Taken
  <2>1. seq[i] = k \/ seq[i] = k + 1
    BY <1>2, <1>3 DEF IInv, CellsOK, Claimed, Published
  <2> QED BY <1>1, <2>1, SizePositive
<1>4. CASE k \in Free
  <2>1. seq[i] = k
    BY <1>2, <1>4 DEF IInv, CellsOK
  <2> QED BY <1>1, <2>1, SizePositive
<1> QED BY <1>1, <1>2, <1>3, <1>4, SizePositive DEF Taken, Free

\* A step of a producer that looks at words only is one that looks at the
\* numbers themselves.
LEMMA WordPush ==
    ASSUME IInv, Fresh, NEW p \in Producers
    PROVE  /\ WordLoadSeq(p) => PushLoadSeq(p)
           /\ WordCasWin(p) => PushCasWin(p)
           /\ WordCasLose(p) => PushCasLose(p)
           /\ WordConstruct(p) => PushConstruct(p)
           /\ WordPublish(p) => PushPublish(p)
<1>1. /\ F \in Nat /\ head \in Nat /\ head <= F + Size /\ F <= head
      /\ pos[p] \in Nat /\ Cell(pos[p]) \in Cells
      /\ seq[Cell(pos[p])] \in Nat
  BY LapBounds, PointTypes DEF IInv, TypeOK
<1>2. WordCell(pos[p]) = Cell(pos[p])
  BY <1>1, WordFindsCell
<1>3. ASSUME pc[p] \in {"seq", "cas"} PROVE pos[p] <= head /\ head - pos[p] < Half - Size
  BY <1>3 DEF IInv, PushersOK, Fresh
<1>4. ASSUME WordLoadSeq(p) PROVE PushLoadSeq(p)
  <2>1. pos[p] <= head /\ head - pos[p] < Half - Size
    BY <1>3, <1>4 DEF WordLoadSeq, At
  <2>2. seq[Cell(pos[p])] \in F..(F + Size)
    BY <1>1, SeqBounds
  <2>3. -Half <= seq[Cell(pos[p])] - pos[p] /\ seq[Cell(pos[p])] - pos[p] < Half
    BY <1>1, <2>1, <2>2, HalfAWord, SizePositive
  <2>4. Diff(seq[Cell(pos[p])], pos[p]) = seq[Cell(pos[p])] - pos[p]
    BY <1>1, <2>3, DiffIsExact, Zenon
  <2> QED BY <1>2, <1>4, <2>4 DEF WordLoadSeq, PushLoadSeq
<1>5. ASSUME At(p, "cas") PROVE Cut(head) = Cut(pos[p]) <=> head = pos[p]
  <2>1. pos[p] <= head /\ head - pos[p] < Word
    BY <1>1, <1>3, <1>5, HalfAWord, SizePositive DEF At
  <2> QED BY <1>1, <2>1, WordsCompare, Zenon
<1>6. WordCasWin(p) => PushCasWin(p)
  BY <1>5 DEF WordCasWin, PushCasWin
<1>7. WordCasLose(p) => PushCasLose(p)
  BY <1>5 DEF WordCasLose, PushCasLose
<1>8. WordConstruct(p) => PushConstruct(p)
  BY <1>2 DEF WordConstruct, PushConstruct
<1>9. WordPublish(p) => PushPublish(p)
  BY <1>2 DEF WordPublish, PushPublish
<1> QED BY <1>4, <1>6, <1>7, <1>8, <1>9

\* So is a step of the consumer, which no delay can mislead.
LEMMA WordPop ==
    ASSUME IInv
    PROVE  /\ WordHit => PopHit
           /\ WordMiss => PopMiss
           /\ WordTake => PopTake
           /\ WordFree => PopFree
<1>1. /\ F \in Nat /\ tail \in Nat /\ Cell(tail) \in Cells /\ tail \in {F, F + 1}
      /\ seq[Cell(tail)] \in Nat
  <2>1. F \in Nat /\ tail \in Nat /\ seq \in [Cells -> Nat]
    BY PointTypes DEF IInv, TypeOK
  <2>2. Cell(tail) \in Cells
    BY <2>1, CellType
  <2> QED BY <2>1, <2>2 DEF IInv, CountersOK
<1>2. WordCell(tail) = Cell(tail)
  BY <1>1, WordFindsCell
<1>3. WordFrontReady <=> FrontReady
  <2>1. seq[Cell(tail)] \in F..(F + Size)
    BY <1>1, SeqBounds
  <2>2. /\ tail + 1 \in Nat
        /\ -Half <= seq[Cell(tail)] - (tail + 1) /\ seq[Cell(tail)] - (tail + 1) < Half
    BY <1>1, <2>1, HalfAWord, SizePositive
  <2>3. Diff(seq[Cell(tail)], tail + 1) = seq[Cell(tail)] - (tail + 1)
    BY <1>1, <2>2, DiffIsExact, Zenon
  <2> QED BY <1>2, <2>3 DEF WordFrontReady, FrontReady
<1>4. cpc \in {"take", "free"} => WordCell(tail - 1) = Cell(tail - 1)
  BY EmptyingFacts, WordFindsCell
<1>5. (WordHit => PopHit) /\ (WordMiss => PopMiss)
  BY <1>3 DEF WordHit, PopHit, WordMiss, PopMiss
<1>6. WordTake => PopTake
  BY <1>4 DEF WordTake, PopTake
<1>7. WordFree => PopFree
  BY <1>4 DEF WordFree, PopFree
<1> QED BY <1>5, <1>6, <1>7

\* Positions that wrap, masked indexes and the sign of a difference serve as
\* well as natural numbers, for any number of pushes: no behaviour of the
\* queue computed in words differs from one of MPSCQueue, unless a producer is
\* suspended between its load of _head and its compare_exchange while the
\* others go through half of all positions.
THEOREM WordsSuffice == ASSUME Size > 1 PROVE WordSpec /\ []Fresh => Spec
<1>1. ASSUME IInv, Fresh, [WordNext]_vars PROVE [Next]_vars
  <2>1. ASSUME NEW p \in Producers,
               \/ \E b \in BOOLEAN : PushBegin(p, b)
               \/ SizeLoadHead(p) \/ SizeLoadTail(p)
               \/ BlockingPeek(p) \/ BlockingRecheck(p) \/ PushStatus(p) \/ PushLoadHead(p)
               \/ WordLoadSeq(p) \/ WordCasWin(p) \/ WordCasLose(p)
               \/ WordConstruct(p) \/ WordPublish(p)
        PROVE  Next
    BY <1>1, <2>1, WordPush DEF Next, ProducerStep
  <2>2. ASSUME PopCall \/ WordHit \/ WordMiss \/ PopAdvance \/ WordTake \/ WordFree
               \/ PopPeek \/ PopRecheck \/ Stop \/ Run \/ Destroy
        PROVE  Next
    BY <1>1, <2>2, WordPop DEF Next, ConsumerStep
  <2> QED BY <1>1, <2>1, <2>2 DEF WordNext
<1>2. IInv /\ Fresh /\ [WordNext]_vars => [Next]_vars /\ IInv'
  BY <1>1, InvStep
<1> QED
  BY <1>2, InitInv, PTL DEF WordSpec, Spec

\* What is proved of MPSCQueue is therefore true of words: the storage stays
\* owned, and every element is delivered once and in order.
THEOREM WordsAreSafe ==
    ASSUME Size > 1
    PROVE  WordSpec /\ []Fresh =>
               /\ [](StorageOwned /\ NothingLost /\ PerProducerFifo)
               /\ RefusedOnlyWhenFull /\ EmptyOnlyWhenFrontMissing
               /\ ImplementsFifo
BY WordsSuffice, StorageIsOwned, ElementsKept, ProducersInOrder, RefusalsAreHonest,
   MissesAreHonest, ImplementsBoundedFifo, PTL
-----------------------------------------------------------------------------
\* size() loads head first and tail second, and either may move in between: it
\* never counts more elements than there are when it loads tail, unless the
\* consumer has passed the head it loaded.
THEOREM SizeIsHonest == ASSUME Size > 1 PROVE Spec => []SizeWrongOnlyIfOvertaken
<1> DEFINE Loaded == \A p \in Producers : At(p, "size") => pos[p] <= head
<1>1. Init => Loaded
  BY DEF Init, At
<1>2. ASSUME IInv, Loaded, [Next]_vars PROVE Loaded'
  <2>1. /\ pc \in [Producers -> PushPoints] /\ pos \in [Producers -> Nat] /\ head \in Nat
    BY <1>2 DEF IInv, TypeOK
  <2>2. SUFFICES ASSUME NEW q \in Producers, At(q, "size")' PROVE pos'[q] <= head'
    BY DEF At
  <2>3. ASSUME NEW p \in Producers, SizeLoadHead(p) PROVE pos'[q] <= head'
    <3>1. pos' = [pos EXCEPT ![p] = head] /\ head' = head
          /\ pc' = [pc EXCEPT ![p] = "size"]
      BY <2>3 DEF SizeLoadHead, Goto, queue
    <3> QED BY <1>2, <2>1, <2>2, <3>1 DEF At
  <2>4. ASSUME head' >= head, At(q, "size"), pos'[q] = pos[q] PROVE pos'[q] <= head'
    <3>1. head' \in Nat
      BY <1>2, TypeStep DEF TypeOK
    <3> QED BY <1>2, <2>1, <2>4, <3>1
  <2>5. ASSUME NEW p \in Producers, (\E b \in BOOLEAN : PushBegin(p, b)) \/ ProducerStep(p)
        PROVE  head' >= head /\ At(q, "size") /\ pos'[q] = pos[q]
    <3>1. CASE PushCasWin(p)
      BY <2>1, <2>2, <3>1 DEF PushCasWin, At, Goto
    <3>2. CASE ~PushCasWin(p)
      BY <2>1, <2>2, <2>5, <3>2 DEF PushBegin, ProducerStep, BlockingPeek, BlockingRecheck,
         PushStatus, PushLoadHead, PushLoadSeq, PushCasLose, PushConstruct, PushPublish,
         SizeLoadTail, At, Goto, Refused, queue
    <3> QED BY <3>1, <3>2
  <2>6. ASSUME PopCall \/ ConsumerStep \/ Stop \/ Run \/ Destroy \/ UNCHANGED vars
        PROVE  head' >= head /\ At(q, "size") /\ pos'[q] = pos[q]
    <3>1. UNCHANGED <<head, prodVars>>
      BY <2>6 DEF PopCall, PopBegin, ConsumerStep, PopHit, PopMiss, PopAdvance, PopTake, PopFree,
         PopPeek, PopRecheck, Stop, Run, Destroy, vars, queue, prodVars
    <3> QED BY <2>1, <2>2, <3>1 DEF At, prodVars
  <2> QED BY <1>2, <2>3, <2>4, <2>5, <2>6 DEF Next
<1>3. ASSUME IInv, Loaded PROVE SizeWrongOnlyIfOvertaken
  <2> SUFFICES ASSUME NEW p \in Producers, At(p, "size")
               PROVE  IF tail <= pos[p]
                        THEN /\ SizeResult(p) <= head - tail /\ head - tail <= Size
                             /\ pos[p] = head => SizeResult(p) = head - tail
                        ELSE tail - pos[p] < Word => SizeResult(p) = Word - (tail - pos[p])
    BY DEF SizeWrongOnlyIfOvertaken
  <2>1. /\ pos[p] \in Nat /\ tail \in Nat /\ head \in Nat /\ F \in Nat
        /\ pos[p] <= head /\ head <= F + Size /\ F <= tail
    BY <1>3, PointTypes, LapBounds DEF IInv, TypeOK, CountersOK
  <2>2. Word \in Nat /\ Word > Size
    BY HalfAWord, SizePositive
  <2>3. CASE tail <= pos[p]
    <3>1. PICK d \in 0..(Word - 1) : d = pos[p] - tail /\ d <= Size
      BY <2>1, <2>2, <2>3, SizePositive
    <3>2. d % Word = d
      BY <2>2, <3>1
    <3>3. SizeResult(p) = pos[p] - tail
      BY <3>1, <3>2 DEF SizeResult
    <3> QED BY <2>1, <2>3, <3>3, SizePositive
  <2>4. CASE tail > pos[p] /\ tail - pos[p] < Word
    <3>1. PICK d \in 0..(Word - 1), k \in Int :
              d = Word - (tail - pos[p]) /\ k = pos[p] - tail
      BY <2>1, <2>2, <2>4
    <3>2. k = (Word * (-1)) + d
      BY <2>1, <2>2, <3>1
    <3>3. k % Word = d
      BY <2>2, <3>2, IntRemainder
    <3> QED BY <2>1, <2>4, <3>1, <3>3 DEF SizeResult
  <2> QED BY <2>1, <2>3, <2>4
<1> HIDE DEF Loaded
<1>4. Loaded /\ IInv /\ [Next]_vars => Loaded'
  BY <1>2
<1>5. Loaded /\ IInv => SizeWrongOnlyIfOvertaken
  BY <1>3
<1> QED
  BY <1>1, <1>4, <1>5, RingInvariant, PTL DEF Spec
=============================================================================
