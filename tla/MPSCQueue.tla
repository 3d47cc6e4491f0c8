------------------------------ MODULE MPSCQueue ------------------------------
(***************************************************************************)
(* BoundedMPSCQueue<T, _size> of include/sync_tools/mpsc_queue.hpp: many   *)
(* producer threads, one consumer thread, and a third party that calls     *)
(* stop(), run() and finally the destructor.                               *)
(*                                                                         *)
(* Every access to an atomic or to a cell's storage that another thread    *)
(* can observe is a step of its own.  The code only builds for x86         *)
(* (utils/cpu_relax.hpp), where compare_exchange_weak is one locked        *)
(* instruction that does not fail spuriously.                              *)
(***************************************************************************)
EXTENDS Integers, Sequences

CONSTANTS Producers,  \* the producer threads
          Size,       \* _size, the number of cells
          Word,       \* how many values a std::size_t has
          MaxCalls,   \* bound: MaxCalls[p] is how often p calls push
          Raw         \* the content of a cell in which no T is alive

ASSUME SizeAssumption == /\ Size \in Nat \ {0}
                         /\ \E k \in 0..Size : Size = 2^k
ASSUME WordAssumption == /\ Word \in Nat /\ Word > 2 * Size
                         /\ \E laps \in 1..Word : Word = Size * (2 * laps)
ASSUME CallsAssumption == MaxCalls \in [Producers -> Nat]

\* <<p, n>> is the element of producer p's n-th push.
Values == UNION {{p} \X (1..MaxCalls[p]) : p \in Producers}
ASSUME RawAssumption == Raw \notin Values

VARIABLES head, tail,   \* _head, _tail
          seq, slot,    \* _cells[i].seq, _cells[i].storage
          status,       \* _queue_status
          pc,           \* per producer: the next statement of its push
          pos,          \* per producer: the local `pos`
          blocking,     \* per producer: called through blocking_push?
          calls,        \* per producer: pushes begun
          cpc,          \* the next statement of the consumer's pop
          mode,         \* which pop runs: try_pop, blocking_pop, the destructor's
          out           \* the consumer's local `result`

VARIABLES log,          \* history: the elements in the order their CAS won
          popped        \* history: the elements popped, in order

vars == <<head, tail, seq, slot, status, pc, pos, blocking, calls,
          cpc, mode, out, log, popped>>
queue == <<head, tail, seq, slot, status>>
prodVars == <<pc, pos, blocking, calls>>
consVars == <<cpc, mode, out>>
history == <<log, popped>>

Running == "Running"
Stopped == "Stopped"

Cells == 0..(Size - 1)
Cell(k) == k % Size             \* k & _mask, _size being a power of two
Item(p) == <<p, calls[p]>>      \* the argument of p's current push

Init == /\ head = 0 /\ tail = 0
        /\ seq = [i \in Cells |-> i]
        /\ slot = [i \in Cells |-> Raw]
        /\ status = Running
        /\ pc = [p \in Producers |-> "idle"]
        /\ pos = [p \in Producers |-> 0]
        /\ blocking = [p \in Producers |-> FALSE]
        /\ calls = [p \in Producers |-> 0]
        /\ cpc = "idle" /\ mode = "try" /\ out = Raw
        /\ log = <<>> /\ popped = <<>>

F == Len(popped)                \* the position of the oldest element not yet handed out

Goto(p, l) == pc' = [pc EXCEPT ![p] = l]
\* try_push returned false: blocking_push goes round its loop again.
Refused(p) == Goto(p, IF blocking[p] THEN "peek" ELSE "idle")
At(p, l) == pc[p] = l
-----------------------------------------------------------------------------
(***************************************************************************)
(* Faults: what plausible mistakes would turn some actions below into.     *)
(* Nothing uses them; they show that each property can be broken.          *)
(***************************************************************************)
StatusIgnored(p) ==              \* blocking_push forgets to leave its loop
    /\ At(p, "recheck")
    /\ Goto(p, "status")
    /\ UNCHANGED <<queue, pos, blocking, calls, consVars, history>>

SignOfDiffIgnored(p) ==          \* `diff != 0` taken for `diff < 0`
    /\ At(p, "seq")
    /\ IF seq[Cell(pos[p])] = pos[p] THEN Goto(p, "cas") ELSE Refused(p)
    /\ UNCHANGED <<queue, pos, blocking, calls, consVars, history>>

OccupiedCellAccepted(p) ==       \* `diff > -_size` taken for `diff == 0`
    /\ At(p, "seq")
    /\ Goto(p, IF seq[Cell(pos[p])] - pos[p] >= 1 - Size THEN "cas" ELSE "head")
    /\ UNCHANGED <<queue, pos, blocking, calls, consVars, history>>

HeadStored(p) ==                 \* a plain store in place of the compare_exchange
    /\ At(p, "cas")
    /\ head' = pos[p] + 1
    /\ log' = Append(log, Item(p))
    /\ Goto(p, "construct")
    /\ UNCHANGED <<tail, seq, slot, status, pos, blocking, calls, consVars, popped>>

PublishedBeforeFilled(p) ==      \* the seq store before the placement new
    /\ At(p, "construct")
    /\ seq' = [seq EXCEPT ![Cell(pos[p])] = pos[p] + 1]
    /\ Goto(p, "publish")
    /\ UNCHANGED <<head, tail, slot, status, pos, blocking, calls, consVars, history>>

NeverPublished(p) ==             \* `pos` stored in place of `pos + 1`
    /\ At(p, "publish")
    /\ seq' = [seq EXCEPT ![Cell(pos[p])] = pos[p]]
    /\ Goto(p, "idle")
    /\ UNCHANGED <<head, tail, slot, status, pos, blocking, calls, consVars, history>>

PushedAgain(p) ==                \* a push that succeeded reported as one that did not
    /\ At(p, "publish")
    /\ seq' = [seq EXCEPT ![Cell(pos[p])] = pos[p] + 1]
    /\ Refused(p)
    /\ UNCHANGED <<head, tail, slot, status, pos, blocking, calls, consVars, history>>

FrontUnchecked == seq[Cell(tail)] - (tail + 1) <= 0   \* a claimed cell taken for a filled one


DrainsOnce ==                    \* ~BoundedMPSCQueue with `if` in place of `while`
    /\ cpc = "free"
    /\ seq' = [seq EXCEPT ![Cell(tail - 1)] = (tail - 1) + Size]
    /\ popped' = Append(popped, out)
    /\ out' = Raw
    /\ cpc' = IF mode = "dtor" THEN "dead" ELSE "idle"
    /\ UNCHANGED <<head, tail, slot, status, prodVars, mode, log>>
-----------------------------------------------------------------------------
(***************************************************************************)
(* Producers: try_push and blocking_push.                                  *)
(***************************************************************************)
PushBegin(p, b) ==
    /\ At(p, "idle") /\ mode # "dtor" /\ calls[p] < MaxCalls[p]
    /\ calls' = [calls EXCEPT ![p] = @ + 1]
    /\ blocking' = [blocking EXCEPT ![p] = b]
    /\ Goto(p, IF b THEN "peek" ELSE "status")
    /\ UNCHANGED <<queue, pos, consVars, history>>

\* blocking_push: the relaxed load, and the acquire load that confirms it.
BlockingPeek(p) ==
    /\ At(p, "peek")
    /\ Goto(p, IF status = Stopped THEN "recheck" ELSE "status")
    /\ UNCHANGED <<queue, pos, blocking, calls, consVars, history>>

BlockingRecheck(p) ==
    /\ At(p, "recheck")
    /\ Goto(p, IF status = Stopped THEN "idle" ELSE "status")
    /\ UNCHANGED <<queue, pos, blocking, calls, consVars, history>>

PushStatus(p) ==
    /\ At(p, "status")
    /\ IF status = Stopped THEN Refused(p) ELSE Goto(p, "head")
    /\ UNCHANGED <<queue, pos, blocking, calls, consVars, history>>

PushLoadHead(p) ==
    /\ At(p, "head")
    /\ pos' = [pos EXCEPT ![p] = head]
    /\ Goto(p, "seq")
    /\ UNCHANGED <<queue, blocking, calls, consVars, history>>

PushLoadSeq(p) ==
    /\ At(p, "seq")
    /\ LET diff == seq[Cell(pos[p])] - pos[p]
       IN  \/ diff = 0 /\ Goto(p, "cas")
           \/ diff < 0 /\ Refused(p)
           \/ diff > 0 /\ Goto(p, "head")
    /\ UNCHANGED <<queue, pos, blocking, calls, consVars, history>>

PushCasWin(p) ==
    /\ At(p, "cas") /\ head = pos[p]
    /\ head' = pos[p] + 1
    /\ log' = Append(log, Item(p))
    /\ Goto(p, "construct")
    /\ UNCHANGED <<tail, seq, slot, status, pos, blocking, calls, consVars, popped>>

PushCasLose(p) ==
    /\ At(p, "cas") /\ head # pos[p]
    /\ pos' = [pos EXCEPT ![p] = head]
    /\ Goto(p, "seq")
    /\ UNCHANGED <<queue, blocking, calls, consVars, history>>

PushConstruct(p) ==
    /\ At(p, "construct")
    /\ slot' = [slot EXCEPT ![Cell(pos[p])] = Item(p)]
    /\ Goto(p, "publish")
    /\ UNCHANGED <<head, tail, seq, status, pos, blocking, calls, consVars, history>>

PushPublish(p) ==
    /\ At(p, "publish")
    /\ seq' = [seq EXCEPT ![Cell(pos[p])] = pos[p] + 1]
    /\ Goto(p, "idle")
    /\ UNCHANGED <<head, tail, slot, status, pos, blocking, calls, consVars, history>>

(***************************************************************************)
(* size(), empty() and full(), called by a producer between two pushes:    *)
(* two loads, head first.  SizeResult is what size() returns at the        *)
(* second.                                                                 *)
(***************************************************************************)
SizeLoadHead(p) ==
    /\ At(p, "idle") /\ mode # "dtor"
    /\ pos' = [pos EXCEPT ![p] = head]
    /\ Goto(p, "size")
    /\ UNCHANGED <<queue, blocking, calls, consVars, history>>

SizeResult(p) == (pos[p] - tail) % Word

SizeLoadTail(p) ==
    /\ At(p, "size")
    /\ Goto(p, "idle")
    /\ UNCHANGED <<queue, pos, blocking, calls, consVars, history>>
-----------------------------------------------------------------------------
(***************************************************************************)
(* The consumer: try_pop, blocking_pop, and the destructor's drain loop.   *)
(***************************************************************************)
PopBegin(m) ==
    /\ cpc = "idle" /\ mode # "dtor"
    /\ mode' = m
    /\ cpc' = "load"
    /\ UNCHANGED <<queue, prodVars, out, history>>

FrontReady == seq[Cell(tail)] - (tail + 1) = 0

PopHit ==
    /\ cpc = "load" /\ FrontReady
    /\ cpc' = "advance"
    /\ UNCHANGED <<queue, prodVars, mode, out, history>>

\* try_pop has nothing to return; the drain loop of the destructor ends.
PopMiss ==
    /\ cpc = "load" /\ ~FrontReady
    /\ cpc' = [try |-> "idle", blocking |-> "peek", dtor |-> "dead"][mode]
    /\ UNCHANGED <<queue, prodVars, mode, out, history>>

PopAdvance ==
    /\ cpc = "advance"
    /\ tail' = tail + 1
    /\ cpc' = "take"
    /\ UNCHANGED <<head, seq, slot, status, prodVars, mode, out, history>>

\* Move the element out of the cell and destroy what is left there.
PopTake ==
    /\ cpc = "take"
    /\ out' = slot[Cell(tail - 1)]
    /\ slot' = [slot EXCEPT ![Cell(tail - 1)] = Raw]
    /\ cpc' = "free"
    /\ UNCHANGED <<head, tail, seq, status, prodVars, mode, history>>

PopFree ==
    /\ cpc = "free"
    /\ seq' = [seq EXCEPT ![Cell(tail - 1)] = (tail - 1) + Size]
    /\ popped' = Append(popped, out)
    /\ out' = Raw
    /\ cpc' = IF mode = "dtor" THEN "load" ELSE "idle"
    /\ UNCHANGED <<head, tail, slot, status, prodVars, mode, log>>

\* blocking_pop after a miss: the relaxed load, then the acquire load.
PopPeek ==
    /\ cpc = "peek"
    /\ cpc' = IF status = Stopped THEN "recheck" ELSE "load"
    /\ UNCHANGED <<queue, prodVars, mode, out, history>>

PopRecheck ==
    /\ cpc = "recheck"
    /\ cpc' = IF status = Stopped THEN "idle" ELSE "load"
    /\ UNCHANGED <<queue, prodVars, mode, out, history>>
-----------------------------------------------------------------------------
(***************************************************************************)
(* Any thread may stop and restart the queue.  The destructor runs when    *)
(* no other call is in progress, as C++ requires of any destructor.        *)
(***************************************************************************)
Stop ==
    /\ mode # "dtor"
    /\ status' = Stopped
    /\ UNCHANGED <<head, tail, seq, slot, prodVars, consVars, history>>

Run ==
    /\ mode # "dtor"
    /\ status' = Running
    /\ UNCHANGED <<head, tail, seq, slot, prodVars, consVars, history>>

Destroy ==
    /\ mode # "dtor" /\ cpc = "idle" /\ \A p \in Producers : At(p, "idle")
    /\ status' = Stopped
    /\ mode' = "dtor" /\ cpc' = "load"
    /\ UNCHANGED <<head, tail, seq, slot, prodVars, out, history>>
-----------------------------------------------------------------------------
\* The steps of a push (or size()) that has begun, and of a pop.
ProducerStep(p) ==
    \/ BlockingPeek(p) \/ BlockingRecheck(p) \/ PushStatus(p)
    \/ PushLoadHead(p) \/ PushLoadSeq(p) \/ PushCasWin(p) \/ PushCasLose(p)
    \/ PushConstruct(p) \/ PushPublish(p) \/ SizeLoadTail(p)

ConsumerStep ==
    \/ PopHit \/ PopMiss \/ PopAdvance \/ PopTake \/ PopFree
    \/ PopPeek \/ PopRecheck

PopCall == \E m \in {"try", "blocking"} : PopBegin(m)

Next ==
    \/ \E p \in Producers :
          \/ \E b \in BOOLEAN : PushBegin(p, b)
          \/ SizeLoadHead(p)
          \/ ProducerStep(p)
    \/ PopCall \/ ConsumerStep
    \/ Stop \/ Run \/ Destroy

Spec == Init /\ [][Next]_vars

(***************************************************************************)
(* A thread inside a call keeps running: the operating system schedules    *)
(* it.  Nothing obliges a thread to begin a call.                          *)
(***************************************************************************)
FairSpec == /\ Spec
            /\ \A p \in Producers : WF_vars(ProducerStep(p))
            /\ WF_vars(ConsumerStep)
-----------------------------------------------------------------------------
(***************************************************************************)
(* Properties.                                                             *)
(***************************************************************************)
PushPoints == {"idle", "peek", "recheck", "status", "head", "seq", "cas",
               "construct", "publish", "size"}
PopPoints == {"idle", "load", "advance", "take", "free", "peek", "recheck", "dead"}

\* The type of every variable.  In particular a pop never hands out the raw
\* content of a cell (`popped` holds elements only).
TypeOK ==
    /\ head \in Nat /\ tail \in Nat
    /\ seq \in [Cells -> Nat] /\ slot \in [Cells -> Values \cup {Raw}]
    /\ status \in {Running, Stopped}
    /\ pc \in [Producers -> PushPoints]
    /\ pos \in [Producers -> Nat]
    /\ blocking \in [Producers -> BOOLEAN]
    /\ calls \in [Producers -> Nat]
    /\ \A p \in Producers : calls[p] <= MaxCalls[p]
    /\ cpc \in PopPoints /\ mode \in {"try", "blocking", "dtor"}
    /\ out \in Values \cup {Raw}
    /\ log \in Seq(Values) /\ popped \in Seq(Values)

Claiming(p) == pc[p] \in {"peek", "recheck", "status", "head", "seq", "cas"}
Filling(p) == pc[p] \in {"construct", "publish"}
Emptying == cpc \in {"take", "free"}
Undelivered == (F + 1)..Len(log)

\* The storage of a cell, which is not atomic, is touched by one thread at a
\* time: the producer that won it until it publishes, the consumer from its
\* tail store to its seq store.  A T is constructed only where none is alive,
\* and moved out of and destroyed only where one is.
StorageOwned ==
    /\ \A p \in Producers : Filling(p) =>
          /\ \A q \in Producers \ {p} : Filling(q) => Cell(pos[p]) # Cell(pos[q])
          /\ Emptying => Cell(pos[p]) # Cell(tail - 1)
          /\ At(p, "construct") => slot[Cell(pos[p])] = Raw
    /\ cpc = "take" => slot[Cell(tail - 1)] # Raw

\* Elements leave in the order their compare_exchange won, none is lost,
\* duplicated or invented: what has been popped is a prefix of what was
\* accepted, and the rest is in the cells or in the hands of a thread.
NothingLost ==
    /\ F <= Len(log) /\ popped = SubSeq(log, 1, F)
    /\ \A i \in Undelivered :
          \/ slot[Cell(i - 1)] = log[i]
          \/ \E p \in Producers : At(p, "construct") /\ pos[p] = i - 1 /\ Item(p) = log[i]
          \/ i = F + 1 /\ cpc = "free" /\ out = log[i]

\* The check of tests/mpsc_tests.cpp: the consumer sees the elements of each
\* producer in the order that producer pushed them, and none twice.
PerProducerFifo ==
    \A i, j \in 1..F :
        i < j /\ popped[i][1] = popped[j][1] => popped[i][2] < popped[j][2]

\* try_push answers "full" (or blocking_push goes round again) only at a moment
\* when all _size cells are spoken for, however stale its `pos` is by then.
RefusedOnlyWhenFull ==
    [][\A p \in Producers :
          At(p, "seq") /\ pc'[p] \in {"idle", "peek"} => head - F >= Size]_vars

\* try_pop answers "empty" only when nothing is in the queue or when the
\* element at the front was claimed by a producer that has not published it.
\* Its comment promises more: see EmptyOnlyWhenNoneStored.
EmptyOnlyWhenFrontMissing ==
    [][cpc = "load" /\ cpc' \in {"idle", "peek", "dead"} =>
          \/ head = tail
          \/ \E p \in Producers : Filling(p) /\ pos[p] = tail]_vars

\* ~BoundedMPSCQueue destroys every element that is still in the queue.
DestructorDrains ==
    cpc = "dead" => popped = log /\ \A i \in Cells : slot[i] = Raw

\* Once the queue stays stopped, every blocked push and pop returns, even if
\* the other side never makes another call.
StopUnblocks ==
    <>[](status = Stopped) =>
        /\ \A p \in Producers : []<>At(p, "idle")
        /\ []<>(cpc \in {"idle", "dead"})

\* A consumer that keeps trying gets every accepted element: no cell stays
\* claimed or unreadable for ever.
EverythingDelivered ==
    []<>(cpc = "load") =>
        \A v \in Values : (\E i \in DOMAIN log : log[i] = v)
                              ~> (\E i \in DOMAIN popped : popped[i] = v)

\* With a consumer that keeps trying, a push waiting for space gets it: each
\* call of a producer returns, unless the queue is stopped and restarted for
\* ever (a push that sees Running, then Stopped, then Running never returns).
PushReturns ==
    /\ []<>(cpc = "load")
    /\ <>[](status = Running) \/ <>[](status = Stopped)
    => \A p \in Producers : []<>At(p, "idle")

\* The queue is a bounded FIFO: winning the compare_exchange takes a place in
\* line, the seq store of the producer fills it, and the seq store of the
\* consumer delivers it and frees the place.
Waiting == [i \in 1..(head - F) |->
               [val |-> log[F + i], done |-> seq[Cell(F + i - 1)] = F + i]]
Fifo == INSTANCE BoundedFifo WITH
            Capacity <- Size, line <- Waiting, delivered <- popped
ImplementsFifo == Fifo!FifoSpec

(***************************************************************************)
(* What the comments of the header promise and the code does not keep.     *)
(***************************************************************************)
\* blocking_pop: "nullopt if stopped and empty", so never while the element at
\* the front is constructed and published.
NulloptOnlyWhenEmpty == [][cpc = "recheck" /\ cpc' = "idle" => ~FrontReady]_vars

\* try_pop: "nullopt if empty", so never while an element whose push has
\* published it, wherever it is in line, is still in the queue.
EmptyOnlyWhenNoneStored ==
    [][cpc = "load" /\ mode = "try" /\ cpc' = "idle" =>
          \A k \in tail..(head - 1) : seq[Cell(k)] # k + 1]_vars

\* size(): "Count of stored elements", which never exceeds the capacity.
SizeIsACount == \A p \in Producers : At(p, "size") => SizeResult(p) <= Size

\* Where that is kept: as long as the consumer has not passed the head that
\* size() loaded, the answer is at most the number of elements accepted and not
\* taken when it loads tail, and that number if no push won in between; so full()
\* is true of full queues only.  Once the consumer has passed, size() is off by
\* almost a word.
SizeWrongOnlyIfOvertaken ==
    \A p \in Producers : At(p, "size") =>
        IF tail <= pos[p]
          THEN /\ SizeResult(p) <= head - tail /\ head - tail <= Size
               /\ pos[p] = head => SizeResult(p) = head - tail
          ELSE tail - pos[p] < Word => SizeResult(p) = Word - (tail - pos[p])

\* _size: "Queue capacity; power-of-two value", of which 1 is one.
NeverOverfull == head - F <= Size
-----------------------------------------------------------------------------
(***************************************************************************)
(* The inductive invariant.  Positions F..F+Size-1 are the current lap of  *)
(* each cell: those below head are taken, the others free.                 *)
(***************************************************************************)
Taken == F..(head - 1)
Free == head..(F + Size - 1)

Claimed(k) == /\ seq[Cell(k)] = k
              /\ \E p \in Producers : Filling(p) /\ pos[p] = k
Published(k) == /\ seq[Cell(k)] = k + 1
                /\ IF k = F /\ cpc = "free"
                     THEN slot[Cell(k)] = Raw /\ out = log[k + 1]
                     ELSE slot[Cell(k)] = log[k + 1]

CountersOK == /\ tail = F + (IF Emptying THEN 1 ELSE 0)
              /\ tail <= head /\ head <= F + Size
              /\ Len(log) = head
              /\ cpc = "advance" => F < head
              /\ cpc \in {"advance", "take", "free"} => seq[Cell(F)] = F + 1
CellsOK == /\ \A k \in Taken : Claimed(k) \/ Published(k)
           /\ \A k \in Free : seq[Cell(k)] = k /\ slot[Cell(k)] = Raw
PushersOK ==
    \A p \in Producers :
        /\ pc[p] \notin {"idle", "size"} => calls[p] > 0
        /\ pc[p] \in {"seq", "cas"} => pos[p] <= head
        /\ At(p, "cas") => pos[p] < F + Size
        /\ Filling(p) =>
              /\ pos[p] \in Taken
              /\ seq[Cell(pos[p])] = pos[p]
              /\ log[pos[p] + 1] = Item(p)
              /\ slot[Cell(pos[p])] = IF At(p, "construct") THEN Raw ELSE Item(p)
              /\ \A q \in Producers \ {p} : Filling(q) => pos[q] # pos[p]
LogOK ==
    /\ popped = SubSeq(log, 1, F)
    /\ \A i \in 1..Len(log), p \in Producers :
          log[i][1] = p =>
              IF Claiming(p) THEN log[i][2] < calls[p] ELSE log[i][2] <= calls[p]
    /\ \A i, j \in 1..Len(log) :
          i < j /\ log[i][1] = log[j][1] => log[i][2] < log[j][2]
DrainOK ==
    /\ mode = "dtor" => \A p \in Producers : At(p, "idle")
    /\ cpc = "dead" => mode = "dtor" /\ head = F

\* Every reachable state relates the cells, the counters and the threads so.
IInv == TypeOK /\ CountersOK /\ CellsOK /\ PushersOK /\ LogOK /\ DrainOK
=============================================================================
