------------------------------ MODULE SPSCQueue ------------------------------
(***************************************************************************)
(* BoundedSPSCQueue<T, _size> of include/sync_tools/spsc_queue.hpp: one    *)
(* producer thread, one consumer thread, and a third party that calls      *)
(* stop(), run() and finally the destructor.                               *)
(*                                                                         *)
(* _head and _tail are indexes into the buffer, masked at each step: the   *)
(* one cell that stays unused tells a full ring from an empty one.  Each   *)
(* access to an atomic that the other thread writes is a step, and so is   *)
(* each access to a cell's storage.  A thread's load of the index only it  *)
(* stores belongs to the step that uses it.                                *)
(***************************************************************************)
EXTENDS Integers, Sequences

CONSTANTS Size,       \* _size, the number of cells
          MaxCalls,   \* bound: how often the producer calls push
          Raw         \* the content of a cell in which no T is alive

ASSUME SizeAssumption == /\ Size \in Nat \ {0}
                         /\ \E k \in 0..Size : Size = 2^k
ASSUME CallsAssumption == MaxCalls \in Nat

Values == 1..MaxCalls           \* n is the element of the n-th push
ASSUME RawAssumption == Raw \notin Values

VARIABLES head, tail,   \* _head, _tail
          slot,         \* _buffer
          status,       \* _status
          pc, blocking, \* the producer: next statement; called through blocking_push?
          calls,        \* pushes begun
          cpc, mode,    \* the consumer: next statement; which pop
          out           \* the consumer's local `result`

VARIABLES log,          \* history: the elements in the order they were constructed
          popped        \* history: the elements popped, in order

vars == <<head, tail, slot, status, pc, blocking, calls, cpc, mode, out, log, popped>>
queue == <<head, tail, slot, status>>
prodVars == <<pc, blocking, calls>>
consVars == <<cpc, mode, out>>
history == <<log, popped>>

Running == "Running"
Stopped == "Stopped"

Cells == 0..(Size - 1)
Succ(i) == (i + 1) % Size       \* (i + 1) & _mask, _size being a power of two

Init == /\ head = 0 /\ tail = 0
        /\ slot = [i \in Cells |-> Raw]
        /\ status = Running
        /\ pc = "idle" /\ blocking = FALSE /\ calls = 0
        /\ cpc = "idle" /\ mode = "try" /\ out = Raw
        /\ log = <<>> /\ popped = <<>>

\* try_push returned false: blocking_push looks at the status and tries again.
Refused == pc' = IF blocking THEN "peek" ELSE "idle"

F == Len(popped)
Published == IF pc = "publish" THEN Len(log) - 1 ELSE Len(log)
-----------------------------------------------------------------------------
(***************************************************************************)
(* Faults: what plausible mistakes would turn some actions below into.     *)
(* Nothing uses them; they show that each property can be broken.          *)
(***************************************************************************)
CapacityUnchecked ==             \* the comparison with _tail forgotten
    /\ pc = "check"
    /\ pc' = "construct"
    /\ UNCHANGED <<queue, blocking, calls, consVars, history>>

HeadCompared ==                  \* `head` in place of `next` compared with _tail
    /\ pc = "check"
    /\ IF head = tail THEN Refused ELSE pc' = "construct"
    /\ UNCHANGED <<queue, blocking, calls, consVars, history>>

PushedAgain ==                   \* a push that succeeded reported as one that did not
    /\ pc = "publish"
    /\ head' = Succ(head)
    /\ Refused
    /\ UNCHANGED <<tail, slot, status, blocking, calls, consVars, history>>

StatusIgnored ==                 \* blocking_push forgets to leave its loop
    /\ pc = "recheck"
    /\ pc' = "status"
    /\ UNCHANGED <<queue, blocking, calls, consVars, history>>

LastElementLeft ==               \* `(tail + 1) & _mask` compared with _head
    /\ cpc = "load"
    /\ cpc' = IF head \in {tail, Succ(tail)}
                THEN [try |-> "idle", blocking |-> "peek", dtor |-> "dead"][mode]
                ELSE "take"
    /\ UNCHANGED <<queue, prodVars, mode, out, history>>

NotDestroyed ==                  \* ~T() forgotten
    /\ cpc = "take"
    /\ out' = slot[tail]
    /\ cpc' = "free"
    /\ UNCHANGED <<queue, prodVars, mode, history>>

TailKept ==                      \* the store of _tail forgotten
    /\ cpc = "free"
    /\ popped' = Append(popped, out)
    /\ out' = Raw
    /\ cpc' = IF mode = "dtor" THEN "load" ELSE "idle"
    /\ UNCHANGED <<queue, prodVars, mode, log>>

DrainsOnce ==                    \* ~BoundedSPSCQueue with `if` in place of `while`
    /\ cpc = "free"
    /\ tail' = Succ(tail)
    /\ popped' = Append(popped, out)
    /\ out' = Raw
    /\ cpc' = IF mode = "dtor" THEN "dead" ELSE "idle"
    /\ UNCHANGED <<head, slot, status, prodVars, mode, log>>
-----------------------------------------------------------------------------
(***************************************************************************)
(* The producer: try_push and blocking_push, which begins with a try_push. *)
(***************************************************************************)
PushBegin(b) ==
    /\ pc = "idle" /\ mode # "dtor" /\ calls < MaxCalls
    /\ calls' = calls + 1
    /\ blocking' = b
    /\ pc' = "status"
    /\ UNCHANGED <<queue, consVars, history>>

PushStatus ==
    /\ pc = "status"
    /\ IF status = Stopped THEN Refused ELSE pc' = "check"
    /\ UNCHANGED <<queue, blocking, calls, consVars, history>>

PushCheck ==
    /\ pc = "check"
    /\ IF Succ(head) = tail THEN Refused ELSE pc' = "construct"
    /\ UNCHANGED <<queue, blocking, calls, consVars, history>>

PushConstruct ==
    /\ pc = "construct"
    /\ slot' = [slot EXCEPT ![head] = calls]
    /\ log' = Append(log, calls)
    /\ pc' = "publish"
    /\ UNCHANGED <<head, tail, status, blocking, calls, consVars, popped>>

PushPublish ==
    /\ pc = "publish"
    /\ head' = Succ(head)
    /\ pc' = "idle"
    /\ UNCHANGED <<tail, slot, status, blocking, calls, consVars, history>>

\* blocking_push after a refusal: the relaxed load, then the acquire load.
BlockingPeek ==
    /\ pc = "peek"
    /\ pc' = IF status = Stopped THEN "recheck" ELSE "status"
    /\ UNCHANGED <<queue, blocking, calls, consVars, history>>

BlockingRecheck ==
    /\ pc = "recheck"
    /\ pc' = IF status = Stopped THEN "idle" ELSE "status"
    /\ UNCHANGED <<queue, blocking, calls, consVars, history>>
-----------------------------------------------------------------------------
(***************************************************************************)
(* The consumer: try_pop, blocking_pop, and the destructor's drain loop.   *)
(***************************************************************************)
PopBegin(m) ==
    /\ cpc = "idle" /\ mode # "dtor"
    /\ mode' = m
    /\ cpc' = "load"
    /\ UNCHANGED <<queue, prodVars, out, history>>

PopCheck ==
    /\ cpc = "load"
    /\ cpc' = IF tail = head
                THEN [try |-> "idle", blocking |-> "peek", dtor |-> "dead"][mode]
                ELSE "take"
    /\ UNCHANGED <<queue, prodVars, mode, out, history>>

\* Move the element out of the cell and destroy what is left there.
PopTake ==
    /\ cpc = "take"
    /\ out' = slot[tail]
    /\ slot' = [slot EXCEPT ![tail] = Raw]
    /\ cpc' = "free"
    /\ UNCHANGED <<head, tail, status, prodVars, mode, history>>

PopFree ==
    /\ cpc = "free"
    /\ tail' = Succ(tail)
    /\ popped' = Append(popped, out)
    /\ out' = Raw
    /\ cpc' = IF mode = "dtor" THEN "load" ELSE "idle"
    /\ UNCHANGED <<head, slot, status, prodVars, mode, log>>

\* blocking_pop after a miss: the relaxed load, then the acquire load.
PopPeek ==
    /\ cpc = "peek"
    /\ cpc' = IF status = Stopped THEN "recheck" ELSE "load"
    /\ UNCHANGED <<queue, prodVars, mode, out, history>>

PopRecheck ==
    /\ cpc = "recheck"
    /\ cpc' = IF status = Stopped THEN "idle" ELSE "load"
    /\ UNCHANGED <<queue, prodVars, mode, out, history>>
-----------------------------------------------------------------------------
Stop ==
    /\ mode # "dtor"
    /\ status' = Stopped
    /\ UNCHANGED <<head, tail, slot, prodVars, consVars, history>>

Run ==
    /\ mode # "dtor"
    /\ status' = Running
    /\ UNCHANGED <<head, tail, slot, prodVars, consVars, history>>

\* The destructor runs when no other call is in progress.
Destroy ==
    /\ mode # "dtor" /\ cpc = "idle" /\ pc = "idle"
    /\ status' = Stopped
    /\ mode' = "dtor" /\ cpc' = "load"
    /\ UNCHANGED <<head, tail, slot, prodVars, out, history>>
-----------------------------------------------------------------------------
ProducerStep == \/ PushStatus \/ PushCheck \/ PushConstruct \/ PushPublish
                \/ BlockingPeek \/ BlockingRecheck
ConsumerStep == PopCheck \/ PopTake \/ PopFree \/ PopPeek \/ PopRecheck

Next ==
    \/ \E b \in BOOLEAN : PushBegin(b)
    \/ \E m \in {"try", "blocking"} : PopBegin(m)
    \/ ProducerStep \/ ConsumerStep
    \/ Stop \/ Run \/ Destroy

Spec == Init /\ [][Next]_vars

(***************************************************************************)
(* A thread inside a call keeps running; nothing obliges it to begin one.  *)
(***************************************************************************)
FairSpec == Spec /\ WF_vars(ProducerStep) /\ WF_vars(ConsumerStep)
-----------------------------------------------------------------------------
(***************************************************************************)
(* Properties.                                                             *)
(***************************************************************************)
\* The type of every variable; `popped` holds elements, never raw storage.
TypeOK ==
    /\ head \in Cells /\ tail \in Cells
    /\ slot \in [Cells -> Values \cup {Raw}]
    /\ status \in {Running, Stopped}
    /\ pc \in {"idle", "status", "check", "construct", "publish", "peek", "recheck"}
    /\ blocking \in BOOLEAN
    /\ calls \in 0..MaxCalls
    /\ cpc \in {"idle", "load", "take", "free", "peek", "recheck", "dead"}
    /\ mode \in {"try", "blocking", "dtor"}
    /\ out \in Values \cup {Raw}
    /\ log \in Seq(Values) /\ popped \in Seq(Values)

\* The storage of a cell is touched by one thread at a time, a T is constructed
\* only where none is alive and taken only where one is: the masked indexes of
\* the two threads never meet while both work on a cell.
StorageOwned ==
    /\ pc = "construct" => slot[head] = Raw
    /\ cpc = "take" => slot[tail] # Raw
    /\ pc \in {"construct", "publish"} /\ cpc \in {"take", "free"} => head # tail

\* What has been popped is a prefix of what was constructed, and the rest is in
\* the cells from _tail on or in the consumer's hands: nothing is lost,
\* duplicated or reordered.
NothingLost ==
    /\ F <= Len(log) /\ popped = SubSeq(log, 1, F)
    /\ \A i \in (F + 1)..Len(log) :
          \/ slot[(i - 1) % Size] = log[i]
          \/ i = F + 1 /\ cpc = "free" /\ out = log[i]

\* The check of tests/spsc_tests.cpp: elements arrive in the order they were
\* pushed, none twice, although pushes may be refused in between.
InOrder == \A i, j \in 1..F : i < j => popped[i] < popped[j]

\* size(), empty() and full(), called by the producer or by the consumer, read
\* one index that the caller does not own.  In whatever state that happens,
\* the masked difference is the number of elements published and not popped.
CountExact ==
    /\ (head + Size - tail) % Size = Published - F
    /\ (head = tail) = (Published = F)
    /\ (Succ(head) = tail) = (Published - F = Size - 1)

\* try_push answers "full" only at a moment when all but one cell are in use.
RefusedOnlyWhenFull ==
    [][pc = "check" /\ pc' \in {"idle", "peek"} => Len(log) - F = Size - 1]_vars

\* try_pop answers "empty" only at a moment when nothing is published.
EmptyOnlyWhenEmpty ==
    [][cpc = "load" /\ cpc' \in {"idle", "peek", "dead"} => Published = F]_vars

\* ~BoundedSPSCQueue destroys every element that is still in the queue.
DestructorDrains == cpc = "dead" => popped = log /\ \A i \in Cells : slot[i] = Raw

\* Once the queue stays stopped, every blocked push and pop returns.
StopUnblocks == <>[](status = Stopped) => []<>(pc = "idle") /\ []<>(cpc \in {"idle", "dead"})

\* A consumer that keeps trying gets every element constructed.
EverythingDelivered ==
    []<>(cpc = "load") =>
        \A v \in Values : (\E i \in DOMAIN log : log[i] = v)
                              ~> (\E i \in DOMAIN popped : popped[i] = v)

\* With a consumer that keeps trying and a status that settles, every push returns.
PushReturns ==
    /\ []<>(cpc = "load")
    /\ <>[](status = Running) \/ <>[](status = Stopped)
    => []<>(pc = "idle")

\* The queue is a bounded FIFO of _size - 1 places: the construction of an
\* element takes a place, the store of _head fills it, and the store of _tail
\* delivers it and frees the place.
Waiting == [i \in 1..(Len(log) - F) |->
               [val |-> log[F + i], done |-> F + i <= Published]]
Fifo == INSTANCE BoundedFifo WITH
            Capacity <- Size - 1, line <- Waiting, delivered <- popped
ImplementsFifo == Fifo!FifoSpec
-----------------------------------------------------------------------------
(***************************************************************************)
(* The inductive invariant.                                                *)
(***************************************************************************)
IndexesOK == /\ F <= Published /\ Len(log) <= F + Size - 1
             /\ head = Published % Size
             /\ tail = F % Size
             /\ pc = "construct" => Len(log) < F + Size - 1
             /\ cpc \in {"take", "free"} => F < Published
CellsOK == /\ \A k \in F..(Len(log) - 1) :
                 slot[k % Size] = IF k = F /\ cpc = "free" THEN Raw ELSE log[k + 1]
           /\ \A k \in Len(log)..(F + Size - 1) : slot[k % Size] = Raw
           /\ cpc = "free" => out = log[F + 1]
LogOK == /\ popped = SubSeq(log, 1, F)
         /\ pc = "publish" => log # <<>>
         /\ pc # "idle" => calls > 0
         /\ \A i \in 1..Len(log) :
               IF pc \in {"idle", "publish"} THEN log[i] <= calls ELSE log[i] < calls
         /\ \A i, j \in 1..Len(log) : i < j => log[i] < log[j]
DrainOK == /\ mode = "dtor" => pc = "idle"
           /\ cpc = "dead" => mode = "dtor" /\ Published = F

\* Every reachable state relates the indexes, the cells and the threads so.
IInv == TypeOK /\ IndexesOK /\ CellsOK /\ LogOK /\ DrainOK
=============================================================================
