--------------------------- MODULE MPSCQueueWords ---------------------------
(***************************************************************************)
(* BoundedMPSCQueue with the arithmetic of the machine.  MPSCQueue counts  *)
(* positions in natural numbers; the code counts in std::size_t, which     *)
(* wraps, masks a position to find its cell, and looks at the sign of a    *)
(* difference taken as intptr_t.                                           *)
(*                                                                         *)
(* The variables are those of MPSCQueue, but whatever a statement looks at *)
(* is first cut down to a word: no guard and no index depends on more.     *)
(* What a statement stores needs no cutting, since Cut(k + 1) depends on   *)
(* Cut(k) only; a state just records besides how often each position has   *)
(* wrapped.  That the difference of two intptr_t wraps too is what the     *)
(* compilers in use make of it; C++ leaves its overflow undefined.         *)
(***************************************************************************)
EXTENDS MPSCQueue

Half == Word \div 2
Cut(k) == k % Word              \* the value of k in a std::size_t
WordCell(k) == Cut(k) % Size    \* & _mask

Signed(d) == IF d < Half THEN d ELSE d - Word   \* read as an intptr_t

\* static_cast<intptr_t>(a) - static_cast<intptr_t>(b)
Diff(a, b) == Signed(Cut(Cut(a) - Cut(b)))
-----------------------------------------------------------------------------
WordLoadSeq(p) ==
    /\ At(p, "seq")
    /\ LET diff == Diff(seq[WordCell(pos[p])], pos[p])
       IN  \/ diff = 0 /\ Goto(p, "cas")
           \/ diff < 0 /\ Refused(p)
           \/ diff > 0 /\ Goto(p, "head")
    /\ UNCHANGED <<queue, pos, blocking, calls, consVars, history>>

WordCasWin(p) ==
    /\ At(p, "cas") /\ Cut(head) = Cut(pos[p])
    /\ head' = pos[p] + 1
    /\ log' = Append(log, Item(p))
    /\ Goto(p, "construct")
    /\ UNCHANGED <<tail, seq, slot, status, pos, blocking, calls, consVars, popped>>

WordCasLose(p) ==
    /\ At(p, "cas") /\ Cut(head) # Cut(pos[p])
    /\ pos' = [pos EXCEPT ![p] = head]
    /\ Goto(p, "seq")
    /\ UNCHANGED <<queue, blocking, calls, consVars, history>>

WordConstruct(p) ==
    /\ At(p, "construct")
    /\ slot' = [slot EXCEPT ![WordCell(pos[p])] = Item(p)]
    /\ Goto(p, "publish")
    /\ UNCHANGED <<head, tail, seq, status, pos, blocking, calls, consVars, history>>

WordPublish(p) ==
    /\ At(p, "publish")
    /\ seq' = [seq EXCEPT ![WordCell(pos[p])] = pos[p] + 1]
    /\ Goto(p, "idle")
    /\ UNCHANGED <<head, tail, slot, status, pos, blocking, calls, consVars, history>>

WordFrontReady == Diff(seq[WordCell(tail)], tail + 1) = 0

WordHit ==
    /\ cpc = "load" /\ WordFrontReady
    /\ cpc' = "advance"
    /\ UNCHANGED <<queue, prodVars, mode, out, history>>

WordMiss ==
    /\ cpc = "load" /\ ~WordFrontReady
    /\ cpc' = [try |-> "idle", blocking |-> "peek", dtor |-> "dead"][mode]
    /\ UNCHANGED <<queue, prodVars, mode, out, history>>

WordTake ==
    /\ cpc = "take"
    /\ out' = slot[WordCell(tail - 1)]
    /\ slot' = [slot EXCEPT ![WordCell(tail - 1)] = Raw]
    /\ cpc' = "free"
    /\ UNCHANGED <<head, tail, seq, status, prodVars, mode, history>>

WordFree ==
    /\ cpc = "free"
    /\ seq' = [seq EXCEPT ![WordCell(tail - 1)] = (tail - 1) + Size]
    /\ popped' = Append(popped, out)
    /\ out' = Raw
    /\ cpc' = IF mode = "dtor" THEN "load" ELSE "idle"
    /\ UNCHANGED <<head, tail, slot, status, prodVars, mode, log>>
-----------------------------------------------------------------------------
\* The steps that look at no position are those of MPSCQueue.
WordNext ==
    \/ \E p \in Producers :
          \/ \E b \in BOOLEAN : PushBegin(p, b)
          \/ SizeLoadHead(p) \/ SizeLoadTail(p)
          \/ BlockingPeek(p) \/ BlockingRecheck(p) \/ PushStatus(p) \/ PushLoadHead(p)
          \/ WordLoadSeq(p) \/ WordCasWin(p) \/ WordCasLose(p)
          \/ WordConstruct(p) \/ WordPublish(p)
    \/ PopCall \/ WordHit \/ WordMiss \/ PopAdvance \/ WordTake \/ WordFree
    \/ PopPeek \/ PopRecheck
    \/ Stop \/ Run \/ Destroy

WordSpec == Init /\ [][WordNext]_vars

\* Between its load of _head and its compare_exchange no producer is suspended
\* for so long that the others push 2^63 - _size elements.
Fresh == \A p \in Producers : pc[p] \in {"seq", "cas"} => head - pos[p] < Half - Size
=============================================================================
