----------------------------- MODULE BoundedFifo -----------------------------
(***************************************************************************)
(* What a bounded queue of SyncTools promises to its users, without rings, *)
(* cells or sequence numbers.  A push first takes a place in line          *)
(* (Reserve), then makes the element visible (Commit); the pop side only   *)
(* ever removes the element at the front of the line, and only once it is  *)
(* visible (Deliver).  Reserve and Commit are two steps because a          *)
(* producer of the MPSC queue can be suspended between winning its place   *)
(* and filling it, and everybody behind it then waits.                     *)
(***************************************************************************)
EXTENDS Naturals, Sequences

CONSTANTS Values,     \* what can be pushed
          Capacity    \* how many elements the queue holds at most

VARIABLES line,       \* the places taken, oldest first: [val, done]
          delivered   \* everything popped so far, in order

fifoVars == <<line, delivered>>

Place == [val : Values, done : BOOLEAN]

FifoInit == /\ line = <<>>
            /\ delivered = <<>>

Reserve(v) == /\ Len(line) < Capacity
              /\ line' = Append(line, [val |-> v, done |-> FALSE])
              /\ UNCHANGED delivered

Commit(i) == /\ ~line[i].done
             /\ line' = [line EXCEPT ![i].done = TRUE]
             /\ UNCHANGED delivered

Deliver == /\ line # <<>>
           /\ Head(line).done
           /\ line' = Tail(line)
           /\ delivered' = Append(delivered, Head(line).val)

FifoNext == \/ \E v \in Values : Reserve(v)
            \/ \E i \in DOMAIN line : Commit(i)
            \/ Deliver

FifoSpec == FifoInit /\ [][FifoNext]_fifoVars
=============================================================================
