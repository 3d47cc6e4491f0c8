----------------------------- MODULE MCMPSCQueue -----------------------------
(* Model values and call bounds for the runs of MPSCQueue.  They check *)
(* liveness, which symmetry could hide, so none is declared.           *)
EXTENDS MPSCQueueWords

CONSTANTS p1, p2

OneEach == [p \in Producers |-> 1]
TwoAndOne == [p \in Producers |-> IF p = p1 THEN 2 ELSE 1]
=============================================================================
