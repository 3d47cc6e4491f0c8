------------------------- MODULE MCThreadCachedPool -------------------------
(* Model values and symmetry (of the threads) for the runs of *)
(* ThreadCachedPool.                                          *)
EXTENDS ThreadCachedPool, TLC

CONSTANTS t1, t2, t3, p1, p2, n1, n2, n3, n4

Symmetry == Permutations(Threads)
=============================================================================
