---------------------------- MODULE MCObjectPool ----------------------------
(* Model values and symmetry for the run of ObjectPool: neither threads nor *)
(* nodes are told apart.                                                    *)
EXTENDS ObjectPool, TLC

CONSTANTS t1, t2, o1, o2, o3, o4

Symmetry == Permutations(Threads) \cup Permutations(Objects)
=============================================================================
