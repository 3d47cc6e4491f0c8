---------------------------- MODULE MCLockedPool ----------------------------
(* Model values for the run of LockedPool.  It checks liveness, which *)
(* symmetry could hide, so none is declared.                          *)
EXTENDS LockedPool

CONSTANTS t1, t2, t3, o1, o2
=============================================================================
