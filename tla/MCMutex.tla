------------------------------ MODULE MCMutex ------------------------------
(* Model values for the runs of Mutex.  They check liveness, which symmetry *)
(* could hide, so none is declared. *)
EXTENDS Mutex

CONSTANTS t1, t2, t3
=============================================================================
