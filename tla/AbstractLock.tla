---------------------------- MODULE AbstractLock ----------------------------
(***************************************************************************)
(* What a lock promises: one thread at a time is between its acquisition   *)
(* and its release.  Nothing is said of how a thread waits, nor of the     *)
(* order in which waiting threads are served.                              *)
(***************************************************************************)
CONSTANT Threads

VARIABLE holders        \* the threads that own the lock

LockInit == holders = {}

Acquire(t) == holders = {} /\ holders' = {t}

Release(t) == holders = {t} /\ holders' = {}

LockNext == \E t \in Threads : Acquire(t) \/ Release(t)

LockSpec == LockInit /\ [][LockNext]_holders
=============================================================================
