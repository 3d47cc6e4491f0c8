CONSTANTS
  t1 = t1
  t2 = t2
  t3 = t3
  Threads = {t1, t2, t3}
  NoThread = NoThread
  SpinCount = 2
  Checks = TRUE
CHECK_DEADLOCK FALSE
SPECIFICATION FairSpec
INVARIANTS MutualExclusion NoLostWakeup AssertionsHold
PROPERTIES TryLockFailsOnlyIfHeld ImplementsLock SomebodyGetsIn SleepersWoken EveryLockerServed
