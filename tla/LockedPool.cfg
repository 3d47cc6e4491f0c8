CONSTANTS
  t1 = t1
  t2 = t2
  t3 = t3
  o1 = o1
  o2 = o2
  NoThread = NoThread
  Threads = {t1, t2}
  SpinCount = 1
  Checks = TRUE
  Objects = {o1, o2}
  Requested = 2
  MaxBatch = 2
  Throws = TRUE
CHECK_DEADLOCK FALSE
SPECIFICATION FairSpec
PROPERTIES ImplementsObjectPool CallsReturn
