CONSTANTS
  t1 = t1
  t2 = t2
  t3 = t3
  Threads = {t1, t2}
  NoThread = NoThread
  SpinCount = 1
  Checks = FALSE
CHECK_DEADLOCK FALSE
SPECIFICATION FairSpec
PROPERTIES NoStarvation
