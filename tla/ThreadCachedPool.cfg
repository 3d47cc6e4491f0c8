CONSTANTS
  t1 = t1
  t2 = t2
  t3 = t3
  p1 = p1
  p2 = p2
  n1 = n1
  n2 = n2
  n3 = n3
  n4 = n4
  Threads = {t1, t2, t3}
  Pools = {p1}
  Nodes = {n1, n2, n3, n4}
  BatchSize = 2
  CacheFlushThreshold = 3
  Throws = TRUE
SPECIFICATION Spec
SYMMETRY Symmetry
INVARIANTS TypeOK OneOwner Lifetimes
