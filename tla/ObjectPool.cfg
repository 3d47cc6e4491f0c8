CONSTANTS
  t1 = t1
  t2 = t2
  o1 = o1
  o2 = o2
  o3 = o3
  o4 = o4
  Threads = {t1, t2}
  Objects = {o1, o2, o3, o4}
  Requested = 3
  MaxBatch = 3
  Throws = TRUE
SPECIFICATION Spec
SYMMETRY Symmetry
INVARIANTS TypeOK OneOwner Lifetimes RoundsUp
PROPERTIES ImplementsPool
