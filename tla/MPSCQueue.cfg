CONSTANTS
  p1 = p1
  p2 = p2
  Producers = {p1, p2}
  Size = 2
  Word = 16
  MaxCalls <- TwoAndOne
  Raw = Raw
SPECIFICATION FairSpec
CHECK_DEADLOCK FALSE
INVARIANTS SizeWrongOnlyIfOvertaken StorageOwned NothingLost PerProducerFifo DestructorDrains
PROPERTIES RefusedOnlyWhenFull EmptyOnlyWhenFrontMissing ImplementsFifo
PROPERTIES StopUnblocks EverythingDelivered 
