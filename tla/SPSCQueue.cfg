CONSTANTS
  Size = 4
  MaxCalls = 6
  Raw = Raw
SPECIFICATION FairSpec
CHECK_DEADLOCK FALSE
INVARIANTS StorageOwned NothingLost InOrder CountExact DestructorDrains
PROPERTIES RefusedOnlyWhenFull EmptyOnlyWhenEmpty ImplementsFifo StopUnblocks EverythingDelivered PushReturns
