CONSTANTS
  p1 = p1
  p2 = p2
  Producers = {p1, p2}
  Size = 2
  Word = 16
  MaxCalls <- OneEach
  Raw = Raw
SPECIFICATION Spec
CHECK_DEADLOCK FALSE
INVARIANTS SizeIsACount
