SPECIFICATION Spec
CONSTANTS
  Size = 4
  MaxLen <- MCMaxLen
  Chunk = 2
  Total = 14
INVARIANTS NothingLost
PROPERTIES WireInOrder
CHECK_DEADLOCK FALSE
