SPECIFICATION Spec
CONSTANTS
  Size = 3
  MaxLen <- MCShortOnes
  Chunk = 2
  Total = 6
INVARIANTS QueuedIsWatched
CHECK_DEADLOCK FALSE
