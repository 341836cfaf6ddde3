SPECIFICATION Spec
CONSTANTS
  Reporters = {"core", "main"}
  Requesters = {"main", "loggerif"}
  c1 = c1
  c2 = c2
  Channels <- BothChannels
  TraceSets <- OneOrOther
  Buffers = {b1, b2}
  None = None
  Failures <- OnlyCommit
  MaxEvents = 2
INVARIANTS TypeOK TracedRowsOnly AlarmLogInOrder
PROPERTIES SetInForce
SYMMETRY BothSymmetries
