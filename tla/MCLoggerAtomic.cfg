SPECIFICATION Spec
CONSTANTS
  Reporters = {"core", "main"}
  Requesters = {"main", "loggerif"}
  c1 = c1
  c2 = c2
  Channels <- BothChannels
  TraceSets <- NoneOrBoth
  Buffers = {b1, b2}
  None = None
  Failures <- Statement
  MaxEvents = 1
INVARIANTS SetIsAllOrNothing
