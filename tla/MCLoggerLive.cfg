SPECIFICATION LiveSpec
CONSTANTS
  Reporters = {"core", "main"}
  Requesters = {"main", "loggerif"}
  c1 = c1
  c2 = c2
  Channels <- BothChannels
  TraceSets <- OnlyOne
  Buffers = {b1, b2}
  None = None
  Failures <- NotCommit
  MaxEvents = 0
INVARIANTS EveryBufferInOnePlace NobodyWaitsInVain
PROPERTIES EveryRequestIsServed RequestersAreReleased
