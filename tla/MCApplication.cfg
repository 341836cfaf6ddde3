SPECIFICATION FairSpec
CONSTANTS
  FtrTmr = 1
  AlertTimeout = 2
  PT = 2
  MaxElapsed = 3
INVARIANTS DrivesOneWay TimersKeepTime
PROPERTIES MovesEnd ValveFailsInTime PulsesKeepTime
