SPECIFICATION FairSpec
CONSTANTS
  Values <- MCValues
  SetPoints <- MCSetPoints
  Delays <- MCDelays
  MaxElapsed = 3
PROPERTIES DelayHonoured JournalSpec FollowsCondition
