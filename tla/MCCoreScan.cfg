SPECIFICATION FairSpec
CONSTANTS
  in1 = in1
  out1 = out1
  a1 = a1
  a2 = a2
  Inputs = {in1}
  Outputs = {out1}
  Virtuals = {}
  Bound = {in1, out1}
  Writable = {in1}
  Raws <- MCRaws
  Engs <- MCEngs
  EngOf <- MCEngOf
  RawOf <- MCRawOf
  InitValue <- MCScannedInit
  Alarms = {a1, a2}
  Watches <- MCScannedWatches
  AlarmConfig <- MCScannedConfig
  MaxElapsed = 1
INVARIANTS InputShowsNewestRaw
PROPERTIES RawValuesAreTaken RawValueArrives OutputReachesModbus ScannedAlarmsFollow
