SPECIFICATION FairSpec
CONSTANTS
  Items <- MCItems
  Settings <- MCSettings
  Threads <- MCThreads
  Clients = {hmi}
  MaxRevision = 2
INVARIANTS FileIsWhole StoredIsComplete RevisionIdentifies
PROPERTIES StoreSpec ClientsCatchUp
