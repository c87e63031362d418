SPECIFICATION FairSpec
CONSTANTS
  k1 = k1
  k2 = k2
  d1 = d1
  d2 = d2
  Processes = {p1, p2}
  Keys = {k1, k2}
  Digests = {d1, d2}
  Requests <- MCRequests
  MaxCrashes = 1
  Orphans = TRUE
  NoProcess = NoProcess
  NoRequest = NoRequest
  NoKey = NoKey
INVARIANTS
  TypeOK
  CommandAtMostOnce
  SoleOperation
  CommittedIsDone
  SerialUntilCrash
  ToldTruth
PROPERTIES
  SettledForGood
  KeepsLogPromises
  EveryCallReturns
