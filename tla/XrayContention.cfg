SPECIFICATION FairSpec
CONSTANTS
  c1 = c1
  c2 = c2
  Callers = {c1, c2}
  Serves <- StartAndStop
  Restorer = restorer
  Main = main
  Requests = {r1}
  HashOf <- DistinctHashes
  Cores = {k1}
  None = None
  MaxAttempts = 2
  DisableHashCheck = FALSE
  DiskFails = TRUE
  Ends = {}
PROPERTIES
  CallsReturn
  RestoreEnds
