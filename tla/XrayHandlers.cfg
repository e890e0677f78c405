SPECIFICATION Spec
CONSTANTS
  c1 = c1
  c2 = c2
  Callers = {c1, c2}
  Serves <- SplitRoutes
  Restorer = restorer
  Main = main
  Requests = {r1, r2}
  HashOf <- DistinctHashes
  Cores = {k1, k2}
  None = None
  MaxAttempts = 1
  DisableHashCheck = FALSE
  DiskFails = FALSE
  Ends = {}
SYMMETRY Symmetry
INVARIANTS
  TypeOK
  OneLiveCore
  StopLeavesNothingRunning
  StartFlagIsOwned
PROPERTIES
  OwnedUntilExited
  ImplementsNode
