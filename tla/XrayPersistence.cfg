SPECIFICATION Spec
CONSTANTS
  c1 = c1
  c2 = c2
  Callers = {c1}
  Serves <- OneHandler
  Restorer = restorer
  Main = main
  Requests = {r1, r2}
  HashOf <- EqualHashes
  Cores = {k1, k2}
  None = None
  MaxAttempts = 2
  DisableHashCheck = FALSE
  DiskFails = FALSE
  Ends = {"signal", "crash"}
SYMMETRY Symmetry
INVARIANTS
  ServingIsRemembered
  FileFollowsRequest
  DisabledStays
