SPECIFICATION Spec
CONSTANTS
  c1 = c1
  c2 = c2
  Callers = {c1}
  Serves <- OneHandler
  Restorer = restorer
  Main = main
  Requests = {r1}
  HashOf <- DistinctHashes
  Cores = {k1, k2}
  None = None
  MaxAttempts = 1
  DisableHashCheck = FALSE
  DiskFails = TRUE
  Ends = {}
SYMMETRY Symmetry
INVARIANTS
  DisabledStays
