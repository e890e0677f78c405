SPECIFICATION Spec
CONSTANTS
  c1 = c1
  c2 = c2
  Callers = {c1}
  Serves <- OneHandler
  Restorer = restorer
  Main = main
  Requests = {r1}
  HashOf <- DistinctHashes
  Cores = {k1, k2}
  None = None
  MaxAttempts = 2
  DisableHashCheck = FALSE
  DiskFails = FALSE
  Ends = {}
SYMMETRY Symmetry
INVARIANTS
  DisabledHasNoFile
