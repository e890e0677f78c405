SPECIFICATION Spec
CONSTANTS
  u1 = u1
  u2 = u2
  t1 = t1
  t2 = t2
  None = None
  Handlers = {h1}
  Users = {u1}
  Tags = {t1, t2}
  Versions <- TwoVersions
  Addrs = {a1, a2}
  Whitelisted = {a2}
  Configs <- OneUserConfigs
  Bases = {b1}
  MaxCalls = 2
  MaxStarts = 2
  MaxConnects = 2
  MaxFaults = 1
CONSTRAINT ConnectionsOrStarts
INVARIANT TypeOK
INVARIANT HashedIsServed
INVARIANT SkippedStartIsServed
INVARIANT CollectedAreGone
CHECK_DEADLOCK FALSE
