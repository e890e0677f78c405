CONSTANTS
  u1 = u1
  u2 = u2
  t1 = t1
  t2 = t2
  None = None
  Handlers = {h1, h2}
  Users = {u1, u2}
  Tags = {t1}
  Versions <- OneVersion
  Addrs = {a1}
  Whitelisted = {}
  Configs <- SingleConfigs
  Bases = {b1}
  MaxCalls = 2
  MaxStarts = 2
  MaxConnects = 0
  MaxFaults = 0
SPECIFICATION Spec
INVARIANT HashesAgree
SYMMETRY Symmetry
CHECK_DEADLOCK FALSE
