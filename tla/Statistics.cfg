CONSTANTS
  None = None
  h1 = h1
  h2 = h2
  addr = addr
  Handlers = {h1, h2}
  Tags = {addr}
  Ops = {"users", "combined", "outbound"}
  MaxBytes = 2
  MaxFaults = 1
  u1 = u1
  u2 = u2
  u3 = u3
  Users = {u1, u2, u3}
  Metrics <- SomeMetrics
  Workers = {w1, w2}
  Addresses = {addr}
  OtherForm = OtherForm
  Callers = {h1, h2}
  Limits <- SmallLimits
  MaxOutput = 3
  Starts <- NearWrap
  CounterBits = 2
  MaxCarried = 2
  MaxAge = 2
  NoSample = NoSample
  Sides = {node, panel}
  Values <- ShortStrings
  Width = 16
SPECIFICATION StatisticsSpec
INVARIANTS
  StatisticsTypeOK EveryByteOnce TakenIsListed ReportIsWhole RateIsCarried HashIsOfMembers
PROPERTIES
  ReportingGoesOn
