CONSTANTS
  panel = panel
  starter = starter
  plain = plain
  tagged = tagged
  placed = placed
  bad = bad
  f1 = f1
  f2 = f2
  Handlers = {panel, starter}
  Serves <- PanelWithRecreate
  Plugins = {plain, tagged, placed, bad}
  Valid = {plain, tagged, placed}
  Blocker <- SampleBlocker
  Filters <- SampleFilters
  None = None
  NftAvailable = TRUE
  NftFails = TRUE
  addr1 = addr1
  addr2 = addr2
  Events = {e1, e2}
  IPs = {addr1, addr2}
  Callers = {h1, h2}
  Source <- OneSource
  Payloads <- AllPayloads
  Requests <- AllRequests
  Nil = Nil
  ScriptFails = TRUE
SYMMETRY Symmetry
SPECIFICATION PluginsSpec
INVARIANTS
  PluginsTypeOK StoredIsInstalled EnabledIsServed
  BlockedIsCut AcceptedIsDone ReportedOnce
PROPERTIES
  ReportsAreKept
