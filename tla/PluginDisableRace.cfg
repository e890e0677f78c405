SPECIFICATION Spec
CONSTANTS
  panel = panel
  starter = starter
  plain = plain
  tagged = tagged
  placed = placed
  bad = bad
  f1 = f1
  f2 = f2
  Handlers = {panel, starter}
  Serves <- PanelAndStarter
  Plugins = {plain, tagged, placed, bad}
  Valid = {plain, tagged, placed}
  Blocker <- SampleBlocker
  Filters <- SampleFilters
  None = None
  NftAvailable = TRUE
  NftFails = FALSE
INVARIANTS
  DisabledIsNotServed
