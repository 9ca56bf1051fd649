SPECIFICATION AFairSpec
CONSTANTS
  c1 = c1
  c2 = c2
  d1 = d1
  Conns = {c1, c2}
  Devs = {d1}
  MaxSessions = 2
  Persistent = TRUE
  Hotkey = FALSE
  Events = {"close", "unplug", "pollError", "drainTimeout"}
  MaxStale = 1
INVARIANTS
  OneImporter
  StopRestores
PROPERTIES
  SessionKeepsDevice
  StopReturns
  DrainEnds
CHECK_DEADLOCK FALSE
