SPECIFICATION Spec
CONSTANTS
  c1 = c1
  c2 = c2
  c3 = c3
  d1 = d1
  d2 = d2
  Conns = {c1, c2, c3}
  Devs = {d1, d2}
  MaxSessions = 2
  Persistent = FALSE
  Hotkey = TRUE
  Events = {"close", "unplug", "terminate", "hangup", "claimFails", "spawnFails", "cloneFails", "rebindFails", "pollError", "drainTimeout"}
SYMMETRY ConnSymmetry
INVARIANTS
  SuspendedNotImported
  HandedBack
  ExitRestores
