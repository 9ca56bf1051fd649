SPECIFICATION ThreadFairSpec
CONSTANTS
  s1 = s1
  s2 = s2
  Seqs = {s1, s2}
  MaxSessions = 1
  OutboxDepth = 1
  Persistent = FALSE
  Hotkey = FALSE
  Events = {"unplug", "terminate"}
PROPERTIES
  SessionEnds
  CompletionAnswered
