SPECIFICATION Spec
CONSTANTS
  s1 = s1
  s2 = s2
  Seqs = {s1, s2}
  MaxSessions = 2
  OutboxDepth = 1
  Persistent = TRUE
  Hotkey = TRUE
  Events = {"close", "pollError", "unplug", "terminate"}
SYMMETRY SeqSymmetry
INVARIANTS
  TypeOK
  AnsweredAtMostOnce
  RepliesAreOwn
  QuietBetweenSessions
  TableMatchesKernel
  NoSubmitLost
PROPERTIES
  NoAnswerAfterReset
  KeepsLedger
