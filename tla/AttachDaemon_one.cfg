SPECIFICATION FairSpec
CONSTANTS
  Servers = {s1, s2}
  Busids = {b1}
  Ports <- TwoPorts
  StopAfterFirst = TRUE
  Records = FALSE
  RetryMin = 1
  RetryMax = 3
  Nothing = Nothing
  Foreign = Foreign
  Events <- OwnEvents
INVARIANT OneController
INVARIANT AttachmentsTracked
INVARIANT FailedPortsTracked
PROPERTY Reattaches
