SPECIFICATION Spec
CONSTANTS
  Servers = {s1}
  Busids = {b1, b2}
  Ports <- TwoPorts
  StopAfterFirst = FALSE
  Records = TRUE
  RetryMin = 1
  RetryMax = 2
  Nothing = Nothing
  Foreign = Foreign
  Events <- AllEvents
PROPERTY HealthyNeverDetached
