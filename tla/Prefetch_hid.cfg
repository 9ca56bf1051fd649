SPECIFICATION FairSpec
CONSTANTS
  a1 = a1
  Eps = {a1}
  Depth = 2
  MaxErrors = 2
  Base = 8
  Top = 10
  OneUrb = TRUE
  Refusals = TRUE
  MaxReports = 4
  MaxSubmits = 3
INVARIANTS
  ReportsInOrder
  NoneHeldFromWaiter
  HeldAreFreshest
  UrbsAreKnown
  NoSubmitForgotten
PROPERTIES
  CompletionSettlesWaiter
