SPECIFICATION Spec
CONSTANTS
  Responders = {"long", "deck"}
  Advert <- Adverts
  Ports = {1, 2}
  Wired <- Cut
  Lower <- Small
  Configured <- Static
  Asked <- Questions
  MaxRecords = 4
  MaxBrowses = 2
  MaxReads = 2
  MaxStarts = 2
  MaxSent = 5
INVARIANTS FoundIsOffered HeardIsFound
CHECK_DEADLOCK FALSE
