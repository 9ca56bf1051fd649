SPECIFICATION Spec
CONSTANTS
  Exported <- Devices
  Busids <- Asked
  PathLen = 3
  BusidLen = 3
  Word = 8
  Byte = 4
  Nibble = 2
  MaxDevlist = 3
  MaxTransfer = 2
  MaxIso = 1
  Submits <- Transfers
  MaxPdus = 2
INVARIANTS HeardAsSent GotAsPosted RepliesFit ListedAsExported
CHECK_DEADLOCK FALSE
