SPECIFICATION ManagerSpec
CONSTANTS
  Clients <- MCThreads
  Backend = "Quectel"
  Methods = {"connect", "sendMessage"}
  QmiResults = {"true", "false"}
  EarlyCalls = TRUE
  Commands = {}
  ReadSize = 3
  BufferSize = 4
  MaxWrites = 2
  MaxUnsolicited = 0
  Faults = {"throw", "hangup"}
INVARIANTS
  OneQueryPerMethod
  EmittedIsMeasured
  AloneNeverHangs
PROPERTIES
  TurnsAreAStream
CHECK_DEADLOCK FALSE
