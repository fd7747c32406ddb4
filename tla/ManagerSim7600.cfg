SPECIFICATION ManagerSpec
CONSTANTS
  Clients <- MCThreads
  Backend = "Sim7600"
  Methods = {"disconnect", "getMobileInfo", "sendMessage"}
  QmiResults = {}
  EarlyCalls = FALSE
  Commands = {}
  ReadSize = 3
  BufferSize = 4
  MaxWrites = 5
  MaxUnsolicited = 0
  Faults = {"silent"}
INVARIANTS
  SuccessIsReal
CHECK_DEADLOCK FALSE
