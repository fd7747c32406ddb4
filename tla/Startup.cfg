SPECIFICATION FairSpec
CONSTANTS
  Ports = {p1, p2}
  Devices <- MCDevices
  Pids = {q1, q2}
  Self = q1
  KillTries = 1
  MaxPlugs = 1
  MaxChanges = 1
  None = None
  Services <- MCServices
  PoolSize = 2
  MaxMessages = 2
  MaxHangUps = 1
INVARIANTS
  PairIsOneDevice
  CompleteModemIsFound
  OnlyHoldersSignalled
  ClientsAfterBrothers
PROPERTIES
  MessagesAreRead
  StopEnds
  StartupEnds
CHECK_DEADLOCK FALSE
