SPECIFICATION FairSpec
CONSTANTS
  Clients = {c1}
  Commands = {"CPIN", "CMGS", "PDU"}
  ReadSize = 2
  BufferSize = 9
  MaxWrites = 2
  MaxUnsolicited = 1
  Faults = {"silent", "hangup"}
INVARIANTS
  CleanReplyIsOwn
PROPERTIES
  CommandsReturn
  ImplementsLineStream
CHECK_DEADLOCK FALSE
