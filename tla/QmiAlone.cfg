SPECIFICATION FairSpec
CONSTANTS
  Senders = {s1}
  Kinds = {"PKT_SRVC_STATUS", "SYS_INFO"}
  MaxTid = 3
  MaxRequests = 3
  OpenResults = {"open", "failed", "none"}
  IndTids = {0}
  Faults = {"write", "alloc", "spurious"}
  None = None
PROPERTIES
  ImplementsQmiCall
