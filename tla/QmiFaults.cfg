SPECIFICATION FairSpec
CONSTANTS
  Senders = {s1, s2}
  Kinds = {"PKT_SRVC_STATUS"}
  MaxTid = 1
  MaxRequests = 2
  OpenResults = {"open", "failed"}
  IndTids = {0, 1}
  Faults = {"write", "alloc", "spurious"}
  None = None
INVARIANTS
  TypeOK
  QuietAnswerMatches
  QuietAnswerTakenOnce
PROPERTIES
  CallsReturn
