SPECIFICATION Spec
CONSTANTS
  Senders = {s1, s2}
  Kinds = {"PKT_SRVC_STATUS", "SYS_INFO"}
  MaxTid = 3
  MaxRequests = 3
  OpenResults = {"open"}
  IndTids = {0}
  Faults = {}
  None = None
SYMMETRY SenderSymmetry
INVARIANTS
  QuietAnswerIsOwn
  QuietSuccessHasAnswer
  NoLostWakeup
  IndicationNeverAnswers
  OnlyReplacedAreEvents
CHECK_DEADLOCK TRUE
