SPECIFICATION Spec
CONSTANTS
  Workers = {w1, w2}
  Callers = {c1}
SYMMETRY ThreadSymmetry
INVARIANTS
  TypeOK
  QuietRefreshIsFaithful
  MessageMatchesRadio
 
CHECK_DEADLOCK TRUE
