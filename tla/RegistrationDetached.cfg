SPECIFICATION Spec
CONSTANTS
  Workers = {w1}
  Callers = {c1}
PROPERTY DetachedIsNotRegistered
