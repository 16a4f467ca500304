SPECIFICATION Spec
CONSTANTS
  Rows = {a, b}
INVARIANT CommitsOnlyOnNil
CHECK_DEADLOCK FALSE
