SPECIFICATION Spec
CONSTANTS
  Result = {1}
  Faults = {}
CHECK_DEADLOCK FALSE
INVARIANTS
  CookieWritten
