SPECIFICATION Spec
CONSTANTS
  Result = {0, 1, 2}
  Faults = {"alloc"}
CHECK_DEADLOCK FALSE
INVARIANTS
  TypeOK
  JumpExactly
  JumpOnlyAsked
