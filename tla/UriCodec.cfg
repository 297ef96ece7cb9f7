SPECIFICATION Spec
CONSTANTS
  Bytes = {37, 43, 48, 66, 102, 103, 255}
  MaxLength = 5
CHECK_DEADLOCK FALSE
INVARIANTS
  TypeOK
  RoundTrip
  DecodedByPosition
