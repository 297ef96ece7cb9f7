SPECIFICATION EventSpec
CONSTANTS
  BufferSizes = {7, 8, 9, 11}
  WordSets = {
    {},
    {"error"},
    {"timeout", "not_found"},
    {"invalid_response"},
    {"error", "timeout", "invalid_response", "not_found"},
    {"error", "timeout", "invalid_response", "not_found", "off"}}
  Servers = 2
  MaxIdle = 1
  MaxBody = 2
  MaxSent = 3
INVARIANTS
  TypeOK
  NoGap
  KeepaliveWhole
  NoIdleWait
  HonestServed
  OffAsksOnce
PROPERTIES
  EndsWithoutTimer
CHECK_DEADLOCK FALSE
