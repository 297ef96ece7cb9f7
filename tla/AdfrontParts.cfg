SPECIFICATION Safety
CONSTANTS
  Methods <- PostOnly
  BodyReads <- InParts
  Rounds = {1}
  Faults <- NoFaults
  MaxSub = 1
  MaxSubrequests = 6
INVARIANT
  PartsServed
