SPECIFICATION Safety
CONSTANTS
  Methods <- GetOnly
  BodyReads <- WholeBody
  Rounds = {1}
  Faults <- NoFaults
  MaxSub = 1
  MaxSubrequests = 6
INVARIANT
  PluginErrorRefused
