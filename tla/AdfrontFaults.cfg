SPECIFICATION Spec
CONSTANTS
  Methods <- MCMethods
  BodyReads <- MCBodyReads
  Rounds = {1, 2, 3, 4}
  Faults <- MCFaults
  MaxSub = 8
  MaxSubrequests = 5
INVARIANTS
  TypeOK
  CountBalance
  NeverStuck
  ContextOnce
  FreedComplete
PROPERTIES
  AnsweredAfterAll
  PluginCalledInOrder
  Termination
  EveryStepCounts
