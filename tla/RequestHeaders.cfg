SPECIFICATION Spec
CONSTANTS
  QuerySymbols = {"&", "=", "x", "%26", "?&platform", "__cookie__", "__method__"}
  MaxArgs = 5
  Symbols <- MCSymbols
  Requests <- MCRequests
CHECK_DEADLOCK FALSE
INVARIANTS
  TypeOK
  FirstPairWins
  OwnKeysWin
  AddressOfForward
  HeadersSpaced
  BodyWhole
