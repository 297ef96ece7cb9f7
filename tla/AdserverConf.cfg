SPECIFICATION Spec
CONSTANTS
  Sizes = {100, 200}
  ngx_pagesize = 4096
  WordLists = {{"timeout"}, {"off"}}
  Groups = {"g1", "g2"}
  Locations = 2
  None = None
CHECK_DEADLOCK FALSE
INVARIANTS
  TypeOK
  NearestWins
