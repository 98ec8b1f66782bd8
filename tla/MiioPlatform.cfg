SPECIFICATION FairSpec
CONSTANTS
  Plugs = {p1, p2}
  Others = {lamp}
  MaxCalls = 2
  Budget = 2
INVARIANTS TypeOK RegisteredOnce
PROPERTY SeenInTheEnd
CHECK_DEADLOCK FALSE
