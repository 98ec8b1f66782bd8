SPECIFICATION FairSpec
CONSTANTS
  Calls = {c1, c2}
  Retries = 3
  Timeout = 5
  Delay = {1}
  Late = {6}
  MaxLost = 2
  IdLimit = 9
  Stride = 2
  FirstIds = {0, 7}
  Faults = {"send"}
INVARIANTS TypeOK TimeoutNeedsFaults PromisesBounded
PROPERTIES AtLeastOnce CallsSettle
