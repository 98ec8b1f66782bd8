SPECIFICATION FairSpec
CONSTANTS
  Robots = {"v1", "c1", "s5", "s5e", "e2", "a10", "a23", "viomi"}
  Sent = {0, 40, 100}
  MaxRunning = 3
  MaxRequests = 3
  Failing = TRUE
INVARIANTS TypeOK SettledTogether ShownSelectsItself
PROPERTY Settles
CHECK_DEADLOCK FALSE
