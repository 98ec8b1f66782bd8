SPECIFICATION FairSpec
CONSTANTS
  Sockets = {s1, s2}
  MaxFaults = 4
  ShellListed = FALSE
INVARIANTS TypeOK NoStaleRelay
PROPERTY AnsweredInTheEnd
CHECK_DEADLOCK FALSE
