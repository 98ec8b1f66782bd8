SPECIFICATION FairSpec
CONSTANTS
  Sockets = {s1, s2}
  MaxFaults = 3
  ShellListed = TRUE
PROPERTY AnsweredInTheEnd
CHECK_DEADLOCK FALSE
