SPECIFICATION FairSpec
CONSTANTS
  Confirm = 1
  Wait = 1
  Grace = 5
  Retry = 1
  MainLimit = 10
  GuardLimit = 4
  Period = {1}
  ProbeTime = {0, 1}
  ResetTime = {0, 11}
  TraceTime = {0, 1}
  SetBack = {1}
  MaxCrashes = 1
  Faults = {}
INVARIANT DeadlineCoversWait
PROPERTIES ServicesReleased OutageMetByReboot OutageKeepsBeingRetried
