SPECIFICATION Spec
CONSTANTS
  Confirm = 2
  Wait = 1
  Grace = 1
  Retry = 2
  MainLimit = 6
  GuardLimit = 3
  Period = {1}
  ProbeTime = {0, 1}
  ResetTime = {0, 6}
  TraceTime = {0, 3}
  SetBack = {0, 1}
  MaxCrashes = 1
  Faults = {"torn", "rebootFails"}
INVARIANTS TypeOK LaterBootSuppresses GuardServesThisBoot RebootIsRecorded
PROPERTIES ConfirmedOutage
