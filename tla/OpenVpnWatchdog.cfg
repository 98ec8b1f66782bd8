SPECIFICATION FairSpec
CONSTANTS
  Confirm = 1
  RateLimit = 4
  Period = 1
  ProbeTime = {0, 1}
  RestartTime = {0, 3}
  Limit = 3
  SetBack = {0, 2}
  MaxBoots = 2
INVARIANT TypeOK
PROPERTIES ConfirmedFailure TunnelRestartsSpaced DeadTunnelRestarted
