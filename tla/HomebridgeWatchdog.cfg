SPECIFICATION WatchdogFairSpec
CONSTANTS
  RestartGrace = 6
  Period = 2
  RestartTime = {0, 1, 5}
  MaxBoots = 2
INVARIANT WatchdogTypeOK
PROPERTIES RestartsSpaced EventuallyRestarted
