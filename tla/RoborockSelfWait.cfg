SPECIFICATION FairSpec
CONSTANTS
  Callers = {r1, r2}
  AutoRoom = TRUE
  MaxDestroy = 2
  DestroyedAt = {"miio", "rooms", "serial", "firmware", "state"}
PROPERTY ConnectionRecovers
