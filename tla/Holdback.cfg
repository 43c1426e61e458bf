SPECIFICATION FairSpec
CONSTANTS
  t1 = t1
  t2 = t2
  t3 = t3
  Task = {t1, t2, t3}
  Waits <- MCWaits
  MIN_BACKOFF = 2
  MAX_BACKOFF = 3
  Threshold = 2
  InitialCooldown = 1
  MaxCooldown = 3
INVARIANTS
  OncePerHold
  GateHonoured
PROPERTIES
  HoldsGrow
  NotHeldForever
