SPECIFICATION Spec
CONSTANTS
  Request = {r1, r2, r3, r4}
  DaySeconds = 3
  DailyLimit = 3
  MaxInWindow = 2
  WindowSeconds = 1
  Backoffs = {2}
  MaxTime = 3
SYMMETRY Interchangeable
INVARIANTS
  TypeOK
  WindowHeld
  DayHeld
CHECK_DEADLOCK FALSE
