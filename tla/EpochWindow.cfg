SPECIFICATION Spec
CONSTANTS
  Request = {r1, r2}
  DaySeconds = 8
  Uncertainty = 2
  OpenDelay = 2
  MaxReadingAge = 2
  MaxLag = 1
  DriftPeriod = 2
  StartTime = 4
  MaxTime = 14
  MaxRestarts = 1
SYMMETRY Interchangeable
INVARIANTS
  TypeOK
  NeverOpenedEarly
  InFlightCounted
PROPERTIES
  OpenedAfterDelay
  AdmittedOnItsDay
CHECK_DEADLOCK FALSE
