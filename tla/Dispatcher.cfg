SPECIFICATION Spec
CONSTANTS
  MaxRequest = 2
  MaxFailures = 1
  MaxRestarts = 0
INVARIANTS
  TypeOK
  NotSentIsTrue
  HandoverHolds
PROPERTY
  KeepsPromise
CHECK_DEADLOCK FALSE
