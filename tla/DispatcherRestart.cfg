SPECIFICATION FairSpec
CONSTANTS
  MaxRequest = 1
  MaxFailures = 1
  MaxRestarts = 1
PROPERTIES
  OpenIsResolved
  KeepsPromise
CHECK_DEADLOCK FALSE
