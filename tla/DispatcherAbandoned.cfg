SPECIFICATION FairSpec
CONSTANTS
  MaxRequest = 1
  MaxFailures = 0
  MaxRestarts = 0
PROPERTY
  ReservationsComplete
CHECK_DEADLOCK FALSE
