SPECIFICATION FairSpec
CONSTANTS
  c1 = c1
  c2 = c2
  c3 = c3
  c4 = c4
  Connection = {c1, c2, c3, c4}
  ConnectionLimit = 3
  RequestLimit = 2
INVARIANTS
  PermitsFit
  RuntimeOutlivesHandlers
PROPERTIES
  PermitsComeBack
  StopCompletes
CHECK_DEADLOCK FALSE
