SPECIFICATION Spec
CONSTANTS
  p1 = p1
  m1 = m1
  Pool = {p1}
  Model = {m1}
  PoolOf <- OnePoolOf
  Grant <- OneGrant
  Key = {k1}
  Budget = 2
  Liabilities = {1, 2}
  Reports = {0, 2}
  ManualScopes <- GlobalScope
  MaxId = 2
  MaxEpoch = 2
  MaxGeneration = 3
INVARIANTS
  TypeOK
  BooksBalance
  GrantHeld
  ExternalNeverTrails
  SentIsHeld
  CarriedForward
  ExposureWithinBudget
PROPERTY
  EvidenceStopsAdmission
