SPECIFICATION RollbackSpec
CONSTANTS
  p1 = p1
  p2 = p2
  m1 = m1
  m2 = m2
  Pool = {p1, p2}
  Model = {m1, m2}
  PoolOf <- TwoPoolsOf
  Grant <- TwoGrants
  Key = {}
  Budget = 0
  Liabilities = {1, 2}
  Reports = {2}
  ManualScopes <- NoScopes
  MaxId = 2
  MaxEpoch = 1
  MaxGeneration = 4
INVARIANTS
  SentIsHeld
  BooksBalance
