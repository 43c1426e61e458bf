CONSTANTS
  Inline <- MCInline
  MaxNesting = 9
  Documents <- MCDocuments
  Catalog <- MCCatalog
  Routes <- MCRoutes
  Texts <- MCTexts
  TokensOf <- MCTokens
  Allowance = 18
  SynchronousOutput = 4
  SynchronousBytes = 3
  SynchronousCharacters = 2
  Widest = 50
SPECIFICATION Spec
INVARIANTS
  LiabilityCovers
  ForegroundIsSmall
  NothingBilledElsewhere
  NormalFormIsStable
  SecondRouteIsSafe
  CountBodiesAreValid
CHECK_DEADLOCK FALSE
