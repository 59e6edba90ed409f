SPECIFICATION PartsSpec
CHECK_DEADLOCK FALSE
CONSTANTS
  j1 = j1
  j2 = j2
  Total = 1
  MaxIndex = 2
  MintCap = 2
  ResumeCap = 1
  ScoreCap = 2
  Jobs <- MCJobs2
  MaxBoots = 2
  LongStages = FALSE
  BaseMs = {3000, 5000}
  UnreachableMs = 5000
  POLL_MAX_INTERVAL_MS = 60000
  POLL_BUDGET_MS = 600000
  MaxFlaps = 1
  Tabs = {t1, t2}
  quick_package_cap = 1
  compile_retry_cap = 2
  MaxMade = 2
  MaxMishaps = 1
INVARIANTS
  SpendBounded
  ScoredHasReport
  QuotaHeld
  
  
PROPERTIES
  SettledIsFinal
  
  ScoringEnds
  PeopleAreServed
