SPECIFICATION Spec
CHECK_DEADLOCK FALSE
CONSTANTS
  Tabs = {t1, t2}
  score_attempt_cap = 2
  MaxLosses = 2
  NoTake = NoTake
INVARIANTS
  RetryReachesReport
