SPECIFICATION Spec
CHECK_DEADLOCK FALSE
CONSTANTS
  Script <- ScoringScript
  QueueWait = 15
  Deadline = 30
  CallTimeout = 8
  LocalWork = 1
  MaxAttempts = 4
  FirstWait = 0
  Multiplier = 2
  MaxWait = 0
  Jitter = 0
  Stale = 30
INVARIANTS
  OverrunBounded
