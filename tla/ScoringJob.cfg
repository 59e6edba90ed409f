SPECIFICATION PartsSpec
CHECK_DEADLOCK FALSE
CONSTANTS
  Script <- CompileScript
  QueueWait = 2
  Deadline = 4
  CallTimeout = 2
  LocalWork = 1
  MaxAttempts = 2
  FirstWait = 1
  Multiplier = 2
  MaxWait = 2
  Jitter = 1
  Stale = 7
  Samples = 3
  Workers = 2
  Draws = {29, 45}
  Descriptions <- MCDescriptions
  Replies <- MCReplies
  Transcripts <- MCTranscripts
  DeliveryReplies <- MCDeliveryReplies
  PastRows <- MCPastRows
  Slots = 3
  Tabs = {t1, t2}
  score_attempt_cap = 2
  MaxLosses = 1
  NoTake = NoTake
INVARIANTS
  OverrunBounded
  
  JobEndsInOrder
  ReportReadsOne
  NumbersAddUp
  
PROPERTIES
  NothingStalls
