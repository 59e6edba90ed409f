SPECIFICATION Spec
CONSTANTS
  h1 = h1
  h2 = h2
  Handlers <- MCHandlers
  Total = 1
  MaxIndex = 2
  MintCap = 1
  ResumeCap = 1
  ScoreCap = 2
INVARIANT
  QuotaHeld
