SPECIFICATION Spec
SYMMETRY HandlerSymmetry
CONSTANTS
  h1 = h1
  h2 = h2
  Handlers <- MCHandlers
  Total = 1
  MaxIndex = 1
  MintCap = 2
  ResumeCap = 2
  ScoreCap = 2
INVARIANTS
  CapsHeld
PROPERTIES
  ReclaimedWasSilent
