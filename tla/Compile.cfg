SPECIFICATION Spec
CHECK_DEADLOCK FALSE
SYMMETRY Symmetry
CONSTANTS
  p1 = p1
  p2 = p2
  p3 = p3
  h1 = h1
  h2 = h2
  j1 = j1
  j2 = j2
  NoPackage = NoPackage
  Packages <- MCPackages
  Handlers <- MCHandlers
  Jobs <- MCJobs
  Concurrency = 1
  MaxPackages = 1
  PerRedemption = 2
  RetryCap = 1
  MaxBoots = 2
  LongCompiles = TRUE
INVARIANTS
  CompileCapsHeld
