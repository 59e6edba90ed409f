SPECIFICATION FairSpec
CONSTANTS
  p1 = p1
  s1 = s1
  k1 = k1
  r1 = r1
  r2 = r2
  Packages <- MCPackages
  Sessions <- MCSessions
  Keys <- MCKeys
  Place <- MCPlace
  Home <- MCHome
  Filed <- MCFiled
  Requests <- MCRequests
  MaxFaults = 1
CHECK_DEADLOCK FALSE
INVARIANTS
  LeftoversAreLate
  SignedOutOwnsNothing
PROPERTIES
  Erased
