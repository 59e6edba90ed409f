SPECIFICATION SeriesSpec
CHECK_DEADLOCK FALSE
CONSTANTS
  j1 = j1
  Total = 2
  MaxIndex = 3
  MintCap = 1
  ResumeCap = 1
  ScoreCap = 1
  Jobs <- MCJobs
  MaxBoots = 1
  LongStages = FALSE
  Dims <- MCDims
  Weight <- MCWeight
  Content <- MCContent
  Indirect <- MCIndirect
  Fit <- MCFit
  Bank <- MCBank
  Templates = 2
  Probes = 2
  Reports <- MCReports
  NoWindow = NoWindow
INVARIANTS
  PlansAreSound
  StartTellsTrue
  
PROPERTIES
  CardKeepsItsWord
  
