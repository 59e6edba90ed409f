SPECIFICATION FairSpec
CHECK_DEADLOCK FALSE
CONSTANTS
  Kinds = {"scored", "quick"}
  TickLengths <- MCTickLengths
  Gap = 2
  Debounce = 2
  Blip = 2
  Linger = 2
  Nudge = 2
  Rungs <- MCRungs
  Grace = 1
  Starve = 3
  MaxMute = 1
INVARIANTS
  LadderKeepsUp
  LostWasBroken
  PostedIsOwed
PROPERTIES
  GoodbyeIsLast
  RoomEnds
