SPECIFICATION Spec
CONSTANTS
  Null = Null
  NumPages = 3
  Pages <- Pages3
  b1 = b1
  Blocks = {b1}
  RingCapacity = 1
  SizeMax = 15
  Policy <- LruPolicy
  TimeMod = 16
  NumTiers = 3
  Capacity <- Capacity212
  InitLayer <- Init111
  UseRing = FALSE
  UninitCounts = {0}
  CountMod = 4
  UsPerMs = 6
  StartClock = 1
  MaxClock = 4
  MaxAccesses = 2
  MaxMoves = 3
INVARIANTS AgeIsReal
CHECK_DEADLOCK FALSE
