SPECIFICATION MSpec
CONSTANTS
  Null = Null
  NumPages = 2
  Pages <- TwoPages
  b1 = b1
  Blocks = {b1}
  RingCapacity = 2
  SizeMax = 15
  Policy <- LruPolicy
  TimeMod = 16
  NumTiers = 2
  Capacity <- TwoTierCapacity
  InitLayer <- AllLocal
  UseRing = FALSE
  UninitCounts = {0}
  CountMod = 8
  UsPerMs = 6
  StartClock = 1
  MaxClock = 1
  MaxAccesses = 2
  MaxMoves = 2
  MaxReports = 2
INVARIANTS MTypeOK RowsAddUp DeltasCount LatencyAheadByOne PagesInRow
PROPERTIES ImplementsTiers
CHECK_DEADLOCK FALSE
