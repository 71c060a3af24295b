SPECIFICATION FairSpec
CONSTANTS
  Null = Null
  NumPages = 3
  Pages <- Pages3
  b1 = b1
  Blocks = {b1}
  RingCapacity = 1
  SizeMax = 15
  Policy <- FrequencyPolicy
  TimeMod = 16
  NumTiers = 3
  Capacity <- Capacity212
  InitLayer <- Init111
  UseRing = FALSE
  UninitCounts = {0}
  CountMod = 8
  UsPerMs = 6
  StartClock = 1
  MaxClock = 1
  MaxAccesses = 4
  MaxMoves = 3
INVARIANTS TypeOK WithinCapacity FlowBalance PromotionStillJustified NoPromotionWithoutAccess
PROPERTIES ImplementsTiers HotPageLeavesPmem
CHECK_DEADLOCK FALSE
