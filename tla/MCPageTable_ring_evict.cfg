SPECIFICATION FairSpec
CONSTANTS
  Null = Null
  NumPages = 3
  Pages <- Pages3
  b1 = b1
  b2 = b2
  Blocks = {b1, b2}
  RingCapacity = 1
  SizeMax = 15
  Policy <- FrequencyPolicy
  TimeMod = 16
  NumTiers = 3
  Capacity <- Capacity112
  InitLayer <- Init111
  UseRing = TRUE
  UninitCounts = {0}
  CountMod = 8
  UsPerMs = 6
  StartClock = 1
  MaxClock = 1
  MaxAccesses = 4
  MaxMoves = 4
INVARIANTS PlacementInv PromotionStillJustified
PROPERTIES ImplementsTiers MigrationCompletes
CHECK_DEADLOCK FALSE
