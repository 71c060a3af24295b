SPECIFICATION Spec
CONSTANTS
  Null = Null
  NumPages = 4
  Pages <- Pages4
  b1 = b1
  b2 = b2
  b3 = b3
  b4 = b4
  Blocks = {b1, b2, b3, b4}
  RingCapacity = 3
  SizeMax = 15
  Policy <- HybridPolicy
  TimeMod = 16
  NumTiers = 3
  Capacity <- Capacity344
  InitLayer <- Init300
  UseRing = TRUE
  UninitCounts = {0,2}
  CountMod = 8
  UsPerMs = 6
  StartClock = 1
  MaxClock = 2
  MaxAccesses = 1
  MaxMoves = 6
INVARIANTS CountsMatchLayers FlowBalance RingLinked RingConnected RingMirrorsLocal NoAssertFails
PROPERTIES ImplementsSecondChance
SYMMETRY BlockSymmetry
CHECK_DEADLOCK FALSE
