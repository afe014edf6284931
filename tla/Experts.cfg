SPECIFICATION Spec
CONSTANTS
  e1 = e1
  e2 = e2
  Down = Down
  Gate = Gate
  n1 = n1
  n2 = n2
  Main = Main
  Worker = Worker
  Nobody = Nobody
  Threads = {Main, Worker}
  Keys <- MCKeys
  Names = {n1, n2}
  Faulty <- MCFaulty
  Bytes <- MCBytes
  RamCapacity = 1
  RamBytes = 2
  RamPinAt = 2
  Capacity = 1
  PinAt = 2
  PinEnabled = TRUE
  Tiered = TRUE
  Parts <- MCParts
  Predictions <- MCPredictions
  Saved <- MCSaved
  MaxCalls = 4
INVARIANTS
  TypeOK
  CacheWithinPlan
  TierWithinPlan
  ReadersAlive
PROPERTIES
  HotStays
  EveryCallReturns
CHECK_DEADLOCK FALSE
