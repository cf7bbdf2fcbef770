SPECIFICATION AuxFairSpec
CONSTANTS
  MaxEvents = 4
  Sizes = {0, 1, 3}
  DefaultSize = 2
  FullNPC = FALSE
INVARIANTS
  SleepersKeepTheirResult
  Accounted
PROPERTIES
  AsPromised
  WaitsEnd
  Disconnects
CHECK_DEADLOCK FALSE
