SPECIFICATION Spec
CONSTANTS
  Paths <- MCPaths
  Nars <- MCNars
  HashOf <- MCHashOf
  Infos <- MCInfos
  Old <- MCOld
  Stores = {"s1", "s2"}
  Pins = {"k1"}
  MaxClock = 0
  Retention = 0
  MaxPushes = 1
  MaxCollections = 1
  MaxMoves = 1
  MaxCrashes = 1
  MaxRounds = 2
  Direct = TRUE
  Pushers = {"u1"}
INVARIANTS Served
CHECK_DEADLOCK FALSE
