SPECIFICATION TableSpec
CONSTANTS
  NFlows = 8
  InitialSlots = 2
  MAX_SIZE = 2
  Weight <- MCWeight
  MaxLen = 1
  MaxTag = 3
  Float <- MCFloat
INVARIANTS
  SlotReady
CHECK_DEADLOCK FALSE
