SPECIFICATION FairSpec
CONSTANTS
  Conn = {c1, c2, c3}
  Reader = {w1, w2}
  None = None
  BUFFER_SIZE = 2
  MaxBytes = 2
  FdLimits = {2, 3}
  MAX_FLOW_ID = 4
INVARIANTS
  TypeOK
  OnePlace
  Drained
  NoLostWakeup
PROPERTIES
  ImplementsPool
  OnlySilenceStarves
CHECK_DEADLOCK FALSE
