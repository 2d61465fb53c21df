SPECIFICATION FairSpec
CONSTANTS
  nflows = 2
  Conn <- MCFlows
  Reader <- MCReader
  BUFFER_SIZE = 2
  BUF_SIZE = 3
  Room = 2
  MAX_FLOW_ID = 3
  Backlog = 2
  dieTime = 0
  FdLimits = {1, 2}
  MaxBytes = 3
INVARIANTS
  TypeOK
  LossBounded
PROPERTIES
  DrainedAfterExit
CHECK_DEADLOCK FALSE
