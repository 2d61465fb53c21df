SPECIFICATION MCSpec
CONSTANTS
  t1 = t1
  t2 = t2
  t3 = t3
  Thread <- MCThread
  FlowOf <- MCFlowOf
  BUF_SIZE = 2
  BytesToBlast = 4
  BootMS = 1
  MsPerSec = 2
  maxBytes = 3
  INT_MAX = 4
  NFlows = 2
  MAX_SIZE = 2
  Weight <- MCWeight
  MaxLen = 2
  MaxTag = 16
  Float <- MCFloat
  MaxIdle = 1
INVARIANTS
  TypeOK
  NoLostWakeup
  TicketsCoverWaiters
  NoOvertaking
PROPERTIES
  ImplementsTokenBucket
  OnlyUntakenTurnsStarve
CHECK_DEADLOCK FALSE
