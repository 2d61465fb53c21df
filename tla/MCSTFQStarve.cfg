SPECIFICATION MCSpec
CONSTANTS
  t1 = t1
  t2 = t2
  t3 = t3
  Thread <- MCPair
  FlowOf <- MCPairFlowOf
  BUF_SIZE = 2
  BytesToBlast = 4
  BootMS = 1
  MsPerSec = 2
  maxBytes = 3
  INT_MAX = 4
  NFlows = 2
  MAX_SIZE = 4
  Weight <- MCWeight
  MaxLen = 2
  MaxTag = 16
  Float <- MCFloat
  MaxIdle = 1
PROPERTIES
  AllBlastersFinish
CHECK_DEADLOCK FALSE
