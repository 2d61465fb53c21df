SPECIFICATION FairSpec
CONSTANTS
  nflows = 2
  Conn <- MCFlows
  Reader <- MCReader
  Backlog = 1
  BUFFER_SIZE = 2
  BUF_SIZE = 2
  BytesToBlast = 4
  Room = 3
  MAX_FLOW_ID = 3
  dieTime = 1
INVARIANTS
  TypeOK
  ConnectsInTime
  EveryByteOnce
  LineReachesAll
PROPERTIES
  OnlyTurnsHoldUp
CHECK_DEADLOCK FALSE
