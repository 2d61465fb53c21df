SPECIFICATION Spec
CONSTANTS
  Socket = {s1, s2}
  MAXBUFF = 4
  MaxMessages = 3
  MaxLen = 2
INVARIANTS
  TypeOK
  InOrder
  OneOpenAndLast
  CompleteEndsMessage
CHECK_DEADLOCK FALSE
