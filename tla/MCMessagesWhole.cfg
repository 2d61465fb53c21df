SPECIFICATION Spec
CONSTANTS
  Socket = {s1, s2}
  MAXBUFF = 4
  MaxMessages = 3
  MaxLen = 2
INVARIANTS
  WholeIsComplete
CHECK_DEADLOCK FALSE
