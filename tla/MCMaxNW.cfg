SPECIFICATION MCSpec
CONSTANTS
  Thread = {t1, t2, t3}
  BUF_SIZE = 4
  BytesToBlast = 8
  BootMS = 1
  MsPerSec = 2
  maxBytes = 5
  INT_MAX = 8
  MaxIdle = 2
INVARIANTS
  TypeOK
  Accounting
  LongRunRate
  NoLostWakeup
PROPERTIES
  AllBlastersFinish
  ImplementsTokenBucket
