SPECIFICATION FairSpec
CONSTANT NTHREADS = 6
INVARIANTS
  DestroyedUnused
PROPERTIES
  AllRunAndEnd
CHECK_DEADLOCK FALSE
