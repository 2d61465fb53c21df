SPECIFICATION QueueSpec
CONSTANTS
  NFlows = 3
  MAX_SIZE = 4
  Weight <- MCWeight
  MaxLen = 4
  MaxTag = 8
  Float <- MCFloat
INVARIANTS
  QueueTypeOK
  SizeIsCount
  HeadsAhead
  BoundedLag
  FairTags
  ScanFindsMin
PROPERTIES
  VirtualTimeAdvances
