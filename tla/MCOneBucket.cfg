SPECIFICATION Spec
CONSTANTS
  None = None
  MaxServers = 2
  MaxWaiting = 2
  MaxDepth = 1
INVARIANTS
  OneBucketIsTheClamp
CHECK_DEADLOCK FALSE
