SPECIFICATION Spec
CONSTANTS
  None = None
  MaxServers = 2
  MaxWaiting = 2
  MaxDepth = 1
INVARIANTS
  AssignIsTheLoop
  CreateIsTheLoop
  NoneOvertaken
  PlacementIsSound
  QuotasHold
CHECK_DEADLOCK FALSE
