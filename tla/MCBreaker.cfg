SPECIFICATION Spec
CONSTANTS
  None = None
  BreakerThreshold = 2
  BreakerCooldown = 4
  MaxTime = 14
  MaxRestarts = 2
INVARIANTS
  TypeOK
  BurnIsBounded
CHECK_DEADLOCK FALSE
