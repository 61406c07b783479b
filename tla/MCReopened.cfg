SPECIFICATION Spec
CONSTANTS
  None = None
  BreakerThreshold = 2
  BreakerCooldown = 4
  MaxTime = 14
  MaxRestarts = 0
INVARIANTS
  OneAttempt
CHECK_DEADLOCK FALSE
