SPECIFICATION Spec
CONSTANTS
  None = None
  Submissions = {1, 2}
  Instances = {1, 2, 3}
  VolumeIds = {1, 2, 3}
  Disk <- AllDisks
  Rung = 30
  Cores = 8
  MaxInstances = 2
  MaxVolumes = None
  OrphanGrace = 1
  BreakerThreshold = 1
  BreakerCooldown = 1
  CinderQuota = 2
  AgeBound = 2
  RoundTime = 1
  EnabledAtStart = {TRUE}
  Faults = {}
  MaxFaults = 0
PROPERTIES
  SweptWasUnattached
