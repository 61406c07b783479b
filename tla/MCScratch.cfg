SPECIFICATION FairSpec
CONSTANTS
  None = None
  Submissions = {1, 2}
  Instances = {1, 2, 3, 4}
  VolumeIds = {1, 2, 3, 4}
  Disk <- AllDisks
  Rung = 30
  Cores = 8
  MaxInstances = 2
  MaxVolumes = 1
  OrphanGrace = 1
  BreakerThreshold = 1
  BreakerCooldown = 1
  CinderQuota = 2
  AgeBound = 2
  RoundTime = 1
  EnabledAtStart = {TRUE}
  Faults = {"crash", "user_data", "create", "quota", "lost_answer", "kept", "delete", "volume", "lost_volume", "listing", "flip"}
  MaxFaults = 2
INVARIANTS
  TypeOK
  WorkersWithinQuota
PROPERTIES
  SparesWorkers
  OrphansGo
  EverySubmissionEnds
