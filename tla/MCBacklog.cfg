SPECIFICATION Spec
CONSTANTS
  None = None
  Submissions = {1, 2, 3}
  Instances = {1, 2}
  Memory <- NoMemory
  AgeBound = 4
  JobAgeBound = 0
  BootGrace = 3
  ScanLimit = 2
  RoundTime = 1
  ArmedAtStart = {TRUE}
  Faults = {"crash"}
  MaxFaults = 1
  MaxInstances = 1
  MaxLifetime = 3
  ProvisionDeadline = 2
  UnclaimedGrace = 0
  AssignMaxAge = 2
  BreakerThreshold = 1
  BreakerCooldown = 1
  Sizes <- NoCatalogue
  MaxVcpus = None
  FlavorRung = None
INVARIANTS
  OneSubmissionPerInstance
