SPECIFICATION Spec
CONSTANTS
  None = None
  Submissions = {1}
  Instances = {1, 2, 3}
  Memory <- NoMemory
  AgeBound = 4
  JobAgeBound = 0
  BootGrace = 3
  ScanLimit = 9
  RoundTime = 1
  ArmedAtStart = {TRUE}
  Faults = {"late"}
  MaxFaults = 1
  MaxInstances = 1
  MaxLifetime = 3
  ProvisionDeadline = None
  UnclaimedGrace = 0
  AssignMaxAge = 2
  BreakerThreshold = 1
  BreakerCooldown = 1
  Sizes <- NoCatalogue
  MaxVcpus = None
  FlavorRung = None
INVARIANTS
  AgedOutIsNotCapacity
