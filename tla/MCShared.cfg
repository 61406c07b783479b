SPECIFICATION Spec
CONSTANTS
  None = None
  Submissions = {1, 2}
  Instances = {1, 2}
  Memory <- NoMemory
  AgeBound = 4
  JobAgeBound = 1
  BootGrace = 3
  ScanLimit = 9
  RoundTime = 1
  ArmedAtStart = {FALSE}
  Faults = {"create", "quota", "wedge", "prefetch", "vm", "error"}
  MaxFaults = 2
  MaxInstances = 1
  MaxLifetime = 3
  ProvisionDeadline = 2
  UnclaimedGrace = 0
  AssignMaxAge = 2
  BreakerThreshold = 1
  BreakerCooldown = 1
  Sizes <- NoCatalogue
  MaxVcpus = None
  FlavorRung = None
INVARIANTS
  TypeOK
  CapRespected
