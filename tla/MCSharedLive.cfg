SPECIFICATION FairSpec
CONSTANTS
  None = None
  Submissions = {1, 2}
  Instances = {1, 2, 3}
  Memory <- NoMemory
  AgeBound = 3
  JobAgeBound = 1
  BootGrace = 1
  ScanLimit = 9
  RoundTime = 1
  ArmedAtStart = {FALSE}
  Faults = {"create", "waiting", "read", "remove", "wedge", "prefetch"}
  MaxFaults = 2
  MaxInstances = 1
  MaxLifetime = 2
  ProvisionDeadline = None
  UnclaimedGrace = 0
  AssignMaxAge = 2
  BreakerThreshold = 1
  BreakerCooldown = 1
  Sizes <- NoCatalogue
  MaxVcpus = None
  FlavorRung = None
PROPERTIES
  EverySubmissionEnds
  ScalesToZero
