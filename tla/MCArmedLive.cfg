SPECIFICATION FairSpec
CONSTANTS
  None = None
  Submissions = {1, 2}
  Instances = {1, 2, 3}
  Memory <- NoMemory
  AgeBound = 4
  JobAgeBound = 0
  BootGrace = 3
  ScanLimit = 9
  RoundTime = 1
  ArmedAtStart = {TRUE}
  Faults = {"cancel", "delete", "publish"}
  MaxFaults = 2
  MaxInstances = 2
  MaxLifetime = 3
  ProvisionDeadline = 2
  UnclaimedGrace = 0
  AssignMaxAge = 2
  BreakerThreshold = 1
  BreakerCooldown = 1
  Sizes <- NoCatalogue
  MaxVcpus = None
  FlavorRung = None
INVARIANTS
  OneInstancePerSubmission
PROPERTIES
  EverySubmissionEnds
  ScalesToZero
