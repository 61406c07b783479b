SPECIFICATION Spec
CONSTANTS
  None = None
  Submissions = {1, 2}
  Instances = {1, 2}
  Memory <- LargeFirst
  AgeBound = 3
  JobAgeBound = 0
  BootGrace = 2
  ScanLimit = 9
  RoundTime = 1
  ArmedAtStart = {FALSE}
  Faults = {"flip", "crash", "publish", "prefetch", "cancel"}
  MaxFaults = 2
  MaxInstances = 2
  MaxLifetime = 3
  ProvisionDeadline = 2
  UnclaimedGrace = 0
  AssignMaxAge = 2
  BreakerThreshold = 1
  BreakerCooldown = 1
  Sizes <- TwoRungs
  MaxVcpus = 12
  FlavorRung = 1
INVARIANTS
  AtMostOneChain
  OldestServedFirst
  RightShape
  OneWorkspaceOneWorker
PROPERTIES
  KeepsThePromise
