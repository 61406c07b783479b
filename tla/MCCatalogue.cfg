SPECIFICATION Spec
CONSTANTS
  None = None
  Submissions = {1, 2}
  Instances = {1, 2}
  Flavors <- MCFlavors
  Editions <- WithdrawalsAndMistakes
  FirstEdition <- Both
  Arming = {TRUE, FALSE}
  Flavor = "medium"
  MaxInstances = 2
  MaxVcpus = 32
  MaxEdits = 3
INVARIANTS
  TypeOK
  SizeIsTrue
  GetsItsMemory
  NamesARung
PROPERTIES
  TakesWhatWasCounted
