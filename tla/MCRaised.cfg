SPECIFICATION Spec
CONSTANTS
  None = None
  Submissions = {1, 2}
  Instances = {1, 2}
  Flavors <- MCFlavors
  Editions <- Raised
  FirstEdition <- Both
  Arming = {TRUE}
  Flavor = "medium"
  MaxInstances = 2
  MaxVcpus = 32
  MaxEdits = 2
INVARIANTS
  NeverMistaken
