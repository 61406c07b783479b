SPECIFICATION FairSpec
CONSTANTS
  None = None
  i1 = i1
  Instances = {i1}
  DiagnosticsDir = TRUE
  Faults = {"delete", "crash"}
  MaxFaults = 3
INVARIANTS
  TypeOK
  EvidenceSurvives
  AccountedBeforeGone
PROPERTIES
  ReapWins
