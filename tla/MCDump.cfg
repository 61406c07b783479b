SPECIFICATION Spec
CONSTANTS
  None = None
  i1 = i1
  Instances = {i1}
  DiagnosticsDir = TRUE
  Faults = {"delete", "crash"}
  MaxFaults = 0
INVARIANTS
  DumpSaysWhatHappened
