CONSTANTS
  Jobs = {j1}
  Execs = {e1}
  Faults = {"kill"}
  MaxFaults = 1
  NoJob = NoJob
  NoExec = NoExec
SPECIFICATION Spec
INVARIANTS
  FailedExposesNoBlock
CHECK_DEADLOCK FALSE
