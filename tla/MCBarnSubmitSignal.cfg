CONSTANTS
  Clones = {c1, c2}
  Attempts = {a1, a2}
  Jobs = {j1, j2}
  Installers = {i1, i2}
  Faults = {"signal"}
  MaxFaults = 1
  NoJob = NoJob
  NoTx = NoTx
  TornTx = TornTx
  NoClone = NoClone
SPECIFICATION Spec
INVARIANTS
  RecordedBeforeRelease
CHECK_DEADLOCK FALSE
