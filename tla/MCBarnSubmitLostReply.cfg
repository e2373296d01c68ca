CONSTANTS
  Clones = {c1}
  Attempts = {a1, a2}
  Jobs = {j1, j2}
  Installers = {i1, i2}
  Faults = {"abort"}
  MaxFaults = 1
  NoJob = NoJob
  NoTx = NoTx
  TornTx = TornTx
  NoClone = NoClone
SPECIFICATION Spec
INVARIANTS
  PendingArrayIsHeld
CHECK_DEADLOCK FALSE
