CONSTANTS
  Clones = {c1}
  Attempts = {a1, a2}
  Jobs = {j1, j2}
  Installers = {i1, i2}
  Faults = {"abort", "signal"}
  MaxFaults = 3
  NoJob = NoJob
  NoTx = NoTx
  TornTx = TornTx
  NoClone = NoClone
SPECIFICATION FairSpec
PROPERTIES
  PendingIsReleased
CHECK_DEADLOCK FALSE
