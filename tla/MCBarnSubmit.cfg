CONSTANTS
  Clones = {c1, c2}
  Attempts = {a1, a2}
  Jobs = {j1, j2, j3}
  Installers = {i1, i2}
  Faults = {"abort", "kill", "killInstaller"}
  MaxFaults = 3
  NoJob = NoJob
  NoTx = NoTx
  TornTx = TornTx
  NoClone = NoClone
SPECIFICATION Spec
SYMMETRY Symmetry
INVARIANTS
  TypeOK
  RecordedBeforeRelease
  OneArrayPerAttempt
  MarkerIsResumable
  SettledLedgerIsInstalled
PROPERTIES
  ImplementsPromise
CHECK_DEADLOCK FALSE
