CONSTANTS
  a1 = a1
  a2 = a2
  a3 = a3
  primary = primary
  ablation = ablation
  Attempts <- MCAttempts
  Cells <- MCCells
  CellOf <- MCCellOf
  Seeds = {1}
SPECIFICATION Spec
INVARIANTS
  FinalizedStaysTrue
  NoForeignBlock
  PackagesAgree
  PackagesCoverCampaign
PROPERTIES
  KeepsSubmissionPromise
CHECK_DEADLOCK FALSE
