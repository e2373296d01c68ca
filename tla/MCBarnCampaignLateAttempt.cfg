CONSTANTS
  a1 = a1
  a2 = a2
  a3 = a3
  primary = primary
  ablation = ablation
  Attempts <- MCAttempts
  Cells <- MCCells
  CellOf <- MCCellOf
  Seeds = {1}
SPECIFICATION Spec
PROPERTIES
  ClosedOnceSealed
CHECK_DEADLOCK FALSE
