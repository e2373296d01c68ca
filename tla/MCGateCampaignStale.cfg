CONSTANTS
  Cells = {c1}
  Conc = 1
  Updates = 1
  MinStored = 1
  MinLogged = 1
  Intervals = {1, 2}
  RestartsKilled = FALSE
  Marking = {TRUE}
  MaxStarts = 2
  MaxFailures = 1
  Nil = Nil
SPECIFICATION GateSpec
INVARIANT NoPartialCellInVerdict
CHECK_DEADLOCK FALSE
