CONSTANTS
  UpdateCap = 4
  EvalEvery = 3
  Budget = 9
  Interval = 3
  GroupsPerUpdate = 2
  EvalCourses = 1
  MaxCost = 3
  Costs = {1, 3}
  Drivers = {d1, d2}
  Comparators <- B1B2
  Treatments <- TwoSeeds
  Collection = "reservoir"
  MaxTrainings = 6
  Cells = {c1, c2}
  Conc = 2
  Updates = 1
  MinStored = 1
  MinLogged = 1
  Intervals = {1, 2}
  RestartsKilled = FALSE
  Marking = {TRUE, FALSE}
  MaxStarts = 2
  MaxFailures = 1
  Nil = Nil
  Mazes = {m1, m2, m3, m4}
  BufferSize = 3
  Parallel = 2
  NEval = 2
  GroupOutcomes <- WholeOrCut
  MinFilled = 2
  UpdateTarget = 2
  MaxCycles = 3
  RankWeights <- InverseRanks
SPECIFICATION BenchmarksSpec
SYMMETRY Hashes
INVARIANTS
  CurveIsComplete
  SimulatorEndsWithCourse
  CompleteRunIsWhole
  TreatmentIsPreflighted
  CellsAreQuiet
  VerdictIsOfTrainedCells
  EvidenceStaysWithLevel
  CleanRunValidates
  TiesShareTheirRanks
CHECK_DEADLOCK FALSE
