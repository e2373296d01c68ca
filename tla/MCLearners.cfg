CONSTANTS
  NTasks = 3
  NRollouts = 2
  DecayNum = 1
  DecayDen = 2
  Arm = "staged"
  Order <- HardestFirst
  InitialTasks = 1
  ThresholdNum = 7
  ThresholdDen = 10
  MinGroups = 2
  MaxVisits = 2
  Scale = 4
  TasksPerStep = 2
  Estimator = "maxrl"
  MaxRedraws = 1
  Hindsight = TRUE
  GateNum = 1
  GateDen = 2
  MaxRestores = 1
  Envs = {e1, e2}
  Bins = {0, 1}
  Floors = {0, 1}
  MaxEnded = 1
  Unset = Unset
  Prompts = {q1, q2, q3}
  BatchSize = 1
  GroupSize = 1
  MaxBatches = 4
  MaxRestarts = 1
  PoolGoals <- Goals
  SubGoals <- RelabelOnly
  Predicates = {"lift", "place"}
  InitBins = 1
  MasteryNum = 2
  MasteryDen = 3
  MasteryVisits = 1
  MaxSub = 4
  GroupRolls = 2
  MaxRolls = 2
  MaxReloads = 1
  Nobody = Nobody
  Rows <- B2Rows
  DataOrders = {{1, 2}, {2, 3}}
  Tokens = {2, 3}
  Reservoir <- FrozenGroups
  TolNum = 1
  TolDen = 4
  Capacity = 2
  MaxAge = 1
  Steps = 3
SPECIFICATION LearnersSpec
INVARIANTS
  BudgetIsCounted
  EvidenceIsRequested
  NoMissedPromotion
  PromotionIsEarned
  LockedStaysUnseen
  LevelsFollowEpisodes
  DrawsFollowScores
  ArmsAreSound
  RelabelIsAnotherGoal
  ReplaysAreOriginals
  DoseStopsUpdate
  PreflightIsKept
CHECK_DEADLOCK FALSE
