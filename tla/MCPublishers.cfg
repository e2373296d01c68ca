CONSTANTS
  Jobs = {j1, j2}
  Execs = {e1, e2, e3}
  Faults = {"kill", "requeue", "partition"}
  MaxFaults = 3
  NoJob = NoJob
  NoExec = NoExec
  k1 = k1
  k2 = k2
  ChainJobs <- TwoJobs
  Arm <- OneOfEach
  Receipts = {r1, r2}
  Dests = {d1, d2}
  Fetchers = {f1, f2}
  Finalizers = {z1, z2}
  Outs = {o1}
  Target = 1
  Ceiling = 3
  PackagedCycles = 2
  MaxRestarts = 1
  None = None
SPECIFICATION PublishersSpec
SYMMETRY Interchangeable
INVARIANTS
  BlockIsSealed
  RenameIsExclusive
  CompletedHasItsComponents
  PackageIsOneCompletedRun
PROPERTIES
  ImplementsPromise
  PackageIsFinal
  ComponentsKeepPromise
CHECK_DEADLOCK FALSE
