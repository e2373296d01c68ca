--------------------------- MODULE BenchmarkProofs ----------------------------
(***************************************************************************)
(* Proofs about what runs around a learner: TrainingRun, for every cap,    *)
(* budget, interval, number of groups and courses and cost of a group;     *)
(* GateCampaign, for every set of cells, concurrency, update target and    *)
(* interval; ReplayDriver, for every set of drivers and plan of runs.      *)
(***************************************************************************)
EXTENDS TrainingRun, GateCampaign, ReplayDriver, FiniteSetTheorems, SequenceTheorems, TLAPS

(* TrainingRun. *)

-------------------------------------------------------------------------------
(* Integer division, by what it bounds. *)

(* A common factor of an inequality cancels. *)
LEMMA TimesOrder ==
  ASSUME NEW i \in Nat \ {0}, NEW p \in Nat, NEW q \in Nat, i * p < i * q
  PROVE  p < q
BY SMT

(* A quotient is the last multiple at or below its dividend. *)
LEMMA DivBounds ==
  ASSUME NEW i \in Nat \ {0}, NEW a \in Nat
  PROVE  /\ a \div i \in Nat
         /\ i * (a \div i) <= a
         /\ a < i * (a \div i + 1)
BY SMT

(* A multiple with the dividend between it and the next is the quotient. *)
LEMMA DivUnique ==
  ASSUME NEW i \in Nat \ {0}, NEW a \in Nat, NEW q \in Nat, i * q <= a, a < i * (q + 1)
  PROVE  a \div i = q
<1> DEFINE d == a \div i
<1>d. d \in Nat /\ i * d <= a /\ a < i * (d + 1)
  BY DivBounds
<1> HIDE DEF d
<1>1. i * q < i * (d + 1) /\ i * d < i * (q + 1)
  BY <1>d
<1>2. q < d + 1 /\ d < q + 1
  BY <1>1, <1>d, TimesOrder
<1>3. QED
  BY <1>d, <1>2 DEF d

(* A multiple at or below the dividend is at most the quotient. *)
LEMMA DivReaches ==
  ASSUME NEW i \in Nat \ {0}, NEW a \in Nat, NEW q \in Nat, i * q <= a
  PROVE  q <= a \div i
<1>1. i * q < i * (a \div i + 1) /\ a \div i \in Nat
  BY DivBounds
<1>2. QED
  BY <1>1, TimesOrder

(* The number of intervals crossed does not fall as steps are added. *)
LEMMA DivMonotone ==
  ASSUME NEW i \in Nat \ {0}, NEW a \in Nat, NEW b \in Nat, a <= b
  PROVE  a \div i <= b \div i
BY DivBounds, DivReaches

(* Rolling a group takes its share off what is left. *)
LEMMA OneGroupLess ==
  ASSUME NEW g \in Nat, NEW n \in Nat, NEW m \in Nat, 0 < n, n <= g
  PROVE  (g - (n - 1)) * m = (g - n) * m + m
BY SMT
-------------------------------------------------------------------------------

Rows    == 1..Len(curve)
LastRow == curve[Len(curve)]
Running == runPc \in {"course", "episodes", "close", "abort"}

(* What the courses at hand are for, and what they have cost so far. *)
FlowInv ==
  /\ spent <= MaxCost
  /\ runPc \in {"course", "episodes", "test"} \/ doing = "checkpoint" => spent = 0
  /\ runPc \in {"episodes", "close"} => left > 0
  /\ doing = "update" => left <= GroupsPerUpdate
  /\ curve = << >> => doing = "checkpoint" /\ (Running \/ runPc = "failed")

(* The next checkpoint is the multiple of the interval after the last row; *)
(* no row but the last is beyond the budget, and rows before it are of     *)
(* different intervals.                                                    *)
RowsInv ==
  budgeted =>
    /\ curve = << >> => simSteps = 0 /\ due = Interval
    /\ curve # << >> =>
         /\ LastRow.sim <= simSteps
         /\ due = Interval * (LastRow.sim \div Interval + 1)
    /\ \A k \in Rows : curve[k].sim <= LastRow.sim
    /\ \A k \in Rows : k # Len(curve) => curve[k].sim < Budget
    /\ \A i \in Rows : \A k \in 1..(i - 1) :
         curve[i].sim < Budget => curve[k].sim \div Interval < curve[i].sim \div Interval

(* Where the run is between two rows. *)
StageInv ==
  budgeted =>
    /\ Running /\ curve # << >> => LastRow.sim < Budget
    /\ Running /\ doing = "checkpoint" /\ curve # << >> => simSteps >= due \/ simSteps >= Budget
    /\ runPc = "test" => simSteps \div Interval = LastRow.sim \div Interval
    /\ runPc \in {"test", "returned"} /\ simSteps >= Budget => LastRow.step = updates /\ LastRow.sim = simSteps
    /\ runPc = "returned" => simSteps >= Budget
    /\ Running /\ doing = "update" => simSteps < Budget + (GroupsPerUpdate - left) * MaxCost
    /\ (Running /\ doing = "checkpoint") \/ runPc \in {"test", "returned"} =>
         simSteps < Budget + GroupsPerUpdate * MaxCost

(* How the run ended. *)
EndInv ==
  /\ runPc = "capped" => budgeted /\ simSteps < Budget
  /\ runPc = "returned" => LastRow.step = updates

(* How far close has come, and what it has left to stop. *)
CloseInv ==
  /\ runPc \notin {"close", "abort", "failed"} => part = "stepper"
  /\ part # "stepper" => simulator \subseteq {"gzserver"}
  /\ runPc # "failed" => cutShort = "nothing"
  /\ cutShort \in {"node", "gzserver"} => part = cutShort

RunInv ==
  /\ RunTypeOK /\ FlowInv /\ RowsInv /\ StageInv /\ EndInv
  /\ CloseInv /\ SimulatorEndsWithCourse

(* The constants, one by one. *)
LEMMA Constants ==
  /\ UpdateCap \in Nat \ {0} /\ EvalEvery \in Nat \ {0} /\ Budget \in Nat \ {0}
  /\ Interval \in Nat \ {0} /\ GroupsPerUpdate \in Nat \ {0} /\ EvalCourses \in Nat \ {0}
  /\ MaxCost \in Nat \ {0}
  /\ \A c \in Costs : c \in 1..MaxCost
  /\ GroupsPerUpdate * MaxCost \in Nat /\ GroupsPerUpdate * MaxCost > 0
<1>1. /\ UpdateCap \in Nat \ {0} /\ EvalEvery \in Nat \ {0} /\ Budget \in Nat \ {0}
      /\ Interval \in Nat \ {0} /\ GroupsPerUpdate \in Nat \ {0} /\ EvalCourses \in Nat \ {0}
      /\ MaxCost \in Nat \ {0}
      /\ \A c \in Costs : c \in 1..MaxCost
  BY RunAssumption
<1>2. QED
  BY <1>1

(* run_one starts with nothing run, due or logged. *)
LEMMA InitialRun ==
  ASSUME RunInit
  PROVE  RunInv
<1>1. RunTypeOK
  <2>1. curve \in Seq([step : Nat, sim : Nat])
    BY DEF RunInit
  <2>2. budgeted \in BOOLEAN /\ simulator \subseteq Processes
    BY DEF RunInit
  <2>3. QED
    BY <2>1, <2>2, Constants DEF RunInit, RunTypeOK
<1>2. FlowInv /\ EndInv /\ CloseInv /\ SimulatorEndsWithCourse
  BY Constants DEF RunInit, FlowInv, EndInv, CloseInv, SimulatorEndsWithCourse, Running
<1>3. RowsInv
  BY DEF RunInit, RowsInv, Rows
<1>4. StageInv
  BY Constants DEF RunInit, StageInv, Running
<1>5. QED
  BY <1>1, <1>2, <1>3, <1>4 DEF RunInv

-------------------------------------------------------------------------------
(* Types. *)

(* A row logged from a typed run is a row. *)
LEMMA RowType ==
  ASSUME RunTypeOK
  PROVE  Append(curve, [step |-> updates, sim |-> simSteps]) \in Seq([step : Nat, sim : Nat])
BY DEF RunTypeOK

(* Every step of the training run keeps its types. *)
LEMMA RunTypeStep ==
  ASSUME RunTypeOK, FlowInv, [RunNext]_runVars
  PROVE  RunTypeOK'
<1> USE DEF RunTypeOK, loopVars, simVars, Processes
<1>1. CASE CourseStart
  BY <1>1 DEF CourseStart
<1>2. CASE CourseRuns
  <2>1. spent' \in Nat
    BY <1>2, Constants DEF CourseRuns
  <2>2. runPc' \in {"close", "abort"} /\ simulator' \subseteq Processes
    BY <1>2 DEF CourseRuns
  <2>3. QED
    BY <1>2, <2>1, <2>2 DEF CourseRuns
<1>3. CASE CourseClose
  BY <1>3 DEF CourseClose, FlowInv
<1>4. CASE CloseGoesOn \/ CloseRaises
  BY <1>4 DEF CloseGoesOn, CloseRaises
<1>5. CASE RunReturns
  BY <1>5, RowType DEF RunReturns
<1>6. CASE CapHit
  BY <1>6 DEF CapHit
<1>7. CASE BeginUpdate
  BY <1>7, Constants DEF BeginUpdate
<1>8. CASE EndUpdate
  BY <1>8, Constants DEF EndUpdate, StartCheckpoint
<1>9. CASE EndCheckpoint
  <2>1. Interval * (simSteps \div Interval + 1) \in Nat
    BY Constants, DivBounds
  <2>2. due' \in Nat /\ curve' \in Seq([step : Nat, sim : Nat])
    BY <1>9, <2>1, RowType DEF EndCheckpoint
  <2>3. QED
    BY <1>9, <2>2 DEF EndCheckpoint
<1>10. CASE UNCHANGED runVars
  BY <1>10 DEF runVars
<1>11. QED
  BY <1>1, <1>2, <1>3, <1>4, <1>5, <1>6, <1>7, <1>8, <1>9, <1>10 DEF RunNext

(* Close stops the stepper first, and gzserver last. *)
LEMMA CloseStep ==
  ASSUME RunTypeOK, CloseInv, [RunNext]_runVars
  PROVE  CloseInv'
<1> USE DEF CloseInv, loopVars, simVars
<1>t. simulator \subseteq {"gzserver", "stepper"} /\ part \in {"stepper", "node", "gzserver"}
  BY DEF RunTypeOK, Processes
<1>1. CASE CourseStart
  BY <1>1 DEF CourseStart
<1>2. CASE CourseRuns
  BY <1>2 DEF CourseRuns
<1>3. CASE CloseGoesOn
  BY <1>3, <1>t DEF CloseGoesOn
<1>4. CASE CourseClose
  BY <1>4 DEF CourseClose
<1>5. CASE CloseRaises
  BY <1>5 DEF CloseRaises
<1>6. CASE RunReturns \/ CapHit \/ BeginUpdate \/ EndUpdate \/ EndCheckpoint
  BY <1>6 DEF RunReturns, CapHit, BeginUpdate, EndUpdate, EndCheckpoint, StartCheckpoint
<1>7. CASE UNCHANGED runVars
  BY <1>7 DEF runVars
<1>8. QED
  BY <1>1, <1>2, <1>3, <1>4, <1>5, <1>6, <1>7 DEF RunNext

(* The simulator of a course is gone before anything else starts. *)
LEMMA SimulatorStep ==
  ASSUME RunTypeOK, CloseInv, SimulatorEndsWithCourse, [RunNext]_runVars
  PROVE  SimulatorEndsWithCourse'
<1> USE DEF SimulatorEndsWithCourse, loopVars, simVars
<1>1. CASE CourseStart
  BY <1>1 DEF CourseStart, CloseInv
<1>2. CASE CourseRuns \/ CloseGoesOn
  BY <1>2 DEF CourseRuns, CloseGoesOn
<1>3. CASE CourseClose
  <2>1. simulator' = {}
    BY <1>3 DEF CourseClose, CloseInv
  <2>2. QED
    BY <2>1
<1>4. CASE CloseRaises
  BY <1>4 DEF CloseRaises, CloseInv, RunTypeOK
<1>5. CASE RunReturns \/ CapHit \/ BeginUpdate \/ EndUpdate \/ EndCheckpoint
  BY <1>5 DEF RunReturns, CapHit, BeginUpdate, EndUpdate, EndCheckpoint, StartCheckpoint
<1>6. CASE UNCHANGED runVars
  BY <1>6 DEF runVars
<1>7. QED
  BY <1>1, <1>2, <1>3, <1>4, <1>5, <1>6 DEF RunNext

(* Control, processes and counters stay consistent, wherever start or a course raises. *)
LEMMA FlowStep ==
  ASSUME RunTypeOK, FlowInv, [RunNext]_runVars
  PROVE  FlowInv'
<1> USE DEF FlowInv, Running, loopVars
<1>t. spent \in Nat /\ left \in Nat /\ updates \in Nat /\ doing \in {"update", "checkpoint"}
      /\ curve \in Seq([step : Nat, sim : Nat])
  BY DEF RunTypeOK
<1>1. CASE CourseStart
  BY <1>1, <1>t DEF CourseStart
<1>2. CASE CourseRuns
  BY <1>2, <1>t, Constants DEF CourseRuns
<1>3. CASE CourseClose
  BY <1>3, <1>t, Constants DEF CourseClose
<1>4. CASE CloseGoesOn \/ CloseRaises
  BY <1>4, <1>t DEF CloseGoesOn, CloseRaises
<1>5. CASE RunReturns
  BY <1>5, <1>t DEF RunReturns
<1>6. CASE CapHit
  BY <1>6, <1>t DEF CapHit
<1>7. CASE BeginUpdate
  BY <1>7, <1>t, Constants DEF BeginUpdate
<1>8. CASE EndUpdate
  BY <1>8, <1>t, Constants DEF EndUpdate, StartCheckpoint
<1>9. CASE EndCheckpoint
  BY <1>9, <1>t, Constants DEF EndCheckpoint
<1>10. CASE UNCHANGED runVars
  BY <1>10 DEF runVars
<1>11. QED
  BY <1>1, <1>2, <1>3, <1>4, <1>5, <1>6, <1>7, <1>8, <1>9, <1>10 DEF RunNext

(* A run that returned logged its last update. *)
LEMMA EndStep ==
  ASSUME RunTypeOK, EndInv, [RunNext]_runVars
  PROVE  EndInv'
<1> USE DEF EndInv, LastRow, loopVars
<1>1. CASE CourseStart \/ CourseRuns \/ CloseGoesOn \/ CourseClose \/ CloseRaises
  BY <1>1 DEF CourseStart, CourseRuns, CloseGoesOn, CourseClose, CloseRaises
<1>2. CASE RunReturns
  BY <1>2 DEF RunReturns, RunTypeOK
<1>3. CASE CapHit
  BY <1>3, Constants DEF CapHit, Reached, RunTypeOK
<1>4. CASE BeginUpdate \/ EndUpdate \/ EndCheckpoint
  BY <1>4 DEF BeginUpdate, EndUpdate, EndCheckpoint, StartCheckpoint
<1>5. CASE UNCHANGED runVars
  BY <1>5 DEF runVars
<1>6. QED
  BY <1>1, <1>2, <1>3, <1>4, <1>5 DEF RunNext

-------------------------------------------------------------------------------
(* The rows of a run bounded by simulator steps. *)

(* Before the next multiple of the interval, a run is in the last row's. *)
LEMMA SameInterval ==
  ASSUME NEW a \in Nat, NEW b \in Nat, a <= b, b < Interval * (a \div Interval + 1)
  PROVE  b \div Interval = a \div Interval
<1> DEFINE q == a \div Interval
<1>1. q \in Nat /\ Interval * q <= a
  BY Constants, DivBounds
<1>2. Interval * q \in Nat
  BY <1>1, Constants
<1>3. Interval * q <= b
  BY ONLY <1>1, <1>2, a \in Nat, b \in Nat, a <= b
<1>4. QED
  BY <1>1, <1>3, Constants, DivUnique

(* The last row of a typed curve, when there is one. *)
LEMMA RowFacts ==
  ASSUME RunTypeOK
  PROVE  /\ Len(curve) \in Nat /\ (curve # << >> <=> Len(curve) > 0)
         /\ \A k \in Rows : curve[k].sim \in Nat
         /\ curve # << >> => LastRow.sim \in Nat /\ Len(curve) \in Rows
<1>1. curve \in Seq([step : Nat, sim : Nat])
  BY DEF RunTypeOK
<1>2. Len(curve) \in Nat /\ (curve # << >> <=> Len(curve) > 0)
  BY <1>1, EmptySeq, LenProperties
<1>3. \A k \in Rows : curve[k].sim \in Nat
  <2>1. \A k \in Rows : curve[k] \in [step : Nat, sim : Nat]
    BY <1>1, ElementOfSeq DEF Rows
  <2>2. QED
    BY <2>1
<1>4. QED
  BY <1>2, <1>3 DEF Rows, LastRow

(* Rows, counters and the next due row untouched, the curve stays complete. *)
LEMMA RowsUnchanged ==
  ASSUME RowsInv, UNCHANGED <<budgeted, simSteps, due, curve>>
  PROVE  RowsInv'
BY DEF RowsInv, Rows, LastRow

(* A row is logged at each interval crossed and at no other. *)
LEMMA RowsStep ==
  ASSUME RunTypeOK, FlowInv, RowsInv, StageInv, [RunNext]_runVars
  PROVE  RowsInv'
<1>t. /\ simSteps \in Nat /\ spent \in Nat /\ updates \in Nat /\ due \in Nat
      /\ curve \in Seq([step : Nat, sim : Nat])
  BY DEF RunTypeOK
<1>1. CASE \/ CourseStart \/ CourseRuns \/ CloseGoesOn \/ CloseRaises
           \/ CapHit \/ BeginUpdate \/ EndUpdate \/ UNCHANGED runVars
  <2>1. UNCHANGED <<budgeted, simSteps, due, curve>>
    BY <1>1 DEF CourseStart, CourseRuns, CloseGoesOn, CloseRaises, CapHit, BeginUpdate, EndUpdate,
                runVars, loopVars
  <2>2. QED
    BY <2>1, RowsUnchanged
<1>2. CASE CourseClose
  <2>1. /\ UNCHANGED <<budgeted, due, curve>> /\ simSteps' \in Nat /\ simSteps <= simSteps'
        /\ doing = "checkpoint" => simSteps' = simSteps
    BY <1>2, <1>t DEF CourseClose, loopVars, FlowInv
  <2>2. curve = << >> => simSteps' = simSteps
    BY <2>1 DEF FlowInv
  <2>3. budgeted /\ curve # << >> => LastRow.sim <= simSteps'
    BY <2>1, <1>t, RowFacts DEF RowsInv
  <2>4. QED
    BY <2>1, <2>2, <2>3 DEF RowsInv, Rows, LastRow
<1>3. CASE RunReturns
  <2>1. budgeted => curve' = curve
    BY <1>3 DEF RunReturns, Reached, StageInv, LastRow
  <2>2. UNCHANGED <<budgeted, simSteps, due>>
    BY <1>3 DEF RunReturns
  <2>3. QED
    BY <2>1, <2>2 DEF RowsInv, Rows, LastRow
<1>4. CASE EndCheckpoint
  <2> SUFFICES ASSUME budgeted
               PROVE  RowsInv'
    BY <1>4 DEF RowsInv, EndCheckpoint
  <2>1. /\ curve' = Append(curve, [step |-> updates, sim |-> simSteps])
        /\ due' = IF due <= simSteps THEN Interval * (simSteps \div Interval + 1) ELSE due
        /\ simSteps' = simSteps
        /\ Running /\ doing = "checkpoint"
    BY <1>4 DEF EndCheckpoint, Running
  <2>2. /\ curve' # << >> /\ Len(curve') = Len(curve) + 1 /\ LastRow'.sim = simSteps
        /\ \A k \in Rows : curve'[k] = curve[k]
        /\ \A k \in Rows' : k \in Rows \/ k = Len(curve')
        /\ curve'[Len(curve')].sim = simSteps
    <3> DEFINE r == [step |-> updates, sim |-> simSteps]
    <3>1. r \in [step : Nat, sim : Nat] /\ r.sim = simSteps
      BY <1>t
    <3>2. /\ curve' # << >> /\ Len(curve') = Len(curve) + 1
          /\ \A k \in 1..Len(curve) : curve'[k] = curve[k]
          /\ curve'[Len(curve) + 1] = r
      BY <2>1, <3>1, <1>t, AppendProperties
    <3>3. Len(curve) \in Nat
      BY RowFacts
    <3>4. QED
      BY <3>1, <3>2, <3>3 DEF LastRow, Rows
  <2>3. due' = Interval * (simSteps \div Interval + 1)
    <3>1. CASE due <= simSteps
      BY <2>1, <3>1
    <3>2. CASE simSteps < due /\ curve = << >>
      <4>1. simSteps = 0 /\ due = Interval
        BY <3>2 DEF RowsInv
      <4>2. 0 \div Interval = 0 /\ Interval * (0 + 1) = Interval
        BY Constants
      <4>3. QED
        BY <2>1, <3>2, <4>1, <4>2, Constants
    <3>3. CASE simSteps < due /\ curve # << >>
      <4>1. LastRow.sim \in Nat /\ LastRow.sim <= simSteps /\ due = Interval * (LastRow.sim \div Interval + 1)
        BY <3>3, RowFacts DEF RowsInv
      <4>2. simSteps \div Interval = LastRow.sim \div Interval
        BY <3>3, <4>1, <1>t, SameInterval
      <4>3. QED
        BY <2>1, <3>3, <4>1, <4>2, <1>t
    <3>4. QED
      BY <3>1, <3>2, <3>3, <1>t
  <2>4. \A k \in Rows : curve[k].sim <= simSteps
    BY <1>t, RowFacts DEF RowsInv, Rows
  <2>5. \A k \in Rows' : curve'[k].sim <= LastRow'.sim
    BY <2>2, <2>4, <1>t
  <2>6. \A k \in Rows : curve[k].sim < Budget
    BY <2>1, RowFacts DEF RowsInv, StageInv, Rows, LastRow
  <2>7. \A k \in Rows' : k # Len(curve') => curve'[k].sim < Budget
    BY <2>2, <2>6
  <2>8. ASSUME NEW k \in Rows, simSteps < Budget
        PROVE  curve[k].sim \div Interval < simSteps \div Interval
    <3>1. curve # << >> /\ LastRow.sim \in Nat /\ curve[k].sim \in Nat
      BY RowFacts DEF Rows
    <3>2. curve[k].sim <= LastRow.sim /\ Interval * (LastRow.sim \div Interval + 1) <= simSteps
      BY <2>1, <2>8, <3>1, <1>t, Constants DEF RowsInv, StageInv
    <3>3. LastRow.sim \div Interval + 1 <= simSteps \div Interval
      BY <3>1, <3>2, <1>t, Constants, DivBounds, DivReaches
    <3>4. curve[k].sim \div Interval <= LastRow.sim \div Interval
      BY <3>1, <3>2, Constants, DivMonotone
    <3>5. QED
      BY <3>1, <3>3, <3>4, <1>t, Constants, DivBounds
  <2>9. ASSUME NEW i \in Rows', NEW k \in 1..(i - 1), curve'[i].sim < Budget
        PROVE  curve'[k].sim \div Interval < curve'[i].sim \div Interval
    <3>1. k \in Rows /\ curve'[k] = curve[k]
      BY <2>2, <1>t DEF Rows
    <3>2. CASE i \in Rows
      BY <2>2, <2>9, <3>1, <3>2 DEF RowsInv
    <3>3. CASE i = Len(curve')
      BY <2>2, <2>8, <2>9, <3>1, <3>3
    <3>4. QED
      BY <2>2, <3>2, <3>3
  <2>10. LastRow'.sim <= simSteps'
    BY <2>1, <2>2, <1>t
  <2>11. due' = Interval * (LastRow'.sim \div Interval + 1)
    BY <2>2, <2>3
  <2>12. QED
    BY <2>2, <2>5, <2>7, <2>9, <2>10, <2>11 DEF RowsInv
<1>5. QED
  BY <1>1, <1>2, <1>3, <1>4 DEF RunNext

(* The stage of the loop and the counters it compares stay consistent. *)
LEMMA StageStep ==
  ASSUME RunTypeOK, FlowInv, RowsInv, StageInv, [RunNext]_runVars
  PROVE  StageInv'
<1> USE DEF loopVars
<1>t. /\ simSteps \in Nat /\ spent \in Nat /\ updates \in Nat /\ due \in Nat /\ left \in Nat
      /\ doing \in {"update", "checkpoint"} /\ curve \in Seq([step : Nat, sim : Nat])
  BY DEF RunTypeOK
<1>1. CASE CourseStart \/ CourseRuns \/ CloseGoesOn \/ CloseRaises
  <2>1. UNCHANGED <<budgeted, updates, due, curve, doing, left, simSteps>>
    BY <1>1 DEF CourseStart, CourseRuns, CloseGoesOn, CloseRaises
  <2>2. Running /\ runPc' \in {"episodes", "close", "abort", "failed"}
    BY <1>1 DEF CourseStart, CourseRuns, CloseGoesOn, CloseRaises, Running
  <2>3. QED
    BY <2>1, <2>2 DEF StageInv, Running, LastRow
<1>2. CASE CourseClose
  <2>1. UNCHANGED <<budgeted, updates, due, curve, doing>> /\ Running /\ runPc' \in {"course", "failed"}
    BY <1>2 DEF CourseClose, Running
  <2>2. CASE runPc # "close"
    BY <1>2, <2>1, <2>2 DEF CourseClose, StageInv, Running
  <2>3. CASE runPc = "close" /\ doing = "checkpoint"
    <3>1. simSteps' = simSteps
      BY <1>2, <2>3, <1>t DEF CourseClose, FlowInv
    <3>2. QED
      BY <2>1, <2>3, <3>1 DEF StageInv, Running, LastRow
  <2>4. CASE runPc = "close" /\ doing = "update" /\ budgeted
    <3>1. simSteps' = simSteps + spent /\ left' = left - 1 /\ runPc' = "course"
      BY <1>2, <2>4 DEF CourseClose
    <3>2. 0 < left /\ left <= GroupsPerUpdate /\ spent <= MaxCost
      BY <2>4 DEF FlowInv
    <3>3. (GroupsPerUpdate - (left - 1)) * MaxCost = (GroupsPerUpdate - left) * MaxCost + MaxCost
      BY <3>2, <1>t, Constants, OneGroupLess
    <3>4. simSteps < Budget + (GroupsPerUpdate - left) * MaxCost /\ (GroupsPerUpdate - left) * MaxCost \in Nat
      BY <2>1, <2>4, <3>2, <1>t, Constants DEF StageInv
    <3>5. simSteps' < Budget + (GroupsPerUpdate - left') * MaxCost
      BY <3>1, <3>2, <3>3, <3>4, <1>t, Constants
    <3>6. curve # << >> => LastRow.sim < Budget
      BY <2>1, <2>4 DEF StageInv
    <3>7. QED
      BY <2>1, <2>4, <3>1, <3>5, <3>6 DEF StageInv, Running, LastRow
  <2>5. QED
    BY <2>1, <2>2, <2>3, <2>4, <1>t DEF StageInv
<1>3. CASE RunReturns
  <2>1. UNCHANGED <<budgeted, updates, simSteps, doing>> /\ runPc = "test" /\ runPc' = "returned" /\ Reached
    BY <1>3 DEF RunReturns
  <2>2. budgeted => simSteps >= Budget /\ curve' = curve
    BY <1>3 DEF RunReturns, Reached, StageInv, LastRow
  <2>3. QED
    BY <2>1, <2>2 DEF StageInv, Running, LastRow
<1>4. CASE CapHit
  BY <1>4 DEF CapHit, StageInv, Running
<1>5. CASE BeginUpdate
  <2>1. /\ UNCHANGED <<budgeted, curve, simSteps>> /\ runPc' = "course" /\ doing' = "update"
        /\ left' = GroupsPerUpdate /\ curve # << >> /\ ~Reached
    BY <1>5 DEF BeginUpdate, FlowInv, Running
  <2>2. budgeted => simSteps < Budget /\ LastRow.sim < Budget
    BY <2>1, <1>t, Constants, RowFacts DEF Reached, RowsInv
  <2>3. budgeted => simSteps' < Budget + (GroupsPerUpdate - left') * MaxCost
    <3>1. (GroupsPerUpdate - GroupsPerUpdate) * MaxCost = 0
      BY Constants
    <3>2. QED
      BY <2>1, <2>2, <3>1, <1>t, Constants
  <2>4. QED
    BY <2>1, <2>2, <2>3 DEF StageInv, Running, LastRow
<1>6. CASE EndUpdate
  <2>1. /\ UNCHANGED <<budgeted, updates, due, curve, simSteps>> /\ Running /\ curve # << >>
        /\ doing = "update" /\ left = 0
    BY <1>6 DEF EndUpdate, FlowInv, Running
  <2>2. budgeted => LastRow.sim < Budget /\ simSteps < Budget + GroupsPerUpdate * MaxCost
    <3>1. GroupsPerUpdate - 0 = GroupsPerUpdate
      BY Constants
    <3>2. QED
      BY <2>1, <3>1 DEF StageInv
  <2>3. CASE ShouldCheckpoint
    BY <1>6, <2>1, <2>2, <2>3 DEF EndUpdate, StartCheckpoint, ShouldCheckpoint, StageInv, Running, LastRow
  <2>4. CASE ~ShouldCheckpoint
    <3>1. runPc' = "test" /\ doing' = doing
      BY <1>6, <2>4 DEF EndUpdate
    <3>2. budgeted => simSteps < due /\ simSteps < Budget
      BY <2>4, <1>t, Constants DEF ShouldCheckpoint
    <3>3. budgeted => simSteps \div Interval = LastRow.sim \div Interval
      BY <2>1, <3>2, <1>t, RowFacts, SameInterval DEF RowsInv
    <3>4. QED
      BY <2>1, <2>2, <3>1, <3>2, <3>3, <1>t, Constants DEF StageInv, Running, LastRow
  <2>5. QED
    BY <2>3, <2>4
<1>7. CASE EndCheckpoint
  <2>1. /\ UNCHANGED <<budgeted, updates, simSteps, doing>> /\ Running /\ doing = "checkpoint" /\ runPc' = "test"
        /\ curve' = Append(curve, [step |-> updates, sim |-> simSteps])
    BY <1>7 DEF EndCheckpoint, Running
  <2>2. LastRow'.sim = simSteps /\ LastRow'.step = updates
    <3> DEFINE r == [step |-> updates, sim |-> simSteps]
    <3>1. r \in [step : Nat, sim : Nat]
      BY <1>t
    <3>2. Len(curve') = Len(curve) + 1 /\ curve'[Len(curve) + 1] = r
      BY <2>1, <3>1, <1>t, AppendProperties
    <3>3. QED
      BY <3>2 DEF LastRow
  <2>3. QED
    BY <2>1, <2>2 DEF StageInv, Running
<1>8. CASE UNCHANGED runVars
  BY <1>8 DEF runVars, StageInv, Running, LastRow
<1>9. QED
  BY <1>1, <1>2, <1>3, <1>4, <1>5, <1>6, <1>7, <1>8 DEF RunNext

-------------------------------------------------------------------------------

(* The inductive invariant of the training run. *)
LEMMA RunInvHolds == RunSpec => []RunInv
<1>1. RunInit => RunInv
  BY InitialRun
<1>2. RunInv /\ [RunNext]_runVars => RunInv'
  BY RunTypeStep, FlowStep, RowsStep, StageStep, EndStep, CloseStep, SimulatorStep DEF RunInv
<1>3. QED
  BY <1>1, <1>2, PTL DEF RunSpec

(* The run, its curve and its simulators keep their types. *)
THEOREM RunTypeCorrect == RunSpec => []RunTypeOK
<1>1. RunInv => RunTypeOK
  BY DEF RunInv
<1>2. QED
  BY <1>1, RunInvHolds, PTL

(***************************************************************************)
(* Whatever raises in a course, its simulator is gone before the next one; *)
(* if one is left the run has ended, because close itself was cut short or *)
(* start interrupted, and once the stepper was stopped it is gzserver.     *)
(***************************************************************************)
THEOREM SimulatorEndsWithCourseHolds == RunSpec => []SimulatorEndsWithCourse
<1>1. RunInv => SimulatorEndsWithCourse
  BY DEF RunInv
<1>2. QED
  BY <1>1, RunInvHolds, PTL

(***************************************************************************)
(* For every budget, interval, cap, number of groups and cost: a curve has *)
(* one row per interval crossed, and the curve of a returned run ends with *)
(* its last update, at its first row at or beyond the budget.              *)
(***************************************************************************)
THEOREM CurveIsCompleteHolds == RunSpec => []CurveIsComplete
<1>1. RunInv => RowsMarkCrossings
  BY DEF RunInv, RowsMarkCrossings, RowsInv, StageInv, Rows, LastRow
<1>2. RunInv => CurveReachesTheBound
  <2> SUFFICES ASSUME RunInv
               PROVE  CurveReachesTheBound
    OBVIOUS
  <2>1. /\ runPc = "capped" => budgeted /\ simSteps < Budget
        /\ runPc = "returned" => curve[Len(curve)].step = updates
    BY DEF RunInv, EndInv, LastRow
  <2>2. ASSUME runPc = "returned", budgeted
        PROVE  /\ \A i \in 1..Len(curve) : curve[i].sim >= Budget <=> i = Len(curve)
               /\ curve[Len(curve)].sim < Budget + GroupsPerUpdate * MaxCost
    <3>1. LastRow.sim = simSteps /\ simSteps >= Budget /\ simSteps < Budget + GroupsPerUpdate * MaxCost
      BY <2>2 DEF RunInv, StageInv
    <3>2. \A i \in Rows : i # Len(curve) => curve[i].sim < Budget
      BY <2>2 DEF RunInv, RowsInv
    <3>3. \A i \in Rows : curve[i].sim \in Nat
      BY RowFacts DEF RunInv
    <3>4. QED
      BY <3>1, <3>2, <3>3, Constants DEF Rows, LastRow
  <2>3. QED
    BY <2>1, <2>2 DEF CurveReachesTheBound
<1>3. RunInv => CurveIsComplete
  BY <1>1, <1>2 DEF CurveIsComplete
<1>4. QED
  BY <1>3, RunInvHolds, PTL

-------------------------------------------------------------------------------
(* GateCampaign. *)

Extents   == (0..Updates) \cup {Nil}
TrainingStates == [at : {"train", "mark"}, due : Nat, updates : 0..Updates]

ScriptTypeOK ==
  /\ marking \in BOOLEAN /\ interval \in Nat \ {0}
  /\ driver \in {"off", "train", "eval"} /\ todo \in SUBSET Cells
  /\ slots \in Nat /\ exits \in Nat
  /\ starts \in 0..MaxStarts /\ killed \in BOOLEAN
  /\ driver # "off" => starts \in 1..MaxStarts

LaunchTypeOK ==
  /\ proc \in [Launches -> {Quiet} \cup TrainingStates]
  /\ evaluations \in SUBSET [cell : Cells, updates : 0..Updates, driver : 1..MaxStarts]

CellTypeOK ==
  /\ checkpoint \in [Cells -> Extents] /\ logged \in [Cells -> Extents] /\ csv \in [Cells -> Extents]
  /\ done \in SUBSET Cells
  /\ receiptLog \in [ok : SUBSET Cells, evalOk : SUBSET Cells, failed : Nat]

CloseTypeOK ==
  /\ sidecar \in [budget : {Nil} \cup [Cells -> Extents], protected : BOOLEAN]
  /\ closer \in [at : {"idle", "surface", "mark", "judge", "closed"}]
                  \cup [at : {"budget"}, budget : [Cells -> Extents]]
  /\ verdict \in {Nil} \cup [evaluated : [Cells -> Extents], closed : BOOLEAN, failed : BOOLEAN]

GateTypeOK == ScriptTypeOK /\ LaunchTypeOK /\ CellTypeOK /\ CloseTypeOK

(* One driver after the other: only the last one's children train or are   *)
(* evaluated, one cell is evaluated at a time, and none while any trains.  *)
ScriptInv ==
  /\ killed => driver = "off"
  /\ \A p \in Launches : proc[p] # Quiet =>
       /\ p[2] = starts
       /\ evaluations = {}
       /\ driver = "train" \/ killed
       /\ driver = "train" => p[1] \notin todo
  /\ \A e \in evaluations :
       /\ e.driver = starts
       /\ driver = "eval" \/ killed
       /\ \A f \in evaluations : f = e

(* While nothing has failed, a checkpoint only grows, a saved cell is not  *)
(* trained again, and an evaluation is of the checkpoint that is there.    *)
EvidenceInv ==
  receiptLog.failed = 0 =>
    /\ \A p \in Launches : proc[p] # Quiet =>
         /\ csv[p[1]] = Nil
         /\ proc[p].at = "train" /\ checkpoint[p[1]] # Nil => checkpoint[p[1]] <= proc[p].updates
    /\ \A c \in Cells : marking /\ checkpoint[c] # Nil /\ c \notin done =>
         \E p \in Launches : p[1] = c /\ proc[p].at = "train"
    /\ \A e \in evaluations : e.updates = checkpoint[e.cell] /\ csv[e.cell] = Nil
    /\ \A c \in Cells : csv[c] # Nil => csv[c] = checkpoint[c]
    /\ sidecar.budget # Nil => \A c \in Cells : sidecar.budget[c] # Nil =>
         checkpoint[c] # Nil /\ sidecar.budget[c] <= checkpoint[c]

(* What the closer saw stays as it is: nothing is left to train or evaluate. *)
CloserInv ==
  closer.at \in {"surface", "budget", "mark", "judge"} =>
    /\ receiptLog.failed = 0
    /\ \A c \in Cells : csv[c] # Nil
    /\ closer.at = "budget" => closer.budget = checkpoint

GateInv == GateTypeOK /\ ScriptInv /\ EvidenceInv /\ CloserInv /\ VerdictIsOfTrainedCells

-----------------------------------------------------------------------------
(* A launch is known by its cell and its driver. *)
LEMMA SameLaunch ==
  ASSUME NEW p \in Launches, NEW q \in Launches, p[1] = q[1], p[2] = q[2]
  PROVE  p = q
BY DEF Launches

(* No checkpoint, an empty one and every number of updates are extents. *)
LEMMA ExtentFacts ==
  /\ Nil \in Extents /\ 0 \in Extents
  /\ \A u \in 0..Updates : u \in Extents /\ u # Nil
BY GateAssumption DEF Extents

(* The campaign starts with no cell, launch, receipt or verdict. *)
LEMMA InitialGate ==
  ASSUME GateInit
  PROVE  GateInv
<1>1. GateTypeOK
  <2>a. marking \in BOOLEAN /\ killed \in BOOLEAN
    BY ZenonT(20), GateAssumption DEF GateInit
  <2>b. interval \in Nat \ {0}
    BY ZenonT(20), GateAssumption DEF GateInit
  <2>1. ScriptTypeOK
    BY <2>a, <2>b, GateAssumption DEF GateInit, ScriptTypeOK
  <2>2. LaunchTypeOK
    BY DEF GateInit, LaunchTypeOK
  <2>3. CellTypeOK
    BY ExtentFacts DEF GateInit, CellTypeOK
  <2>4. CloseTypeOK
    BY DEF GateInit, CloseTypeOK, Quiet
  <2>5. QED
    BY <2>1, <2>2, <2>3, <2>4 DEF GateTypeOK
<1>2. ScriptInv /\ EvidenceInv /\ CloserInv /\ VerdictIsOfTrainedCells
  BY DEF GateInit, ScriptInv, EvidenceInv, CloserInv, VerdictIsOfTrainedCells, Quiet
<1>3. QED
  BY <1>1, <1>2 DEF GateInv

-----------------------------------------------------------------------------
(* The types are kept by every step. *)

(* Every step keeps the type of the driver's variables. *)
LEMMA ScriptTypeStep ==
  ASSUME ScriptTypeOK, [GateNext]_gateVars
  PROVE  ScriptTypeOK'
<1> USE DEF ScriptTypeOK, scriptVars, cellVars, closeVars
<1>1. CASE StartDriver
  BY <1>1, GateAssumption DEF StartDriver
<1>2. CASE Reap
  BY <1>2, GateAssumption DEF Reap
<1>3. CASE BeginEvaluation
  BY <1>3 DEF BeginEvaluation
<1>4. CASE FinishDriver
  BY <1>4 DEF FinishDriver
<1>5. CASE KillDriver
  BY <1>5 DEF KillDriver
<1>6. CASE \E c \in Cells : LaunchCell(c)
  BY <1>6 DEF LaunchCell
<1>7. CASE \E c \in Cells : PassEvaluation(c) \/ LoadCheckpoint(c)
  BY <1>7 DEF PassEvaluation, LoadCheckpoint
<1>8. CASE \E p \in Launches : LogOk(p) \/ TrainingFails(p)
  BY <1>8 DEF LogOk, TrainingFails, Leave
<1>9. CASE \E p \in Launches : Tick(p) \/ MarkDone(p)
  BY <1>9 DEF Tick, MarkDone
<1>10. CASE \E e \in evaluations : FinishEvaluation(e) \/ EvaluationFails(e)
  BY <1>10 DEF FinishEvaluation, EvaluationFails
<1>11. CASE Verify \/ Analyze
  BY <1>11 DEF Verify, Analyze
<1>12. CASE CheckSurface \/ ReadBudget \/ InstallBudget \/ BackfillMarkers \/ CloseWithVerdict
  BY <1>12 DEF CheckSurface, ReadBudget, InstallBudget, BackfillMarkers, CloseWithVerdict
<1>13. CASE UNCHANGED gateVars
  BY <1>13 DEF gateVars
<1>14. QED
  BY <1>1, <1>2, <1>3, <1>4, <1>5, <1>6, <1>7, <1>8, <1>9, <1>10, <1>11, <1>12, <1>13 DEF GateNext

(* Every step keeps the type of the launches. *)
LEMMA LaunchTypeStep ==
  ASSUME ScriptTypeOK, LaunchTypeOK, CellTypeOK, [GateNext]_gateVars
  PROVE  LaunchTypeOK'
<1> USE DEF LaunchTypeOK, scriptVars, cellVars, closeVars
<1>1. CASE StartDriver \/ Reap \/ BeginEvaluation \/ FinishDriver \/ KillDriver
  BY <1>1 DEF StartDriver, Reap, BeginEvaluation, FinishDriver, KillDriver
<1>2. ASSUME NEW c \in Cells, LaunchCell(c)
      PROVE  LaunchTypeOK'
  <2>1. [at |-> "train", due |-> 0, updates |-> 0] \in TrainingStates
    BY GateAssumption DEF TrainingStates
  <2>2. proc' \in [Launches -> {Quiet} \cup TrainingStates]
    BY <1>2, <2>1 DEF LaunchCell
  <2>3. QED
    BY <1>2, <2>2 DEF LaunchCell
<1>3. ASSUME NEW c \in Cells, PassEvaluation(c) \/ LoadCheckpoint(c)
      PROVE  LaunchTypeOK'
  <2>1. CASE PassEvaluation(c)
    BY <2>1 DEF PassEvaluation
  <2>2. CASE LoadCheckpoint(c)
    <3>1. [cell |-> c, updates |-> checkpoint[c], driver |-> starts]
            \in [cell : Cells, updates : 0..Updates, driver : 1..MaxStarts]
      BY <2>2 DEF LoadCheckpoint, BetweenEvaluations, ScriptTypeOK, CellTypeOK, Extents
    <3>2. QED
      BY <2>2, <3>1 DEF LoadCheckpoint
  <2>3. QED
    BY <1>3, <2>1, <2>2
<1>4. ASSUME NEW p \in Launches, Tick(p)
      PROVE  LaunchTypeOK'
  <2>1. PICK u \in {proc[p].updates, proc[p].updates + 1} :
          proc' = [proc EXCEPT ![p].updates = u, ![p].due = (proc[p].due + 1) % interval]
    BY <1>4 DEF Tick
  <2>2. proc[p] \in TrainingStates /\ proc[p].updates < Updates
    BY <1>4 DEF Tick, Quiet
  <2>3. u \in 0..Updates
    BY <2>1, <2>2, GateAssumption DEF TrainingStates
  <2>4. (proc[p].due + 1) % interval \in Nat
    BY <2>2 DEF TrainingStates, ScriptTypeOK
  <2>5. [[proc[p] EXCEPT !.updates = u] EXCEPT !.due = (proc[p].due + 1) % interval] \in TrainingStates
    BY <2>2, <2>3, <2>4 DEF TrainingStates
  <2>6. proc' \in [Launches -> {Quiet} \cup TrainingStates]
    BY <2>1, <2>5
  <2>7. QED
    BY <1>4, <2>6 DEF Tick
<1>5. ASSUME NEW p \in Launches, MarkDone(p)
      PROVE  LaunchTypeOK'
  <2>1. [proc[p] EXCEPT !.at = "mark"] \in TrainingStates
    BY <1>5 DEF MarkDone, Quiet, TrainingStates
  <2>2. QED
    BY <1>5, <2>1 DEF MarkDone
<1>6. ASSUME NEW p \in Launches, LogOk(p) \/ TrainingFails(p)
      PROVE  LaunchTypeOK'
  BY <1>6 DEF LogOk, TrainingFails, Leave
<1>7. CASE \E e \in evaluations : FinishEvaluation(e) \/ EvaluationFails(e)
  BY <1>7 DEF FinishEvaluation, EvaluationFails
<1>8. CASE Verify \/ Analyze
  BY <1>8 DEF Verify, Analyze
<1>9. CASE CheckSurface \/ ReadBudget \/ InstallBudget \/ BackfillMarkers \/ CloseWithVerdict
  BY <1>9 DEF CheckSurface, ReadBudget, InstallBudget, BackfillMarkers, CloseWithVerdict
<1>10. CASE UNCHANGED gateVars
  BY <1>10 DEF gateVars
<1>11. QED
  BY <1>1, <1>2, <1>3, <1>4, <1>5, <1>6, <1>7, <1>8, <1>9, <1>10 DEF GateNext

(* Every step keeps the type of the cells' files. *)
LEMMA CellTypeStep ==
  ASSUME ScriptTypeOK, LaunchTypeOK, CellTypeOK, [GateNext]_gateVars
  PROVE  CellTypeOK'
<1> USE DEF CellTypeOK, scriptVars, cellVars, closeVars
<1>1. CASE StartDriver \/ Reap \/ BeginEvaluation \/ FinishDriver \/ KillDriver
  BY <1>1 DEF StartDriver, Reap, BeginEvaluation, FinishDriver, KillDriver
<1>2. CASE \E c \in Cells : LaunchCell(c)
  BY <1>2, ExtentFacts DEF LaunchCell
<1>3. CASE \E c \in Cells : PassEvaluation(c) \/ LoadCheckpoint(c)
  BY <1>3 DEF PassEvaluation, LoadCheckpoint
<1>4. ASSUME NEW p \in Launches, Tick(p)
      PROVE  CellTypeOK'
  <2>1. PICK u \in {proc[p].updates, proc[p].updates + 1} :
          /\ checkpoint' = IF (proc[p].due + 1) % interval = 0
                           THEN [checkpoint EXCEPT ![p[1]] = u] ELSE checkpoint
          /\ logged' = [logged EXCEPT ![p[1]] = u]
    BY <1>4 DEF Tick
  <2>2. proc[p] \in TrainingStates /\ proc[p].updates < Updates
    BY <1>4 DEF Tick, Quiet, LaunchTypeOK
  <2>3. u \in Extents
    BY <2>1, <2>2, GateAssumption DEF TrainingStates, Extents
  <2>4. QED
    BY <1>4, <2>1, <2>3 DEF Tick
<1>5. CASE \E p \in Launches : MarkDone(p) \/ LogOk(p) \/ TrainingFails(p)
  BY <1>5 DEF MarkDone, LogOk, TrainingFails, Launches
<1>6. ASSUME NEW e \in evaluations, FinishEvaluation(e) \/ EvaluationFails(e)
      PROVE  CellTypeOK'
  <2>1. e.cell \in Cells /\ e.updates \in Extents
    BY ExtentFacts DEF LaunchTypeOK
  <2>2. QED
    BY <1>6, <2>1 DEF FinishEvaluation, EvaluationFails
<1>7. CASE Verify \/ Analyze
  BY <1>7 DEF Verify, Analyze
<1>8. CASE CheckSurface \/ ReadBudget \/ InstallBudget \/ BackfillMarkers \/ CloseWithVerdict
  BY <1>8 DEF CheckSurface, ReadBudget, InstallBudget, BackfillMarkers, CloseWithVerdict
<1>9. CASE UNCHANGED gateVars
  BY <1>9 DEF gateVars
<1>10. QED
  BY <1>1, <1>2, <1>3, <1>4, <1>5, <1>6, <1>7, <1>8, <1>9 DEF GateNext

(* The steps of the driver, its trainings and its evaluations leave the    *)
(* closing files alone.                                                    *)
LEMMA OutsideClose ==
  ASSUME \/ StartDriver \/ Reap \/ BeginEvaluation \/ FinishDriver \/ KillDriver
         \/ \E c \in Cells : LaunchCell(c) \/ PassEvaluation(c) \/ LoadCheckpoint(c)
         \/ \E p \in Launches : Tick(p) \/ MarkDone(p) \/ LogOk(p) \/ TrainingFails(p)
         \/ \E e \in evaluations : FinishEvaluation(e) \/ EvaluationFails(e)
         \/ UNCHANGED gateVars
  PROVE  UNCHANGED closeVars
<1> USE DEF closeVars
<1>1. CASE StartDriver \/ Reap \/ BeginEvaluation \/ FinishDriver \/ KillDriver
  BY <1>1 DEF StartDriver, Reap, BeginEvaluation, FinishDriver, KillDriver
<1>2. CASE \E c \in Cells : LaunchCell(c) \/ PassEvaluation(c) \/ LoadCheckpoint(c)
  BY <1>2 DEF LaunchCell, PassEvaluation, LoadCheckpoint
<1>3. CASE \E p \in Launches : Tick(p) \/ MarkDone(p) \/ LogOk(p) \/ TrainingFails(p)
  BY <1>3 DEF Tick, MarkDone, LogOk, TrainingFails
<1>4. CASE \E e \in evaluations : FinishEvaluation(e) \/ EvaluationFails(e)
  BY <1>4 DEF FinishEvaluation, EvaluationFails
<1>5. QED
  BY <1>1, <1>2, <1>3, <1>4 DEF gateVars

(* Every step keeps the type of the closer's and analyzer's variables. *)
LEMMA CloseTypeStep ==
  ASSUME CellTypeOK, CloseTypeOK, [GateNext]_gateVars
  PROVE  CloseTypeOK'
<1> USE DEF CloseTypeOK
<1>1. CASE UNCHANGED closeVars
  BY <1>1 DEF closeVars
<1>2. CASE Verify
  BY <1>2 DEF Verify, CellTypeOK
<1>3. ASSUME NEW b \in BOOLEAN, Judge(b)
      PROVE  verdict' \in [evaluated : [Cells -> Extents], closed : BOOLEAN, failed : BOOLEAN]
  <2>1. csv \in [Cells -> Extents] /\ (receiptLog.failed > 0) \in BOOLEAN
    BY DEF CellTypeOK
  <2>2. QED
    BY ONLY <1>3, <2>1 DEF Judge
<1>4. CASE Analyze
  BY <1>3, <1>4 DEF Analyze
<1>5. CASE CheckSurface
  BY <1>5 DEF CheckSurface
<1>6. CASE ReadBudget
  BY <1>6 DEF ReadBudget, CellTypeOK
<1>7. CASE InstallBudget
  BY <1>7 DEF InstallBudget
<1>8. CASE BackfillMarkers
  BY <1>8 DEF BackfillMarkers
<1>9. CASE CloseWithVerdict
  BY <1>3, <1>9 DEF CloseWithVerdict
<1>10. QED
  BY <1>1, <1>2, <1>4, <1>5, <1>6, <1>7, <1>8, <1>9, OutsideClose DEF GateNext

(* Every step of the gate campaign keeps its types. *)
LEMMA GateTypeStep ==
  ASSUME GateTypeOK, [GateNext]_gateVars
  PROVE  GateTypeOK'
BY ScriptTypeStep, LaunchTypeStep, CellTypeStep, CloseTypeStep DEF GateTypeOK

-----------------------------------------------------------------------------
(* One driver after the other, if none is started where one was killed. *)

(* A launch belongs to one stage of the one driver that is running. *)
LEMMA ScriptStep ==
  ASSUME ~RestartsKilled, GateTypeOK, ScriptInv, [GateNext]_gateVars
  PROVE  ScriptInv'
<1> USE DEF ScriptInv, scriptVars
<1>t. ScriptTypeOK /\ LaunchTypeOK
  BY DEF GateTypeOK
<1>q. \A q \in Launches : q = <<q[1], q[2]>> /\ q[1] \in Cells
  BY DEF Launches
<1>1. CASE StartDriver
  BY <1>1 DEF StartDriver
<1>2. CASE Reap
  BY <1>2 DEF Reap
<1>3. CASE BeginEvaluation
  <2>1. \A p \in Launches : proc[p] = Quiet
    BY <1>3, <1>q DEF BeginEvaluation, ChildrenHaveEnded
  <2>2. QED
    BY <1>3, <2>1 DEF BeginEvaluation
<1>4. CASE FinishDriver
  <2>1. evaluations = {}
    BY <1>4 DEF FinishDriver, BetweenEvaluations, OfDriver
  <2>2. QED
    BY <1>4, <2>1 DEF FinishDriver, BetweenEvaluations
<1>5. CASE KillDriver
  BY <1>5 DEF KillDriver
<1>6. ASSUME NEW c \in Cells, LaunchCell(c)
      PROVE  ScriptInv'
  <2>1. /\ driver = "train" /\ ~killed /\ evaluations = {}
        /\ driver' = driver /\ killed' = killed /\ starts' = starts
        /\ evaluations' = evaluations /\ todo' = todo \ {c}
    BY <1>6 DEF LaunchCell
  <2>2. \A p \in Launches : proc'[p] # Quiet => proc[p] # Quiet \/ p = <<c, starts>>
    BY <1>6, <1>t DEF LaunchCell, LaunchTypeOK
  <2>3. QED
    BY <2>1, <2>2
<1>7. ASSUME NEW c \in Cells, PassEvaluation(c) \/ LoadCheckpoint(c)
      PROVE  ScriptInv'
  <2>1. driver = "eval" /\ ~killed /\ evaluations = {}
    BY <1>7 DEF PassEvaluation, LoadCheckpoint, BetweenEvaluations, OfDriver
  <2>2. driver' = driver /\ killed' = killed /\ starts' = starts /\ proc' = proc
    BY <1>7 DEF PassEvaluation, LoadCheckpoint
  <2>3. \A e \in evaluations' : e = [cell |-> c, updates |-> checkpoint[c], driver |-> starts]
    BY <1>7, <2>1 DEF PassEvaluation, LoadCheckpoint
  <2>4. QED
    BY <2>1, <2>2, <2>3
<1>8. ASSUME NEW p \in Launches, Tick(p) \/ MarkDone(p) \/ LogOk(p) \/ TrainingFails(p)
      PROVE  ScriptInv'
  <2>1. /\ driver' = driver /\ killed' = killed /\ starts' = starts
        /\ evaluations' = evaluations /\ todo' = todo
    BY <1>8 DEF Tick, MarkDone, LogOk, TrainingFails
  <2>2. proc[p] # Quiet
    BY <1>8 DEF Tick, MarkDone, LogOk, TrainingFails, Quiet
  <2>3. \A q \in Launches : q # p => proc'[q] = proc[q]
    BY <1>8, <1>t DEF Tick, MarkDone, LogOk, TrainingFails, Leave, LaunchTypeOK
  <2>4. QED
    BY <2>1, <2>2, <2>3
<1>9. CASE \E e \in evaluations : FinishEvaluation(e) \/ EvaluationFails(e)
  <2>1. /\ driver' = driver /\ killed' = killed /\ starts' = starts
        /\ proc' = proc /\ todo' = todo /\ evaluations' \subseteq evaluations
        /\ evaluations # {}
    BY <1>9 DEF FinishEvaluation, EvaluationFails
  <2>2. QED
    BY <2>1
<1>10. CASE \/ Verify \/ Analyze \/ CheckSurface \/ ReadBudget \/ InstallBudget
            \/ BackfillMarkers \/ CloseWithVerdict \/ UNCHANGED gateVars
  <2>1. UNCHANGED <<driver, todo, proc, evaluations, starts, killed>>
    BY <1>10 DEF Verify, Analyze, CheckSurface, ReadBudget, InstallBudget, BackfillMarkers,
         CloseWithVerdict, gateVars
  <2>2. QED
    BY <2>1
<1>11. QED
  BY <1>1, <1>2, <1>3, <1>4, <1>5, <1>6, <1>7, <1>8, <1>9, <1>10 DEF GateNext

(* What evidence is about stays as it is in many steps. *)
LEMMA EvidenceUnchanged ==
  ASSUME EvidenceInv, UNCHANGED <<marking, proc, evaluations, checkpoint, done, csv, receiptLog, sidecar>>
  PROVE  EvidenceInv'
BY DEF EvidenceInv

(* Checkpoints, evaluations and receipts stay those of trainings that ended. *)
LEMMA EvidenceStep ==
  ASSUME ~RestartsKilled, GateTypeOK, ScriptInv, EvidenceInv, CloserInv, [GateNext]_gateVars
  PROVE  EvidenceInv'
<1> USE DEF scriptVars, cellVars, closeVars
<1>t. ScriptTypeOK /\ LaunchTypeOK /\ CellTypeOK /\ CloseTypeOK
  BY DEF GateTypeOK
<1>q. \A q \in Launches : q = <<q[1], q[2]>> /\ q[1] \in Cells
  BY DEF Launches
<1>1. CASE \/ StartDriver \/ Reap \/ BeginEvaluation \/ FinishDriver \/ KillDriver
           \/ Analyze \/ CheckSurface \/ ReadBudget \/ CloseWithVerdict
           \/ \E c \in Cells : PassEvaluation(c)
           \/ UNCHANGED gateVars
  <2>1. UNCHANGED <<marking, proc, evaluations, checkpoint, done, csv, receiptLog, sidecar>>
    BY <1>1 DEF StartDriver, Reap, BeginEvaluation, FinishDriver, KillDriver, Analyze, CheckSurface,
         ReadBudget, CloseWithVerdict, PassEvaluation, gateVars
  <2>2. QED
    BY <2>1, EvidenceUnchanged
<1>2. ASSUME NEW c \in Cells, LaunchCell(c)
      PROVE  EvidenceInv'
  <2>1. UNCHANGED <<marking, evaluations, checkpoint, done, csv, receiptLog, sidecar>>
    BY <1>2 DEF LaunchCell
  <2>2. CASE Skips(c)
    BY <1>2, <2>2, <2>1, EvidenceUnchanged DEF LaunchCell
  <2>3. CASE ~Skips(c) /\ receiptLog.failed = 0
    <3>1. driver = "train" /\ ~killed /\ evaluations = {} /\ <<c, starts>> \in Launches /\ c \in todo
      BY <1>2, <1>t DEF LaunchCell, ScriptInv, ScriptTypeOK, Launches
    <3>2. proc' = [proc EXCEPT ![<<c, starts>>] = [at |-> "train", due |-> 0, updates |-> 0]]
      BY <1>2, <2>3 DEF LaunchCell
    <3>3. \A p \in Launches : p[1] = c => proc[p] = Quiet
      BY <3>1 DEF ScriptInv
    <3>4. checkpoint[c] = Nil
      BY <2>3, <3>3, <1>t DEF Skips, SkippedBefore, EvidenceInv, ScriptTypeOK, Quiet
    <3>5. csv[c] = Nil
      BY <2>3, <3>4 DEF EvidenceInv
    <3>6. \A p \in Launches : p # <<c, starts>> => proc'[p] = proc[p]
      BY <3>2, <1>t DEF LaunchTypeOK
    <3>7. \A p \in Launches : p = <<c, starts>> => p[1] = c /\ proc'[p].at = "train"
      BY <3>1, <3>2, <1>t DEF LaunchTypeOK
    <3>8. \A p \in Launches : proc'[p] # Quiet =>
            /\ csv[p[1]] = Nil
            /\ proc'[p].at = "train" /\ checkpoint[p[1]] # Nil => checkpoint[p[1]] <= proc'[p].updates
      BY <3>4, <3>5, <3>6, <3>7, <2>3 DEF EvidenceInv
    <3>9. \A d \in Cells : marking /\ checkpoint[d] # Nil /\ d \notin done =>
            \E p \in Launches : p[1] = d /\ proc'[p].at = "train"
      <4> SUFFICES ASSUME NEW d \in Cells, marking, checkpoint[d] # Nil, d \notin done
                   PROVE  \E p \in Launches : p[1] = d /\ proc'[p].at = "train"
        OBVIOUS
      <4>1. PICK p \in Launches : p[1] = d /\ proc[p].at = "train"
        BY <2>3 DEF EvidenceInv
      <4>2. QED
        BY <4>1, <3>6, <3>7
    <3>10. QED
      BY <2>1, <2>3, <3>8, <3>9 DEF EvidenceInv
  <2>4. CASE receiptLog.failed # 0
    BY <2>1, <2>4 DEF EvidenceInv
  <2>5. QED
    BY <2>2, <2>3, <2>4
<1>3. ASSUME NEW c \in Cells, LoadCheckpoint(c)
      PROVE  EvidenceInv'
  <2>1. UNCHANGED <<marking, proc, checkpoint, done, csv, receiptLog, sidecar>>
    BY <1>3 DEF LoadCheckpoint
  <2>2. driver = "eval" /\ ~killed /\ csv[c] = Nil
    BY <1>3 DEF LoadCheckpoint, BetweenEvaluations, ScriptInv
  <2>3. \A e \in evaluations' : e \in evaluations \/ (e.updates = checkpoint[e.cell] /\ csv[e.cell] = Nil)
    BY <1>3, <2>2 DEF LoadCheckpoint
  <2>4. QED
    BY <2>1, <2>3 DEF EvidenceInv
<1>4. ASSUME NEW p \in Launches, Tick(p), receiptLog.failed = 0
      PROVE  EvidenceInv'
  <2>1. PICK u \in {proc[p].updates, proc[p].updates + 1} :
          /\ proc' = [proc EXCEPT ![p].updates = u, ![p].due = (proc[p].due + 1) % interval]
          /\ checkpoint' = IF (proc[p].due + 1) % interval = 0
                           THEN [checkpoint EXCEPT ![p[1]] = u] ELSE checkpoint
    BY <1>4 DEF Tick
  <2>2. proc[p] # Quiet /\ proc[p].at = "train" /\ proc[p] \in TrainingStates /\ proc[p].updates < Updates
    BY <1>4, <1>t DEF Tick, Quiet, LaunchTypeOK
  <2>3. u \in 0..Updates /\ u >= proc[p].updates /\ u # Nil /\ proc[p].updates \in Nat
    BY <2>1, <2>2, GateAssumption, ExtentFacts DEF TrainingStates
  <2>4. UNCHANGED <<marking, evaluations, done, csv, receiptLog, sidecar>> /\ evaluations = {}
    BY <1>4, <2>2 DEF Tick, ScriptInv
  <2>5. proc'[p].at = "train" /\ proc'[p].updates = u
    BY <2>1, <1>t, <2>2 DEF LaunchTypeOK, TrainingStates
  <2>6. \A q \in Launches : q # p => proc'[q] = proc[q] /\ (proc[q] # Quiet => q[1] # p[1])
    BY <2>1, <2>2, <1>t, SameLaunch DEF LaunchTypeOK, ScriptInv
  <2>7. \A c \in Cells : c # p[1] => checkpoint'[c] = checkpoint[c]
    BY <2>1, <1>t, <1>q DEF CellTypeOK
  <2>8. checkpoint'[p[1]] # Nil =>
          /\ checkpoint'[p[1]] \in Nat /\ checkpoint'[p[1]] <= u
          /\ checkpoint[p[1]] # Nil => checkpoint[p[1]] \in Nat /\ checkpoint[p[1]] <= checkpoint'[p[1]]
    <3>1. checkpoint[p[1]] # Nil => checkpoint[p[1]] \in Nat /\ checkpoint[p[1]] <= proc[p].updates
      BY <1>4, <1>t, <1>q, <2>2 DEF EvidenceInv, CellTypeOK, Extents
    <3>2. QED
      BY <3>1, <2>1, <2>3, <1>t, <1>q DEF CellTypeOK
  <2>9. checkpoint[p[1]] # Nil => checkpoint'[p[1]] # Nil
    BY <2>1, <2>3, <1>t, <1>q DEF CellTypeOK
  <2>10. \A q \in Launches : proc'[q] # Quiet =>
           /\ csv[q[1]] = Nil
           /\ proc'[q].at = "train" /\ checkpoint'[q[1]] # Nil => checkpoint'[q[1]] <= proc'[q].updates
    BY <1>4, <1>q, <2>2, <2>5, <2>6, <2>7, <2>8 DEF EvidenceInv
  <2>11. \A c \in Cells : marking /\ checkpoint'[c] # Nil /\ c \notin done =>
           \E q \in Launches : q[1] = c /\ proc'[q].at = "train"
    <3> SUFFICES ASSUME NEW c \in Cells, marking, checkpoint'[c] # Nil, c \notin done, c # p[1]
                 PROVE  \E q \in Launches : q[1] = c /\ proc'[q].at = "train"
      BY <2>5
    <3>1. PICK q \in Launches : q[1] = c /\ proc[q].at = "train"
      BY <1>4, <2>7 DEF EvidenceInv
    <3>2. QED
      BY <3>1, <2>6
  <2>12. \A c \in Cells : csv[c] # Nil => csv[c] = checkpoint'[c]
    BY <1>4, <2>2, <2>7 DEF EvidenceInv
  <2>13. sidecar.budget # Nil => \A c \in Cells : sidecar.budget[c] # Nil =>
           checkpoint'[c] # Nil /\ sidecar.budget[c] <= checkpoint'[c]
    <3> SUFFICES ASSUME sidecar.budget # Nil, NEW c \in Cells, sidecar.budget[c] # Nil
                 PROVE  checkpoint'[c] # Nil /\ sidecar.budget[c] <= checkpoint'[c]
      OBVIOUS
    <3>1. checkpoint[c] # Nil /\ sidecar.budget[c] <= checkpoint[c]
      BY <1>4 DEF EvidenceInv
    <3>2. sidecar.budget[c] \in Nat
      BY <1>t DEF CloseTypeOK, Extents
    <3>3. QED
      BY <3>1, <3>2, <2>7, <2>8, <2>9
  <2>14. QED
    BY <2>4, <2>10, <2>11, <2>12, <2>13 DEF EvidenceInv
<1>5. ASSUME NEW p \in Launches, MarkDone(p) \/ LogOk(p), receiptLog.failed = 0
      PROVE  EvidenceInv'
  <2>1. UNCHANGED <<marking, evaluations, checkpoint, csv, sidecar>>
    BY <1>5 DEF MarkDone, LogOk
  <2>2. proc[p] # Quiet /\ proc[p].at \in {"train", "mark"}
    BY <1>5 DEF MarkDone, LogOk, Quiet
  <2>3. \A q \in Launches : q # p => proc'[q] = proc[q]
    BY <1>5, <1>t DEF MarkDone, LogOk, Leave, LaunchTypeOK
  <2>4. proc'[p].at # "train"
    BY <1>5, <1>t DEF MarkDone, LogOk, Leave, LaunchTypeOK, Quiet, TrainingStates
  <2>5. \A c \in Cells : marking /\ checkpoint[c] # Nil /\ c \notin done' =>
          \E q \in Launches : q[1] = c /\ proc'[q].at = "train"
    <3> SUFFICES ASSUME NEW c \in Cells, marking, checkpoint[c] # Nil, c \notin done'
                 PROVE  \E q \in Launches : q[1] = c /\ proc'[q].at = "train"
      OBVIOUS
    <3>1. c \notin done
      BY <1>5 DEF MarkDone, LogOk
    <3>2. PICK q \in Launches : q[1] = c /\ proc[q].at = "train"
      BY <1>5, <3>1 DEF EvidenceInv
    <3>3. q # p
      BY <1>5, <3>2 DEF MarkDone, LogOk
    <3>4. QED
      BY <2>3, <3>2, <3>3
  <2>6. QED
    BY <1>5, <2>1, <2>2, <2>3, <2>4, <2>5 DEF EvidenceInv
<1>6. ASSUME NEW p \in Launches, TrainingFails(p)
      PROVE  EvidenceInv'
  <2>1. receiptLog'.failed = receiptLog.failed + 1 /\ receiptLog.failed \in Nat
    BY <1>6, <1>t DEF TrainingFails, CellTypeOK
  <2>2. QED
    BY <2>1 DEF EvidenceInv
<1>7. ASSUME NEW p \in Launches, Tick(p) \/ MarkDone(p) \/ LogOk(p), receiptLog.failed # 0
      PROVE  EvidenceInv'
  <2>1. receiptLog'.failed # 0
    BY <1>7, <1>t DEF Tick, MarkDone, LogOk, CellTypeOK
  <2>2. QED
    BY <2>1 DEF EvidenceInv
<1>8. ASSUME NEW e \in evaluations, FinishEvaluation(e)
      PROVE  EvidenceInv'
  <2>1. UNCHANGED <<marking, proc, checkpoint, done, sidecar>> /\ csv' = [csv EXCEPT ![e.cell] = e.updates]
    BY <1>8 DEF FinishEvaluation
  <2>2. receiptLog'.failed = receiptLog.failed
    BY <1>8, <1>t DEF FinishEvaluation, CellTypeOK
  <2>3. evaluations' = {} /\ \A p \in Launches : proc[p] = Quiet
    BY <1>8 DEF FinishEvaluation, ScriptInv
  <2>4. \A c \in Cells : csv'[c] = csv[c] \/ (c = e.cell /\ csv'[c] = e.updates)
    BY <2>1, <1>t DEF CellTypeOK
  <2>5. QED
    BY <2>1, <2>2, <2>3, <2>4 DEF EvidenceInv
<1>9. ASSUME NEW e \in evaluations, EvaluationFails(e)
      PROVE  EvidenceInv'
  <2>1. UNCHANGED <<marking, proc, checkpoint, done, csv, sidecar>> /\ evaluations' \subseteq evaluations
    BY <1>9 DEF EvaluationFails
  <2>2. receiptLog'.failed = 0 => receiptLog.failed = 0
    BY <1>9, <1>t DEF EvaluationFails, CellTypeOK
  <2>3. QED
    BY <2>1, <2>2 DEF EvidenceInv
<1>10. CASE Verify \/ InstallBudget
  <2>1. UNCHANGED <<marking, proc, evaluations, checkpoint, done, csv, receiptLog>>
    BY <1>10 DEF Verify, InstallBudget
  <2>2. sidecar'.budget = checkpoint
    BY <1>10, <1>t DEF Verify, InstallBudget, CloserInv, CloseTypeOK
  <2>3. \A c \in Cells : checkpoint[c] # Nil => checkpoint[c] <= checkpoint[c]
    BY <1>t, GateAssumption DEF CellTypeOK, Extents
  <2>4. QED
    BY <2>1, <2>2, <2>3 DEF EvidenceInv
<1>11. CASE BackfillMarkers
  <2>1. UNCHANGED <<marking, proc, evaluations, checkpoint, csv, receiptLog, sidecar>> /\ done' = Cells
    BY <1>11 DEF BackfillMarkers
  <2>2. QED
    BY <2>1 DEF EvidenceInv
<1>12. QED
  BY <1>1, <1>2, <1>3, <1>4, <1>5, <1>6, <1>7, <1>8, <1>9, <1>10, <1>11 DEF GateNext

(* While the closer is at work, nothing else is. *)
LEMMA CloserStep ==
  ASSUME ~RestartsKilled, GateTypeOK, ScriptInv, EvidenceInv, CloserInv, [GateNext]_gateVars
  PROVE  CloserInv'
<1> USE DEF scriptVars, cellVars, closeVars
<1>t. LaunchTypeOK /\ CellTypeOK /\ CloseTypeOK
  BY DEF GateTypeOK
<1>q. \A q \in Launches : q[1] \in Cells
  BY DEF Launches
<1>1. CASE closer'.at \notin {"surface", "budget", "mark", "judge"}
  BY <1>1 DEF CloserInv
<1>2. CASE CheckSurface
  BY <1>2 DEF CheckSurface, SurfaceIsClean, CloserInv
<1>3. CASE ReadBudget
  BY <1>3 DEF ReadBudget, CloserInv
<1>4. CASE InstallBudget
  BY <1>4 DEF InstallBudget, CloserInv
<1>5. CASE BackfillMarkers
  BY <1>5 DEF BackfillMarkers, CloserInv
<1>6. CASE CloseWithVerdict
  BY <1>6, <1>1 DEF CloseWithVerdict
<1>7. ASSUME closer' = closer, closer'.at \in {"surface", "budget", "mark", "judge"}, [GateNext]_gateVars
      PROVE  CloserInv'
  <2>1. receiptLog.failed = 0 /\ \A c \in Cells : csv[c] # Nil
    BY <1>7 DEF CloserInv
  <2>2. \A p \in Launches : proc[p] = Quiet
    BY <1>q, <2>1 DEF EvidenceInv
  <2>3. evaluations = {}
    BY <1>t, <2>1 DEF EvidenceInv, LaunchTypeOK
  <2>4. \A p \in Launches : ~Tick(p) /\ ~MarkDone(p) /\ ~LogOk(p) /\ ~TrainingFails(p)
    BY <2>2 DEF Tick, MarkDone, LogOk, TrainingFails, Quiet
  <2>5. UNCHANGED <<checkpoint, csv, receiptLog>>
    <3>1. CASE StartDriver \/ Reap \/ BeginEvaluation \/ FinishDriver \/ KillDriver
      BY <3>1 DEF StartDriver, Reap, BeginEvaluation, FinishDriver, KillDriver
    <3>2. CASE \E c \in Cells : LaunchCell(c) \/ PassEvaluation(c) \/ LoadCheckpoint(c)
      BY <3>2 DEF LaunchCell, PassEvaluation, LoadCheckpoint
    <3>3. CASE \/ Verify \/ Analyze \/ CheckSurface \/ ReadBudget \/ InstallBudget
               \/ BackfillMarkers \/ CloseWithVerdict
      BY <3>3 DEF Verify, Analyze, CheckSurface, ReadBudget, InstallBudget, BackfillMarkers,
           CloseWithVerdict
    <3>4. CASE UNCHANGED gateVars
      BY <3>4 DEF gateVars
    <3>5. QED
      BY <1>7, <2>3, <2>4, <3>1, <3>2, <3>3, <3>4 DEF GateNext
  <2>6. QED
    BY <1>7, <2>1, <2>5 DEF CloserInv
<1>8. CASE UNCHANGED closeVars
  BY <1>1, <1>7, <1>8
<1>9. CASE Verify \/ Analyze
  BY <1>1, <1>7, <1>9 DEF Verify, Analyze
<1>10. QED
  BY <1>2, <1>3, <1>4, <1>5, <1>6, <1>8, <1>9, OutsideClose DEF GateNext

(* A verdict without failures, or of the closer, is of trained cells. *)
LEMMA VerdictStep ==
  ASSUME ~RestartsKilled, GateTypeOK, EvidenceInv, CloserInv, VerdictIsOfTrainedCells, [GateNext]_gateVars
  PROVE  VerdictIsOfTrainedCells'
<1>t. CellTypeOK /\ CloseTypeOK
  BY DEF GateTypeOK
<1>1. CASE UNCHANGED verdict
  BY <1>1 DEF VerdictIsOfTrainedCells, TrainedEvidence
<1>2. ASSUME NEW b \in BOOLEAN, Judge(b), b => receiptLog.failed = 0
      PROVE  VerdictIsOfTrainedCells'
  <2>1. verdict' = [evaluated |-> csv, closed |-> b, failed |-> receiptLog.failed > 0]
    BY <1>2 DEF Judge
  <2>2. CASE receiptLog.failed = 0
    <3>1. \A c \in Cells : /\ csv[c] = checkpoint[c] /\ sidecar.budget[c] # Nil
                            /\ sidecar.budget[c] >= MinStored /\ sidecar.budget[c] <= checkpoint[c]
      BY <1>2, <2>2 DEF Judge, Accepts, EvidenceInv
    <3>2. \A c \in Cells : sidecar.budget[c] # Nil => sidecar.budget[c] \in Nat
      BY <1>2, <1>t DEF Judge, CloseTypeOK, Extents
    <3>3. \A c \in Cells : csv[c] # Nil => csv[c] \in Nat
      BY <1>t DEF CellTypeOK, Extents
    <3>4. \A c \in Cells : csv[c] >= MinStored
      BY <1>2, <3>1, <3>2, <3>3, GateAssumption DEF Judge, Accepts
    <3>5. QED
      BY <2>1, <3>4 DEF VerdictIsOfTrainedCells, TrainedEvidence
  <2>3. CASE receiptLog.failed # 0
    <3>1. ~verdict'.closed
      BY <1>2, <2>1, <2>3
    <3>2. verdict'.failed
      <4>1. receiptLog.failed > 0
        BY <1>t, <2>3 DEF CellTypeOK
      <4>2. verdict'.failed = (receiptLog.failed > 0)
        BY <2>1, Zenon
      <4>3. QED
        BY <4>1, <4>2, Zenon
    <3>3. QED
      BY <3>1, <3>2 DEF VerdictIsOfTrainedCells
  <2>4. QED
    BY <2>2, <2>3
<1>3. CASE Analyze
  BY <1>2, <1>3 DEF Analyze
<1>4. CASE CloseWithVerdict
  BY <1>2, <1>4 DEF CloseWithVerdict, CloserInv
<1>5. CASE Verify \/ CheckSurface \/ ReadBudget \/ InstallBudget \/ BackfillMarkers
  BY <1>1, <1>5 DEF Verify, CheckSurface, ReadBudget, InstallBudget, BackfillMarkers
<1>6. CASE UNCHANGED closeVars
  BY <1>1, <1>6 DEF closeVars
<1>7. QED
  BY <1>3, <1>4, <1>5, <1>6, OutsideClose DEF GateNext

-----------------------------------------------------------------------------

(***************************************************************************)
(* Whatever is killed, failed or started again, the state of the campaign  *)
(* keeps its types.                                                        *)
(***************************************************************************)
THEOREM GateTypeCorrect == GateSpec => []GateTypeOK
<1>1. GateInit => GateTypeOK
  BY InitialGate DEF GateInv
<1>2. GateTypeOK /\ [GateNext]_gateVars => GateTypeOK'
  BY GateTypeStep
<1>3. QED
  BY <1>1, <1>2, PTL DEF GateSpec

(* The inductive invariant of the campaign when no killed driver is restarted. *)
LEMMA GateInvHolds ==
  ASSUME ~RestartsKilled
  PROVE  GateSpec => []GateInv
<1>1. GateInit => GateInv
  BY InitialGate
<1>2. GateInv /\ [GateNext]_gateVars => GateInv'
  BY GateTypeStep, ScriptStep, EvidenceStep, CloserStep, VerdictStep DEF GateInv
<1>3. QED
  BY <1>1, <1>2, PTL DEF GateSpec

(***************************************************************************)
(* For any number of cells, slots, starts and failures: if no driver is    *)
(* started where one was killed, no cell is trained by two processes, nor  *)
(* evaluated while it is trained.                                          *)
(***************************************************************************)
THEOREM CellsAreQuietHolds == GateSpec => []CellsAreQuiet
<1>1. CASE RestartsKilled
  <2>1. CellsAreQuiet
    BY <1>1 DEF CellsAreQuiet
  <2>2. QED
    BY <2>1, PTL
<1>2. CASE ~RestartsKilled
  <2>1. GateInv => CellsAreQuiet
    BY SameLaunch DEF GateInv, ScriptInv, CellsAreQuiet
  <2>2. QED
    BY <1>2, <2>1, GateInvHolds, PTL
<1>3. QED
  BY <1>1, <1>2

(***************************************************************************)
(* For any number of cells, slots, starts and failures, and every interval *)
(* between checkpoints: if no driver is started where one was killed, the  *)
(* verdict of a campaign without a failure, or of the closer, rests on     *)
(* evaluations of checkpoints trained to the budget.                       *)
(***************************************************************************)
THEOREM VerdictIsOfTrainedCellsHolds == GateSpec => []VerdictIsOfTrainedCells
<1>1. CASE RestartsKilled
  <2>1. VerdictIsOfTrainedCells
    BY <1>1 DEF VerdictIsOfTrainedCells
  <2>2. QED
    BY <2>1, PTL
<1>2. CASE ~RestartsKilled
  <2>1. GateInv => VerdictIsOfTrainedCells
    BY DEF GateInv
  <2>2. QED
    BY <1>2, <2>1, GateInvHolds, PTL
<1>3. QED
  BY <1>1, <1>2

-------------------------------------------------------------------------------
(* ReplayDriver. *)

PlanItems == Runs \cup {"audit", "preflight", "deliver"}
Checked   == Len(Comparators) + 3

(* Where the items of the plan are. *)
LEMMA PlanIsSeq == Plan \in Seq(PlanItems)
<1>1. /\ Comparators \in Seq(PlanItems) /\ Treatments \in Seq(PlanItems)
  BY DriverAssumption, SeqDef DEF PlanItems, Runs, Range
<1>2. <<"audit", Collection, "preflight", "audit">> \in Seq(PlanItems) /\ <<"deliver">> \in Seq(PlanItems)
  BY DEF PlanItems, Runs
<1>3. Comparators \o <<"audit", Collection, "preflight", "audit">> \in Seq(PlanItems)
  BY <1>1, <1>2, ConcatProperties
<1>4. Comparators \o <<"audit", Collection, "preflight", "audit">> \o Treatments \in Seq(PlanItems)
  BY <1>1, <1>3, ConcatProperties
<1>5. QED
  BY <1>2, <1>4, ConcatProperties DEF Plan

(* Where the driver's plan has the preflight, and what comes before and after. *)
LEMMA PlanPositions ==
  /\ Len(Plan) \in Nat /\ Checked \in Nat /\ Checked + 1 < Len(Plan)
  /\ Plan[Len(Plan)] = "deliver" /\ Plan[Checked] = "preflight"
  /\ \A r \in Range(Comparators) \cup {Collection} :
       \E i \in 1..(Checked - 1) : Plan[i] = r
  /\ \A i \in 1..Len(Plan) :
       /\ Plan[i] = "preflight" => i = Checked
       /\ Plan[i] \in Range(Treatments) => i > Checked
<1> DEFINE Middle == <<"audit", Collection, "preflight", "audit">>
           P == Comparators \o Middle
           Q == P \o Treatments
<1>1. /\ Comparators \in Seq(PlanItems) /\ Treatments \in Seq(PlanItems)
      /\ Middle \in Seq(PlanItems) /\ <<"deliver">> \in Seq(PlanItems)
  BY DriverAssumption, SeqDef DEF PlanItems, Runs, Range
<1>2. P \in Seq(PlanItems) /\ Q \in Seq(PlanItems) /\ Plan \in Seq(PlanItems) /\ Plan = Q \o <<"deliver">>
  <2> HIDE DEF Middle
  <2>1. P \in Seq(PlanItems)
    BY <1>1, ConcatProperties
  <2>2. Q \in Seq(PlanItems)
    BY <1>1, <2>1, ConcatProperties
  <2>3. QED
    BY <2>1, <2>2, PlanIsSeq DEF Plan, Middle
<1>3. Len(Middle) = 4 /\ Len(<<"deliver">>) = 1
  OBVIOUS
<1>4. /\ Len(Comparators) \in Nat /\ Len(Treatments) \in Nat
      /\ DOMAIN Comparators = 1..Len(Comparators) /\ DOMAIN Treatments = 1..Len(Treatments)
  BY <1>1, LenProperties
<1>5. /\ Len(P) = Len(Comparators) + 4
      /\ \A i \in 1..Len(Comparators) : P[i] = Comparators[i]
      /\ \A i \in 1..4 : P[Len(Comparators) + i] = Middle[i]
  <2> HIDE DEF Middle
  <2>1. /\ Len(P) = Len(Comparators) + Len(Middle)
        /\ \A i \in 1..Len(P) : P[i] = IF i <= Len(Comparators) THEN Comparators[i] ELSE Middle[i - Len(Comparators)]
    BY <1>1, ConcatProperties
  <2>2. QED
    BY <1>3, <1>4, <2>1
<1>6. /\ Len(Q) = Len(P) + Len(Treatments)
      /\ \A i \in 1..Len(P) : Q[i] = P[i]
      /\ \A i \in 1..Len(Treatments) : Q[Len(P) + i] = Treatments[i]
  <2> HIDE DEF P
  <2>1. /\ Len(Q) = Len(P) + Len(Treatments) /\ Len(P) \in Nat
        /\ \A i \in 1..Len(Q) : Q[i] = IF i <= Len(P) THEN P[i] ELSE Treatments[i - Len(P)]
    BY <1>1, <1>2, ConcatProperties, LenProperties
  <2>2. QED
    BY <1>4, <2>1
<1>7. /\ Len(Plan) = Len(Q) + 1
      /\ \A i \in 1..Len(Q) : Plan[i] = Q[i]
      /\ Plan[Len(Q) + 1] = "deliver"
  <2> HIDE DEF Q
  <2>1. /\ Len(Plan) = Len(Q) + 1 /\ Len(Q) \in Nat
        /\ \A i \in 1..Len(Plan) : Plan[i] = IF i <= Len(Q) THEN Q[i] ELSE <<"deliver">>[i - Len(Q)]
    BY <1>1, <1>2, <1>3, ConcatProperties, LenProperties
  <2>2. QED
    BY <2>1
<1>8. /\ \A i \in 1..Len(Comparators) : Plan[i] = Comparators[i]
      /\ Plan[Len(Comparators) + 1] = "audit" /\ Plan[Len(Comparators) + 2] = Collection
      /\ Plan[Len(Comparators) + 3] = "preflight" /\ Plan[Len(Comparators) + 4] = "audit"
      /\ \A i \in 1..Len(Treatments) : Plan[Len(Comparators) + 4 + i] = Treatments[i]
      /\ Len(Plan) = Len(Comparators) + Len(Treatments) + 5 /\ Plan[Len(Plan)] = "deliver"
  <2> Middle[1] = "audit" /\ Middle[2] = Collection /\ Middle[3] = "preflight" /\ Middle[4] = "audit"
    OBVIOUS
  <2> HIDE DEF Middle, P, Q
  <2> QED BY <1>4, <1>5, <1>6, <1>7
<1> HIDE DEF Middle, P, Q
<1>9. ASSUME NEW i \in 1..Len(Plan), i <= Checked
      PROVE  Plan[i] \notin Range(Treatments) /\ (Plan[i] = "preflight" => i = Checked)
  <2>1. CASE i \in 1..Len(Comparators)
    <3>1. Plan[i] \in Range(Comparators)
      BY <1>4, <1>8, <2>1 DEF Range
    <3>2. QED
      BY <3>1, DriverAssumption DEF Runs
  <2>2. CASE i \in {Len(Comparators) + 1, Len(Comparators) + 2, Len(Comparators) + 3}
    BY <1>8, <2>2, DriverAssumption, <1>4 DEF Runs, Checked
  <2>3. QED
    BY <1>4, <1>9, <2>1, <2>2 DEF Checked
<1>10. ASSUME NEW i \in 1..Len(Plan), i > Checked
       PROVE  Plan[i] # "preflight"
  <2> DEFINE m == Len(Comparators)
             n == Len(Treatments)
  <2>0. m \in Nat /\ n \in Nat /\ Len(Plan) = m + n + 5 /\ i \in Nat /\ i > m + 3 /\ i <= m + n + 5
    BY <1>4, <1>8, <1>10 DEF Checked
  <2>1. i = m + 4 \/ i = Len(Plan) \/ \E j \in 1..n : i = m + 4 + j
    <3> HIDE DEF m, n
    <3>1. i = m + 4 \/ i = m + n + 5 \/ (i - (m + 4)) \in 1..n
      BY <2>0
    <3>2. i = m + 4 + (i - (m + 4))
      BY <2>0
    <3>3. QED
      BY <2>0, <3>1, <3>2
  <2>2. \A j \in 1..Len(Treatments) : Treatments[j] # "preflight"
    BY <1>4, DriverAssumption DEF Runs, Range
  <2>3. ASSUME NEW j \in 1..n, i = m + 4 + j PROVE Plan[i] # "preflight"
    BY <1>8, <2>2, <2>3
  <2>4. QED
    BY <1>8, <2>1, <2>3
<1>11. ASSUME NEW r \in Range(Comparators) \cup {Collection}
       PROVE  \E i \in 1..(Checked - 1) : Plan[i] = r
  <2>1. CASE r = Collection
    BY <1>4, <1>8, <2>1 DEF Checked
  <2>2. CASE r \in Range(Comparators)
    <3>1. PICK i \in 1..Len(Comparators) : r = Comparators[i]
      BY <1>4, <2>2 DEF Range
    <3>2. i \in 1..(Checked - 1) /\ Plan[i] = r
      BY <1>4, <1>8, <3>1 DEF Checked
    <3>3. QED
      BY <3>2
  <2>3. QED
    BY <2>1, <2>2
<1>12. Len(Plan) \in Nat /\ Checked \in Nat /\ Checked + 1 < Len(Plan) /\ Plan[Checked] = "preflight"
  BY <1>4, <1>8 DEF Checked
<1>13. QED
  BY <1>8, <1>9, <1>10, <1>11, <1>12

-------------------------------------------------------------------------------
Dirs == [status : {"none", "partial", "complete"}, by : SUBSET (1..launched)]
Trainings == [id : 1..launched, run : Runs, stage : {"starting", "training"}]

DriverTypeOK ==
  /\ launched \in Nat /\ finished \in SUBSET (1..launched)
  /\ at \in [Drivers -> 0..Len(Plan)] /\ child \in [Drivers -> 0..launched]
  /\ audited \in SUBSET Drivers /\ clear \in SUBSET Drivers
  /\ alive \in SUBSET Trainings /\ dir \in [Runs -> Dirs]

(* At most one driver holds the lock, at most one process trains, and the  *)
(* one that trains under a driver is the child it waits for.               *)
LockInv ==
  /\ \A d, e \in Drivers : at[d] # 0 /\ at[e] # 0 => d = e
  /\ \A p, q \in alive : p = q
  /\ \A p \in alive : p.id \notin finished /\ dir[p.run] = [status |-> "partial", by |-> {p.id}]
  /\ \A d \in Drivers :
       /\ at[d] # 0 => \A p \in alive : p.id = child[d] /\ p.run = Item(d)
       /\ child[d] # 0 => /\ at[d] # 0 /\ Item(d) \in Runs /\ d \notin clear
                          /\ dir[Item(d)] = [status |-> "partial", by |-> {child[d]}]
       /\ d \in clear => at[d] # 0 /\ Item(d) \in Runs /\ dir[Item(d)].status = "none"

(* What a driver has passed is complete, and checked once it is past the   *)
(* preflight.                                                              *)
PlanInv ==
  /\ \A r \in Runs : dir[r].status = "none" => dir[r] = Empty
  /\ \A r \in Runs : Complete(r) => \E i \in finished : dir[r].by = {i}
  /\ \A d \in Drivers :
       /\ \A i \in 1..Len(Plan) : i < at[d] /\ Plan[i] \in Runs => Complete(Plan[i])
       /\ at[d] > Checked => preflight = Passed

DriverInv == DriverTypeOK /\ LockInv /\ PlanInv /\ TreatmentIsPreflighted

USE DEF DriverTypeOK, Dirs, Trainings

(* Nobody holds the lock: no driver is in its plan, no training is alive. *)
LEMMA LockIsFree ==
  ASSUME DriverInv, LockFree
  PROVE  /\ alive = {} /\ clear = {}
         /\ \A d \in Drivers : at[d] = 0 /\ child[d] = 0
BY DEF DriverInv, LockInv, LockFree

(* A driver between two trainings is alone. *)
LEMMA AloneInThePlan ==
  ASSUME DriverInv, NEW d \in Drivers, at[d] # 0, child[d] = 0
  PROVE  /\ alive = {} /\ clear \subseteq {d}
         /\ \A e \in Drivers \ {d} : at[e] = 0 /\ child[e] = 0
<1>1. \A e \in Drivers \ {d} : at[e] = 0 /\ child[e] = 0
  BY DEF DriverInv, LockInv
<1>2. ASSUME NEW p \in alive PROVE p.id # 0 /\ p.id = child[d]
  <2>1. p \in Trainings /\ launched \in Nat
    BY DEF DriverInv
  <2>2. p.id = child[d]
    BY DEF DriverInv, LockInv
  <2>3. QED
    BY <2>1, <2>2
<1>3. clear \subseteq {d}
  BY <1>1 DEF DriverInv, LockInv
<1>4. QED
  BY <1>1, <1>2, <1>3

(* The items of a driver's plan, as far as it has come. *)
LEMMA Passing ==
  ASSUME DriverInv, NEW d \in Drivers, at[d] # 0
  PROVE  /\ at[d] \in 1..Len(Plan) /\ Item(d) = Plan[at[d]]
         /\ at[d] > Checked => \A r \in Range(Comparators) \cup {Collection} : Complete(r)
         /\ Item(d) \in Range(Treatments) => at[d] > Checked
         /\ Item(d) = "preflight" => at[d] = Checked
         /\ Item(d) \in Runs \cup {"audit", "preflight"} => at[d] + 1 \in 1..Len(Plan)
         /\ Item(d) # "preflight" => at[d] # Checked
<1>1. /\ at[d] \in 1..Len(Plan) /\ Item(d) = Plan[at[d]]
  BY PlanPositions DEF DriverInv, Item
<1>2. ASSUME at[d] > Checked, NEW r \in Range(Comparators) \cup {Collection}
      PROVE  Complete(r)
  <2>1. PICK i \in 1..(Checked - 1) : Plan[i] = r
    BY PlanPositions, <1>2
  <2>2. i \in 1..Len(Plan) /\ i < at[d] /\ r \in Runs
    BY PlanPositions, <1>1, <1>2 DEF Runs
  <2>3. QED
    BY <2>1, <2>2 DEF DriverInv, PlanInv
<1>3. Item(d) \in Range(Treatments) => at[d] > Checked
  BY <1>1, PlanPositions
<1>4. Item(d) = "preflight" => at[d] = Checked
  BY <1>1, PlanPositions
<1>5. Item(d) # "preflight" => at[d] # Checked
  BY <1>1, PlanPositions
<1>6. ASSUME Item(d) \in Runs \cup {"audit", "preflight"} PROVE at[d] + 1 \in 1..Len(Plan)
  <2>1. at[d] # Len(Plan)
    BY <1>1, <1>6, PlanPositions, DriverAssumption
  <2>2. QED
    BY <1>1, <2>1, PlanPositions
<1>7. QED
  BY <1>1, <1>2, <1>3, <1>4, <1>5, <1>6

(* The first driver finds no directory, no report and no process. *)
LEMMA DriverInitial == DriverInit => DriverInv
<1> SUFFICES ASSUME DriverInit PROVE DriverInv
  OBVIOUS
<1> USE DEF DriverInit
<1>1. DriverTypeOK
  BY PlanPositions DEF Empty
<1>2. LockInv
  BY DEF LockInv
<1>3. PlanInv
  <2>1. \A i \in 1..Len(Plan) : ~(i < 0)
    BY PlanPositions
  <2>2. ~(0 > Checked)
    BY PlanPositions
  <2>3. QED
    BY <2>1, <2>2 DEF PlanInv, Empty, Complete
<1>4. QED
  BY <1>1, <1>2, <1>3 DEF DriverInv, TreatmentIsPreflighted

(* A driver starts: it holds nothing yet. *)
LEMMA LaunchKeeps ==
  ASSUME DriverInv, NEW d \in Drivers, Launch(d)
  PROVE  DriverInv'
<1>1. UNCHANGED <<at, clear, child, alive, finished, launched, dir, preflight>> /\ audited' \in SUBSET Drivers
  BY DEF Launch, DriverInv
<1>2. QED
  BY <1>1 DEF DriverInv, LockInv, PlanInv, TreatmentIsPreflighted, Passed, Complete, Item

(* flock succeeds only when neither a driver nor a child holds the lock. *)
LEMMA TakeLockKeeps ==
  ASSUME DriverInv, NEW d \in Drivers, TakeLock(d)
  PROVE  DriverInv'
<1>1. /\ UNCHANGED <<clear, child, alive, finished, launched, dir, preflight>>
      /\ audited' \in SUBSET Drivers
      /\ at' = IF LockFree THEN [at EXCEPT ![d] = 1] ELSE at
  BY DEF TakeLock, DriverInv
<1>2. CASE ~LockFree
  BY <1>1, <1>2 DEF DriverInv, LockInv, PlanInv, TreatmentIsPreflighted, Passed, Complete, Item
<1>3. CASE LockFree
  <2>1. alive = {} /\ clear = {} /\ \A e \in Drivers : at[e] = 0 /\ child[e] = 0
    BY <1>3, LockIsFree
  <2>2. at' = [at EXCEPT ![d] = 1] /\ 1 \in 1..Len(Plan) /\ ~(1 > Checked) /\ Checked \in Nat
    BY <1>1, <1>3, PlanPositions DEF Checked
  <2>3. \A e \in Drivers : at'[e] = IF e = d THEN 1 ELSE 0
    BY <2>1, <2>2 DEF DriverInv
  <2>4. DriverTypeOK'
    BY <1>1, <2>2 DEF DriverInv
  <2>5. LockInv'
    BY <1>1, <2>1, <2>3 DEF LockInv
  <2>6. PlanInv'
    <3>1. \A i \in 1..Len(Plan) : ~(i < 1)
      OBVIOUS
    <3>2. \A e \in Drivers : ~(at'[e] > Checked) /\ \A i \in 1..Len(Plan) : ~(i < at'[e])
      BY <2>2, <2>3
    <3>3. QED
      BY <1>1, <3>2 DEF DriverInv, PlanInv, Complete
  <2>7. QED
    BY <1>1, <2>1, <2>4, <2>5, <2>6 DEF DriverInv, TreatmentIsPreflighted
<1>4. QED
  BY <1>2, <1>3

(* A driver that moves on, past an item that it did or found complete, and *)
(* past the preflight only with a report of the files as they are.         *)
LEMMA MovingKeeps ==
  ASSUME DriverInv, NEW d \in Drivers, at[d] # 0, d \notin clear, child[d] = 0,
         Item(d) \in Runs \cup {"audit", "preflight"}, Item(d) \in Runs => Complete(Item(d)),
         Item(d) = "preflight" => preflight' = Passed,
         Item(d) # "preflight" => UNCHANGED preflight,
         Move(d), UNCHANGED <<audited, clear, child, alive, finished, launched, dir>>
  PROVE  DriverInv'
<1>1. /\ alive = {} /\ clear = {}
      /\ \A e \in Drivers \ {d} : at[e] = 0 /\ child[e] = 0
  BY AloneInThePlan
<1>2. at[d] \in 1..Len(Plan) /\ at[d] + 1 \in 1..Len(Plan) /\ Item(d) = Plan[at[d]]
      /\ (Item(d) = "preflight" => at[d] = Checked) /\ (Item(d) # "preflight" => at[d] # Checked)
  BY Passing
<1>3. /\ at' \in [Drivers -> 0..Len(Plan)]
      /\ \A e \in Drivers : at'[e] = IF e = d THEN at[d] + 1 ELSE 0
  BY <1>1, <1>2 DEF DriverInv, Move
<1>4. DriverTypeOK'
  BY <1>3 DEF DriverInv
<1>5. LockInv'
  BY <1>1, <1>3 DEF LockInv
<1>6. Passed' = Passed
  BY DEF Passed
<1>7. \A e \in Drivers : at'[e] > Checked => preflight' = Passed'
  <2>1. CASE Item(d) = "preflight"
    BY <1>6, <2>1, <1>3, PlanPositions
  <2>2. CASE Item(d) # "preflight"
    <3>1. at[d] + 1 > Checked => at[d] > Checked
      BY <1>2, <2>2, PlanPositions
    <3>2. at[d] > Checked => preflight = Passed
      BY DEF DriverInv, PlanInv
    <3>3. ~(0 > Checked)
      BY PlanPositions
    <3>4. QED
      BY <1>3, <1>6, <2>2, <3>1, <3>2, <3>3
  <2>3. QED
    BY <2>1, <2>2
<1>8. \A e \in Drivers : \A i \in 1..Len(Plan) : i < at'[e] /\ Plan[i] \in Runs => Complete(Plan[i])
  <2>1. \A i \in 1..Len(Plan) : i < at[d] + 1 => i < at[d] \/ i = at[d]
    BY <1>2
  <2>2. \A i \in 1..Len(Plan) : ~(i < 0)
    OBVIOUS
  <2>3. QED
    BY <1>2, <1>3, <2>1, <2>2 DEF DriverInv, PlanInv
<1>9. PlanInv'
  BY <1>7, <1>8 DEF DriverInv, PlanInv, Complete
<1>10. QED
  BY <1>1, <1>4, <1>5, <1>9 DEF DriverInv, TreatmentIsPreflighted

(* A marked run is passed over. *)
LEMMA SkipKeeps ==
  ASSUME DriverInv, NEW d \in Drivers, Skip(d)
  PROVE  DriverInv'
<1>1. at[d] # 0
  BY DriverAssumption DEF Skip, Item
<1>2. Item(d) # "preflight"
  BY DriverAssumption DEF Skip
<1>3. QED
  BY <1>1, <1>2, MovingKeeps DEF Skip

(* The readiness audit reads and writes nothing of the runs. *)
LEMMA AuditKeeps ==
  ASSUME DriverInv, NEW d \in Drivers, Audit(d)
  PROVE  DriverInv'
<1>1. at[d] # 0 /\ Item(d) \notin Runs
  BY DriverAssumption DEF Audit, Item
<1>2. d \notin clear /\ child[d] = 0
  BY <1>1 DEF DriverInv, LockInv
<1>3. Item(d) = "audit" /\ "audit" # "preflight"
  BY DEF Audit
<1>4. QED
  BY <1>1, <1>2, <1>3, MovingKeeps DEF Audit

(* The preflight writes its report while its comparators are complete. *)
LEMMA WritePreflightKeeps ==
  ASSUME DriverInv, NEW d \in Drivers, WritePreflight(d)
  PROVE  DriverInv'
<1>1. at[d] # 0 /\ Item(d) \notin Runs
  BY DriverAssumption DEF WritePreflight, Item
<1>2. d \notin clear /\ child[d] = 0
  BY <1>1 DEF DriverInv, LockInv
<1>3. QED
  BY <1>1, <1>2, MovingKeeps DEF WritePreflight

(* The preflight truncates its report before it writes it. *)
LEMMA OpenPreflightKeeps ==
  ASSUME DriverInv, NEW d \in Drivers, OpenPreflight(d)
  PROVE  DriverInv'
<1>1. at[d] # 0 /\ Item(d) \notin Runs
  BY DriverAssumption DEF OpenPreflight, Item
<1>2. d \notin clear /\ child[d] = 0
  BY <1>1 DEF DriverInv, LockInv
<1>3. /\ alive = {} /\ clear = {}
      /\ \A e \in Drivers \ {d} : at[e] = 0 /\ child[e] = 0
  BY <1>1, <1>2, AloneInThePlan
<1>4. \A e \in Drivers : ~(at[e] > Checked)
  <2>1. at[d] = Checked
    BY <1>1, Passing DEF OpenPreflight
  <2>2. QED
    BY <1>3, <2>1, PlanPositions
<1>5. UNCHANGED <<at, audited, clear, child, alive, finished, launched, dir>>
  BY DEF OpenPreflight
<1>6. QED
  BY <1>3, <1>4, <1>5 DEF DriverInv, LockInv, PlanInv, TreatmentIsPreflighted, Complete, Item

(* A run's directory is looked for before the run is started. *)
LEMMA FindClearKeeps ==
  ASSUME DriverInv, NEW d \in Drivers, FindClear(d)
  PROVE  DriverInv'
<1>1. at[d] # 0
  BY DriverAssumption DEF FindClear, Item
<1>2. clear' \in SUBSET Drivers /\ clear' = clear \cup {d} /\ child[d] = 0 /\ Item(d) \in Runs
      /\ dir[Item(d)].status = "none"
  BY DEF FindClear, DriverInv
<1>3. UNCHANGED <<at, audited, child, alive, finished, launched, dir, preflight>>
  BY DEF FindClear
<1>4. QED
  BY <1>1, <1>2, <1>3 DEF DriverInv, LockInv, PlanInv, TreatmentIsPreflighted, Passed, Complete, Item

(* The run wrapper makes the directory and inherits the lock. *)
LEMMA StartRunKeeps ==
  ASSUME DriverInv, NEW d \in Drivers, StartRun(d)
  PROVE  DriverInv'
<1> DEFINE r == Item(d)
           p == [id |-> launched', run |-> r, stage |-> "starting"]
<1>1. at[d] # 0 /\ r \in Runs /\ dir[r] = Empty /\ child[d] = 0 /\ d \in clear
  BY DEF StartRun, DriverInv, LockInv, PlanInv
<1>2. /\ alive = {} /\ clear \subseteq {d}
      /\ \A e \in Drivers \ {d} : at[e] = 0 /\ child[e] = 0
  BY <1>1, AloneInThePlan
<1>3. UNCHANGED <<at, audited, finished, preflight>> /\ clear' = {}
  BY <1>2 DEF StartRun
<1>4. launched \in Nat /\ launched' = launched + 1 /\ launched' \notin finished /\ launched' # 0
  BY DEF StartRun, DriverInv
<1>5. child' = [child EXCEPT ![d] = launched'] /\ alive' = {p}
  BY <1>2 DEF StartRun
<1>6. dir' = [dir EXCEPT ![r] = [status |-> "partial", by |-> {launched'}]]
  BY <1>1 DEF StartRun, Empty
<1>7. Item(d)' = r /\ \A e \in Drivers : e # d => at'[e] = 0 /\ child'[e] = 0
  BY <1>2, <1>3, <1>5 DEF Item, DriverInv
<1> HIDE DEF r
<1>8. /\ dir'[r] = [status |-> "partial", by |-> {launched'}]
      /\ \A s \in Runs \ {r} : dir'[s] = dir[s]
  BY <1>1, <1>6 DEF DriverInv
<1>9. DriverTypeOK'
  <2>1. 1..launched \subseteq 1..launched' /\ launched' \in 1..launched' /\ launched' \in Nat
        /\ 0..launched \subseteq 0..launched' /\ launched' \in 0..launched'
    BY <1>4
  <2>2. finished' \in SUBSET (1..launched') /\ child' \in [Drivers -> 0..launched']
    BY <1>3, <1>5, <2>1 DEF DriverInv
  <2>3. alive' \in SUBSET Trainings'
    BY <1>1, <1>5, <2>1
  <2>4. dir' \in [Runs -> Dirs']
    <3>1. \A s \in Runs : dir[s] \in Dirs'
      BY <2>1 DEF DriverInv
    <3>2. [status |-> "partial", by |-> {launched'}] \in Dirs'
      BY <2>1
    <3>3. QED
      BY <1>6, <3>1, <3>2 DEF DriverInv
  <2>5. QED
    BY <1>3, <2>1, <2>2, <2>3, <2>4 DEF DriverInv
<1>10. LockInv'
  <2>1. p.id = launched' /\ p.run = r
    OBVIOUS
  <2>2. child'[d] = launched' /\ at'[d] # 0
    BY <1>1, <1>3, <1>5 DEF DriverInv
  <2>3. \A e \in Drivers : at'[e] # 0 \/ child'[e] # 0 => e = d
    BY <1>7
  <2> HIDE DEF p
  <2>4. QED
    BY <1>1, <1>3, <1>4, <1>5, <1>7, <1>8, <2>1, <2>2, <2>3 DEF LockInv
<1>11. \A s \in Runs : Complete(s) => s # r /\ dir'[s] = dir[s] /\ dir'[s].status = "complete"
  BY <1>1, <1>8 DEF Complete, Empty
<1>12. at[d] > Checked => r \notin Range(Comparators) \cup {Collection} /\ Passed' = Passed
  <2> SUFFICES ASSUME at[d] > Checked PROVE r \notin Range(Comparators) \cup {Collection} /\ Passed' = Passed
    OBVIOUS
  <2>1. r \notin Range(Comparators) \cup {Collection}
    BY <1>1, <1>11, Passing
  <2>2. \A s \in Range(Comparators) \cup {Collection} : dir'[s] = dir[s]
    BY <1>8, <2>1 DEF Runs
  <2>3. QED
    BY <2>1, <2>2 DEF Passed
<1>13. PlanInv'
  <2>1. ASSUME NEW s \in Runs, dir'[s].status = "none" PROVE dir'[s] = Empty
    <3>1. s # r
      BY <1>8, <2>1
    <3>2. dir'[s] = dir[s]
      BY <1>8, <3>1
    <3>3. QED
      BY <2>1, <3>2 DEF DriverInv, PlanInv
  <2>2. \A s \in Runs : dir'[s].status = "complete" => s # r /\ dir'[s] = dir[s] /\ Complete(s)
    BY <1>8 DEF Complete
  <2>3. \A s \in Runs : Complete(s)' => \E i \in finished' : dir'[s].by = {i}
    BY <1>3, <2>2 DEF DriverInv, PlanInv, Complete
  <2>4. \A e \in Drivers : at'[e] > Checked => preflight' = Passed'
    BY <1>3, <1>7, <1>12, PlanPositions DEF DriverInv, PlanInv
  <2>5. \A e \in Drivers : \A i \in 1..Len(Plan) : i < at'[e] /\ Plan[i] \in Runs => Complete(Plan[i])'
    BY <1>3, <1>11 DEF DriverInv, PlanInv, Complete
  <2>6. QED
    BY <2>1, <2>3, <2>4, <2>5 DEF PlanInv
<1>14. TreatmentIsPreflighted'
  <2> SUFFICES ASSUME r \in Range(Treatments)
               PROVE  /\ \A s \in Range(Comparators) \cup {Collection} : Complete(s)'
                      /\ preflight' = Passed'
    BY <1>5 DEF TreatmentIsPreflighted
  <2>1. at[d] > Checked /\ \A s \in Range(Comparators) \cup {Collection} : Complete(s)
    BY <1>1, Passing DEF r
  <2>2. \A s \in Range(Comparators) \cup {Collection} : Complete(s)'
    BY <2>1, <1>11 DEF Complete, Runs
  <2>3. QED
    BY <1>3, <1>12, <2>1, <2>2 DEF DriverInv, PlanInv
<1>15. QED
  BY <1>9, <1>10, <1>13, <1>14 DEF DriverInv

(* A process writes into its own run, which it has begun already. *)
LEMMA WritesItsOwn ==
  ASSUME DriverInv, NEW p \in alive
  PROVE  Wrote(p) = dir /\ p \in Trainings /\ alive = {p} /\ launched \in Nat
<1>1. p \in Trainings /\ alive = {p} /\ launched \in Nat
  BY DEF DriverInv, LockInv
<1>2. dir[p.run] = [status |-> "partial", by |-> {p.id}] /\ p.run \in Runs
  BY <1>1 DEF DriverInv, LockInv
<1>3. Wrote(p) = [dir EXCEPT ![p.run] = [status |-> "partial", by |-> {p.id}]]
  BY <1>2 DEF Wrote, DriverInv
<1>4. QED
  BY <1>1, <1>2, <1>3 DEF DriverInv

(* A training writes into the directory of its own run. *)
LEMMA TrainKeeps ==
  ASSUME DriverInv, NEW p \in alive, Train(p)
  PROVE  DriverInv'
<1> DEFINE q == [p EXCEPT !.stage = "training"]
<1>1. p \in Trainings /\ alive = {p} /\ dir' = dir /\ alive' = {q} /\ launched \in Nat
  BY WritesItsOwn DEF Train
<1>2. q \in Trainings /\ q.id = p.id /\ q.run = p.run
  BY <1>1
<1>3. UNCHANGED <<at, audited, clear, child, finished, launched, preflight>>
  BY DEF Train
<1> HIDE DEF q
<1>4. DriverTypeOK' /\ LockInv' /\ PlanInv'
  BY <1>1, <1>2, <1>3 DEF DriverInv, LockInv, PlanInv, Passed, Complete, Item
<1>5. TreatmentIsPreflighted'
  BY <1>1, <1>2, <1>3 DEF DriverInv, TreatmentIsPreflighted, Passed, Complete
<1>6. QED
  BY <1>4, <1>5 DEF DriverInv

(* A training ends, done or failed, and lets go of the lock. *)
LEMMA EndTrainingKeeps ==
  ASSUME DriverInv, NEW p \in alive, EndTraining(p) \/ FailTraining(p)
  PROVE  DriverInv'
<1>1. p \in Trainings /\ dir' = dir /\ alive' = {} /\ launched \in Nat /\ finished' \in {finished, finished \cup {p.id}}
  BY WritesItsOwn DEF EndTraining, FailTraining
<1>2. UNCHANGED <<at, audited, clear, child, launched, preflight>>
  BY DEF EndTraining, FailTraining
<1>3. DriverTypeOK' /\ LockInv' /\ TreatmentIsPreflighted'
  BY <1>1, <1>2 DEF DriverInv, LockInv, TreatmentIsPreflighted, Item
<1>4. PlanInv'
  BY <1>1, <1>2 DEF DriverInv, PlanInv, Passed, Complete
<1>5. QED
  BY <1>3, <1>4 DEF DriverInv

(* The marker is written after the training that was awaited succeeded. *)
LEMMA MarkCompleteKeeps ==
  ASSUME DriverInv, NEW d \in Drivers, MarkComplete(d)
  PROVE  DriverInv'
<1> DEFINE r == Item(d)
<1>1. launched \in Nat /\ child[d] # 0 /\ child[d] \in finished
  BY DEF MarkComplete, DriverInv
<1>2. at[d] # 0 /\ r \in Runs /\ d \notin clear /\ dir[r] = [status |-> "partial", by |-> {child[d]}]
  BY <1>1 DEF DriverInv, LockInv
<1>3. alive = {}
  BY <1>1, <1>2 DEF DriverInv, LockInv
<1>4. clear = {} /\ \A e \in Drivers \ {d} : at[e] = 0 /\ child[e] = 0
  BY <1>2 DEF DriverInv, LockInv
<1>5. UNCHANGED <<audited, clear, alive, finished, launched, preflight>>
  BY DEF MarkComplete
<1>6. /\ at[d] \in 1..Len(Plan) /\ at[d] + 1 \in 1..Len(Plan) /\ r = Plan[at[d]]
      /\ at[d] # Checked
  BY <1>2, Passing, DriverAssumption
<1>7. /\ at' \in [Drivers -> 0..Len(Plan)] /\ child' \in [Drivers -> 0..launched]
      /\ \A e \in Drivers : at'[e] = (IF e = d THEN at[d] + 1 ELSE 0) /\ child'[e] = 0
  BY <1>1, <1>4, <1>6 DEF MarkComplete, Move, DriverInv
<1>8. dir' = [dir EXCEPT ![r] = [status |-> "complete", by |-> {child[d]}]]
  <2>1. dir' = [dir EXCEPT ![r].status = "complete"]
    BY DEF MarkComplete
  <2> HIDE DEF r
  <2>2. dir' = [dir EXCEPT ![r] = [dir[r] EXCEPT !.status = "complete"]]
    BY <2>1
  <2>3. [dir[r] EXCEPT !.status = "complete"] = [status |-> "complete", by |-> {child[d]}]
    BY <1>2
  <2>4. QED
    BY <2>2, <2>3
<1> HIDE DEF r
<1>9. /\ dir'[r] = [status |-> "complete", by |-> {child[d]}]
      /\ \A s \in Runs \ {r} : dir'[s] = dir[s]
      /\ \A s \in Runs : dir'[s].by = dir[s].by
  <2>1. /\ dir'[r] = [status |-> "complete", by |-> {child[d]}]
        /\ \A s \in Runs \ {r} : dir'[s] = dir[s]
    BY <1>2, <1>8 DEF DriverInv
  <2>2. dir'[r].by = dir[r].by
    BY <1>2, <2>1
  <2>3. QED
    BY <2>1, <2>2
<1>10. Passed' = Passed
  BY <1>9 DEF Passed, Runs
<1>11. DriverTypeOK'
  <2>1. [status |-> "complete", by |-> {child[d]}] \in Dirs
    BY <1>1 DEF DriverInv
  <2>2. dir' \in [Runs -> Dirs]
    BY <1>8, <2>1 DEF DriverInv
  <2>3. QED
    BY <1>5, <1>7, <2>2 DEF DriverInv
<1>12. LockInv'
  BY <1>3, <1>4, <1>5, <1>7 DEF LockInv
<1>13. \A s \in Runs : s = r \/ Complete(s) => Complete(s)'
  BY <1>9 DEF Complete
<1>14. \A e \in Drivers : \A i \in 1..Len(Plan) : i < at'[e] /\ Plan[i] \in Runs => Complete(Plan[i])'
  <2>1. \A i \in 1..Len(Plan) : i < at[d] + 1 => i < at[d] \/ i = at[d]
    BY <1>6
  <2>2. \A i \in 1..Len(Plan) : ~(i < 0)
    OBVIOUS
  <2>3. ASSUME NEW i \in 1..Len(Plan), i < at[d] + 1, Plan[i] \in Runs PROVE Complete(Plan[i])'
    <3>1. CASE i = at[d]
      BY <1>6, <1>13, <2>3, <3>1
    <3>2. CASE i < at[d]
      <4>1. Complete(Plan[i])
        BY <2>3, <3>2 DEF DriverInv, PlanInv
      <4>2. QED
        BY <1>13, <2>3, <4>1
    <3>3. QED
      BY <2>1, <2>3, <3>1, <3>2
  <2>4. QED
    BY <1>7, <2>2, <2>3
<1>15. \A e \in Drivers : at'[e] > Checked => preflight' = Passed'
  <2>1. at[d] + 1 > Checked => at[d] > Checked
    BY <1>6, PlanPositions
  <2>2. at[d] > Checked => preflight = Passed
    BY DEF DriverInv, PlanInv
  <2>3. ~(0 > Checked)
    BY PlanPositions
  <2>4. QED
    BY <1>5, <1>7, <1>10, <2>1, <2>2, <2>3
<1>16. PlanInv'
  <2>1. ASSUME NEW s \in Runs PROVE /\ dir'[s].status = "none" => dir'[s] = Empty
                                    /\ Complete(s)' => \E i \in finished' : dir'[s].by = {i}
    <3>1. CASE s = r
      BY <1>1, <1>5, <1>9, <3>1
    <3>2. CASE s # r
      BY <1>5, <1>9, <3>2 DEF DriverInv, PlanInv, Complete
    <3>3. QED
      BY <3>1, <3>2
  <2>2. QED
    BY <1>14, <1>15, <2>1 DEF PlanInv
<1>17. QED
  BY <1>3, <1>5, <1>11, <1>12, <1>16 DEF DriverInv, TreatmentIsPreflighted

(* A driver ends or is killed; a training it leaves keeps the lock. *)
LEMMA EndDriverKeeps ==
  ASSUME DriverInv, NEW d \in Drivers, EndDriver(d)
  PROVE  DriverInv'
<1>1. UNCHANGED <<audited, finished, launched, dir, preflight>> /\ alive' \subseteq alive
  BY DEF EndDriver
<1>2. \A e \in Drivers \ {d} : at[e] = 0 /\ child[e] = 0 /\ e \notin clear
  BY DEF EndDriver, DriverInv, LockInv
<1>3. /\ at' \in [Drivers -> 0..Len(Plan)] /\ child' \in [Drivers -> 0..launched]
      /\ \A e \in Drivers : at'[e] = 0 /\ child'[e] = 0
  BY <1>2, PlanPositions DEF EndDriver, DriverInv
<1>4. clear' = {}
  BY <1>2 DEF EndDriver, DriverInv
<1>5. DriverTypeOK' /\ LockInv'
  BY <1>1, <1>3, <1>4 DEF DriverInv, LockInv
<1>6. PlanInv'
  <2>1. ~(0 > Checked) /\ \A i \in 1..Len(Plan) : ~(i < 0)
    BY PlanPositions
  <2>2. QED
    BY <1>1, <1>3, <2>1 DEF DriverInv, PlanInv, Complete
<1>7. TreatmentIsPreflighted'
  BY <1>1 DEF DriverInv, TreatmentIsPreflighted, Passed, Complete
<1>8. QED
  BY <1>5, <1>6, <1>7 DEF DriverInv

(* The operator removes runs and reports when nothing is running. *)
LEMMA RemoveKeeps ==
  ASSUME DriverInv, RemovePreflight \/ \E r \in Runs : RemoveRun(r)
  PROVE  DriverInv'
<1>1. alive = {} /\ clear = {} /\ \A d \in Drivers : at[d] = 0 /\ child[d] = 0
  BY LockIsFree DEF RemovePreflight, RemoveRun
<1>2. UNCHANGED <<at, audited, clear, child, alive, finished, launched>>
  BY DEF RemovePreflight, RemoveRun
<1>3. dir' = dir \/ \E r \in Runs : dir' = [dir EXCEPT ![r] = Empty]
  BY DEF RemovePreflight, RemoveRun
<1>4. /\ dir' \in [Runs -> Dirs]
      /\ \A s \in Runs : dir'[s] = dir[s] \/ dir'[s] = Empty
  <2>1. Empty \in Dirs /\ dir \in [Runs -> Dirs]
    BY DEF DriverInv, Empty
  <2>2. QED
    BY <1>3, <2>1
<1>5. DriverTypeOK' /\ LockInv'
  BY <1>1, <1>2, <1>4 DEF DriverInv, LockInv
<1>6. PlanInv'
  <2>1. ~(0 > Checked) /\ \A i \in 1..Len(Plan) : ~(i < 0)
    BY PlanPositions
  <2>2. ASSUME NEW s \in Runs PROVE /\ dir'[s].status = "none" => dir'[s] = Empty
                                    /\ Complete(s)' => \E i \in finished' : dir'[s].by = {i}
    <3>1. CASE dir'[s] = dir[s]
      BY <1>2, <3>1 DEF DriverInv, PlanInv, Complete
    <3>2. CASE dir'[s] = Empty
      BY <3>2 DEF Complete, Empty
    <3>3. QED
      BY <1>4, <3>1, <3>2
  <2>3. QED
    BY <1>1, <1>2, <2>1, <2>2 DEF PlanInv
<1>7. alive' = {}
  BY <1>1, <1>2
<1>8. TreatmentIsPreflighted'
  BY <1>7 DEF TreatmentIsPreflighted
<1>9. QED
  BY <1>5, <1>6, <1>8 DEF DriverInv

(* Every step of drivers, trainings and operator keeps the inductive invariant. *)
LEMMA DriverStep == DriverInv /\ [DriverNext]_driverVars => DriverInv'
<1> SUFFICES ASSUME DriverInv, [DriverNext]_driverVars PROVE DriverInv'
  OBVIOUS
<1>1. CASE UNCHANGED driverVars
  <2>1. UNCHANGED <<at, audited, clear, child, alive, finished, launched, dir, preflight>>
    BY <1>1 DEF driverVars
  <2>2. DriverTypeOK' /\ LockInv'
    BY <2>1 DEF DriverInv, LockInv, Item
  <2>3. PlanInv'
    BY <2>1 DEF DriverInv, PlanInv, Passed, Complete
  <2>4. TreatmentIsPreflighted'
    BY <2>1 DEF DriverInv, TreatmentIsPreflighted, Passed, Complete
  <2>5. QED
    BY <2>2, <2>3, <2>4 DEF DriverInv
<1>2. CASE DriverNext
  <2>1. CASE \E d \in Drivers :
               \/ Launch(d) \/ TakeLock(d) \/ Skip(d) \/ FindClear(d) \/ StartRun(d)
               \/ MarkComplete(d) \/ Audit(d) \/ OpenPreflight(d) \/ WritePreflight(d)
               \/ EndDriver(d)
    BY <2>1, LaunchKeeps, TakeLockKeeps, SkipKeeps, FindClearKeeps, StartRunKeeps, MarkCompleteKeeps,
       AuditKeeps, OpenPreflightKeeps, WritePreflightKeeps, EndDriverKeeps
  <2>2. CASE \E p \in alive : Train(p) \/ EndTraining(p) \/ FailTraining(p)
    BY <2>2, TrainKeeps, EndTrainingKeeps
  <2>3. QED
    BY <1>2, <2>1, <2>2, RemoveKeeps DEF DriverNext
<1>3. QED
  BY <1>1, <1>2

(* The lock's invariant leaves no room for a partial run that is marked. *)
LEMMA OneAlive == DriverInv => CompleteRunIsWhole
<1> SUFFICES ASSUME DriverInv PROVE CompleteRunIsWhole
  OBVIOUS
<1>1. alive = {} \/ \E p \in alive : alive = {p}
  BY DEF DriverInv, LockInv
<1>2. Cardinality(alive) <= 1
  BY <1>1, FS_EmptySet, FS_Singleton
<1>3. QED
  BY <1>2 DEF CompleteRunIsWhole, DriverInv, PlanInv

(* The state of the driver keeps its types (run_e2c_rtx5090.sh). *)
THEOREM DriverTypeCorrect == DriverSpec => []DriverTypeOK
<1>1. DriverInv => DriverTypeOK
  BY DEF DriverInv
<1>2. QED
  BY <1>1, DriverInitial, DriverStep, PTL DEF DriverSpec

(* A run with a marker is the whole work of one process, and at most one   *)
(* process trains, orphans included.                                       *)
THEOREM CompleteRunIsWholeHolds == DriverSpec => []CompleteRunIsWhole
BY DriverInitial, DriverStep, OneAlive, PTL DEF DriverSpec

(* A replay arm trains only beside comparators that are complete and under *)
(* a preflight of the files as they are.                                   *)
THEOREM TreatmentIsPreflightedHolds == DriverSpec => []TreatmentIsPreflighted
<1>1. DriverInv => TreatmentIsPreflighted
  BY DEF DriverInv
<1>2. QED
  BY <1>1, DriverInitial, DriverStep, PTL DEF DriverSpec
===============================================================================
