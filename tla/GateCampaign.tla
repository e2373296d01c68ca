---------------------------- MODULE GateCampaign ----------------------------
(***************************************************************************)
(* The confirmatory campaign of the AMaze gate (ued_benchmark/scripts):    *)
(* a driver trains every cell and evaluates what the training left, the    *)
(* verifier notes how far each checkpoint was trained, the analyzer turns  *)
(* the evaluations into the one verdict, and the closer does the last two  *)
(* behind a preflight.  They meet only in files of the campaign directory. *)
(*                                                                         *)
(* A checkpoint, and the evaluation of one, is the number of updates it    *)
(* was trained for.  The order of jobs.tsv and of the glob is left free.   *)
(***************************************************************************)
EXTENDS Naturals

CONSTANTS
  Cells,       \* arm and seed: the rows of jobs.tsv
  Conc,        \* CONC
  Updates,     \* n_total_updates
  MinStored,   \* MIN_CHECKPOINT_UPDATES
  MinLogged,   \* the analyzer's bound on the last row of logs.csv
  Intervals,   \* values of CKPT_INTERVAL, in ticks
  Marking,     \* whether launch() knows DONE: {TRUE} is this driver, FALSE the one before it
  RestartsKilled, \* whether a driver is started where one was killed, against RESTART_HAZARD
  MaxStarts,   \* bound on the times the driver is started
  MaxFailures, \* bound on the trainings and evaluations that fail
  Nil

ASSUME GateAssumption ==
  /\ Updates \in Nat /\ MinStored \in 0..Updates /\ MinLogged \in 0..Updates
  /\ Conc \in Nat \ {0} /\ MaxStarts \in Nat /\ MaxFailures \in Nat
  /\ Intervals \subseteq Nat \ {0} /\ Marking \subseteq BOOLEAN
  /\ RestartsKilled \in BOOLEAN
  /\ Nil \notin 0..Updates

VARIABLES
  marking, interval,  \* which driver, and its CKPT_INTERVAL
  driver, todo,       \* where the driver is, and the cells it has not come to
  slots, exits,       \* its variable, and the exited children it has not waited for
  proc,               \* the launch of each cell by each driver
  evaluations,        \* the evaluations that run
  checkpoint, logged, \* checkpoint.pkl, and the last row of logs.csv
  done, csv,          \* DONE, and eval/<xpid>.csv
  receiptLog,         \* driver.log: OK, EVAL-OK, and whether anything FAILED
  sidecar, closer,    \* ckpt_budget.json (write-protected by the closer), and the closing command
  verdict,            \* the analysis
  starts, killed      \* history: drivers started, and whether one was killed

scriptVars == <<driver, todo, slots, exits>>
cellVars   == <<checkpoint, logged, done, csv, receiptLog>>
closeVars  == <<sidecar, closer, verdict>>
gateVars   == <<marking, interval, scriptVars, proc, evaluations, cellVars, closeVars, starts, killed>>

Quiet    == [at |-> "idle"]
Launches == Cells \X (1..MaxStarts)

(* What the n-th driver started is a child of the one that runs, if that is it. *)
OfDriver(n) == driver # "off" /\ n = starts

GateInit ==
  /\ marking \in Marking /\ interval \in Intervals
  /\ driver = "off" /\ todo = {} /\ slots = 0 /\ exits = 0
  /\ proc = [p \in Launches |-> Quiet]
  /\ evaluations = {}
  /\ checkpoint = [c \in Cells |-> Nil] /\ logged = [c \in Cells |-> Nil]
  /\ done = {} /\ csv = [c \in Cells |-> Nil]
  /\ receiptLog = [ok |-> {}, evalOk |-> {}, failed |-> 0]
  /\ sidecar = [budget |-> Nil, protected |-> FALSE] /\ closer = Quiet /\ verdict = Nil
  /\ starts = 0 /\ killed = FALSE

(* The driver script is started on the campaign directory. *)
StartDriver ==
  /\ driver = "off" /\ starts < MaxStarts
  /\ killed => RestartsKilled
  /\ driver' = "train" /\ todo' = Cells /\ slots' = 0 /\ exits' = 0
  /\ starts' = starts + 1
  /\ UNCHANGED <<marking, interval, proc, evaluations, cellVars, closeVars, killed>>

(* The driver this one replaced took a checkpoint for a finished run. *)
SkippedBefore(c) == checkpoint[c] # Nil

Skips(c) == IF marking THEN c \in done ELSE SkippedBefore(c)

(* launch() in the background: the cell is skipped, or run_arm.sh starts. *)
LaunchCell(c) ==
  /\ driver = "train" /\ slots < Conc /\ c \in todo
  /\ todo' = todo \ {c} /\ slots' = slots + 1
  /\ IF Skips(c)
     THEN /\ exits' = exits + 1
          /\ UNCHANGED <<proc, logged>>
     ELSE /\ proc' = [proc EXCEPT ![<<c, starts>>] = [at |-> "train", due |-> 0, updates |-> 0]]
          /\ logged' = [logged EXCEPT ![c] = IF @ = Nil THEN 0 ELSE @]
          /\ UNCHANGED exits
  /\ UNCHANGED <<marking, interval, driver, evaluations, checkpoint, done, csv, receiptLog, closeVars, starts, killed>>

(* wait -n *)
Reap ==
  /\ driver = "train" /\ slots >= Conc /\ exits > 0
  /\ slots' = slots - 1 /\ exits' = exits - 1
  /\ UNCHANGED <<marking, interval, driver, todo, proc, evaluations, cellVars, closeVars, starts, killed>>

(***************************************************************************)
(* One tick of the trainer: a replay cycle updates the student, a cycle    *)
(* of new levels does not, and every interval-th tick saves.               *)
(***************************************************************************)
Tick(p) ==
  /\ proc[p].at = "train" /\ proc[p].updates < Updates
  /\ \E u \in {proc[p].updates, proc[p].updates + 1} :
       LET due == (proc[p].due + 1) % interval
       IN  /\ proc' = [proc EXCEPT ![p].updates = u, ![p].due = due]
           /\ checkpoint' = IF due = 0 THEN [checkpoint EXCEPT ![p[1]] = u] ELSE checkpoint
           /\ logged' = [logged EXCEPT ![p[1]] = u]
  /\ UNCHANGED <<marking, interval, scriptVars, evaluations, done, csv, receiptLog, closeVars, starts, killed>>

(* The background job of a launch ends. *)
Leave(p) ==
  /\ proc' = [proc EXCEPT ![p] = Quiet]
  /\ exits' = IF OfDriver(p[2]) THEN exits + 1 ELSE exits

(* The training ends without a last save, and launch() marks the cell... *)
MarkDone(p) ==
  /\ proc[p].at = "train" /\ proc[p].updates = Updates
  /\ proc' = [proc EXCEPT ![p].at = "mark"]
  /\ done' = IF marking THEN done \cup {p[1]} ELSE done
  /\ UNCHANGED <<marking, interval, scriptVars, evaluations, checkpoint, logged, csv, receiptLog, closeVars, starts, killed>>

(* ...and then writes its receipt. *)
LogOk(p) ==
  /\ proc[p].at = "mark"
  /\ receiptLog' = [receiptLog EXCEPT !.ok = @ \cup {p[1]}]
  /\ Leave(p)
  /\ UNCHANGED <<marking, interval, driver, todo, slots, evaluations, checkpoint, logged, done, csv, closeVars, starts, killed>>

TrainingFails(p) ==
  /\ proc[p].at = "train" /\ receiptLog.failed < MaxFailures
  /\ receiptLog' = [receiptLog EXCEPT !.failed = @ + 1]
  /\ Leave(p)
  /\ UNCHANGED <<marking, interval, driver, todo, slots, evaluations, checkpoint, logged, done, csv, closeVars, starts, killed>>

(* Mutant of ChildrenHaveEnded: `wait -n` where the code has `wait`. *)
OneChildHasEnded == \E c \in Cells : proc[<<c, starts>>] = Quiet

(* The last `wait`: every child has ended. *)
ChildrenHaveEnded == \A c \in Cells : proc[<<c, starts>>] = Quiet

BeginEvaluation ==
  /\ driver = "train" /\ todo = {} /\ slots < Conc
  /\ ChildrenHaveEnded
  /\ driver' = "eval" /\ todo' = Cells
  /\ UNCHANGED <<marking, interval, slots, exits, proc, evaluations, cellVars, closeVars, starts, killed>>

(* The driver evaluates one cell at a time; those of a killed one go on. *)
BetweenEvaluations == driver = "eval" /\ \A e \in evaluations : ~OfDriver(e.driver)

(* No checkpoint, or an evaluation is there already. *)
PassEvaluation(c) ==
  /\ BetweenEvaluations /\ c \in todo
  /\ checkpoint[c] = Nil \/ csv[c] # Nil
  /\ todo' = todo \ {c}
  /\ UNCHANGED <<marking, interval, driver, slots, exits, proc, evaluations, cellVars, closeVars, starts, killed>>

(* minimax.evaluate loads the checkpoint. *)
LoadCheckpoint(c) ==
  /\ BetweenEvaluations /\ c \in todo
  /\ checkpoint[c] # Nil /\ csv[c] = Nil
  /\ evaluations' = evaluations \cup {[cell |-> c, updates |-> checkpoint[c], driver |-> starts]}
  /\ todo' = todo \ {c}
  /\ UNCHANGED <<marking, interval, driver, slots, exits, proc, cellVars, closeVars, starts, killed>>

(* It ends; the receipt is the driver's, so an evaluation left by one has none. *)
FinishEvaluation(e) ==
  /\ csv' = [csv EXCEPT ![e.cell] = e.updates]
  /\ receiptLog' = IF OfDriver(e.driver) THEN [receiptLog EXCEPT !.evalOk = @ \cup {e.cell}] ELSE receiptLog
  /\ evaluations' = evaluations \ {e}
  /\ UNCHANGED <<marking, interval, scriptVars, proc, checkpoint, logged, done, closeVars, starts, killed>>

EvaluationFails(e) ==
  /\ receiptLog.failed < MaxFailures
  /\ receiptLog' = IF OfDriver(e.driver) THEN [receiptLog EXCEPT !.failed = @ + 1] ELSE receiptLog
  /\ evaluations' = evaluations \ {e}
  /\ UNCHANGED <<marking, interval, scriptVars, proc, checkpoint, logged, done, csv, closeVars, starts, killed>>

FinishDriver ==
  /\ BetweenEvaluations /\ todo = {}
  /\ driver' = "off"
  /\ UNCHANGED <<marking, interval, todo, slots, exits, proc, evaluations, cellVars, closeVars, starts, killed>>

(* The driver is killed; its background jobs and its evaluation go on. *)
KillDriver ==
  /\ driver # "off" /\ ~killed
  /\ driver' = "off" /\ todo' = {} /\ slots' = 0 /\ exits' = 0 /\ killed' = TRUE
  /\ UNCHANGED <<marking, interval, proc, evaluations, cellVars, closeVars, starts>>

-----------------------------------------------------------------------------

(***************************************************************************)
(* verify_checkpoint_budget.py with its default output: how far each       *)
(* checkpoint that is there was trained.                                   *)
(***************************************************************************)
Verify ==
  /\ ~sidecar.protected
  /\ sidecar' = [sidecar EXCEPT !.budget = checkpoint]
  /\ UNCHANGED <<marking, interval, scriptVars, proc, evaluations, cellVars, closer, verdict, starts, killed>>

(* Mutant of Accepts: the analyzer before its amendment, which trusted the log. *)
AcceptsLogged(c) ==
  /\ checkpoint[c] # Nil /\ csv[c] # Nil /\ logged[c] # Nil
  /\ logged[c] >= MinLogged

(* What load() asks of a cell. *)
Accepts(c) ==
  /\ checkpoint[c] # Nil /\ csv[c] # Nil /\ logged[c] # Nil
  /\ logged[c] >= MinLogged
  /\ sidecar.budget[c] # Nil /\ sidecar.budget[c] >= MinStored

Judge(closed) ==
  /\ verdict = Nil /\ sidecar.budget # Nil
  /\ \A c \in Cells : Accepts(c)
  /\ verdict' = [evaluated |-> csv, closed |-> closed, failed |-> receiptLog.failed > 0]

(* analyze_gate_confirmatory.py, as the driver's last line suggests *)
Analyze ==
  /\ Judge(FALSE)
  /\ UNCHANGED <<marking, interval, scriptVars, proc, evaluations, cellVars, sidecar, closer, starts, killed>>

(* The campaign surface the closer demands before it reads a checkpoint. *)
SurfaceIsClean ==
  /\ receiptLog.failed = 0 /\ receiptLog.ok = Cells /\ receiptLog.evalOk = Cells
  /\ \A c \in Cells : checkpoint[c] # Nil /\ logged[c] # Nil /\ csv[c] # Nil /\ c \notin done

(* close_gate_confirmatory.sh *)
CheckSurface ==
  /\ closer = Quiet /\ verdict = Nil /\ sidecar.budget = Nil
  /\ SurfaceIsClean
  /\ closer' = [at |-> "surface"]
  /\ UNCHANGED <<marking, interval, scriptVars, proc, evaluations, cellVars, sidecar, verdict, starts, killed>>

ReadBudget ==
  /\ closer.at = "surface"
  /\ \A c \in Cells : checkpoint[c] >= MinStored
  /\ closer' = [at |-> "budget", budget |-> checkpoint]
  /\ UNCHANGED <<marking, interval, scriptVars, proc, evaluations, cellVars, sidecar, verdict, starts, killed>>

InstallBudget ==
  /\ closer.at = "budget"
  /\ sidecar' = [budget |-> closer.budget, protected |-> TRUE]
  /\ closer' = [at |-> "mark"]
  /\ UNCHANGED <<marking, interval, scriptVars, proc, evaluations, cellVars, verdict, starts, killed>>

BackfillMarkers ==
  /\ closer.at = "mark"
  /\ done' = Cells
  /\ closer' = [at |-> "judge"]
  /\ UNCHANGED <<marking, interval, scriptVars, proc, evaluations, checkpoint, logged, csv, receiptLog, sidecar, verdict, starts, killed>>

CloseWithVerdict ==
  /\ closer.at = "judge"
  /\ Judge(TRUE)
  /\ closer' = [at |-> "closed"]
  /\ UNCHANGED <<marking, interval, scriptVars, proc, evaluations, cellVars, sidecar, starts, killed>>

GateNext ==
  \/ StartDriver \/ Reap \/ BeginEvaluation \/ FinishDriver \/ KillDriver
  \/ \E c \in Cells : LaunchCell(c) \/ PassEvaluation(c) \/ LoadCheckpoint(c)
  \/ \E p \in Launches : Tick(p) \/ MarkDone(p) \/ LogOk(p) \/ TrainingFails(p)
  \/ \E e \in evaluations : FinishEvaluation(e) \/ EvaluationFails(e)
  \/ Verify \/ Analyze
  \/ CheckSurface \/ ReadBudget \/ InstallBudget \/ BackfillMarkers \/ CloseWithVerdict

GateSpec == GateInit /\ [][GateNext]_gateVars

-----------------------------------------------------------------------------

(***************************************************************************)
(* If no driver is started where one was killed, a cell is trained by one  *)
(* process at a time and is not evaluated while it is trained, however     *)
(* often the driver is started again and whatever fails or is killed.      *)
(***************************************************************************)
CellsAreQuiet ==
  ~RestartsKilled => \A p \in Launches : proc[p] # Quiet =>
    /\ \A q \in Launches \ {p} : proc[q] # Quiet => q[1] # p[1]
    /\ \A e \in evaluations : e.cell # p[1]

TrainedEvidence == \A c \in Cells : verdict.evaluated[c] >= MinStored

(***************************************************************************)
(* If no driver is started where one was killed, the verdict rests on      *)
(* evaluations of checkpoints trained to the budget whenever nothing had   *)
(* failed or the closer asked for it, although the budget is read from the *)
(* checkpoints as they are later, never from what was evaluated.           *)
(***************************************************************************)
VerdictIsOfTrainedCells ==
  verdict # Nil /\ ~RestartsKilled /\ (verdict.closed \/ ~verdict.failed) => TrainedEvidence

(***************************************************************************)
(* RESTART_HAZARD_2026-08-19.md of the analyzer's check: "a partially      *)
(* trained cell cannot reach a verdict".                                   *)
(***************************************************************************)
NoPartialCellInVerdict == verdict # Nil => TrainedEvidence

=============================================================================
