----------------------------- MODULE TrainingRun -----------------------------
(***************************************************************************)
(* icra2027/barn_campaign.py: run_one, one arm of one seed.  The loop does *)
(* updates of a fixed number of groups and evaluates the held-out courses  *)
(* at checkpoints.  It is bounded either by updates or by simulator steps; *)
(* in the second case the update count is a safety cap.  Every group and   *)
(* every held-out course is one launch of a Gazebo simulator by            *)
(* frontier_rl/adapters/barn_gazebo.py, whose start, episodes and stop may *)
(* each raise.                                                             *)
(*                                                                         *)
(* The teacher and the policy are those of FrontierTrainer and are left    *)
(* out; a group is the simulator steps its episodes took.                  *)
(***************************************************************************)
EXTENDS Integers, Sequences, FiniteSets

CONSTANTS
  UpdateCap,       \* steps
  EvalEvery,       \* eval_every
  Budget,          \* training_sim_step_budget
  Interval,        \* eval_sim_step_interval
  GroupsPerUpdate, \* tasks_per_step
  EvalCourses,     \* number of held-out courses
  MaxCost,         \* bound on the simulator steps of a group
  Costs            \* simulator steps a group may take

(* The checks at the head of run_one; every episode takes a step. *)
ASSUME RunAssumption ==
  /\ {UpdateCap, EvalEvery, Budget, Interval, GroupsPerUpdate, EvalCourses,
      MaxCost} \subseteq Nat \ {0}
  /\ Costs \subseteq 1..MaxCost

VARIABLES
  budgeted,  \* the run is bounded by simulator steps; never changes
  runPc,     \* control state of run_one
  doing,     \* what the courses at hand are for: "update" or "checkpoint"
  left,      \* courses of it still to launch
  updates,   \* completed_updates
  simSteps,  \* train_env.training_sim_steps
  spent,     \* simulator steps of the update under way
  due,       \* next_sim_checkpoint
  curve,     \* history: [step, sim] of every checkpoint
  simulator, \* processes of the course's simulator that are alive
  part,      \* the part of close that comes next
  cutShort   \* history: the part of start or close that was left unfinished

loopVars == <<budgeted, updates, due, curve>>
simVars  == <<simulator, part, cutShort>>
runVars  == <<loopVars, runPc, doing, left, simSteps, spent, simVars>>

Processes == {"gzserver", "stepper"}

(* checkpoint(0) comes before the loop. *)
RunInit ==
  /\ budgeted \in BOOLEAN
  /\ runPc = "course" /\ doing = "checkpoint" /\ left = EvalCourses
  /\ updates = 0 /\ simSteps = 0 /\ spent = 0
  /\ due = Interval
  /\ curve = <<>>
  /\ simulator = {} /\ part = "stepper" /\ cutShort = "nothing"

-------------------------------------------------------------------------------
(* Mutant of CourseStart: __enter__ lets the exception pass. *)
CourseStartLeaks ==
  /\ runPc = "course"
  /\ left > 0
  /\ \/ simulator' = Processes /\ runPc' = "episodes"
     \/ simulator' \in SUBSET Processes /\ runPc' = "failed"
  /\ UNCHANGED <<loopVars, doing, left, simSteps, spent, part, cutShort>>

(* GazeboCourseRuntime.start: gzserver, its ROS services, then the stepper *)
(* process; either may exit meanwhile.  What it leaves behind when it      *)
(* raises, __enter__ closes; but a KeyboardInterrupt is no Exception, and  *)
(* __enter__ lets it pass.                                                 *)
CourseStart ==
  /\ runPc = "course"
  /\ left > 0
  /\ \/ simulator' = Processes /\ runPc' = "episodes" /\ UNCHANGED cutShort
     \/ simulator' \in SUBSET Processes /\ runPc' = "abort" /\ UNCHANGED cutShort
     \/ simulator' \in SUBSET Processes /\ runPc' = "failed" /\ cutShort' = "start"
  /\ UNCHANGED <<loopVars, doing, left, simSteps, spent, part>>

(* The episodes of a course.  A gzserver that exits is noticed by _spin, a *)
(* stepper that exits by _advance, and each raises.  The steps of a group  *)
(* are counted only when all its episodes are done and close has returned. *)
CourseRuns ==
  /\ runPc = "episodes"
  /\ simulator' \in SUBSET simulator
  /\ \/ /\ \E c \in Costs : spent' = IF doing = "update" THEN spent + c ELSE spent
        /\ runPc' = "close"
     \/ runPc' = "abort" /\ UNCHANGED spent
  /\ UNCHANGED <<loopVars, doing, left, simSteps, part, cutShort>>

(* GazeboCourseRuntime.close stops the stepper, tears the ROS node down,   *)
(* and stops gzserver.                                                     *)
CloseGoesOn ==
  /\ runPc \in {"close", "abort"}
  /\ part \in {"stepper", "node"}
  /\ simulator' = simulator \ {part}
  /\ part' = IF part = "stepper" THEN "node" ELSE "gzserver"
  /\ UNCHANGED <<loopVars, runPc, doing, left, simSteps, spent, cutShort>>

CourseClose ==
  /\ runPc \in {"close", "abort"}
  /\ part = "gzserver"
  /\ simulator' = simulator \ {part}
  /\ part' = "stepper"
  /\ left' = IF runPc = "close" THEN left - 1 ELSE left
  /\ simSteps' = IF runPc = "close" THEN simSteps + spent ELSE simSteps
  /\ spent' = 0
  /\ runPc' = IF runPc = "close" THEN "course" ELSE "failed"
  /\ UNCHANGED <<loopVars, doing, cutShort>>

(* Any part of close may raise, and the parts behind it are not reached:   *)
(* stdin.close() sends again what a stepper that exited did not take, a    *)
(* process outlives terminate() or kill(), the node or its context does    *)
(* not shut down, or the run is interrupted.                               *)
CloseRaises ==
  /\ runPc \in {"close", "abort"}
  /\ cutShort' = part
  /\ runPc' = "failed"
  /\ UNCHANGED <<loopVars, doing, left, simSteps, spent, simulator, part>>

-------------------------------------------------------------------------------
Reached == IF budgeted THEN simSteps >= Budget ELSE updates >= UpdateCap

StartCheckpoint ==
  /\ doing' = "checkpoint"
  /\ left' = EvalCourses
  /\ runPc' = "course"

ShouldCheckpoint ==
  IF budgeted THEN simSteps >= due \/ simSteps >= Budget
              ELSE updates % EvalEvery = 0 \/ updates = UpdateCap

(* The head of the loop: the bound is looked at before the cap. *)
RunReturns ==
  /\ runPc = "test"
  /\ Reached
  /\ curve' = IF curve[Len(curve)].step = updates THEN curve
              ELSE Append(curve, [step |-> updates, sim |-> simSteps])
  /\ runPc' = "returned"
  /\ UNCHANGED <<budgeted, updates, due, doing, left, simSteps, spent, simVars>>

CapHit ==
  /\ runPc = "test"
  /\ ~Reached
  /\ updates >= UpdateCap
  /\ runPc' = "capped"
  /\ UNCHANGED <<loopVars, doing, left, simSteps, spent, simVars>>

BeginUpdate ==
  /\ runPc = "test"
  /\ ~Reached
  /\ updates < UpdateCap
  /\ updates' = updates + 1
  /\ doing' = "update"
  /\ left' = GroupsPerUpdate
  /\ runPc' = "course"
  /\ UNCHANGED <<budgeted, due, curve, simSteps, spent, simVars>>

EndUpdate ==
  /\ runPc = "course"
  /\ doing = "update"
  /\ left = 0
  /\ IF ShouldCheckpoint THEN StartCheckpoint
     ELSE runPc' = "test" /\ UNCHANGED <<doing, left>>
  /\ UNCHANGED <<loopVars, simSteps, spent, simVars>>

(* Mutant of EndCheckpoint: if in place of while. *)
EndCheckpointOnce ==
  /\ runPc = "course"
  /\ doing = "checkpoint"
  /\ left = 0
  /\ curve' = Append(curve, [step |-> updates, sim |-> simSteps])
  /\ due' = IF budgeted /\ due <= simSteps THEN due + Interval ELSE due
  /\ runPc' = "test"
  /\ UNCHANGED <<budgeted, updates, doing, left, simSteps, spent, simVars>>

(* The row, then the next multiple of the interval that is still ahead. *)
EndCheckpoint ==
  /\ runPc = "course"
  /\ doing = "checkpoint"
  /\ left = 0
  /\ curve' = Append(curve, [step |-> updates, sim |-> simSteps])
  /\ due' = IF budgeted /\ due <= simSteps THEN Interval * (simSteps \div Interval + 1)
            ELSE due
  /\ runPc' = "test"
  /\ UNCHANGED <<budgeted, updates, doing, left, simSteps, spent, simVars>>

RunNext ==
  \/ CourseStart \/ CourseRuns \/ CloseGoesOn \/ CourseClose \/ CloseRaises
  \/ RunReturns \/ CapHit \/ BeginUpdate \/ EndUpdate \/ EndCheckpoint

RunSpec == RunInit /\ [][RunNext]_runVars

-------------------------------------------------------------------------------
(* Properties. *)

RunTypeOK ==
  /\ budgeted \in BOOLEAN
  /\ runPc \in {"course", "episodes", "close", "abort", "test",
                "returned", "capped", "failed"}
  /\ doing \in {"update", "checkpoint"}
  /\ left \in Nat /\ updates \in Nat /\ simSteps \in Nat /\ spent \in Nat /\ due \in Nat
  /\ curve \in Seq([step : Nat, sim : Nat])
  /\ simulator \subseteq Processes
  /\ part \in {"stepper", "node", "gzserver"}
  /\ cutShort \in {"nothing", "start", "stepper", "node", "gzserver"}

(* A curve row is written at the update that crosses a multiple of the     *)
(* interval, and at no other before the budget: at the head of the loop    *)
(* the run is in the interval of its last row, and two rows before the     *)
(* budget are of different intervals.                                      *)
RowsMarkCrossings ==
  budgeted =>
    /\ runPc = "test" => simSteps \div Interval = curve[Len(curve)].sim \div Interval
    /\ \A i \in 1..Len(curve) : \A k \in 1..(i - 1) :
         curve[i].sim < Budget => curve[k].sim \div Interval < curve[i].sim \div Interval

(* What _normalized_auc needs of a returned run: the last row is of the    *)
(* last update and, in a budgeted run, is the only one at or beyond the    *)
(* budget and less than an update beyond it.  The cap ends only a run that *)
(* is short of its budget.                                                 *)
CurveReachesTheBound ==
  /\ runPc = "capped" => budgeted /\ simSteps < Budget
  /\ runPc = "returned" => curve[Len(curve)].step = updates
  /\ runPc = "returned" /\ budgeted =>
       /\ \A i \in 1..Len(curve) : curve[i].sim >= Budget <=> i = Len(curve)
       /\ curve[Len(curve)].sim < Budget + GroupsPerUpdate * MaxCost

CurveIsComplete == RowsMarkCrossings /\ CurveReachesTheBound

(* A simulator never outlives its course while the run goes on: the next   *)
(* course of the run would use its domain and port.  It outlives a run     *)
(* only where an exception out of close, or an interrupt in start, ended   *)
(* the run, whatever raised before; and from the teardown on, gzserver is  *)
(* all that can be left.                                                   *)
SimulatorEndsWithCourse ==
  /\ simulator # {} =>
       runPc \in {"episodes", "close", "abort"} \/ (runPc = "failed" /\ cutShort # "nothing")
  /\ runPc = "failed" /\ cutShort \in {"node", "gzserver"} => simulator \subseteq {"gzserver"}
=============================================================================
