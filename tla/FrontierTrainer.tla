--------------------------- MODULE FrontierTrainer ---------------------------
(***************************************************************************)
(* frontier_rl/trainer.py: FrontierTrainer.step over a teacher.  A step    *)
(* samples its tasks from one distribution, then for each of them rolls a  *)
(* group, reports it to the teacher, redraws while the group is dead and   *)
(* the DAPO budget lasts, and either updates the policy on the group or    *)
(* offers it to the environment's relabelling.                             *)
(*                                                                         *)
(* Rewards are binary, so a group is its number of successes.  The rollout *)
(* and the relabelling belong to the environment and may return anything.  *)
(***************************************************************************)
EXTENDS FrontierTeacher, Sequences

CONSTANTS
  TasksPerStep,    \* tasks_per_step
  Estimator,       \* "maxrl" (with or without positive_weights), "grpo" or "rloo"
  MaxRedraws,      \* dapo_max_redraws
  Hindsight,       \* hindsight
  GateNum, GateDen,\* gate_max_p as a fraction; 1/1 leaves the gate open
  MaxRestores      \* bound on the number of restarts

ASSUME TrainerAssumption ==
  /\ {TasksPerStep, GateDen} \subseteq Nat \ {0}
  /\ {MaxRedraws, MaxRestores} \subseteq Nat
  /\ GateNum \in 0..GateDen
  /\ Estimator \in {"maxrl", "grpo", "rloo"}
  /\ Hindsight \in BOOLEAN

VARIABLES
  pc,        \* control state; "idle" between steps
  batch,     \* tasks of the step not taken up yet
  task,      \* task_id
  group,     \* successes of the group in hand
  redraws,   \* redraws left for the group in hand
  live, dead, relabeled, \* StepStats
  rolled,    \* groups the environment has rolled in this step
  requested, \* groups of each task it has rolled in the line this process continues
  restores

stats       == <<live, dead, relabeled>>
history     == <<rolled, requested>>
trainerVars == <<pc, batch, task, group, redraws, stats, history, restores>>
vars        == <<teacherVars, trainerVars>>

Groups == 0..NRollouts

(* 0 < K < N: what the redraw loop asks for. *)
Mixed(k) == k > 0 /\ k < NRollouts

(* Some weight of the group is not zero.  RLOO returns the reward itself   *)
(* when the group has one rollout.                                         *)
HasWeight(k) == Mixed(k) \/ (Estimator = "rloo" /\ NRollouts = 1 /\ k = 1)

Init ==
  /\ TeacherInit
  /\ pc = "idle"
  /\ batch = <<>>
  /\ task = 1
  /\ group = 0
  /\ redraws = 0
  /\ live = 0 /\ dead = 0 /\ relabeled = 0
  /\ rolled = 0
  /\ requested = [t \in Tasks |-> 0]
  /\ restores = 0

-------------------------------------------------------------------------------
(* The whole batch is drawn before any of it is observed. *)
BeginStep ==
  /\ pc = "idle"
  /\ batch' \in [1..TasksPerStep -> Support]
  /\ pc' = "next"
  /\ live' = 0 /\ dead' = 0 /\ relabeled' = 0 /\ rolled' = 0
  /\ UNCHANGED <<teacherVars, task, group, redraws, requested, restores>>

NextTask ==
  /\ pc = "next"
  /\ batch # <<>>
  /\ task' = Head(batch)
  /\ batch' = Tail(batch)
  /\ redraws' = MaxRedraws
  /\ pc' = "roll"
  /\ UNCHANGED <<teacherVars, group, stats, history, restores>>

EndStep ==
  /\ pc = "next"
  /\ batch = <<>>
  /\ pc' = "idle"
  /\ UNCHANGED <<teacherVars, batch, task, group, redraws, stats, history, restores>>

(* rollout_group and observe, of the requested task only. *)
Roll ==
  /\ pc = "roll"
  /\ group' \in Groups
  /\ Observe(task, group')
  /\ rolled' = rolled + 1
  /\ requested' = [requested EXCEPT ![task] = @ + 1]
  /\ pc' = "judge"
  /\ UNCHANGED <<batch, task, redraws, stats, restores>>

(* Mutant of Redraw: the draw is not paid. *)
RedrawUnpaid ==
  /\ pc = "judge"
  /\ redraws > 0
  /\ ~Mixed(group)
  /\ redraws' = redraws - 1
  /\ task' \in Support
  /\ pc' = "roll"
  /\ UNCHANGED <<teacherVars, batch, group, stats, history, restores>>

(* A dead group is paid for and another task, of the present distribution, *)
(* takes its place.                                                        *)
Redraw ==
  /\ pc = "judge"
  /\ redraws > 0
  /\ ~Mixed(group)
  /\ dead' = dead + 1
  /\ redraws' = redraws - 1
  /\ task' \in Support
  /\ pc' = "roll"
  /\ UNCHANGED <<teacherVars, batch, group, live, relabeled, history, restores>>

Kept == pc = "judge" /\ (redraws = 0 \/ Mixed(group))

UpdateLive ==
  /\ Kept
  /\ HasWeight(group)
  /\ live' = live + 1
  /\ pc' = "next"
  /\ UNCHANGED <<teacherVars, batch, task, group, redraws, dead, relabeled, history, restores>>

Discard ==
  /\ Kept
  /\ ~HasWeight(group)
  /\ dead' = dead + 1
  /\ pc' = IF Hindsight THEN "relabel" ELSE "next"
  /\ UNCHANGED <<teacherVars, batch, task, group, redraws, live, relabeled, history, restores>>

(* hindsight_gate: the posterior does not rate the destination above the gate. *)
GateOpen(dest) == alpha[dest] * GateDen <= GateNum * (alpha[dest] + beta[dest])

(* relabel returns None, a destination the gate rejects, or rewards that   *)
(* carry no weight.                                                        *)
SkipRelabel ==
  /\ pc = "relabel"
  /\ pc' = "next"
  /\ UNCHANGED <<teacherVars, batch, task, group, redraws, stats, history, restores>>

(* Mutant of Relabel: the relabelled rewards reach the teacher. *)
RelabelObserved ==
  /\ pc = "relabel"
  /\ \E dest \in Tasks, k \in Groups :
       GateOpen(dest) /\ HasWeight(k) /\ Observe(dest, k)
  /\ relabeled' = relabeled + 1
  /\ pc' = "next"
  /\ UNCHANGED <<batch, task, group, redraws, live, dead, history, restores>>

(* The policy is updated on the destination; the teacher hears nothing. *)
Relabel ==
  /\ pc = "relabel"
  /\ \E dest \in Tasks, k \in Groups : GateOpen(dest) /\ HasWeight(k)
  /\ relabeled' = relabeled + 1
  /\ pc' = "next"
  /\ UNCHANGED <<teacherVars, batch, task, group, redraws, live, dead, history, restores>>

Checkpoint ==
  /\ pc = "idle"
  /\ Save
  /\ UNCHANGED trainerVars

(* The process is lost, at any point of a step, and starts from what it saved. *)
Restart ==
  /\ restores < MaxRestores
  /\ Restore
  /\ pc' = "idle" /\ batch' = <<>> /\ group' = 0 /\ redraws' = 0
  /\ live' = 0 /\ dead' = 0 /\ relabeled' = 0 /\ rolled' = 0
  /\ task' = 1
  /\ requested' = visits'
  /\ restores' = restores + 1

Next ==
  \/ BeginStep \/ NextTask \/ EndStep
  \/ Roll \/ Redraw \/ UpdateLive \/ Discard \/ SkipRelabel \/ Relabel
  \/ Checkpoint \/ Restart

Spec == Init /\ [][Next]_vars

-------------------------------------------------------------------------------
(* Properties. *)

DictType ==
  [visits : [Tasks -> Nat], alpha : [Tasks -> Nat], beta : [Tasks -> Nat],
   active : Tasks]

(* Every variable has its type; in particular the unlocked prefix is never *)
(* empty and never longer than the pool.                                   *)
TypeOK ==
  /\ StateDict \in DictType
  /\ saved \subseteq DictType
  /\ floored \in BOOLEAN
  /\ pc \in {"idle", "next", "roll", "judge", "relabel"}
  /\ batch \in Seq(Tasks)
  /\ task \in Tasks
  /\ group \in Groups
  /\ redraws \in 0..MaxRedraws
  /\ {live, dead, relabeled, rolled, restores} \subseteq Nat
  /\ requested \in [Tasks -> Nat]

(* Every group the environment rolled is counted once, live or dead,       *)
(* however the redraws, the estimator and the relabelling interleave; the  *)
(* only group not counted yet is the one in judgement.  A relabelled group *)
(* is one of the dead ones, and each dead group is relabelled once at most.*)
BudgetIsCounted ==
  /\ rolled = live + dead + (IF pc = "judge" THEN 1 ELSE 0)
  /\ relabeled + (IF pc = "relabel" THEN 1 ELSE 0) <= dead

(* Evidence of n groups of a task after decay, on the same scale. *)
Mass[n \in 0..MaxVisits] ==
  IF n = 0 THEN 0 ELSE (Mass[n - 1] * DecayNum) \div DecayDen + NRollouts * Scale

(* The evidence a task's posterior holds is that of the groups requested   *)
(* of it, decayed once per visit: neither a relabelled group, another      *)
(* task's group nor a restart adds to it, takes from it or decays it.      *)
EvidenceIsRequested ==
  /\ visits = requested
  /\ \A t \in Tasks : (alpha[t] - Scale) + (beta[t] - Scale) = Mass[visits[t]]

(* The schedule never lags its evidence: whenever control is outside       *)
(* observe, the frontier task does not qualify for promotion, even when    *)
(* the floor had locked tasks observed long before they were unlocked.     *)
NoMissedPromotion ==
  Arm = "staged" => (active = NTasks \/ ~Ready(StateDict, active))

(* Every unlocked task beyond the initial ones was unlocked by groups of   *)
(* its predecessor: the teacher holds at least min_frontier_groups of it.  *)
PromotionIsEarned ==
  \A i \in InitialTasks..(active - 1) : visits[Order[i]] >= MinGroups

(* Without a floor no locked task is ever trained on, redraws and a batch  *)
(* drawn before a promotion included.                                      *)
LockedStaysUnseen ==
  (Arm = "staged" /\ ~floored) =>
    \A t \in Tasks \ Prefix : visits[t] = 0 /\ ~(pc \in {"roll", "judge"} /\ task = t)
=============================================================================
