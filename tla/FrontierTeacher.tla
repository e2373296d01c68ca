--------------------------- MODULE FrontierTeacher ---------------------------
(***************************************************************************)
(* frontier_rl/teacher.py: the decayed Beta posterior every curriculum     *)
(* sampler keeps, and the promotion schedule StagedDifficultyTeacher adds. *)
(*                                                                         *)
(* alpha and beta are the code's float arrays times Scale: with at most    *)
(* MaxVisits groups of a task every decayed value is then an exact integer *)
(* (rounding is not modelled).  A Thompson draw of the Beta posterior can  *)
(* land anywhere in (0, 1), so the utility-driven arms may sample any task *)
(* and only the staged arm without a floor has a smaller support.          *)
(***************************************************************************)
EXTENDS Integers, FiniteSets

CONSTANTS
  NTasks,            \* n_tasks
  NRollouts,         \* n_rollouts, the size of a group
  DecayNum, DecayDen,\* decay, a fraction
  Arm,               \* "frontier" (also uniform, learnability) or "staged"
  Order,             \* difficulty_order
  InitialTasks,      \* initial_tasks
  ThresholdNum, ThresholdDen, \* promotion_threshold, a fraction
  MinGroups,         \* min_frontier_groups
  MaxVisits,         \* bound on the groups observed of one task
  Scale              \* common denominator of the posterior

ASSUME TeacherAssumption ==
  /\ {NTasks, NRollouts, DecayDen, ThresholdDen, MinGroups, MaxVisits, Scale} \subseteq Nat \ {0}
  /\ DecayNum \in 0..DecayDen
  /\ ThresholdNum \in 0..ThresholdDen
  /\ InitialTasks \in 1..NTasks
  /\ Arm \in {"frontier", "staged"}

(* The denominator of n decays. *)
Power[n \in 0..MaxVisits] == IF n = 0 THEN 1 ELSE DecayDen * Power[n - 1]

ASSUME ScaleAssumption == Scale % Power[MaxVisits] = 0

Tasks == 1..NTasks

ASSUME OrderAssumption ==
  /\ Order \in [Tasks -> Tasks]
  /\ \A t \in Tasks : \E i \in Tasks : Order[i] = t

VARIABLES
  visits, \* groups observed of each task
  alpha,  \* scaled Beta parameters of each task
  beta,
  active, \* active_count: the unlocked prefix of the difficulty order
  floored,\* floor > 0; never changes
  saved   \* the last persisted state_dict, if there is one

posterior   == <<visits, alpha, beta>>
teacherVars == <<posterior, active, floored, saved>>

Decayed(x) == Scale + ((x - Scale) * DecayNum) \div DecayDen

StateDict == [visits |-> visits, alpha |-> alpha, beta |-> beta, active |-> active]

TeacherInit ==
  /\ visits = [t \in Tasks |-> 0]
  /\ alpha = [t \in Tasks |-> Scale]
  /\ beta = [t \in Tasks |-> Scale]
  /\ active = InitialTasks
  /\ floored \in BOOLEAN
  /\ saved = {}

-------------------------------------------------------------------------------
(* The posterior mean of task t in state s is at least num / den. *)
MeanAtLeast(s, t, num, den) == s.alpha[t] * den >= num * (s.alpha[t] + s.beta[t])

(* Mutant of Ready: a promising first group is enough. *)
ReadyAtOnce(s, i) ==
  /\ s.visits[Order[i]] > 0
  /\ MeanAtLeast(s, Order[i], ThresholdNum, ThresholdDen)

(* The task at position i of the order has been seen often enough, and its *)
(* posterior mean is high enough, to unlock the next one.                  *)
Ready(s, i) ==
  /\ s.visits[Order[i]] >= MinGroups
  /\ MeanAtLeast(s, Order[i], ThresholdNum, ThresholdDen)

(* Mutant of Promoted: one promotion per observation. *)
PromotedOnce(s, a) == IF a < NTasks /\ Ready(s, a) THEN a + 1 ELSE a

(* The loop of observe: from position a, past every position that is ready. *)
Promoted(s, a) ==
  CHOOSE b \in a..NTasks :
    /\ b = NTasks \/ ~Ready(s, b)
    /\ \A i \in a..(b - 1) : Ready(s, i)

Counted(s, t, k) ==
  [s EXCEPT !.visits[t] = @ + 1,
            !.alpha[t]  = Decayed(@) + k * Scale,
            !.beta[t]   = Decayed(@) + (NRollouts - k) * Scale]

(* observe(t, rewards) with k successes among the rewards. *)
Observe(t, k) ==
  LET s == Counted(StateDict, t, k)
  IN /\ visits[t] < MaxVisits
     /\ visits' = s.visits
     /\ alpha' = s.alpha
     /\ beta' = s.beta
     /\ active' = IF Arm = "staged" THEN Promoted(s, active) ELSE active
     /\ UNCHANGED <<floored, saved>>

Prefix == {Order[i] : i \in 1..active}

(* Mutant of Support: the floor is mixed in whatever its value. *)
SupportFloored == Tasks

(* The tasks distribution() gives a positive probability. *)
Support == IF Arm = "staged" /\ ~floored THEN Prefix ELSE Tasks

(* state_dict(), written out; and a new process that loads what was written. *)
Save == saved' = {StateDict} /\ UNCHANGED <<posterior, active, floored>>

Restore ==
  \E s \in saved :
    /\ visits' = s.visits
    /\ alpha' = s.alpha
    /\ beta' = s.beta
    /\ active' = s.active
    /\ UNCHANGED <<floored, saved>>
=============================================================================
