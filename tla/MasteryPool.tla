----------------------------- MODULE MasteryPool -----------------------------
(***************************************************************************)
(* frontier_rl/adapters/cosmos_libero.py: a pool of manipulation tasks     *)
(* whose arms are known both to the environment and to the teacher.  The   *)
(* environment relabels a group without weight as an attempt at another    *)
(* goal it achieved, and splits a mastered task into arms by initial       *)
(* state; the teacher must never sample the arms that exist for            *)
(* relabelling only.                                                       *)
(*                                                                         *)
(* A goal is a set of predicates.  The posterior of an arm is its          *)
(* successes and rollouts, without decay.  Rollouts and the predicate      *)
(* verifier are external and may return anything.                          *)
(***************************************************************************)
EXTENDS Integers, Sequences, Functions, Ascending

CONSTANTS
  PoolGoals,      \* goals of the pool, in the order of their arm ids
  SubGoals,       \* goals of the relabel-only arms, after them
  Predicates,     \* what the verifier may report
  InitBins,       \* n_bins of a split
  MasteryNum, MasteryDen, \* p_threshold as a fraction
  MasteryVisits,  \* min_visits
  MaxSub,         \* max_subconj_size
  GroupRolls,     \* rollouts of a group
  MaxRolls,       \* bound on the rollouts of an arm
  MaxReloads,     \* bound on the restarts
  Nobody          \* no arm, no target, no checkpoint

ASSUME PoolAssumption ==
  /\ PoolGoals \in Seq(Range(PoolGoals)) /\ SubGoals \in Seq(Range(SubGoals))
  /\ IsInjective(PoolGoals \o SubGoals)
  /\ {InitBins, MasteryDen, GroupRolls} \subseteq Nat \ {0}
  /\ {MasteryNum, MasteryVisits, MaxSub, MaxRolls, MaxReloads} \subseteq Nat

VARIABLES
  poolPc,    \* "idle", "dead" or "refused"
  arms,      \* env.tasks: [goal, bin, parent, source]
  nTasks,    \* teacher.n_tasks
  posts,     \* teacher.alpha, beta and visits
  samplable, \* teacher.samplable
  arm,       \* the arm of the group in hand
  achieved,  \* predicates the verifier reports for each of its rollouts
  target,    \* the arm the last dead group was relabelled to
  kept,      \* the teacher's checkpoint
  reloads

poolVars == <<poolPc, arms, nTasks, posts, samplable, arm, achieved, target, kept, reloads>>

NewArm(goal, bin, parent, source) ==
  [goal |-> goal, bin |-> bin, parent |-> parent, source |-> source]

PoolArms ==
  [i \in 1..Len(PoolGoals) |-> NewArm(PoolGoals[i], 0, 0, "pool")]
    \o [i \in 1..Len(SubGoals) |-> NewArm(SubGoals[i], 0, 0, "subgoal")]

Unseen == [hits |-> 0, rolls |-> 0]

PoolInit ==
  /\ poolPc = "idle"
  /\ arms = PoolArms
  /\ nTasks = Len(PoolArms)
  /\ posts = [i \in 1..Len(PoolArms) |-> Unseen]
  /\ samplable = [i \in 1..Len(PoolArms) |-> PoolArms[i].source # "subgoal"]
  /\ arm = 0 /\ achieved = <<>> /\ target = Nobody
  /\ kept = Nobody
  /\ reloads = 0

-------------------------------------------------------------------------------
(* distribution draws one probability per entry of the posterior, masked;  *)
(* choice refuses to draw when they are not n_tasks many.  With a floor    *)
(* every samplable arm may come up.  A group that all failed or all        *)
(* succeeded has no weight, and the trainer hands it to relabel.           *)
SamplableArms == {i \in 1..Len(posts) : samplable[i]}

SampleAndRoll ==
  /\ poolPc = "idle"
  /\ Len(posts) = nTasks
  /\ arm' \in SamplableArms
  /\ posts[arm'].rolls + GroupRolls <= MaxRolls
  /\ \E k \in 0..GroupRolls :
       /\ posts' = [posts EXCEPT ![arm'] = [hits |-> @.hits + k, rolls |-> @.rolls + GroupRolls]]
       /\ poolPc' = IF k \in {0, GroupRolls} THEN "dead" ELSE "idle"
  /\ achieved' = <<>>
  /\ UNCHANGED <<arms, nTasks, samplable, target, kept, reloads>>

SampleRefused ==
  /\ poolPc = "idle"
  /\ Len(posts) # nTasks
  /\ poolPc' = "refused"
  /\ UNCHANGED <<arms, nTasks, posts, samplable, arm, achieved, target, kept, reloads>>

-------------------------------------------------------------------------------
(* The registry of goals that have an arm. *)
Registered == {PoolArms[i].goal : i \in 1..Len(PoolArms)}

ArmOf(goal) == CHOOSE i \in 1..Len(PoolArms) : PoolArms[i].goal = goal

Attained(goal, sets) == \E i \in DOMAIN sets : goal \subseteq sets[i]

Deepest(goals) == {g \in goals : \A h \in goals : Cardinality(h) <= Cardinality(g)}

(* _deepest_target: the registered strict sub-goals of the group's own     *)
(* goal first, then any other registered goal.  Mutant: it is told apart   *)
(* from the group's task by its arm and not by its goal.                   *)
TargetsByArm(own, sets) ==
  LET onPath == {g \in Registered \ {own} :
                   g \subseteq own /\ Cardinality(g) <= MaxSub /\ Attained(g, sets)}
      others == {g \in Registered : ArmOf(g) # arm /\ Attained(g, sets)}
  IN  IF onPath # {} THEN Deepest(onPath) ELSE Deepest(others)

Targets(own, sets) ==
  LET onPath == {g \in Registered \ {own} :
                   g \subseteq own /\ Cardinality(g) <= MaxSub /\ Attained(g, sets)}
      others == {g \in Registered \ {own} : Attained(g, sets)}
  IN  IF onPath # {} THEN Deepest(onPath) ELSE Deepest(others)

(* relabel, of a group without weight, whatever the verifier reports. *)
RelabelDead ==
  /\ poolPc = "dead"
  /\ achieved' \in [1..GroupRolls -> SUBSET Predicates]
  /\ LET found == Targets(arms[arm].goal, achieved')
     IN  IF found = {} THEN target' = Nobody
         ELSE \E g \in found : target' = ArmOf(g)
  /\ poolPc' = "idle"
  /\ UNCHANGED <<arms, nTasks, posts, samplable, arm, kept, reloads>>

-------------------------------------------------------------------------------
(* split_mastered, from the evaluation hook.  The posterior mean is that   *)
(* of a Beta(1, 1) prior; children start from a shrunk copy, their visits  *)
(* at zero.                                                                *)
Mastered(i) ==
  /\ MasteryDen * (1 + posts[i].hits) >= MasteryNum * (2 + posts[i].rolls)
  /\ posts[i].rolls >= MasteryVisits * GroupRolls

(* Mutant of Splittable: a task splits whenever it is mastered. *)
SplittableAgain(i) ==
  /\ arms[i].source # "split"
  /\ i <= Len(posts)
  /\ Mastered(i)

Splittable(i) ==
  /\ arms[i].source # "split"
  /\ i <= Len(posts)
  /\ \A c \in DOMAIN arms : arms[c].parent # i
  /\ Mastered(i)

(* The arms of a split are appended task after task, bin after bin.        *)
Children(parents) ==
  [c \in 1..(InitBins * Len(parents)) |->
    LET parent == parents[1 + ((c - 1) \div InitBins)]
    IN  NewArm(arms[parent].goal, 1 + ((c - 1) % InitBins), parent, "split")]

SplitMastered ==
  /\ poolPc = "idle"
  /\ LET tasks    == {i \in DOMAIN arms : Splittable(i)}
         children == Children(Ascending(tasks))
     IN  /\ tasks # {}
         /\ arms' = arms \o children
         /\ nTasks' = nTasks + Len(children)
         /\ posts' = posts \o [c \in DOMAIN children |-> Unseen]
         /\ samplable' = samplable \o [c \in DOMAIN children |-> TRUE]
  /\ UNCHANGED <<poolPc, arm, achieved, target, kept, reloads>>

(* Phase1Round writes the teacher's state; another process builds the pool *)
(* anew and loads it: the posterior and the mask come back, n_tasks and    *)
(* the arms of the splits do not.                                          *)
SavePool ==
  /\ poolPc = "idle"
  /\ kept' = [posts |-> posts, samplable |-> samplable]
  /\ UNCHANGED <<poolPc, arms, nTasks, posts, samplable, arm, achieved, target, reloads>>

ReloadPool ==
  /\ kept # Nobody
  /\ reloads < MaxReloads
  /\ reloads' = reloads + 1
  /\ poolPc' = "idle"
  /\ arms' = PoolArms
  /\ nTasks' = Len(PoolArms)
  /\ posts' = kept.posts
  /\ samplable' = kept.samplable
  /\ arm' = 0 /\ achieved' = <<>> /\ target' = Nobody
  /\ UNCHANGED kept

PoolNext ==
  \/ SampleAndRoll \/ SampleRefused \/ RelabelDead \/ SplitMastered
  \/ SavePool \/ ReloadPool

PoolSpec == PoolInit /\ [][PoolNext]_poolVars

-------------------------------------------------------------------------------
(* Properties. *)

(* The arm a group is rolled on is one the environment knows, by the same  *)
(* id, and may roll out; an arm that exists for relabelling has no         *)
(* evidence, and a split pool restored into a new process is refused       *)
(* rather than sampled.                                                    *)
RolledArmsAreReal ==
  /\ arm # 0 => arm <= Len(arms) /\ arms[arm].source # "subgoal"
  /\ \A i \in DOMAIN posts : posts[i].rolls > 0 /\ i <= Len(PoolArms) =>
       PoolArms[i].source # "subgoal"

(* A task is split once: its arms are one per initial-state bin, of its    *)
(* goal, and no split arm is split.                                        *)
TasksSplitOnce ==
  \A c \in DOMAIN arms : arms[c].source = "split" =>
    /\ arms[arms[c].parent].source # "split"
    /\ arms[c].goal = arms[arms[c].parent].goal
    /\ \A d \in DOMAIN arms :
         arms[d].parent = arms[c].parent /\ arms[d].bin = arms[c].bin => d = c

ArmsAreSound == RolledArmsAreReal /\ TasksSplitOnce

(* A group is never relabelled as a success at the goal it was rolled for, *)
(* although a split arm has the goal of its parent's arm; the target is    *)
(* something a rollout achieved, and no deeper part of that goal was.      *)
RelabelIsAnotherGoal ==
  target # Nobody /\ achieved # <<>> =>
    /\ PoolArms[target].goal # arms[arm].goal
    /\ Attained(PoolArms[target].goal, achieved)
    /\ \A g \in Registered :
         g \subseteq arms[arm].goal /\ g # arms[arm].goal /\ Cardinality(g) <= MaxSub
           /\ Attained(g, achieved)
         => /\ PoolArms[target].goal \subseteq arms[arm].goal
            /\ Cardinality(g) <= Cardinality(PoolArms[target].goal)
=============================================================================
