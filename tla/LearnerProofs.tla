---------------------------- MODULE LearnerProofs -----------------------------
(***************************************************************************)
(* Proofs about the learners that keep a posterior: FrontierTrainer, for   *)
(* every pool, group size, decay, threshold, estimator and redraw budget;  *)
(* BinCurriculum, PromptSampler and MasteryPool, for every set of          *)
(* environments, levels, prompts and goals, and every bound.               *)
(***************************************************************************)
EXTENDS FrontierTrainer, BinCurriculum, PromptSampler, MasteryPool, DataTheorems

(* FrontierTrainer.  The argument has two halves.  A teacher state (a      *)
(* dictionary, live or persisted) is sound when its promotions are earned  *)
(* and none is missing; observe keeps it so because its loop stops at the  *)
(* first position that is not ready, and Restore can only bring back a     *)
(* dictionary that was sound when it was saved.  The trainer adds that     *)
(* whatever is waiting to be rolled was drawn from a prefix that can only  *)
(* have grown since.                                                       *)

PrefixOf(s) == {Order[i] : i \in 1..s.active}

LockedArm == Arm = "staged" /\ ~floored

(* What holds of every dictionary the teacher is in or has persisted. *)
SoundDict(s) ==
  /\ s \in DictType
  /\ InitialTasks <= s.active
  /\ \A t \in Tasks : s.alpha[t] >= Scale /\ s.beta[t] >= Scale
  /\ Arm = "staged" => (s.active = NTasks \/ ~Ready(s, s.active))
  /\ \A i \in InitialTasks..(s.active - 1) : s.visits[Order[i]] >= MinGroups
  /\ LockedArm => \A t \in Tasks \ PrefixOf(s) : s.visits[t] = 0

Waiting ==
  LockedArm =>
    /\ \A i \in DOMAIN batch : batch[i] \in Prefix
    /\ pc \in {"roll", "judge"} => task \in Prefix

IInv ==
  /\ TypeOK
  /\ SoundDict(StateDict)
  /\ \A s \in saved : SoundDict(s)
  /\ BudgetIsCounted
  /\ Waiting

-------------------------------------------------------------------------------
(* The assumptions on the constants, one by one. *)
LEMMA Parameters ==
  /\ NTasks \in Nat /\ NTasks >= 1 /\ NRollouts \in Nat /\ MinGroups \in Nat /\ MinGroups >= 1 /\ Scale \in Nat
  /\ InitialTasks \in Nat /\ 1 <= InitialTasks /\ InitialTasks <= NTasks
  /\ \A i : i \in Tasks <=> (i \in Int /\ 1 <= i /\ i <= NTasks)
  /\ \A i \in Tasks : Order[i] \in Tasks
<1>1. /\ NTasks \in Nat \ {0} /\ NRollouts \in Nat /\ MinGroups \in Nat \ {0} /\ Scale \in Nat
      /\ InitialTasks \in 1..NTasks
  BY TeacherAssumption
<1>2. \A i : i \in Tasks <=> (i \in Int /\ 1 <= i /\ i <= NTasks)
  BY <1>1 DEF Tasks
<1>3. \A i \in Tasks : Order[i] \in Tasks
  BY OrderAssumption
<1> QED  BY <1>1, <1>2, <1>3

(* A nonempty set of numbers has a least element. *)
LEMMA LeastElement ==
  ASSUME NEW T, T \subseteq Nat, T # {}
  PROVE  \E x \in T : \A y \in T : x <= y
<1>1. \E x \in T : \A y \in T : ~(<<y, x>> \in OpToRel(<, Nat))
  BY NatLessThanWellFounded, WFMin
<1>2. PICK x \in T : \A y \in T : ~(<<y, x>> \in OpToRel(<, Nat))
  BY <1>1
<1>3. \A y \in T : ~(y < x)
  BY <1>2 DEF OpToRel
<1>4. x \in Nat /\ \A y \in T : y \in Nat
  BY <1>2
<1>5. \A y \in T : x <= y
  <2>1. \A m, n \in Nat : ~(m < n) => n <= m
    OBVIOUS
  <2> QED  BY <1>3, <1>4, <2>1
<1> QED  BY <1>2, <1>5

(* The promotion loop stops at the first position, from a on, that is not *)
(* ready, or at the end of the pool.                                       *)
LEMMA PromotedIsFirst ==
  ASSUME NEW s, NEW a \in Tasks
  PROVE  /\ Promoted(s, a) \in a..NTasks
         /\ Promoted(s, a) = NTasks \/ ~Ready(s, Promoted(s, a))
         /\ \A i \in a..(Promoted(s, a) - 1) : Ready(s, i)
<1> DEFINE T == {b \in a..NTasks : b = NTasks \/ ~Ready(s, b)}
<1>1. T \subseteq Nat /\ NTasks \in T
  BY TeacherAssumption DEF Tasks
<1>2. PICK b \in T : \A y \in T : b <= y
  <2> HIDE DEF T
  <2> QED  BY <1>1, LeastElement
<1>3. \A i \in a..(b - 1) : Ready(s, i)
  <2> TAKE i \in a..(b - 1)
  <2>1. i \notin T
    BY <1>1, <1>2
  <2>2. i \in a..NTasks
    BY <1>2, TeacherAssumption DEF Tasks
  <2> QED  BY <2>1, <2>2
<1>4. \E c \in a..NTasks : (c = NTasks \/ ~Ready(s, c)) /\ \A i \in a..(c - 1) : Ready(s, i)
  BY <1>2, <1>3
<1> QED  BY <1>4 DEF Promoted

(* Decay keeps a parameter a number and at least its prior. *)
LEMMA DecayedBounds ==
  ASSUME NEW x \in Nat, x >= Scale
  PROVE  Decayed(x) \in Nat /\ Decayed(x) >= Scale
<1>1. Scale \in Nat /\ DecayNum \in Nat /\ DecayDen \in Nat \ {0}
  BY TeacherAssumption
<1>2. (x - Scale) * DecayNum \in Nat
  <2>1. \A m, n \in Nat : m * n \in Nat
    OBVIOUS
  <2>2. x - Scale \in Nat
    BY <1>1
  <2> QED  BY <1>1, <2>1, <2>2
<1>3. \A m \in Nat, d \in Nat \ {0} : m \div d \in Nat
  BY SMT
<1>4. ((x - Scale) * DecayNum) \div DecayDen \in Nat
  BY <1>1, <1>2, <1>3
<1> DEFINE e == ((x - Scale) * DecayNum) \div DecayDen
<1>5. Scale + e \in Nat /\ Scale + e >= Scale
  <2> HIDE DEF e
  <2>1. e \in Nat
    BY <1>4 DEF e
  <2> QED  BY <1>1, <2>1
<1> QED  BY <1>5 DEF Decayed

(* A position is ready only when its task has been seen often enough.      *)
LEMMA ReadyIsSeen ==
  ASSUME NEW s, NEW i, Ready(s, i)
  PROVE  s.visits[Order[i]] >= MinGroups
BY DEF Ready

-------------------------------------------------------------------------------
(* observe keeps the teacher sound when the requested task was unlocked: it *)
(* types, it leaves no promotion pending, and each position it unlocks was  *)
(* ready, so had its groups.                                                *)
LEMMA ObserveKeepsSound ==
  ASSUME SoundDict(StateDict), NEW t \in Tasks, NEW k \in Groups, Observe(t, k),
         LockedArm => t \in Prefix
  PROVE  SoundDict(StateDict)' /\ active <= active'
<1> DEFINE s == Counted(StateDict, t, k)
           u == StateDict'
<1>1. /\ visits \in [Tasks -> Nat] /\ alpha \in [Tasks -> Nat] /\ beta \in [Tasks -> Nat]
      /\ active \in Tasks /\ InitialTasks <= active
      /\ \A x \in Tasks : alpha[x] >= Scale /\ beta[x] >= Scale
  BY DEF SoundDict, StateDict, DictType
<1>2. /\ s.visits = [visits EXCEPT ![t] = @ + 1]
      /\ s.alpha = [alpha EXCEPT ![t] = Decayed(@) + k * Scale]
      /\ s.beta = [beta EXCEPT ![t] = Decayed(@) + (NRollouts - k) * Scale]
  BY DEF Counted, StateDict
<1>3. visits' = s.visits /\ alpha' = s.alpha /\ beta' = s.beta /\ LockedArm' = LockedArm
  BY DEF Observe, LockedArm
<1>4. /\ Decayed(alpha[t]) \in Nat /\ Decayed(alpha[t]) >= Scale
      /\ Decayed(beta[t]) \in Nat /\ Decayed(beta[t]) >= Scale
  BY <1>1, DecayedBounds
<1>5. k * Scale \in Nat /\ (NRollouts - k) * Scale \in Nat
  <2>1. k \in Nat /\ NRollouts - k \in Nat /\ Scale \in Nat
    BY TeacherAssumption DEF Groups
  <2>2. \A m, n \in Nat : m * n \in Nat
    OBVIOUS
  <2> QED  BY <2>1, <2>2
<1>6. /\ visits' \in [Tasks -> Nat] /\ alpha' \in [Tasks -> Nat] /\ beta' \in [Tasks -> Nat]
      /\ \A x \in Tasks : alpha'[x] >= Scale /\ beta'[x] >= Scale
  <2> DEFINE da == Decayed(alpha[t])
             db == Decayed(beta[t])
             ka == k * Scale
             kb == (NRollouts - k) * Scale
  <2>1. /\ alpha' = [alpha EXCEPT ![t] = da + ka]
        /\ beta' = [beta EXCEPT ![t] = db + kb]
        /\ visits' = [visits EXCEPT ![t] = @ + 1]
    BY <1>2, <1>3
  <2>2. /\ da \in Nat /\ da >= Scale /\ db \in Nat /\ db >= Scale
        /\ ka \in Nat /\ kb \in Nat /\ Scale \in Nat
    BY <1>4, <1>5, TeacherAssumption
  <2> HIDE DEF da, db, ka, kb
  <2>3. da + ka \in Nat /\ da + ka >= Scale /\ db + kb \in Nat /\ db + kb >= Scale
    BY <2>2
  <2> QED  BY <1>1, <2>1, <2>3
<1>7. CASE Arm = "staged"
  <2>1. active' = Promoted(s, active)
    BY <1>7 DEF Observe
  <2>2. /\ active' \in active..NTasks
        /\ active' = NTasks \/ ~Ready(s, active')
        /\ \A i \in active..(active' - 1) : Ready(s, i)
    BY <1>1, <2>1, PromotedIsFirst
  <2>3. active' \in Tasks /\ active <= active' /\ InitialTasks <= active'
    <3>1. active \in Nat /\ 1 <= active /\ active <= NTasks
      BY <1>1, Parameters
    <3>2. active' \in Int /\ active <= active' /\ active' <= NTasks
      BY <2>2, <3>1, Parameters
    <3> QED  BY <1>1, <3>1, <3>2, Parameters
  <2>4. \A i : Ready(u, i) <=> Ready(s, i)
    BY <1>3 DEF Ready, MeanAtLeast, StateDict
  <2>5. ASSUME NEW i \in InitialTasks..(active' - 1)
        PROVE  visits'[Order[i]] >= MinGroups
    <3>1. CASE i \in active..(active' - 1)
      BY <1>3, <2>2, <3>1, ReadyIsSeen
    <3>2. CASE i \in InitialTasks..(active - 1)
      <4>1. visits[Order[i]] >= MinGroups
        BY <3>2 DEF SoundDict, StateDict
      <4>2. i \in Tasks /\ Order[i] \in Tasks
        BY <1>1, <3>2, Parameters
      <4>3. visits'[Order[i]] \in Nat /\ visits'[Order[i]] >= visits[Order[i]]
        BY <1>1, <1>2, <1>3, <4>2
      <4> QED  BY <1>1, <4>1, <4>2, <4>3, Parameters
    <3>3. active \in Int /\ active' \in Int /\ InitialTasks \in Int
      BY <1>1, <2>3, Parameters
    <3>4. \A x, y, z \in Int : \A j \in x..(z - 1) : j \in y..(z - 1) \/ j \in x..(y - 1)
      OBVIOUS
    <3>5. i \in active..(active' - 1) \/ i \in InitialTasks..(active - 1)
      BY <3>3, <3>4
    <3> QED  BY <3>1, <3>2, <3>5
  <2>6. LockedArm => \A x \in Tasks \ PrefixOf(u) : visits'[x] = 0
    <3> SUFFICES ASSUME LockedArm, NEW x \in Tasks \ PrefixOf(u)
                 PROVE  visits'[x] = 0
      OBVIOUS
    <3>1. PrefixOf(StateDict) \subseteq PrefixOf(u)
      BY <1>1, <2>3 DEF PrefixOf, StateDict, Tasks
    <3>2. x \notin PrefixOf(StateDict) /\ visits[x] = 0
      BY <3>1 DEF SoundDict, StateDict
    <3>3. x # t
      BY <3>2 DEF PrefixOf, Prefix, StateDict
    <3> QED  BY <1>1, <1>2, <1>3, <3>2, <3>3
  <2>7. SoundDict(u)
    BY <1>6, <2>2, <2>3, <2>4, <2>5, <2>6 DEF SoundDict, StateDict, DictType
  <2> QED  BY <1>3, <2>3, <2>7 DEF SoundDict, StateDict, DictType, Ready, MeanAtLeast, PrefixOf
<1>8. CASE Arm # "staged"
  <2>1. active' = active
    BY <1>8 DEF Observe
  <2>2. ASSUME NEW i \in InitialTasks..(active' - 1)
        PROVE  visits'[Order[i]] >= MinGroups
    <3>1. visits[Order[i]] >= MinGroups
      BY <2>1 DEF SoundDict, StateDict
    <3>2. i \in Tasks /\ Order[i] \in Tasks
      BY <1>1, <2>1, Parameters
    <3>3. visits'[Order[i]] \in Nat /\ visits'[Order[i]] >= visits[Order[i]]
      BY <1>1, <1>2, <1>3, <3>2
    <3> QED  BY <1>1, <3>1, <3>2, <3>3, Parameters
  <2>3. SoundDict(u)
    BY <1>1, <1>6, <1>8, <2>1, <2>2 DEF SoundDict, StateDict, DictType, LockedArm
  <2>4. SoundDict(StateDict)'
    BY <1>3, <2>3 DEF SoundDict, StateDict, DictType, Ready, MeanAtLeast, PrefixOf
  <2>5. active <= active'
    BY <1>1, <2>1, Parameters
  <2> QED  BY <2>4, <2>5
<1> QED  BY <1>7, <1>8

(* Restoring a sound dictionary makes the teacher sound. *)
LEMMA RestoreIsSound ==
  ASSUME NEW s \in saved, SoundDict(s),
         visits' = s.visits, alpha' = s.alpha, beta' = s.beta, active' = s.active,
         floored' = floored
  PROVE  SoundDict(StateDict)'
<1>1. StateDict' = s
  BY DEF SoundDict, DictType, StateDict
<1> QED  BY <1>1 DEF SoundDict, Ready, MeanAtLeast, PrefixOf, LockedArm, DictType

-------------------------------------------------------------------------------
(* A step that leaves the teacher's variables alone keeps the teacher sound. *)
LEMMA TeacherUntouched ==
  ASSUME IInv, UNCHANGED teacherVars
  PROVE  /\ SoundDict(StateDict)' /\ (\A s \in saved : SoundDict(s))'
         /\ StateDict' = StateDict /\ Prefix' = Prefix /\ Support' = Support
<1>1. StateDict' = StateDict /\ saved' = saved
  BY DEF teacherVars, posterior, StateDict
<1> QED  BY <1>1 DEF IInv, SoundDict, StateDict, teacherVars, posterior, Prefix, Support,
               Ready, MeanAtLeast, PrefixOf, LockedArm

(* What distribution() can return is a task, unlocked in a locked arm.      *)
LEMMA SupportIsUnlocked ==
  ASSUME TypeOK
  PROVE  Support \subseteq Tasks /\ (LockedArm => Support = Prefix)
<1>1. active \in Tasks
  BY DEF TypeOK, StateDict, DictType
<1>2. \A i \in 1..active : i \in Tasks
  BY <1>1, Parameters
<1> QED  BY <1>2, Parameters DEF Support, Prefix, LockedArm

(* A new trainer satisfies the invariant.                                   *)
LEMMA InitStep ==
  ASSUME Init
  PROVE  IInv
<1> USE DEF Init, TeacherInit
<1>1. /\ StateDict.visits = [t \in Tasks |-> 0]
      /\ StateDict.alpha = [t \in Tasks |-> Scale]
      /\ StateDict.beta = [t \in Tasks |-> Scale]
      /\ StateDict.active = InitialTasks
      /\ StateDict \in DictType
  BY Parameters DEF StateDict, DictType
<1>2. InitialTasks \in Tasks /\ Order[InitialTasks] \in Tasks
  BY Parameters
<1>3. ~Ready(StateDict, InitialTasks)
  <2>1. StateDict.visits[Order[InitialTasks]] = 0
    BY <1>1, <1>2
  <2> QED  BY <2>1, Parameters DEF Ready
<1>4. \A i \in InitialTasks..(InitialTasks - 1) : FALSE
  BY Parameters
<1>5. SoundDict(StateDict)
  BY <1>1, <1>3, <1>4, Parameters DEF SoundDict
<1>6. TypeOK
  <2>1. 1 \in Tasks /\ 0 \in Groups /\ 0 \in 0..MaxRedraws
    BY TrainerAssumption, Parameters DEF Groups
  <2>2. <<>> \in Seq(Tasks)
    OBVIOUS
  <2> QED  BY <1>1, <2>1, <2>2 DEF TypeOK
<1>7. BudgetIsCounted
  BY DEF BudgetIsCounted
<1> QED  BY <1>5, <1>6, <1>7 DEF IInv, Waiting

(* A step that leaves the teacher alone keeps the invariant when it keeps   *)
(* the trainer's part of it.                                                *)
LEMMA TrainerStep ==
  ASSUME IInv, UNCHANGED teacherVars,
         pc' \in {"idle", "next", "roll", "judge", "relabel"},
         batch' \in Seq(Tasks), task' \in Tasks, group' \in Groups,
         redraws' \in 0..MaxRedraws,
         {live', dead', relabeled', rolled', restores'} \subseteq Nat,
         requested' \in [Tasks -> Nat],
         BudgetIsCounted',
         LockedArm => \A i \in DOMAIN batch' : batch'[i] \in Prefix,
         LockedArm /\ pc' \in {"roll", "judge"} => task' \in Prefix
  PROVE  IInv'
<1>1. SoundDict(StateDict)' /\ (\A s \in saved : SoundDict(s))'
      /\ StateDict' = StateDict /\ Prefix' = Prefix
  BY TeacherUntouched
<1>2. saved' = saved /\ floored' = floored
  BY DEF teacherVars
<1>3. TypeOK'
  BY <1>1, <1>2 DEF IInv, TypeOK
<1>4. Waiting'
  BY <1>1, <1>2 DEF Waiting, LockedArm
<1> QED  BY <1>1, <1>3, <1>4 DEF IInv

(* Every step of the trainer keeps the invariant, one step per action.      *)
LEMMA InductiveStep ==
  ASSUME IInv, [Next]_vars
  PROVE  IInv'
<1> USE DEF Kept, history
<1>0. /\ pc \in {"idle", "next", "roll", "judge", "relabel"}
      /\ batch \in Seq(Tasks) /\ task \in Tasks /\ group \in Groups
      /\ redraws \in 0..MaxRedraws /\ MaxRedraws \in Nat
      /\ live \in Nat /\ dead \in Nat /\ relabeled \in Nat /\ rolled \in Nat /\ restores \in Nat
      /\ requested \in [Tasks -> Nat]
  BY TrainerAssumption DEF IInv, TypeOK
<1>s. Support \subseteq Tasks /\ (LockedArm => Support = Prefix)
  BY SupportIsUnlocked DEF IInv
<1>b. /\ rolled = live + dead + (IF pc = "judge" THEN 1 ELSE 0)
      /\ relabeled + (IF pc = "relabel" THEN 1 ELSE 0) <= dead
  BY <1>0 DEF IInv, BudgetIsCounted
<1>w. LockedArm => \A i \in DOMAIN batch : batch[i] \in Prefix
  BY DEF IInv, Waiting
<1>1. CASE BeginStep
  <2>1. batch' \in [1..TasksPerStep -> Support]
    BY <1>1 DEF BeginStep
  <2>2. batch' \in Seq(Tasks) /\ (LockedArm => \A i \in DOMAIN batch' : batch'[i] \in Prefix)
    BY <1>s, <2>1, TrainerAssumption
  <2> QED  BY <1>0, <1>1, <2>2, TrainerStep DEF BeginStep, BudgetIsCounted
<1>2. CASE NextTask
  <2>1. batch # <<>> /\ batch' = Tail(batch) /\ task' = batch[1]
    BY <1>2 DEF NextTask
  <2>2. 1 \in DOMAIN batch /\ batch' \in Seq(Tasks) /\ task' \in Tasks
    BY <1>0, <2>1
  <2>3. \A i \in DOMAIN batch' : i + 1 \in DOMAIN batch /\ batch'[i] = batch[i + 1]
    BY <1>0, <2>1
  <2> QED  BY <1>0, <1>2, <1>b, <1>w, <2>1, <2>2, <2>3, TrainerStep DEF NextTask, BudgetIsCounted, stats
<1>3. CASE EndStep
  BY <1>0, <1>3, <1>b, <1>w, TrainerStep DEF EndStep, BudgetIsCounted, stats
<1>4. CASE Roll
  <2>1. group' \in Groups /\ Observe(task, group')
    BY <1>4 DEF Roll
  <2>2. LockedArm => task \in Prefix
    BY <1>4 DEF IInv, Waiting, Roll
  <2>3. SoundDict(StateDict)' /\ active <= active'
    BY <1>0, <2>1, <2>2, ObserveKeepsSound DEF IInv
  <2>4. saved' = saved /\ floored' = floored
    BY <2>1 DEF Observe
  <2>5. (\A s \in saved : SoundDict(s))'
    BY <2>4 DEF IInv, SoundDict, Ready, MeanAtLeast, PrefixOf, LockedArm
  <2>6. TypeOK'
    BY <1>0, <1>4, <2>1, <2>3, <2>4 DEF Roll, IInv, TypeOK, SoundDict, stats
  <2>7. BudgetIsCounted'
    BY <1>0, <1>4, <1>b DEF Roll, BudgetIsCounted, stats
  <2>8. Prefix \subseteq Prefix'
    <3>1. active \in Int /\ active' \in Int
      BY <2>6, Parameters DEF IInv, TypeOK, StateDict, DictType
    <3> QED  BY <2>3, <3>1 DEF Prefix
  <2>9. Waiting'
    BY <1>4, <1>w, <2>2, <2>4, <2>8 DEF Waiting, Roll, LockedArm
  <2> QED  BY <2>3, <2>5, <2>6, <2>7, <2>9 DEF IInv
<1>5. CASE Redraw
  BY <1>0, <1>5, <1>b, <1>s, <1>w, TrainerStep DEF Redraw, BudgetIsCounted
<1>6. CASE UpdateLive
  BY <1>0, <1>6, <1>b, <1>w, TrainerStep DEF UpdateLive, BudgetIsCounted
<1>7. CASE Discard
  <2>1. pc' \in {"relabel", "next"}
    BY <1>7 DEF Discard
  <2>2. BudgetIsCounted'
    BY <1>0, <1>7, <1>b, <2>1 DEF Discard, BudgetIsCounted
  <2>3. /\ UNCHANGED <<teacherVars, batch, task, group, redraws>>
        /\ {live', dead', relabeled', rolled', restores'} \subseteq Nat
        /\ requested' \in [Tasks -> Nat]
    BY <1>0, <1>7 DEF Discard, history
  <2>4. LockedArm => \A i \in DOMAIN batch' : batch'[i] \in Prefix
    BY <1>w, <2>3
  <2>5. ~(pc' \in {"roll", "judge"}) /\ pc' \in {"idle", "next", "roll", "judge", "relabel"}
    BY <2>1
  <2> QED  BY <1>0, <2>2, <2>3, <2>4, <2>5, TrainerStep
<1>8. CASE SkipRelabel
  BY <1>0, <1>8, <1>b, <1>w, TrainerStep DEF SkipRelabel, BudgetIsCounted, stats
<1>9. CASE Relabel
  BY <1>0, <1>9, <1>b, <1>w, TrainerStep DEF Relabel, BudgetIsCounted
<1>10. CASE Checkpoint
  <2>1. /\ saved' = {StateDict} /\ StateDict' = StateDict /\ floored' = floored
        /\ UNCHANGED trainerVars
    BY <1>10 DEF Checkpoint, Save, StateDict, posterior
  <2>2. SoundDict(StateDict)' /\ (\A s \in saved : SoundDict(s))'
    BY <2>1 DEF IInv, SoundDict, Ready, MeanAtLeast, PrefixOf, LockedArm
  <2>3. TypeOK'
    <3>1. UNCHANGED <<pc, batch, task, group, redraws, live, dead, relabeled, rolled,
                      requested, restores>>
      BY <2>1 DEF trainerVars, stats
    <3>2. saved' \subseteq DictType /\ StateDict' \in DictType /\ floored' \in BOOLEAN
      BY <2>1 DEF IInv, TypeOK
    <3> QED  BY <3>1, <3>2 DEF IInv, TypeOK
  <2>4. BudgetIsCounted' /\ Waiting'
    BY <1>10, <2>1 DEF IInv, BudgetIsCounted, Waiting, LockedArm, Prefix, trainerVars, stats,
       Checkpoint, Save
  <2> QED  BY <2>2, <2>3, <2>4 DEF IInv
<1>11. CASE Restart
  <2>1. PICK s \in saved : visits' = s.visits /\ alpha' = s.alpha /\ beta' = s.beta
                           /\ active' = s.active /\ floored' = floored /\ saved' = saved
    BY <1>11 DEF Restart, Restore
  <2>2. SoundDict(StateDict)'
    BY <2>1, RestoreIsSound DEF IInv
  <2>3. (\A r \in saved : SoundDict(r))'
    BY <2>1 DEF IInv, SoundDict, Ready, MeanAtLeast, PrefixOf, LockedArm
  <2>4. TypeOK'
    <3>1. StateDict' \in DictType /\ saved' \subseteq DictType /\ floored' \in BOOLEAN
      BY <2>1, <2>2 DEF IInv, TypeOK, SoundDict
    <3>2. requested' \in [Tasks -> Nat]
      BY <1>11, <3>1 DEF Restart, StateDict, DictType
    <3>3. 1 \in Tasks /\ 0 \in Groups /\ 0 \in 0..MaxRedraws
      BY TrainerAssumption, Parameters DEF Groups
    <3>4. <<>> \in Seq(Tasks)
      OBVIOUS
    <3> QED  BY <1>0, <1>11, <3>1, <3>2, <3>3, <3>4 DEF Restart, TypeOK
  <2>5. BudgetIsCounted' /\ Waiting'
    BY <1>11 DEF Restart, BudgetIsCounted, Waiting
  <2> QED  BY <2>2, <2>3, <2>4, <2>5 DEF IInv
<1>12. CASE UNCHANGED vars
  BY <1>0, <1>12, <1>w, TrainerStep DEF vars, trainerVars, stats, IInv, BudgetIsCounted, Waiting
<1> QED  BY <1>1, <1>2, <1>3, <1>4, <1>5, <1>6, <1>7, <1>8, <1>9, <1>10, <1>11, <1>12 DEF Next

(* The invariant holds of every behaviour.                                  *)
LEMMA Invariance == Spec => []IInv
<1>1. Init => IInv
  BY InitStep
<1>2. IInv /\ [Next]_vars => IInv'
  BY InductiveStep
<1> QED  BY <1>1, <1>2, PTL DEF Spec

-------------------------------------------------------------------------------
(* Every variable of the trainer and its teacher keeps its type through     *)
(* every step, redraw, relabelling and restart.                             *)
THEOREM TypeCorrect == Spec => []TypeOK
<1>1. IInv => TypeOK
  BY DEF IInv
<1> QED  BY <1>1, Invariance, PTL

(* Every rolled group is counted live or dead exactly once, whatever the    *)
(* estimator, the group size and the redraw budget.                         *)
THEOREM BudgetIsCountedHolds == Spec => []BudgetIsCounted
<1>1. IInv => BudgetIsCounted
  BY DEF IInv
<1> QED  BY <1>1, Invariance, PTL

(* The staged schedule never leaves a qualified frontier unpromoted, after  *)
(* any number of observations in any order and after any restart.           *)
THEOREM NoMissedPromotionHolds == Spec => []NoMissedPromotion
<1>1. IInv => NoMissedPromotion
  BY DEF IInv, SoundDict, NoMissedPromotion, StateDict
<1> QED  BY <1>1, Invariance, PTL

(* No task is unlocked without min_frontier_groups groups of the one before. *)
THEOREM PromotionIsEarnedHolds == Spec => []PromotionIsEarned
<1>1. IInv => PromotionIsEarned
  BY DEF IInv, SoundDict, PromotionIsEarned, StateDict
<1> QED  BY <1>1, Invariance, PTL

(* Without a floor a locked task is neither rolled nor waiting to be judged, *)
(* although the batch is drawn before the groups that move the frontier.     *)
THEOREM LockedStaysUnseenHolds == Spec => []LockedStaysUnseen
<1>1. IInv => LockedStaysUnseen
  BY DEF IInv, SoundDict, Waiting, LockedStaysUnseen, StateDict, LockedArm, PrefixOf, Prefix
<1> QED  BY <1>1, Invariance, PTL

-------------------------------------------------------------------------------
(* What the posterior holds.  Scale is a multiple of every power of         *)
(* DecayDen that MaxVisits decays can divide by, so that decay never rounds *)
(* and the mass of the two parameters is that of the groups counted.        *)

(* The numbers of the teacher's assumption. *)
LEMMA TeacherNumbers ==
  /\ Scale \in Nat \ {0} /\ NRollouts \in Nat \ {0} /\ DecayDen \in Nat \ {0} /\ DecayNum \in Nat
  /\ MaxVisits \in Nat \ {0}
<1>1. DecayNum \in 0..DecayDen /\ DecayDen \in Nat
  BY TeacherAssumption
<1>2. QED
  BY <1>1, TeacherAssumption

(* A product of natural numbers is one. *)
LEMMA ProductIsNat == ASSUME NEW a \in Nat, NEW b \in Nat PROVE a * b \in Nat
OBVIOUS

(* Power and Mass are the functions their recursions describe. *)
LEMMA PowerUnfolds ==
  /\ Power \in [0..MaxVisits -> Nat]
  /\ \A n \in 0..MaxVisits : Power[n] = IF n = 0 THEN 1 ELSE DecayDen * Power[n - 1]
<1> DEFINE step == [x \in Nat |-> DecayDen * x]
           Solves(f) == f = [n \in 0..MaxVisits |-> IF n = 0 THEN 1 ELSE DecayDen * f[n - 1]]
<1>1. step \in [Nat -> Nat] /\ MaxVisits \in Nat /\ 1 \in Nat
  BY TeacherNumbers
<1>2. PICK f \in [0..MaxVisits -> Nat] :
        f = [n \in 0..MaxVisits |-> IF n = 0 THEN 1 ELSE step[f[n - 1]]]
  <2> HIDE DEF step
  <2>1. QED
    BY <1>1, RecursionOnNumbers
<1>3. ASSUME NEW n \in 0..MaxVisits
      PROVE  f[n] = IF n = 0 THEN 1 ELSE DecayDen * f[n - 1]
  <2>1. f[n] = IF n = 0 THEN 1 ELSE step[f[n - 1]]
    BY <1>2
  <2>2. n # 0 => f[n - 1] \in Nat
    BY <1>1
  <2>3. QED
    BY <2>1, <2>2
<1>4. Solves(f)
  <2>1. f = [n \in 0..MaxVisits |-> f[n]]
    OBVIOUS
  <2>2. QED
    BY <1>3, <2>1
<1>5. Solves(Power)
  <2> HIDE DEF Solves
  <2>1. Solves(CHOOSE g : Solves(g))
    BY <1>4
  <2>2. QED
    BY <2>1 DEF Power, Solves
<1>6. \A n \in 0..MaxVisits : Power[n] = IF n = 0 THEN 1 ELSE DecayDen * Power[n - 1]
  BY <1>5
<1>7. Power \in [0..MaxVisits -> Nat]
  <2> DEFINE G == {k \in Nat : k \in 0..MaxVisits => Power[k] \in Nat}
  <2>1. 0 \in G
    BY <1>6
  <2>2. ASSUME NEW k \in G PROVE k + 1 \in G
    <3>1. SUFFICES ASSUME k + 1 \in 0..MaxVisits PROVE Power[k + 1] \in Nat
      OBVIOUS
    <3>2. k \in 0..MaxVisits /\ (k + 1) - 1 = k /\ k + 1 # 0 /\ Power[k] \in Nat
      BY <1>1, <3>1
    <3>3. Power[k + 1] = DecayDen * Power[k]
      BY <1>6, <3>1, <3>2
    <3>4. QED
      BY <3>2, <3>3, TeacherNumbers, ProductIsNat
  <2>3. G = Nat
    <3>1. G \in SUBSET Nat
      OBVIOUS
    <3> HIDE DEF G
    <3>2. QED
      BY <2>1, <2>2, <3>1, SetInduction
  <2>4. ASSUME NEW k \in 0..MaxVisits PROVE Power[k] \in Nat
    <3>1. k \in G /\ k \in 0..MaxVisits
      <4> HIDE DEF G
      <4>1. k \in Nat
        BY <1>1
      <4>2. QED
        BY <2>3, <4>1
    <3>2. QED
      BY <3>1
  <2>5. QED
    BY <1>5, <2>4
<1>8. QED
  BY <1>6, <1>7

(* The evidence of one more group, on the evidence there was. *)
Weighed(x) == (x * DecayNum) \div DecayDen + NRollouts * Scale

(* So is a mass with one more group. *)
LEMMA WeighedIsNat == ASSUME NEW x \in Nat PROVE Weighed(x) \in Nat
<1> DEFINE p == x * DecayNum
           q == NRollouts * Scale
<1>1. p \in Nat /\ q \in Nat
  BY TeacherNumbers, ProductIsNat
<1>2. p \div DecayDen + q \in Nat
  <2> HIDE DEF p, q
  <2>1. \A m \in Nat, d \in Nat \ {0} : m \div d \in Nat
    BY SMT
  <2>2. p \div DecayDen \in Nat
    BY <1>1, <2>1, TeacherNumbers
  <2>3. QED
    BY <1>1, <2>2
<1>3. QED
  BY <1>2 DEF Weighed

(* Mass, one visit after the other. *)
LEMMA MassUnfolds ==
  /\ Mass \in [0..MaxVisits -> Nat]
  /\ \A n \in 0..MaxVisits : Mass[n] = IF n = 0 THEN 0 ELSE Weighed(Mass[n - 1])
<1> DEFINE step == [x \in Nat |-> Weighed(x)]
           Solves(f) == f = [n \in 0..MaxVisits |-> IF n = 0 THEN 0 ELSE Weighed(f[n - 1])]
<1>1. step \in [Nat -> Nat] /\ MaxVisits \in Nat /\ 0 \in Nat
  BY TeacherNumbers, WeighedIsNat
<1>2. PICK f \in [0..MaxVisits -> Nat] :
        f = [n \in 0..MaxVisits |-> IF n = 0 THEN 0 ELSE step[f[n - 1]]]
  <2> HIDE DEF step
  <2>1. QED
    BY <1>1, RecursionOnNumbers
<1>3. ASSUME NEW n \in 0..MaxVisits
      PROVE  f[n] = IF n = 0 THEN 0 ELSE Weighed(f[n - 1])
  <2>1. f[n] = IF n = 0 THEN 0 ELSE step[f[n - 1]]
    BY <1>2
  <2>2. n # 0 => f[n - 1] \in Nat
    BY <1>1
  <2>3. QED
    BY <2>1, <2>2
<1>4. Solves(f)
  <2>1. f = [n \in 0..MaxVisits |-> f[n]]
    OBVIOUS
  <2>2. QED
    BY <1>3, <2>1
<1>5. Solves(Mass)
  <2> HIDE DEF Solves
  <2>1. Solves(CHOOSE g : Solves(g))
    BY <1>4
  <2>2. QED
    BY <2>1 DEF Mass, Solves, Weighed
<1>6. \A n \in 0..MaxVisits : Mass[n] = IF n = 0 THEN 0 ELSE Weighed(Mass[n - 1])
  BY <1>5
<1>7. Mass \in [0..MaxVisits -> Nat]
  <2> DEFINE G == {k \in Nat : k \in 0..MaxVisits => Mass[k] \in Nat}
  <2>1. 0 \in G
    BY <1>6
  <2>2. ASSUME NEW k \in G PROVE k + 1 \in G
    <3>1. SUFFICES ASSUME k + 1 \in 0..MaxVisits PROVE Mass[k + 1] \in Nat
      OBVIOUS
    <3>2. k \in 0..MaxVisits /\ (k + 1) - 1 = k /\ k + 1 # 0 /\ Mass[k] \in Nat
      BY <1>1, <3>1
    <3>3. Mass[k + 1] = Weighed(Mass[k])
      BY <1>6, <3>1, <3>2
    <3>4. QED
      BY <3>2, <3>3, WeighedIsNat
  <2>3. G = Nat
    <3>1. G \in SUBSET Nat
      OBVIOUS
    <3> HIDE DEF G
    <3>2. QED
      BY <2>1, <2>2, <3>1, SetInduction
  <2>4. ASSUME NEW k \in 0..MaxVisits PROVE Mass[k] \in Nat
    <3>1. k \in G /\ k \in 0..MaxVisits
      <4> HIDE DEF G
      <4>1. k \in Nat
        BY <1>1
      <4>2. QED
        BY <2>3, <4>1
    <3>2. QED
      BY <3>1
  <2>5. QED
    BY <1>5, <2>4
<1>8. QED
  BY <1>6, <1>7


(* Every decay that MaxVisits allows divides exactly. *)
LEMMA PowerStep ==
  ASSUME NEW n \in 0..(MaxVisits - 1)
  PROVE  /\ MaxVisits - n \in 0..MaxVisits /\ MaxVisits - (n + 1) \in 0..MaxVisits
         /\ Power[MaxVisits - n] = DecayDen * Power[MaxVisits - (n + 1)]
<1>1. /\ MaxVisits - n \in 0..MaxVisits /\ MaxVisits - (n + 1) \in 0..MaxVisits /\ MaxVisits - n # 0
      /\ (MaxVisits - n) - 1 = MaxVisits - (n + 1)
  BY TeacherNumbers
<1>2. QED
  BY <1>1, PowerUnfolds

(* A product divided by one of its factors is the other. *)
LEMMA DividesExactly ==
  ASSUME NEW d \in Nat \ {0}, NEW a \in Nat
  PROVE  (d * a) \div d = a
BY SMT

(* The powers of the decay's denominator are natural numbers. *)
LEMMA PowerIsNat == ASSUME NEW n \in 0..MaxVisits PROVE Power[n] \in Nat
BY PowerUnfolds

(* None of them is zero. *)
LEMMA PowerIsPositive == \A n \in 0..MaxVisits : Power[n] # 0
<1> DEFINE G == {k \in Nat : k \in 0..MaxVisits => Power[k] # 0}
<1>1. 0 \in G
  BY PowerUnfolds
<1>2. ASSUME NEW k \in G PROVE k + 1 \in G
  <2>1. SUFFICES ASSUME k + 1 \in 0..MaxVisits PROVE Power[k + 1] # 0
    OBVIOUS
  <2>2. k \in 0..MaxVisits /\ (k + 1) - 1 = k /\ k + 1 # 0 /\ Power[k] # 0 /\ Power[k] \in Nat
    BY <2>1, TeacherNumbers, PowerIsNat
  <2>3. Power[k + 1] = DecayDen * Power[k]
    BY <2>1, <2>2, PowerUnfolds
  <2>4. \A a, b \in Nat : a # 0 /\ b # 0 => a * b # 0
    BY SMT
  <2>5. QED
    BY <2>2, <2>3, <2>4, TeacherNumbers
<1>3. G = Nat
  <2>1. G \in SUBSET Nat
    OBVIOUS
  <2> HIDE DEF G
  <2>2. QED
    BY <1>1, <1>2, <2>1, SetInduction
<1>4. ASSUME NEW n \in 0..MaxVisits PROVE Power[n] # 0
  <2>1. n \in G
    <3> HIDE DEF G
    <3>1. n \in Nat
      BY TeacherNumbers
    <3>2. QED
      BY <1>3, <3>1
  <2>2. QED
    BY <2>1
<1>5. QED
  BY <1>4

(* Scale is a multiple of every power up to MaxVisits. *)
LEMMA ScaleSplits ==
  ASSUME NEW n \in 0..MaxVisits
  PROVE  \E a \in Nat : Scale = Power[MaxVisits - n] * a
<1> DEFINE G == {k \in Nat : k \in 0..MaxVisits => \E a \in Nat : Scale = Power[MaxVisits - k] * a}
<1>1. 0 \in G
  <2> DEFINE p == Power[MaxVisits]
  <2>1. p \in Nat /\ Scale % p = 0 /\ MaxVisits - 0 = MaxVisits
    BY PowerIsNat, ScaleAssumption, TeacherNumbers
  <2>2. p # 0
    <3>1. MaxVisits \in 0..MaxVisits
      BY TeacherNumbers
    <3>2. QED
      BY <3>1, PowerIsPositive
  <2>3. \E a \in Nat : Scale = p * a
    <3> HIDE DEF p
    <3>1. Scale = p * (Scale \div p) + (Scale % p) /\ Scale \div p \in Nat
      BY <2>1, <2>2, TeacherNumbers, SMT
    <3>2. p * (Scale \div p) \in Nat
      BY <2>1, <3>1, ProductIsNat
    <3>3. Scale = p * (Scale \div p)
      BY <2>1, <3>1, <3>2
    <3>4. QED
      BY <3>1, <3>3
  <2>4. QED
    BY <2>1, <2>3
<1>2. ASSUME NEW k \in G PROVE k + 1 \in G
  <2>1. SUFFICES ASSUME k + 1 \in 0..MaxVisits
                 PROVE  \E a \in Nat : Scale = Power[MaxVisits - (k + 1)] * a
    OBVIOUS
  <2>2. k \in 0..(MaxVisits - 1) /\ k \in 0..MaxVisits
    BY <2>1, TeacherNumbers
  <2>3. PICK a \in Nat : Scale = Power[MaxVisits - k] * a
    BY <2>2
  <2> DEFINE q == Power[MaxVisits - (k + 1)]
  <2>4. Power[MaxVisits - k] = DecayDen * q /\ q \in Nat
    BY <2>2, PowerStep, PowerIsNat
  <2>5. DecayDen * a \in Nat /\ Scale = q * (DecayDen * a)
    <3> HIDE DEF q
    <3>1. (DecayDen * q) * a = q * (DecayDen * a)
      BY <2>4, TeacherNumbers, SMT
    <3>2. Scale = (DecayDen * q) * a
      BY <2>3, <2>4
    <3>3. QED
      BY <3>1, <3>2, TeacherNumbers, ProductIsNat
  <2>6. QED
    BY <2>5
<1>3. G = Nat
  <2>1. G \in SUBSET Nat
    OBVIOUS
  <2> HIDE DEF G
  <2>2. QED
    BY <1>1, <1>2, <2>1, SetInduction
<1>4. n \in G
  <2> HIDE DEF G
  <2>1. n \in Nat
    BY TeacherNumbers
  <2>2. QED
    BY <1>3, <2>1
<1>5. QED
  BY <1>4


(* Parameters x and y after n groups: what decay has to divide divides, and *)
(* their mass is that of n groups.                                          *)
Exact(n, x, y) ==
  /\ n \in 0..MaxVisits
  /\ \E a \in Nat : x = Scale + Power[MaxVisits - n] * a
  /\ \E b \in Nat : y = Scale + Power[MaxVisits - n] * b
  /\ (x - Scale) + (y - Scale) = Mass[n]

(* An arm without a visit has its two prior weights, and no evidence. *)
LEMMA ExactAtFirst == Exact(0, Scale, Scale)
<1>1. 0 \in 0..MaxVisits /\ MaxVisits - 0 \in 0..MaxVisits /\ Scale \in Nat /\ 0 \in Nat
  BY TeacherNumbers
<1>2. Power[MaxVisits - 0] \in Nat /\ Mass[0] = 0
  BY <1>1, PowerIsNat, MassUnfolds
<1>3. Scale = Scale + Power[MaxVisits - 0] * 0
  <2> DEFINE p == Power[MaxVisits - 0]
  <2> HIDE DEF p
  <2>1. p \in Nat
    BY <1>2 DEF p
  <2>2. Scale = Scale + p * 0
    BY <1>1, <2>1
  <2>3. QED
    BY <2>2 DEF p
<1>4. (Scale - Scale) + (Scale - Scale) = Mass[0]
  BY <1>1, <1>2
<1>5. QED
  BY <1>1, <1>3, <1>4 DEF Exact

(* Decay of an exact parameter, and a multiple of Scale on top of it. *)
DecaysExactly(n, a, k, p, q) ==
  /\ Decayed(Scale + p * a) = Scale + q * (a * DecayNum)
  /\ (p * a) * DecayNum = DecayDen * (q * (a * DecayNum))
  /\ a * DecayNum \in Nat
  /\ \E b \in Nat : Decayed(Scale + p * a) + k * Scale = Scale + q * b

(* A weight that a power divides decays to one that the next power divides. *)
LEMMA ExactDecay ==
  ASSUME NEW n \in 0..(MaxVisits - 1), NEW a \in Nat, NEW k \in Nat
  PROVE  DecaysExactly(n, a, k, Power[MaxVisits - n], Power[MaxVisits - (n + 1)])
<1> DEFINE p == Power[MaxVisits - n]
           q == Power[MaxVisits - (n + 1)]
           e == a * DecayNum
<1>1. p = DecayDen * q /\ q \in Nat /\ p \in Nat
  BY PowerStep, PowerIsNat
<1>2. e \in Nat
  BY TeacherNumbers, ProductIsNat
<1>3. PICK m \in Nat : Scale = q * m
  <2>1. n + 1 \in 0..MaxVisits
    BY TeacherNumbers
  <2>2. QED
    BY <2>1, ScaleSplits
<1>4. (p * a) * DecayNum = DecayDen * (q * e)
  <2> HIDE DEF p, q
  <2>1. ((DecayDen * q) * a) * DecayNum = DecayDen * (q * (a * DecayNum))
    BY <1>1, TeacherNumbers, SMT
  <2>2. QED
    BY <1>1, <2>1
<1> HIDE DEF e, p, q
<1>5. p * a \in Nat /\ q * e \in Nat /\ q * m \in Nat /\ k * m \in Nat /\ Scale \in Nat
  BY <1>1, <1>2, ProductIsNat, TeacherNumbers
<1>6. (DecayDen * (q * e)) \div DecayDen = q * e
  BY <1>5, TeacherNumbers, DividesExactly
<1>7. (Scale + p * a) - Scale = p * a
  <2> DEFINE z == p * a
  <2> HIDE DEF z
  <2>1. z \in Nat
    BY <1>5 DEF z
  <2>2. (Scale + z) - Scale = z
    BY <1>5, <2>1
  <2>3. QED
    BY <2>2 DEF z
<1>8. Decayed(Scale + p * a) = Scale + q * e
  BY <1>4, <1>6, <1>7, Zenon DEF Decayed
<1>9. Decayed(Scale + p * a) + k * Scale = Scale + q * (e + k * m)
  <2>1. q * (e + k * m) = q * e + k * (q * m)
    BY <1>1, <1>2, SMT
  <2>2. k * (q * m) \in Nat /\ k * Scale = k * (q * m)
    BY <1>3, <1>5, ProductIsNat
  <2> DEFINE u == q * e
             v == k * (q * m)
             w == q * (e + k * m)
             t == k * Scale
  <2> HIDE DEF u, v, w, t
  <2>3. u \in Nat /\ v \in Nat /\ w = u + v /\ t = v /\ Scale \in Nat
    BY <1>5, <2>1, <2>2 DEF u, v, w, t
  <2>4. (Scale + u) + t = Scale + w
    BY <2>3
  <2>5. QED
    BY <1>8, <2>4 DEF u, w, t
<1>10. e + k * m \in Nat
  BY <1>2, <1>5
<1>11. QED
  BY <1>2, <1>4, <1>8, <1>9, <1>10 DEF e, p, q, DecaysExactly

(* observe, on the parameters of the task it observes. *)
LEMMA ExactCounted ==
  ASSUME NEW n \in 0..(MaxVisits - 1), NEW x, NEW y, Exact(n, x, y), NEW k \in Groups
  PROVE  Exact(n + 1, Decayed(x) + k * Scale, Decayed(y) + (NRollouts - k) * Scale)
<1> DEFINE p == Power[MaxVisits - n]
           q == Power[MaxVisits - (n + 1)]
           l == NRollouts - k
<1>1. PICK a \in Nat : x = Scale + p * a
  BY DEF Exact
<1>2. PICK b \in Nat : y = Scale + p * b
  BY DEF Exact
<1>3. k \in Nat /\ l \in Nat /\ k + l = NRollouts /\ Scale \in Nat /\ NRollouts \in Nat
  BY TeacherNumbers DEF Groups
<1> HIDE DEF l, p, q
<1>4. /\ Decayed(x) = Scale + q * (a * DecayNum) /\ Decayed(y) = Scale + q * (b * DecayNum)
      /\ (p * a) * DecayNum = DecayDen * (q * (a * DecayNum))
      /\ (p * b) * DecayNum = DecayDen * (q * (b * DecayNum))
      /\ a * DecayNum \in Nat /\ b * DecayNum \in Nat
      /\ \E c \in Nat : Decayed(x) + k * Scale = Scale + q * c
      /\ \E c \in Nat : Decayed(y) + l * Scale = Scale + q * c
  <2>1. DecaysExactly(n, a, k, p, q) /\ DecaysExactly(n, b, l, p, q)
    BY <1>3, ExactDecay DEF p, q
  <2>2. QED
    BY <1>1, <1>2, <2>1, Zenon DEF DecaysExactly
<1>5. n + 1 \in 0..MaxVisits /\ (n + 1) - 1 = n /\ n + 1 # 0 /\ n \in 0..MaxVisits
  BY TeacherNumbers
<1>6. p \in Nat /\ q \in Nat
  BY PowerStep, PowerIsNat DEF p, q
<1> DEFINE f == q * (a * DecayNum)
           g == q * (b * DecayNum)
           r == p * a
           s == p * b
<1>7. f \in Nat /\ g \in Nat /\ r \in Nat /\ s \in Nat
  BY <1>4, <1>6, ProductIsNat
<1>8. Mass[n] = r + s
  <2> HIDE DEF r, s
  <2>1. x = Scale + r /\ y = Scale + s /\ (x - Scale) + (y - Scale) = Mass[n]
    BY <1>1, <1>2 DEF Exact, r, s
  <2>2. QED
    BY <1>3, <1>7, <2>1
<1>9. ((r + s) * DecayNum) \div DecayDen = f + g
  <2>1. r * DecayNum = DecayDen * f /\ s * DecayNum = DecayDen * g
    BY <1>4
  <2> HIDE DEF f, g, r, s
  <2>2. (r + s) * DecayNum = r * DecayNum + s * DecayNum
    BY <1>7, TeacherNumbers, SMT
  <2>3. DecayDen * (f + g) = DecayDen * f + DecayDen * g
    BY <1>7, TeacherNumbers, SMT
  <2>4. (r + s) * DecayNum = DecayDen * (f + g)
    BY <2>1, <2>2, <2>3
  <2>5. (DecayDen * (f + g)) \div DecayDen = f + g
    BY <1>7, TeacherNumbers, DividesExactly
  <2>6. QED
    BY <2>4, <2>5
<1>10. Mass[n + 1] = (f + g) + NRollouts * Scale
  <2>1. Mass[n + 1] = Weighed(Mass[n])
    BY <1>5, MassUnfolds
  <2>2. QED
    BY <1>8, <1>9, <2>1, Zenon DEF Weighed
<1>11. ((Decayed(x) + k * Scale) - Scale) + ((Decayed(y) + l * Scale) - Scale) = Mass[n + 1]
  <2>1. Decayed(x) = Scale + f /\ Decayed(y) = Scale + g
    BY <1>4
  <2> HIDE DEF f, g, r, s
  <2> DEFINE u == k * Scale
             v == l * Scale
             w == NRollouts * Scale
  <2>2. u \in Nat /\ v \in Nat /\ w \in Nat
    BY <1>3, ProductIsNat
  <2>3. u + v = w
    <3>1. k * Scale + l * Scale = (k + l) * Scale
      BY <1>3, SMT
    <3>2. QED
      BY <1>3, <3>1
  <2> HIDE DEF u, v, w
  <2>4. (((Scale + f) + u) - Scale) + (((Scale + g) + v) - Scale) = (f + g) + w
    BY <1>3, <1>7, <2>2, <2>3
  <2>5. Mass[n + 1] = (f + g) + w
    BY <1>10 DEF w
  <2>6. QED
    BY <2>1, <2>4, <2>5 DEF u, v
<1>12. QED
  BY <1>4, <1>5, <1>11 DEF Exact, p, q, l

-------------------------------------------------------------------------------
(* The invariant of EvidenceIsRequested: live and saved, the posterior is   *)
(* exact, and the visits are the groups requested since what was restored.  *)
ExactInv ==
  /\ visits = requested
  /\ \A t \in Tasks : Exact(visits[t], alpha[t], beta[t])
  /\ \A s \in saved : \A t \in Tasks : Exact(s.visits[t], s.alpha[t], s.beta[t])

(* Every step keeps the posterior exact: only observe and a restart change it. *)
LEMMA ExactStep ==
  ASSUME IInv, ExactInv, [Next]_vars
  PROVE  ExactInv'
<1>0. /\ visits \in [Tasks -> Nat] /\ alpha \in [Tasks -> Nat] /\ beta \in [Tasks -> Nat]
      /\ task \in Tasks /\ requested \in [Tasks -> Nat]
  BY DEF IInv, TypeOK, StateDict, DictType
<1>1. CASE UNCHANGED teacherVars /\ requested' = requested
  BY <1>1 DEF ExactInv, teacherVars, posterior
<1>2. CASE Roll
  <2>1. /\ group' \in Groups /\ visits[task] < MaxVisits /\ saved' = saved
        /\ visits' = [visits EXCEPT ![task] = @ + 1]
        /\ alpha' = [alpha EXCEPT ![task] = Decayed(@) + group' * Scale]
        /\ beta' = [beta EXCEPT ![task] = Decayed(@) + (NRollouts - group') * Scale]
        /\ requested' = [requested EXCEPT ![task] = @ + 1]
    BY <1>2 DEF Roll, Observe, Counted, StateDict
  <2>2. visits[task] \in 0..(MaxVisits - 1)
    BY <1>0, <2>1, TeacherNumbers
  <2>3. Exact(visits[task], alpha[task], beta[task])
    BY <1>0 DEF ExactInv
  <2>4. Exact(visits[task] + 1, Decayed(alpha[task]) + group' * Scale,
              Decayed(beta[task]) + (NRollouts - group') * Scale)
    BY <2>1, <2>2, <2>3, ExactCounted
  <2>5. ASSUME NEW t \in Tasks PROVE Exact(visits'[t], alpha'[t], beta'[t])
    <3>1. CASE t = task
      <4>1. /\ visits'[t] = visits[task] + 1
            /\ alpha'[t] = Decayed(alpha[task]) + group' * Scale
            /\ beta'[t] = Decayed(beta[task]) + (NRollouts - group') * Scale
        BY <1>0, <2>1, <3>1
      <4>2. QED
        BY <2>4, <4>1, Zenon
    <3>2. CASE t # task
      <4>1. visits'[t] = visits[t] /\ alpha'[t] = alpha[t] /\ beta'[t] = beta[t]
        BY <1>0, <2>1, <3>2
      <4>2. Exact(visits[t], alpha[t], beta[t])
        BY DEF ExactInv
      <4>3. QED
        BY <4>1, <4>2, Zenon
    <3>3. QED
      BY <3>1, <3>2
  <2>6. visits' = requested'
    BY <2>1 DEF ExactInv
  <2>7. \A s \in saved' : \A t \in Tasks : Exact(s.visits[t], s.alpha[t], s.beta[t])
    BY <2>1 DEF ExactInv
  <2>8. QED
    BY <2>5, <2>6, <2>7 DEF ExactInv, Exact
<1>3. CASE Checkpoint
  <2>1. saved' = {StateDict} /\ UNCHANGED <<visits, alpha, beta, requested>>
    BY <1>3 DEF Checkpoint, Save, posterior, trainerVars, history
  <2>2. QED
    BY <2>1 DEF ExactInv, StateDict, Exact
<1>4. CASE Restart
  <2>1. PICK s \in saved : visits' = s.visits /\ alpha' = s.alpha /\ beta' = s.beta
                           /\ saved' = saved /\ requested' = visits'
    BY <1>4 DEF Restart, Restore
  <2>2. QED
    BY <2>1 DEF ExactInv, Exact
<1>5. [Next]_vars => (UNCHANGED teacherVars /\ requested' = requested) \/ Roll \/ Checkpoint \/ Restart
  BY DEF Next, vars, trainerVars, history, BeginStep, NextTask, EndStep, Redraw, UpdateLive,
         Discard, SkipRelabel, Relabel
<1>6. QED
  BY <1>1, <1>2, <1>3, <1>4, <1>5

(* The evidence of a task is that of the groups rolled for it, decayed once *)
(* per visit, through every redraw, relabelling, save and restart.          *)
THEOREM EvidenceIsRequestedHolds == Spec => []EvidenceIsRequested
<1>1. Init => ExactInv
  <2> SUFFICES ASSUME Init PROVE ExactInv
    OBVIOUS
  <2>1. ASSUME NEW t \in Tasks PROVE visits[t] = 0 /\ alpha[t] = Scale /\ beta[t] = Scale
    BY DEF Init, TeacherInit
  <2>2. \A t \in Tasks : Exact(visits[t], alpha[t], beta[t])
    BY <2>1, ExactAtFirst
  <2>3. visits = requested /\ saved = {}
    BY DEF Init, TeacherInit
  <2>4. QED
    BY <2>2, <2>3 DEF ExactInv
<1>2. IInv /\ ExactInv /\ [Next]_vars => ExactInv'
  BY ExactStep
<1>3. ExactInv => EvidenceIsRequested
  BY DEF ExactInv, Exact, EvidenceIsRequested
<1>4. QED
  BY <1>1, <1>2, <1>3, Invariance, PTL DEF Spec

-------------------------------------------------------------------------------
(* BinCurriculum. *)

Counts == [Bins -> [succ : Nat, fail : Nat]]

BinTypeOK ==
  /\ level \in [Envs -> Bins]
  /\ running \in [Envs -> Bins \cup {Unset}] /\ first \in [Envs -> Bins \cup {Unset}]
  /\ credited \in Counts \cup {Unset} /\ binFile \in Counts \cup {Unset} /\ ended \in Counts

(* An episode runs on the level its environment is at, and an environment  *)
(* that never reset runs none.                                             *)
EpisodesInv ==
  \A e \in Envs : /\ running[e] = Unset <=> first[e] = Unset
                  /\ running[e] # Unset => running[e] = level[e]

BinInv == BinTypeOK /\ EpisodesInv /\ LevelsFollowEpisodes

(* The counts of a posterior that has seen nothing. *)
LEMMA NothingIsCounts == Nothing \in Counts /\ \A b \in Bins : Nothing[b].succ = 0 /\ Nothing[b].fail = 0
BY DEF Nothing, Counts

(* What is tallied is a set of environments, counted once. *)
LEMMA TallyCounts ==
  ASSUME NEW counts \in Counts, NEW bin, NEW envs \in SUBSET Envs, NEW failed
  PROVE  Tally(counts, bin, envs, failed) \in Counts
<1>1. ASSUME NEW b \in Bins
      PROVE  /\ Cardinality({e \in envs \ failed : bin[e] = b}) \in Nat
             /\ Cardinality({e \in envs \cap failed : bin[e] = b}) \in Nat
  <2>1. {e \in envs \ failed : bin[e] = b} \subseteq Envs /\ {e \in envs \cap failed : bin[e] = b} \subseteq Envs
    OBVIOUS
  <2>2. QED
    BY <2>1, BinAssumption, FS_Subset, FS_CardinalityType
<1>2. \A b \in Bins : counts[b].succ \in Nat /\ counts[b].fail \in Nat
  BY DEF Counts
<1>3. QED
  BY <1>1, <1>2 DEF Tally, Counts

(* A failure of a call is of an episode that ran, or of a first reset. *)
LEMMA FirstResets ==
  ASSUME BinTypeOK, EpisodesInv, NEW b \in Bins, NEW envs \in SUBSET Envs, NEW failed \in SUBSET envs,
         {e \in envs : running[e] = Unset} \subseteq failed,
         first' = [e \in Envs |-> IF e \in envs /\ first[e] = Unset THEN level[e] ELSE first[e]]
  PROVE  /\ {e \in envs \ failed : level[e] = b} = {e \in envs \ failed : running[e] = b}
         /\ Cardinality({e \in envs \cap failed : level[e] = b}) + Cardinality({e \in Envs : first[e] = b})
              = Cardinality({e \in envs \cap failed : running[e] = b}) + Cardinality({e \in Envs : first'[e] = b})
         /\ Cardinality({e \in Envs : first[e] = b}) \in Nat
         /\ Cardinality({e \in Envs : first'[e] = b}) \in Nat
<1> DEFINE A == {e \in envs \cap failed : level[e] = b}
           R == {e \in envs \cap failed : running[e] = b}
           N == {e \in envs : first[e] = Unset /\ level[e] = b}
           F == {e \in Envs : first[e] = b}
           G == {e \in Envs : first'[e] = b}
<1>1. Unset # b
  BY BinAssumption
<1>2. A = R \cup N /\ R \cap N = {}
  BY <1>1 DEF BinTypeOK, EpisodesInv
<1>3. G = F \cup N /\ F \cap N = {}
  BY <1>1 DEF BinTypeOK
<1>4. {e \in envs \ failed : level[e] = b} = {e \in envs \ failed : running[e] = b}
  BY DEF EpisodesInv
<1>5. R \subseteq Envs /\ N \subseteq Envs /\ F \subseteq Envs /\ G \subseteq Envs /\ A \subseteq Envs
  OBVIOUS
<1> HIDE DEF A, R, N, F, G
<1>6. /\ IsFiniteSet(R) /\ IsFiniteSet(N) /\ IsFiniteSet(F)
      /\ Cardinality(R) \in Nat /\ Cardinality(N) \in Nat /\ Cardinality(F) \in Nat /\ Cardinality(G) \in Nat
  BY <1>5, BinAssumption, FS_Subset, FS_CardinalityType
<1>7. Cardinality({}) = 0
  BY FS_EmptySet
<1>8. Cardinality(A) = Cardinality(R) + Cardinality(N)
  <2>1. Cardinality(R \cup N) = Cardinality(R) + Cardinality(N) - Cardinality(R \cap N)
    BY <1>6, FS_Union
  <2>2. Cardinality(R \cap N) = 0 /\ Cardinality(A) = Cardinality(R \cup N)
    BY <1>2, <1>7
  <2>3. QED
    BY <2>1, <2>2, <1>6
<1>9. Cardinality(G) = Cardinality(F) + Cardinality(N)
  <2>1. Cardinality(F \cup N) = Cardinality(F) + Cardinality(N) - Cardinality(F \cap N)
    BY <1>6, FS_Union
  <2>2. Cardinality(F \cap N) = 0 /\ Cardinality(G) = Cardinality(F \cup N)
    BY <1>3, <1>7
  <2>3. QED
    BY <2>1, <2>2, <1>6
<1>10. Cardinality(A) + Cardinality(F) = Cardinality(R) + Cardinality(G)
  BY <1>6, <1>8, <1>9
<1>11. QED
  BY <1>4, <1>6, <1>10 DEF A, R, F, G

(* Before its first reset no environment has a level. *)
LEMMA NoFirstResets == 
  ASSUME NEW f \in [Envs -> {Unset}], NEW b \in Bins
  PROVE  Cardinality({e \in Envs : f[e] = b}) = 0
<1>1. {e \in Envs : f[e] = b} = {}
  BY BinAssumption
<1>2. QED
  BY <1>1, FS_EmptySet

(* A term starts with no episode, no evidence and no teacher. *)
LEMMA BinInitial == BinInit => BinInv
<1> SUFFICES ASSUME BinInit PROVE BinInv
  OBVIOUS
<1>1. running \in [Envs -> {Unset}] /\ first = running
  BY DEF BinInit
<1>2. BinTypeOK
  BY <1>1, NothingIsCounts DEF BinInit, BinTypeOK
<1>3. EpisodesInv
  BY <1>1 DEF EpisodesInv
<1>4. Evidence = Nothing /\ ended = Nothing
  BY DEF BinInit, Evidence
<1>5. EvidenceFollowsEpisodes
  BY <1>1, <1>4, NothingIsCounts, NoFirstResets DEF EvidenceFollowsEpisodes
<1>6. QED
  BY <1>2, <1>3, <1>5 DEF BinInv, LevelsFollowEpisodes, DrawsAreCurrent, BinInit

(* What a call does, given its environments, floor, failures and levels. *)
CallOf(envs, f, failed, to) ==
  /\ {e \in envs : running[e] = Unset} \subseteq failed
  /\ level' = [e \in Envs |-> IF e \in envs THEN to[e] ELSE level[e]]
  /\ credited' = Tally(Evidence, BinsRead, envs, failed)
  /\ ended' = Tally(ended, running, envs, failed)
  /\ basis' = IF Stale(envs) THEN <<credited', f>> ELSE basis
  /\ drawn' = IF envs = {} THEN drawn ELSE [by |-> basis', now |-> <<credited', f>>]
  /\ running' = [e \in Envs |-> IF e \in envs THEN level'[e] ELSE running[e]]
  /\ first' = [e \in Envs |-> IF e \in envs /\ first[e] = Unset THEN level[e] ELSE first[e]]
  /\ UNCHANGED binFile

(* __call__ credits each level with the episodes that ended on it. *)
LEMMA CallKeeps == BinInv /\ Call => BinInv'
<1> SUFFICES ASSUME BinInv, Call PROVE BinInv'
  OBVIOUS
<1>1. PICK envs \in SUBSET Envs, f \in Floors : \E failed \in SUBSET envs, to \in [envs -> Bins] :
        CallOf(envs, f, failed, to)
  BY DEF Call, CallOf
<1>2. PICK failed \in SUBSET envs, to \in [envs -> Bins] : CallOf(envs, f, failed, to)
  BY <1>1
<1> USE DEF CallOf
<1>2a. Evidence \in Counts /\ ended \in Counts
  BY NothingIsCounts DEF BinInv, BinTypeOK, Evidence
<1>3. credited' \in Counts /\ ended' \in Counts
  BY <1>2, <1>2a, TallyCounts
<1>4. BinTypeOK'
  <2>1. level' \in [Envs -> Bins]
    BY <1>2 DEF BinInv, BinTypeOK
  <2>2. running' \in [Envs -> Bins \cup {Unset}]
    BY <1>2, <2>1 DEF BinInv, BinTypeOK
  <2>3. first' \in [Envs -> Bins \cup {Unset}]
    BY <1>2 DEF BinInv, BinTypeOK
  <2>4. QED
    BY <1>2, <1>3, <2>1, <2>2, <2>3 DEF BinInv, BinTypeOK
<1>5. EpisodesInv'
  <2>1. ASSUME NEW e \in Envs, e \in envs
        PROVE  running'[e] = level'[e] /\ running'[e] # Unset /\ first'[e] # Unset
    <3>1. running'[e] = level'[e] /\ level'[e] \in Bins
      BY <1>2, <2>1
    <3>2. first'[e] # Unset
      BY <1>2, <2>1, BinAssumption DEF BinInv, BinTypeOK
    <3>3. QED
      BY <3>1, <3>2, BinAssumption
  <2>2. ASSUME NEW e \in Envs, e \notin envs
        PROVE  running'[e] = running[e] /\ level'[e] = level[e] /\ first'[e] = first[e]
    BY <1>2, <2>2
  <2>3. QED
    BY <2>1, <2>2 DEF EpisodesInv, BinInv
<1>6. Evidence' = credited'
  BY <1>3, BinAssumption DEF Evidence, Counts
<1>7. EvidenceFollowsEpisodes'
  <2> SUFFICES ASSUME NEW b \in Bins
               PROVE  /\ credited'[b].succ = ended'[b].succ
                      /\ credited'[b].fail = ended'[b].fail + Cardinality({e \in Envs : first'[e] = b})
    BY <1>6 DEF EvidenceFollowsEpisodes
  <2> DEFINE S == Cardinality({e \in envs \ failed : level[e] = b})
             L == Cardinality({e \in envs \cap failed : level[e] = b})
             R == Cardinality({e \in envs \cap failed : running[e] = b})
  <2>1. /\ credited'[b] = [succ |-> Evidence[b].succ + S, fail |-> Evidence[b].fail + L]
        /\ ended'[b] = [succ |-> ended[b].succ + Cardinality({e \in envs \ failed : running[e] = b}),
                        fail |-> ended[b].fail + R]
    BY <1>2 DEF Tally, BinsRead
  <2>2. /\ {e \in envs \ failed : level[e] = b} = {e \in envs \ failed : running[e] = b}
        /\ L + Cardinality({e \in Envs : first[e] = b}) = R + Cardinality({e \in Envs : first'[e] = b})
        /\ Cardinality({e \in Envs : first[e] = b}) \in Nat
        /\ Cardinality({e \in Envs : first'[e] = b}) \in Nat
    BY <1>2, FirstResets DEF BinInv
  <2>3. L \in Nat /\ R \in Nat
    <3>1. {e \in envs \cap failed : level[e] = b} \subseteq Envs /\ {e \in envs \cap failed : running[e] = b} \subseteq Envs
      OBVIOUS
    <3>2. QED
      BY <3>1, BinAssumption, FS_Subset, FS_CardinalityType
  <2>4. /\ Evidence[b].succ = ended[b].succ /\ Evidence[b].fail \in Nat /\ ended[b].fail \in Nat
        /\ Evidence[b].fail = ended[b].fail + Cardinality({e \in Envs : first[e] = b})
    BY <1>2a DEF BinInv, LevelsFollowEpisodes, EvidenceFollowsEpisodes, Counts
  <2> HIDE DEF L, R
  <2>5. credited'[b].succ = ended'[b].succ
    <3>1. S = Cardinality({e \in envs \ failed : running[e] = b})
      BY <2>2
    <3>2. QED
      BY <2>1, <2>4, <3>1
  <2>6. Evidence[b].fail + L = ended[b].fail + R + Cardinality({e \in Envs : first'[e] = b})
    BY <2>2, <2>3, <2>4
  <2>7. QED
    BY <2>1, <2>5, <2>6
<1>8. DrawsAreCurrent'
  <2>1. CASE envs = {}
    BY <1>2, <2>1 DEF BinInv, LevelsFollowEpisodes, DrawsAreCurrent
  <2>2. CASE envs # {}
    BY <1>2, <2>2 DEF DrawsAreCurrent, Stale
  <2>3. QED
    BY <2>1, <2>2
<1>9. QED
  BY <1>4, <1>5, <1>7, <1>8 DEF BinInv, LevelsFollowEpisodes

(* Saving copies counts that match the episodes seen. *)
LEMMA SaveTermKeeps == BinInv /\ SaveTerm => BinInv'
<1> SUFFICES ASSUME BinInv, SaveTerm PROVE BinInv'
  OBVIOUS
<1>1. UNCHANGED <<level, running, first, credited, drawn, ended>> /\ binFile' = credited
  BY DEF SaveTerm, terrain
<1>2. BinTypeOK' /\ EpisodesInv'
  BY <1>1 DEF BinInv, BinTypeOK, EpisodesInv
<1>3. LevelsFollowEpisodes'
  BY <1>1 DEF BinInv, LevelsFollowEpisodes, EvidenceFollowsEpisodes, DrawsAreCurrent, Evidence
<1>4. QED
  BY <1>2, <1>3 DEF BinInv

(* A restart brings back the counts as they were saved. *)
LEMMA RestartTermKeeps == BinInv /\ RestartTerm => BinInv'
<1> SUFFICES ASSUME BinInv, RestartTerm PROVE BinInv'
  OBVIOUS
<1>1. /\ running' \in [Envs -> {Unset}] /\ first' = running' /\ level' \in [Envs -> Bins]
      /\ drawn' = Unset /\ binFile' = binFile /\ binFile \in Counts
      /\ credited' = IF given THEN binFile ELSE Unset
      /\ ended' = IF given THEN binFile ELSE Nothing
  BY DEF RestartTerm, BinInv, BinTypeOK
<1>2. BinTypeOK'
  BY <1>1, NothingIsCounts DEF BinTypeOK
<1>3. EpisodesInv'
  BY <1>1 DEF EpisodesInv
<1>4. Evidence' = ended' /\ ended' \in Counts
  BY <1>1, BinAssumption, NothingIsCounts DEF Evidence, Counts
<1>5. EvidenceFollowsEpisodes'
  BY <1>1, <1>4, NoFirstResets DEF EvidenceFollowsEpisodes, Counts
<1>6. QED
  BY <1>1, <1>2, <1>3, <1>5 DEF BinInv, LevelsFollowEpisodes, DrawsAreCurrent

(* Every step of the curriculum term keeps the inductive invariant. *)
LEMMA BinStep == BinInv /\ [BinNext]_binVars => BinInv'
<1>1. BinInv /\ UNCHANGED binVars => BinInv'
  <2> SUFFICES ASSUME BinInv, UNCHANGED binVars PROVE BinInv'
    OBVIOUS
  <2>1. UNCHANGED <<level, running, first, credited, binFile, drawn, ended>>
    BY DEF binVars, terrain
  <2>2. BinTypeOK' /\ EpisodesInv'
    BY <2>1 DEF BinInv, BinTypeOK, EpisodesInv
  <2>3. LevelsFollowEpisodes'
    BY <2>1 DEF BinInv, LevelsFollowEpisodes, EvidenceFollowsEpisodes, DrawsAreCurrent, Evidence
  <2>4. QED
    BY <2>2, <2>3 DEF BinInv
<1>2. QED
  BY <1>1, CallKeeps, SaveTermKeeps, RestartTermKeeps DEF BinNext

(* Every episode is credited once to the level it ran on, and no level is  *)
(* drawn from stale probabilities (isaaclab_curriculum.py).                *)
THEOREM LevelsFollowEpisodesHolds == BinSpec => []LevelsFollowEpisodes
<1>1. BinInv => LevelsFollowEpisodes
  BY DEF BinInv
<1>2. QED
  BY <1>1, BinInitial, BinStep, PTL DEF BinSpec

-------------------------------------------------------------------------------
(* PromptSampler. *)

PromptGroups == [prompt : Prompts, hits : Nat, rewarded : Nat]

SamplerTypeOK ==
  /\ phase \in {"fetch", "scored", "relabelled", "observed"}
  /\ ahead \in Seq(Prompts) /\ sinceDraw \in Nat
  /\ stored.batches \in Nat /\ batches \in Nat
  /\ IF phase \in {"scored", "relabelled"} THEN hand \in [1..BatchSize -> PromptGroups] ELSE hand = <<>>

(* While a batch is in hand, the posterior is the scores without it, and   *)
(* a checkpoint is taken when it has none.                                 *)
CreditInv ==
  /\ phase \in {"scored", "relabelled"} => scored = Credit(belief, hand)
  /\ stored.belief = stored.scored

SamplerInv == SamplerTypeOK /\ CreditInv /\ DrawsFollowScores

(* An epoch is a positive number of draws and holds a batch. *)
LEMMA EpochIsNat == Epoch \in Nat \ {0} /\ BatchSize \in Nat \ {0} /\ BatchSize <= Epoch
<1>1. Epoch \in Nat /\ BatchSize \in Nat \ {0} /\ BatchSize <= Epoch
  BY SamplerAssumption, FS_CardinalityType DEF Epoch
<1>2. QED
  BY <1>1

(* What was rewarded does not count: only who rolled and what was scored.  *)
LEMMA CreditIgnoresRewards ==
  ASSUME NEW counts, NEW g, NEW h, DOMAIN g = DOMAIN h,
         \A u \in DOMAIN g : g[u].prompt = h[u].prompt /\ g[u].hits = h[u].hits
  PROVE  Credit(counts, g) = Credit(counts, h)
<1> DEFINE Of(f, q) == {u \in DOMAIN f : f[u].prompt = q}
<1>1. ASSUME NEW q \in Prompts
      PROVE  /\ Of(g, q) = Of(h, q)
             /\ [u \in Of(g, q) |-> g[u].hits] = [u \in Of(h, q) |-> h[u].hits]
  <2>1. Of(g, q) = Of(h, q)
    OBVIOUS
  <2>2. \A u \in Of(g, q) : g[u].hits = h[u].hits
    OBVIOUS
  <2> HIDE DEF Of
  <2>3. QED
    BY <2>1, <2>2
<1>2. ASSUME NEW q \in Prompts
      PROVE  /\ SumFunction([u \in Of(g, q) |-> g[u].hits]) = SumFunction([u \in Of(h, q) |-> h[u].hits])
             /\ Cardinality(Of(g, q)) = Cardinality(Of(h, q))
  <2> HIDE DEF Of
  <2> QED BY <1>1
<1>3. QED
  BY <1>2 DEF Credit

(* The sampler starts with no score and nothing drawn. *)
LEMMA SamplerInitial == SamplerInit => SamplerInv
<1> SUFFICES ASSUME SamplerInit PROVE SamplerInv
  OBVIOUS
<1> USE DEF SamplerInit
<1>1. SamplerTypeOK
  BY DEF SamplerTypeOK
<1>2. CreditInv /\ PosteriorIsWhatWasScored
  BY DEF CreditInv, PosteriorIsWhatWasScored
<1>3. DrawIsAnEpochOldAtMost
  BY EpochIsNat DEF DrawIsAnEpochOldAtMost
<1>4. QED
  BY <1>1, <1>2, <1>3 DEF SamplerInv, DrawsFollowScores

(* An epoch is drawn from the scores as they are. *)
LEMMA DrawEpochKeeps == SamplerInv /\ DrawEpoch => SamplerInv'
<1> SUFFICES ASSUME SamplerInv, DrawEpoch PROVE SamplerInv'
  OBVIOUS
<1>1. /\ UNCHANGED <<phase, hand, belief, scored, batches, stored>>
      /\ phase = "fetch" /\ sinceDraw' = 0 /\ ahead' \in [1..Epoch -> Prompts]
  BY DEF DrawEpoch
<1>2. ahead' \in Seq(Prompts) /\ Len(ahead') = Epoch
  BY <1>1, EpochIsNat, FunctionIsSequence
<1>3. SamplerTypeOK'
  BY <1>1, <1>2 DEF SamplerInv, SamplerTypeOK
<1>4. CreditInv' /\ PosteriorIsWhatWasScored'
  BY <1>1 DEF SamplerInv, CreditInv, DrawsFollowScores, PosteriorIsWhatWasScored
<1>5. DrawIsAnEpochOldAtMost'
  BY <1>1, <1>2, EpochIsNat DEF DrawIsAnEpochOldAtMost
<1>6. QED
  BY <1>3, <1>4, <1>5 DEF SamplerInv, DrawsFollowScores

(* A batch takes the next draws of the epoch. *)
LEMMA RollBatchKeeps == SamplerInv /\ RollBatch => SamplerInv'
<1> SUFFICES ASSUME SamplerInv, RollBatch PROVE SamplerInv'
  OBVIOUS
<1>1. /\ UNCHANGED <<sinceDraw, belief, stored>>
      /\ phase = "fetch" /\ phase' = "scored" /\ Len(ahead) >= BatchSize
      /\ scored' = Credit(scored, hand') /\ batches' = batches + 1
      /\ ahead' = SubSeq(ahead, BatchSize + 1, Len(ahead))
  BY DEF RollBatch
<1>2. PICK k \in [1..BatchSize -> 0..GroupSize] :
        hand' = [u \in 1..BatchSize |-> [prompt |-> ahead[u], hits |-> k[u], rewarded |-> k[u]]]
  BY DEF RollBatch
<1>3. Len(ahead) \in Nat /\ ahead \in Seq(Prompts) /\ BatchSize \in Nat \ {0}
  BY EpochIsNat, LenProperties DEF SamplerInv, SamplerTypeOK
<1>4. /\ ahead' \in Seq(Prompts) /\ Len(ahead') = Len(ahead) - BatchSize
  <2>1. BatchSize + 1 \in 1..(Len(ahead) + 1) /\ Len(ahead) \in (BatchSize + 1 - 1)..Len(ahead)
    BY <1>1, <1>3
  <2>2. /\ ahead' \in Seq(Prompts)
        /\ Len(ahead') = IF BatchSize + 1 <= Len(ahead) THEN Len(ahead) - (BatchSize + 1) + 1 ELSE 0
    BY <1>1, <1>3, <2>1, SubSeqProperties
  <2>3. QED
    BY <1>1, <1>3, <2>2
<1>5. hand' \in [1..BatchSize -> PromptGroups]
  <2>1. \A u \in 1..BatchSize : ahead[u] \in Prompts
    BY <1>1, <1>3, ElementOfSeq
  <2>2. GroupSize \in Nat
    BY SamplerAssumption
  <2>3. QED
    BY <1>2, <2>1, <2>2 DEF PromptGroups
<1>6. Len(hand') = BatchSize
  BY <1>3, <1>5, FunctionIsSequence
<1>7. SamplerTypeOK'
  BY <1>1, <1>4, <1>5 DEF SamplerInv, SamplerTypeOK
<1>8. CreditInv'
  BY <1>1 DEF SamplerInv, CreditInv, DrawsFollowScores, PosteriorIsWhatWasScored
<1>9. DrawsFollowScores'
  <2>1. sinceDraw + Len(ahead) <= Epoch /\ sinceDraw \in Nat
    BY <1>1, <1>3, EpochIsNat DEF SamplerInv, SamplerTypeOK, DrawsFollowScores, DrawIsAnEpochOldAtMost
  <2>2. sinceDraw' + Len(ahead') + Len(hand') <= Epoch
    BY <1>1, <1>3, <1>4, <1>6, <2>1, EpochIsNat
  <2>3. QED
    BY <1>1, <2>2 DEF DrawsFollowScores, DrawIsAnEpochOldAtMost, PosteriorIsWhatWasScored
<1>10. QED
  BY <1>7, <1>8, <1>9 DEF SamplerInv

(* Hindsight changes the rewards, not the clone the sampler is shown. *)
LEMMA RelabelBatchKeeps == SamplerInv /\ RelabelBatch => SamplerInv'
<1> SUFFICES ASSUME SamplerInv, RelabelBatch PROVE SamplerInv'
  OBVIOUS
<1>1. /\ UNCHANGED <<ahead, sinceDraw, belief, scored, batches, stored>>
      /\ phase = "scored" /\ phase' = "relabelled"
  BY DEF RelabelBatch
<1>2. PICK gain \in [DOMAIN hand -> 0..GroupSize] :
        hand' = [u \in DOMAIN hand |-> IF hand[u].hits = 0 THEN [hand[u] EXCEPT !.rewarded = gain[u]] ELSE hand[u]]
  BY DEF RelabelBatch
<1>3. hand \in [1..BatchSize -> PromptGroups] /\ BatchSize \in Nat /\ GroupSize \in Nat
  BY <1>1, EpochIsNat, SamplerAssumption DEF SamplerInv, SamplerTypeOK
<1>4. /\ DOMAIN hand' = DOMAIN hand /\ hand' \in [1..BatchSize -> PromptGroups]
      /\ \A u \in DOMAIN hand : hand'[u].prompt = hand[u].prompt /\ hand'[u].hits = hand[u].hits
  BY <1>2, <1>3 DEF PromptGroups
<1>5. Credit(belief, hand') = Credit(belief, hand)
  BY <1>4, CreditIgnoresRewards
<1>6. Len(hand) = BatchSize /\ Len(hand') = BatchSize
  BY <1>3, <1>4, FunctionIsSequence
<1>7. SamplerTypeOK'
  BY <1>1, <1>4 DEF SamplerInv, SamplerTypeOK
<1>8. CreditInv'
  <2>1. scored = Credit(belief, hand)
    BY <1>1 DEF SamplerInv, CreditInv
  <2>2. scored' = Credit(belief', hand')
    <3>1. Credit(belief', hand') = Credit(belief, hand')
      BY <1>1
    <3>2. QED
      BY <1>1, <1>5, <2>1, <3>1
  <2>3. QED
    BY <1>1, <2>2 DEF SamplerInv, CreditInv
<1>9. DrawsFollowScores'
  BY <1>1, <1>6 DEF SamplerInv, DrawsFollowScores, DrawIsAnEpochOldAtMost, PosteriorIsWhatWasScored
<1>10. QED
  BY <1>7, <1>8, <1>9 DEF SamplerInv

(* Scores are those of the rollouts observed, one per prompt of the batch. *)
LEMMA ObserveBatchKeeps == SamplerInv /\ ObserveBatch => SamplerInv'
<1> SUFFICES ASSUME SamplerInv, ObserveBatch PROVE SamplerInv'
  OBVIOUS
<1>1. /\ UNCHANGED <<ahead, scored, batches, stored>> /\ hand' = <<>>
      /\ phase = "relabelled" /\ phase' = "observed"
      /\ belief' = Credit(belief, hand) /\ sinceDraw' = sinceDraw + Len(hand)
  BY DEF ObserveBatch
<1>2. Len(hand) \in Nat /\ Len(ahead) \in Nat /\ sinceDraw \in Nat
  BY <1>1, EpochIsNat, FunctionIsSequence, LenProperties DEF SamplerInv, SamplerTypeOK
<1>3. SamplerTypeOK'
  BY <1>1, <1>2 DEF SamplerInv, SamplerTypeOK
<1>4. CreditInv' /\ PosteriorIsWhatWasScored'
  BY <1>1 DEF SamplerInv, CreditInv, PosteriorIsWhatWasScored
<1>5. DrawIsAnEpochOldAtMost'
  BY <1>1, <1>2, EpochIsNat DEF SamplerInv, DrawsFollowScores, DrawIsAnEpochOldAtMost
<1>6. QED
  BY <1>3, <1>4, <1>5 DEF SamplerInv, DrawsFollowScores

(* A batch ends, saved or not. *)
LEMMA EndBatchKeeps == SamplerInv /\ EndBatch => SamplerInv'
<1> SUFFICES ASSUME SamplerInv, EndBatch PROVE SamplerInv'
  OBVIOUS
<1>1. /\ UNCHANGED <<ahead, sinceDraw, hand, belief, scored, batches>>
      /\ phase = "observed" /\ phase' = "fetch"
      /\ stored' \in {stored, [belief |-> belief, scored |-> scored, batches |-> batches]}
  BY DEF EndBatch
<1>2. belief = scored
  BY <1>1 DEF SamplerInv, DrawsFollowScores, PosteriorIsWhatWasScored
<1>3. SamplerTypeOK' /\ CreditInv'
  BY <1>1, <1>2 DEF SamplerInv, SamplerTypeOK, CreditInv
<1>4. DrawsFollowScores'
  BY <1>1, <1>2 DEF SamplerInv, DrawsFollowScores, DrawIsAnEpochOldAtMost, PosteriorIsWhatWasScored
<1>5. QED
  BY <1>3, <1>4 DEF SamplerInv

(* A resumed run brings back the scores with the step they were saved at. *)
LEMMA ResumeKeeps == SamplerInv /\ Resume => SamplerInv'
<1> SUFFICES ASSUME SamplerInv, Resume PROVE SamplerInv'
  OBVIOUS
<1> DEFINE served == BatchSize * (stored.batches % (Epoch \div BatchSize))
           n == IF served <= Epoch THEN Epoch - served ELSE 0
<1>1. /\ UNCHANGED stored /\ hand' = <<>> /\ phase' = "fetch" /\ sinceDraw' = 0
      /\ belief' = stored.belief /\ scored' = stored.scored /\ batches' = stored.batches
      /\ ahead' \in [1..(Epoch - served) -> Prompts]
  BY DEF Resume
<1>2. served \in Nat
  <2>1. Epoch \div BatchSize \in Nat \ {0}
    BY EpochIsNat
  <2>2. stored.batches % (Epoch \div BatchSize) \in Nat
    <3> DEFINE m == Epoch \div BatchSize
    <3>1. stored.batches \in Nat /\ m \in Nat \ {0}
      BY <2>1 DEF SamplerInv, SamplerTypeOK
    <3> HIDE DEF m
    <3>2. stored.batches % m \in Nat
      BY <3>1
    <3>3. QED
      BY <3>2 DEF m
  <2>3. QED
    BY <2>2, EpochIsNat
<1> HIDE DEF served
<1>3. n \in Nat /\ n <= Epoch /\ 1..(Epoch - served) = 1..n
  BY <1>2, EpochIsNat
<1> HIDE DEF n
<1>4. ahead' \in Seq(Prompts) /\ Len(ahead') = n
  BY <1>1, <1>3, FunctionIsSequence
<1>5. SamplerTypeOK' /\ CreditInv' /\ PosteriorIsWhatWasScored'
  BY <1>1, <1>4 DEF SamplerInv, SamplerTypeOK, CreditInv, PosteriorIsWhatWasScored
<1>6. DrawIsAnEpochOldAtMost'
  BY <1>1, <1>3, <1>4, EpochIsNat DEF DrawIsAnEpochOldAtMost
<1>7. QED
  BY <1>5, <1>6 DEF SamplerInv, DrawsFollowScores

(* Every step of sampler and trainer keeps the inductive invariant. *)
LEMMA SamplerStep == SamplerInv /\ [SamplerNext]_samplerVars => SamplerInv'
<1>1. SamplerInv /\ UNCHANGED samplerVars => SamplerInv'
  <2> SUFFICES ASSUME SamplerInv, UNCHANGED samplerVars PROVE SamplerInv'
    OBVIOUS
  <2>1. UNCHANGED <<phase, ahead, sinceDraw, hand, belief, scored, batches, stored>>
    BY DEF samplerVars
  <2>2. Credit(belief', hand') = Credit(belief, hand)
    BY <2>1
  <2>3. SamplerTypeOK' /\ CreditInv'
    BY <2>1, <2>2 DEF SamplerInv, SamplerTypeOK, CreditInv
  <2>4. DrawsFollowScores'
    BY <2>1 DEF SamplerInv, DrawsFollowScores, DrawIsAnEpochOldAtMost, PosteriorIsWhatWasScored
  <2>5. QED
    BY <2>3, <2>4 DEF SamplerInv
<1>2. QED
  BY <1>1, DrawEpochKeeps, RollBatchKeeps, RelabelBatchKeeps, ObserveBatchKeeps, EndBatchKeeps, ResumeKeeps
     DEF SamplerNext

(* The posterior is what was scored, whatever hindsight wrote, and a draw  *)
(* is an epoch old at most (curriculum.py and the trainer's patches).      *)
THEOREM DrawsFollowScoresHolds == SamplerSpec => []DrawsFollowScores
<1>1. SamplerInv => DrawsFollowScores
  BY DEF SamplerInv
<1>2. QED
  BY <1>1, SamplerInitial, SamplerStep, PTL DEF SamplerSpec

-------------------------------------------------------------------------------
(* MasteryPool. *)

Goals == Range(PoolGoals) \cup Range(SubGoals)
Arms  == [goal : Goals, bin : Nat, parent : Nat, source : {"pool", "subgoal", "split"}]
Posts == [hits : Nat, rolls : Nat]

(* The teacher's entry for an arm that exists for relabelling: never drawn, *)
(* never rolled.                                                            *)
MaskedInv(p, s) ==
  /\ p \in Seq(Posts) /\ s \in Seq(BOOLEAN)
  /\ Len(p) = Len(s) /\ Len(PoolArms) <= Len(p)
  /\ \A i \in 1..Len(PoolArms) : PoolArms[i].source = "subgoal" => s[i] = FALSE /\ p[i].rolls = 0

(* The first arms are the pool; the others are splits of one of these.     *)
PoolArmsInv ==
  /\ arms \in Seq(Arms) /\ nTasks = Len(arms) /\ Len(PoolArms) <= Len(arms)
  /\ \A i \in 1..Len(PoolArms) : arms[i] = PoolArms[i]
  /\ \A i \in 1..Len(arms) : i > Len(PoolArms) =>
       /\ arms[i].source = "split" /\ arms[i].parent \in 1..Len(PoolArms) /\ arms[i].bin # 0
       /\ arms[i].goal = PoolArms[arms[i].parent].goal
       /\ \A j \in 1..Len(arms) :
            j > Len(PoolArms) /\ arms[j].parent = arms[i].parent /\ arms[j].bin = arms[i].bin => j = i

ArmInHandInv ==
  /\ arm \in 0..Len(arms)
  /\ arm # 0 => arms[arm].source # "subgoal"
  /\ poolPc = "dead" \/ achieved # <<>> => arm # 0
  /\ target # Nobody => target \in 1..Len(PoolArms)

MasteryInv ==
  /\ PoolArmsInv /\ ArmInHandInv
  /\ MaskedInv(posts, samplable)
  /\ kept # Nobody => MaskedInv(kept.posts, kept.samplable)
  /\ RelabelIsAnotherGoal

(* The members of a concatenation, by position. *)
LEMMA ConcatKeeps ==
  ASSUME NEW S, NEW s \in Seq(S), NEW t \in Seq(S)
  PROVE  /\ s \o t \in Seq(S) /\ Len(s \o t) = Len(s) + Len(t)
         /\ Len(s) \in Nat /\ Len(t) \in Nat
         /\ \A i \in 1..Len(s) : (s \o t)[i] = s[i]
         /\ \A i \in 1..Len(t) : (s \o t)[Len(s) + i] = t[i]
         /\ \A i \in 1..Len(s \o t) : i > Len(s) => i - Len(s) \in 1..Len(t) /\ (s \o t)[i] = t[i - Len(s)]
<1>1. Len(s) \in Nat /\ Len(t) \in Nat
  BY LenProperties
<1>2. /\ s \o t \in Seq(S) /\ Len(s \o t) = Len(s) + Len(t)
      /\ \A i \in 1..Len(s \o t) : (s \o t)[i] = IF i <= Len(s) THEN s[i] ELSE t[i - Len(s)]
  BY ConcatProperties
<1>3. QED
  BY <1>1, <1>2

(* The arms the pool is built with. *)
LEMMA PoolIsKnown ==
  /\ PoolArms \in Seq(Arms) /\ Len(PoolArms) \in Nat
  /\ \A i \in 1..Len(PoolArms) : /\ PoolArms[i] \in Arms /\ PoolArms[i].source # "split"
                                 /\ PoolArms[i].parent = 0 /\ PoolArms[i].bin = 0
<1> DEFINE A == [i \in 1..Len(PoolGoals) |-> NewArm(PoolGoals[i], 0, 0, "pool")]
           B == [i \in 1..Len(SubGoals) |-> NewArm(SubGoals[i], 0, 0, "subgoal")]
           T == {a \in Arms : a.source # "split" /\ a.parent = 0 /\ a.bin = 0}
<1>1. /\ Len(PoolGoals) \in Nat /\ Len(SubGoals) \in Nat
      /\ \A i \in 1..Len(PoolGoals) : PoolGoals[i] \in Goals
      /\ \A i \in 1..Len(SubGoals) : SubGoals[i] \in Goals
  BY PoolAssumption, LenProperties, ElementOfSeq DEF Goals
<1>2. A \in [1..Len(PoolGoals) -> T] /\ B \in [1..Len(SubGoals) -> T]
  BY <1>1 DEF NewArm, Arms
<1>3. PoolArms = A \o B
  BY DEF PoolArms
<1> HIDE DEF A, B
<1>4. A \in Seq(T) /\ B \in Seq(T)
  BY <1>1, <1>2, FunctionIsSequence
<1>5. PoolArms \in Seq(T)
  BY <1>3, <1>4, ConcatKeeps
<1>6. Len(PoolArms) \in Nat /\ \A i \in 1..Len(PoolArms) : PoolArms[i] \in T
  BY <1>5, LenProperties, ElementOfSeq
<1>7. PoolArms \in Seq(Arms)
  BY <1>5, SeqDef
<1>8. QED
  BY <1>6, <1>7

(* The pool starts with one arm for each of its tasks. *)
LEMMA MasteryInitial == PoolInit => MasteryInv
<1> SUFFICES ASSUME PoolInit PROVE MasteryInv
  OBVIOUS
<1> USE DEF PoolInit
<1>1. PoolArmsInv
  BY PoolIsKnown DEF PoolArmsInv
<1>2. ArmInHandInv
  BY PoolIsKnown DEF ArmInHandInv
<1>3. MaskedInv(posts, samplable)
  <2> DEFINE n == Len(PoolArms)
  <2>1. n \in Nat
    BY PoolIsKnown
  <2>2. posts \in [1..n -> Posts]
    BY DEF Posts, Unseen
  <2>3. samplable \in [1..n -> BOOLEAN]
    OBVIOUS
  <2>4. posts \in Seq(Posts) /\ samplable \in Seq(BOOLEAN) /\ Len(posts) = n /\ Len(samplable) = n
    <3> HIDE DEF n
    <3> QED BY <2>1, <2>2, <2>3, FunctionIsSequence
  <2>5. \A i \in 1..n : PoolArms[i].source = "subgoal" => samplable[i] = FALSE /\ posts[i].rolls = 0
    BY DEF Unseen
  <2>6. QED
    BY <2>1, <2>4, <2>5 DEF MaskedInv
<1>4. QED
  BY <1>1, <1>2, <1>3 DEF MasteryInv, RelabelIsAnotherGoal

(* A drawn arm is that of the task that is rolled. *)
LEMMA SampleAndRollKeeps == MasteryInv /\ SampleAndRoll => MasteryInv'
<1> SUFFICES ASSUME MasteryInv, SampleAndRoll PROVE MasteryInv'
  OBVIOUS
<1>1. /\ UNCHANGED <<arms, nTasks, samplable, target, kept>>
      /\ Len(posts) = nTasks /\ arm' \in 1..Len(posts) /\ samplable[arm'] = TRUE /\ achieved' = <<>>
  <2>1. arm' \in 1..Len(posts) /\ samplable[arm'] = TRUE
    <3>1. arm' \in 1..Len(posts) /\ samplable[arm']
      BY Zenon DEF SampleAndRoll, SamplableArms
    <3>2. samplable[arm'] \in BOOLEAN
      BY <3>1, ElementOfSeq DEF MasteryInv, MaskedInv
    <3>3. QED
      BY <3>1, <3>2, Zenon
  <2>2. QED
    BY <2>1 DEF SampleAndRoll
<1>2. PICK k \in 0..GroupRolls :
        posts' = [posts EXCEPT ![arm'] = [hits |-> @.hits + k, rolls |-> @.rolls + GroupRolls]]
  BY DEF SampleAndRoll
<1>3. GroupRolls \in Nat /\ posts \in Seq(Posts) /\ DOMAIN posts = 1..Len(posts) /\ Len(posts) \in Nat
  BY PoolAssumption, LenProperties DEF MasteryInv, MaskedInv
<1>4. /\ DOMAIN posts' = 1..Len(posts)
      /\ \A i \in 1..Len(posts) : /\ posts'[i] \in Posts
                                  /\ i # arm' => posts'[i] = posts[i]
  <2>1. \A i \in 1..Len(posts) : posts[i] \in Posts
    BY <1>3, ElementOfSeq
  <2> DEFINE q == [hits |-> posts[arm'].hits + k, rolls |-> posts[arm'].rolls + GroupRolls]
  <2>2. q \in Posts
    BY <1>1, <1>3, <2>1 DEF Posts
  <2>3. posts' = [posts EXCEPT ![arm'] = q]
    BY <1>1, <1>2, <1>3, <2>1 DEF Posts
  <2> HIDE DEF q
  <2>4. QED
    BY <1>1, <1>3, <2>1, <2>2, <2>3
<1>5. posts' \in Seq(Posts) /\ Len(posts') = Len(posts)
  <2>1. posts' = [i \in 1..Len(posts) |-> posts'[i]]
    BY <1>2, <1>3
  <2>2. posts' \in [1..Len(posts) -> Posts]
    BY <1>4, <2>1
  <2>3. QED
    BY <1>3, <2>2, FunctionIsSequence
<1>6. MaskedInv(posts, samplable)'
  <2>1. \A i \in 1..Len(PoolArms) : PoolArms[i].source = "subgoal" =>
          samplable[i] = FALSE /\ posts'[i].rolls = 0
    <3>1. \A i \in 1..Len(PoolArms) : i \in 1..Len(posts)
      BY <1>3, PoolIsKnown DEF MasteryInv, MaskedInv
    <3>2. QED
      BY <1>1, <1>4, <3>1 DEF MasteryInv, MaskedInv
  <2>2. QED
    BY <1>1, <1>5, <2>1 DEF MasteryInv, MaskedInv
<1>7. ArmInHandInv'
  <2>1. arm' \in 1..Len(arms) /\ arm' \in 0..Len(arms) /\ arm' # 0
    BY <1>1, <1>3 DEF MasteryInv, PoolArmsInv
  <2>2. arms[arm'].source # "subgoal"
    <3>1. CASE arm' \in 1..Len(PoolArms)
      BY <1>1, <3>1 DEF MasteryInv, PoolArmsInv, MaskedInv
    <3>2. CASE arm' \notin 1..Len(PoolArms)
      <4>1. arm' > Len(PoolArms)
        BY <2>1, <3>2, PoolIsKnown
      <4>2. QED
        BY <2>1, <4>1 DEF MasteryInv, PoolArmsInv
    <3>3. QED
      BY <3>1, <3>2
  <2>3. QED
    BY <1>1, <2>1, <2>2 DEF MasteryInv, ArmInHandInv
<1>8. PoolArmsInv' /\ RelabelIsAnotherGoal'
  BY <1>1 DEF MasteryInv, PoolArmsInv, RelabelIsAnotherGoal
<1>9. QED
  BY <1>1, <1>6, <1>7, <1>8 DEF MasteryInv, MaskedInv

(* A dead group is relabelled to a goal in the pool it was not rolled for. *)
LEMMA RelabelDeadKeeps == MasteryInv /\ RelabelDead => MasteryInv'
<1> SUFFICES ASSUME MasteryInv, RelabelDead PROVE MasteryInv'
  OBVIOUS
<1> DEFINE own == arms[arm].goal
           onPath == {g \in Registered \ {own} :
                        g \subseteq own /\ Cardinality(g) <= MaxSub /\ Attained(g, achieved')}
           others == {g \in Registered \ {own} : Attained(g, achieved')}
           found == Targets(own, achieved')
<1>1. UNCHANGED <<arms, nTasks, posts, samplable, arm, kept>> /\ poolPc = "dead"
  BY DEF RelabelDead
<1>2. arm # 0 /\ arm \in 1..Len(arms)
  BY <1>1, LenProperties DEF MasteryInv, ArmInHandInv, PoolArmsInv
<1>3. (found = {} /\ target' = Nobody) \/ \E g \in found : target' = ArmOf(g)
  BY DEF RelabelDead
<1>4. found = IF onPath # {} THEN Deepest(onPath) ELSE Deepest(others)
  BY DEF Targets
<1>5. ASSUME NEW g \in found
      PROVE  /\ ArmOf(g) \in 1..Len(PoolArms) /\ PoolArms[ArmOf(g)].goal = g
             /\ g # own /\ Attained(g, achieved')
             /\ \A h \in onPath : g \subseteq own /\ Cardinality(h) <= Cardinality(g)
  <2>1. /\ g \in Registered \ {own} /\ Attained(g, achieved')
        /\ onPath # {} => g \in Deepest(onPath)
    BY <1>4 DEF Deepest
  <2>2. \A h \in onPath : g \subseteq own /\ Cardinality(h) <= Cardinality(g)
    BY <2>1 DEF Deepest
  <2>3. ArmOf(g) \in 1..Len(PoolArms) /\ PoolArms[ArmOf(g)].goal = g
    <3>1. \E i \in 1..Len(PoolArms) : PoolArms[i].goal = g
      BY <2>1 DEF Registered
    <3>2. QED
      BY <3>1 DEF ArmOf
  <2>4. QED
    BY <2>1, <2>2, <2>3
<1>6. target' # Nobody => \E g \in found : target' = ArmOf(g)
  BY <1>3
<1>7. ArmInHandInv'
  <2>1. target' # Nobody => target' \in 1..Len(PoolArms)
    BY <1>5, <1>6
  <2>2. QED
    BY <1>1, <1>2, <2>1 DEF MasteryInv, ArmInHandInv
<1>8. RelabelIsAnotherGoal'
  <2> SUFFICES ASSUME NEW g \in found, target' = ArmOf(g)
               PROVE  /\ PoolArms[target'].goal # own
                      /\ Attained(PoolArms[target'].goal, achieved')
                      /\ \A h \in Registered :
                           h \subseteq own /\ h # own /\ Cardinality(h) <= MaxSub /\ Attained(h, achieved')
                           => /\ PoolArms[target'].goal \subseteq own
                              /\ Cardinality(h) <= Cardinality(PoolArms[target'].goal)
    BY <1>1, <1>6 DEF RelabelIsAnotherGoal
  <2>1. \A h \in Registered :
          h \subseteq own /\ h # own /\ Cardinality(h) <= MaxSub /\ Attained(h, achieved') => h \in onPath
    OBVIOUS
  <2> HIDE DEF onPath, found, own
  <2>2. QED
    BY <1>5, <2>1
<1>9. PoolArmsInv'
  BY <1>1 DEF MasteryInv, PoolArmsInv
<1>10. QED
  BY <1>1, <1>7, <1>8, <1>9 DEF MasteryInv, MaskedInv

(* The teacher's file is saved with the arms as they are. *)
LEMMA SavePoolKeeps == MasteryInv /\ SavePool => MasteryInv'
<1> SUFFICES ASSUME MasteryInv, SavePool PROVE MasteryInv'
  OBVIOUS
<1>1. /\ UNCHANGED <<poolPc, arms, nTasks, posts, samplable, arm, achieved, target>>
      /\ kept'.posts = posts /\ kept'.samplable = samplable
  BY DEF SavePool
<1>2. PoolArmsInv' /\ ArmInHandInv'
  BY <1>1 DEF MasteryInv, PoolArmsInv, ArmInHandInv
<1>3. RelabelIsAnotherGoal'
  BY <1>1 DEF MasteryInv, RelabelIsAnotherGoal
<1>4. QED
  BY <1>1, <1>2, <1>3 DEF MasteryInv, MaskedInv

(* A pool built anew has the arms it starts with, and the posterior that was kept. *)
LEMMA ReloadPoolKeeps == MasteryInv /\ ReloadPool => MasteryInv'
<1> SUFFICES ASSUME MasteryInv, ReloadPool PROVE MasteryInv'
  OBVIOUS
<1>1. /\ arms' = PoolArms /\ nTasks' = Len(PoolArms) /\ poolPc' = "idle"
      /\ posts' = kept.posts /\ samplable' = kept.samplable
      /\ arm' = 0 /\ achieved' = <<>> /\ target' = Nobody
      /\ kept # Nobody /\ UNCHANGED kept
  BY DEF ReloadPool
<1>2. PoolArmsInv' /\ ArmInHandInv'
  BY <1>1, PoolIsKnown DEF PoolArmsInv, ArmInHandInv
<1>3. RelabelIsAnotherGoal'
  BY <1>1 DEF RelabelIsAnotherGoal
<1>4. QED
  BY <1>1, <1>2, <1>3 DEF MasteryInv, MaskedInv

(* Quotient and remainder. *)
LEMMA DivMod ==
  ASSUME NEW m \in Nat \ {0}, NEW a \in Nat
  PROVE  /\ a \div m \in Nat /\ a % m \in Nat
         /\ a = m * (a \div m) + (a % m)
BY SMT

(* A common factor of an inequality cancels. *)
LEMMA Factor ==
  ASSUME NEW m \in Nat \ {0}, NEW p \in Nat, NEW q \in Nat, m * p < m * q
  PROVE  p < q
BY SMT

(* Block c of m after another is in the n blocks, and is the only one at   *)
(* its place in its block.                                                 *)
LEMMA Blocks ==
  ASSUME NEW m \in Nat \ {0}, NEW n \in Nat, NEW c \in 1..(m * n)
  PROVE  /\ 1 + ((c - 1) \div m) \in 1..n /\ (c - 1) % m \in Nat
         /\ \A d \in 1..(m * n) :
              (c - 1) \div m = (d - 1) \div m /\ (c - 1) % m = (d - 1) % m => c = d
<1>0. m * n \in Nat
  OBVIOUS
<1>1. c - 1 \in Nat /\ c - 1 < m * n
  BY <1>0
<1> DEFINE q == (c - 1) \div m
<1>2. q \in Nat /\ (c - 1) % m \in Nat /\ c - 1 = m * q + ((c - 1) % m)
  BY <1>1, DivMod
<1>3. m * q \in Nat /\ m * q < m * n
  <2> HIDE DEF q
  <2>1. m * q \in Nat
    BY <1>2
  <2>2. QED
    BY <1>1, <1>2, <2>1, <1>0
<1>4. 1 + q \in 1..n
  <2> HIDE DEF q
  <2>1. q < n
    BY <1>2, <1>3, Factor
  <2>2. QED
    BY <1>2, <2>1
<1>5. ASSUME NEW d \in 1..(m * n), q = (d - 1) \div m, (c - 1) % m = (d - 1) % m
      PROVE  c = d
  <2>1. d - 1 \in Nat
    BY <1>0
  <2>2. d - 1 = m * ((d - 1) \div m) + ((d - 1) % m)
    BY <2>1, DivMod
  <2> HIDE DEF q
  <2>3. d - 1 = m * q + ((c - 1) % m)
    BY <1>5, <2>2
  <2>4. c - 1 = d - 1
    BY <1>2, <2>3
  <2>5. QED
    BY <2>4, <1>0
<1>6. QED
  BY <1>2, <1>4, <1>5

(* The new arms of a split: each of a task that had none, one for each of  *)
(* its bins.                                                               *)
LEMMA ChildrenAreSplits ==
  ASSUME NEW parents \in Seq(Nat),
         \A i \in 1..Len(parents) : arms[parents[i]].goal \in Goals,
         \A p, q \in 1..Len(parents) : p < q => parents[p] < parents[q]
  PROVE  /\ Children(parents) \in Seq(Arms)
         /\ \A c \in 1..Len(Children(parents)) :
              /\ Children(parents)[c].source = "split" /\ \E i \in 1..Len(parents) : Children(parents)[c].parent = parents[i]
              /\ Children(parents)[c].bin # 0
              /\ Children(parents)[c].goal = arms[Children(parents)[c].parent].goal
              /\ \A d \in 1..Len(Children(parents)) :
                   /\ Children(parents)[d].parent = Children(parents)[c].parent
                   /\ Children(parents)[d].bin = Children(parents)[c].bin
                   => d = c
<1> DEFINE n == Len(parents)
           k == InitBins * n
           C == Children(parents)
           p == [c \in 1..k |-> 1 + ((c - 1) \div InitBins)]
           b == [c \in 1..k |-> 1 + ((c - 1) % InitBins)]
<1>1. n \in Nat /\ InitBins \in Nat \ {0} /\ k \in Nat
  BY LenProperties, PoolAssumption
<1>2. ASSUME NEW c \in 1..k
      PROVE  /\ p[c] \in 1..n /\ b[c] \in Nat \ {0} /\ parents[p[c]] \in Nat
             /\ arms[parents[p[c]]].goal \in Goals
  <2>1. p[c] \in 1..n /\ b[c] \in Nat \ {0}
    <3>1. 1 + ((c - 1) \div InitBins) \in 1..n /\ (c - 1) % InitBins \in Nat
      BY <1>1, Blocks
    <3>2. p[c] = 1 + ((c - 1) \div InitBins) /\ b[c] = 1 + ((c - 1) % InitBins)
      OBVIOUS
    <3>3. QED
      BY <3>1, <3>2
  <2> HIDE DEF p
  <2>2. QED
    BY <2>1, ElementOfSeq
<1>3. C = [c \in 1..k |-> [goal |-> arms[parents[p[c]]].goal, bin |-> b[c], parent |-> parents[p[c]], source |-> "split"]]
  BY DEF Children, NewArm
<1>4. ASSUME NEW c \in 1..k, NEW d \in 1..k, parents[p[c]] = parents[p[d]], b[c] = b[d]
      PROVE  d = c
  <2>1. p[c] \in 1..n /\ p[d] \in 1..n
    BY <1>2
  <2>2. p[c] = p[d]
    <3>1. parents[p[c]] \in Nat
      BY <1>2
    <3> HIDE DEF p, b
    <3>2. ~(p[c] < p[d]) /\ ~(p[d] < p[c])
      BY <2>1, <1>4, <3>1
    <3>3. QED
      BY <2>1, <3>2, <1>1
  <2>3. (c - 1) \div InitBins = (d - 1) \div InitBins /\ (c - 1) % InitBins = (d - 1) % InitBins
    <3>1. /\ (c - 1) \div InitBins \in Nat /\ (d - 1) \div InitBins \in Nat
          /\ (c - 1) % InitBins \in Nat /\ (d - 1) % InitBins \in Nat
      <4>1. c - 1 \in Nat /\ d - 1 \in Nat
        BY <1>1
      <4>2. QED
        BY <4>1, <1>1, DivMod
    <3>2. /\ 1 + ((c - 1) \div InitBins) = 1 + ((d - 1) \div InitBins)
          /\ 1 + ((c - 1) % InitBins) = 1 + ((d - 1) % InitBins)
      BY <1>4, <2>2
    <3>3. QED
      BY <3>1, <3>2
  <2>4. QED
    BY <1>1, <2>3, Blocks
<1> HIDE DEF p, b, k, n
<1>5. ASSUME NEW c \in 1..k
      PROVE  /\ C[c] \in Arms /\ C[c].goal = arms[C[c].parent].goal /\ C[c].bin = b[c]
             /\ C[c].parent = parents[p[c]] /\ C[c].source = "split"
  <2> HIDE DEF C
  <2>1. C[c] = [goal |-> arms[parents[p[c]]].goal, bin |-> b[c], parent |-> parents[p[c]], source |-> "split"]
    BY <1>3
  <2>2. b[c] \in Nat /\ parents[p[c]] \in Nat /\ arms[parents[p[c]]].goal \in Goals
    BY <1>2
  <2>3. QED
    BY <2>1, <2>2 DEF Arms
<1>6. C \in [1..k -> Arms]
  BY <1>3, <1>5
<1>7. C \in Seq(Arms) /\ Len(C) = k
  BY <1>1, <1>6, FunctionIsSequence
<1> HIDE DEF C
<1>8. ASSUME NEW c \in 1..k
      PROVE  /\ C[c].source = "split" /\ C[c].bin # 0 /\ \E i \in 1..n : C[c].parent = parents[i]
             /\ C[c].goal = arms[C[c].parent].goal
             /\ \A d \in 1..k : C[d].parent = C[c].parent /\ C[d].bin = C[c].bin => d = c
  <2>1. ASSUME NEW d \in 1..k, C[d].parent = C[c].parent, C[d].bin = C[c].bin PROVE d = c
    BY <1>4, <1>5, <2>1
  <2>2. QED
    BY <1>2, <1>5, <2>1
<1>9. QED
  BY <1>7, <1>8 DEF C, n

(* A mastered task's children come with arms of their own, behind those there are. *)
LEMMA SplitMasteredKeeps == MasteryInv /\ SplitMastered => MasteryInv'
<1> SUFFICES ASSUME MasteryInv, SplitMastered PROVE MasteryInv'
  OBVIOUS
<1> DEFINE tasks == {i \in DOMAIN arms : Splittable(i)}
           n == Len(PoolArms)
           parents == Ascending(tasks)
<1>1. /\ arms' = arms \o Children(parents)
      /\ nTasks' = nTasks + Len(Children(parents))
      /\ posts' = posts \o [c \in DOMAIN Children(parents) |-> Unseen]
      /\ samplable' = samplable \o [c \in DOMAIN Children(parents) |-> TRUE]
  BY DEF SplitMastered
<1>2. UNCHANGED <<poolPc, arm, achieved, target, kept>>
  BY DEF SplitMastered
<1>3. /\ arms \in Seq(Arms) /\ Len(arms) \in Nat /\ DOMAIN arms = 1..Len(arms) /\ n \in Nat /\ n <= Len(arms)
      /\ \A i \in 1..Len(arms) : arms[i] \in Arms
  BY LenProperties, PoolIsKnown, ElementOfSeq DEF MasteryInv, PoolArmsInv
<1>4. ASSUME NEW i \in tasks
      PROVE  /\ i \in 1..n /\ arms[i].goal \in Goals /\ arms[i] = PoolArms[i]
             /\ \A c \in 1..Len(arms) : arms[c].parent # i
  <2>1. i \in 1..Len(arms) /\ arms[i].source # "split" /\ \A c \in 1..Len(arms) : arms[c].parent # i
    BY <1>3 DEF Splittable
  <2>2. i \in 1..n
    BY <1>3, <2>1 DEF MasteryInv, PoolArmsInv
  <2>3. QED
    BY <1>3, <2>1, <2>2 DEF MasteryInv, PoolArmsInv, Arms
<1> DEFINE C == Children(parents)
<1>5. /\ parents \in Seq(tasks) /\ DOMAIN parents = 1..Len(parents)
      /\ \A p, q \in 1..Len(parents) : p < q => parents[p] < parents[q]
  <2>1. IsFiniteSet(1..Len(arms)) /\ tasks \in SUBSET (1..Len(arms)) /\ tasks \in SUBSET Int
    BY <1>3, FS_Interval
  <2>2. IsFiniteSet(tasks)
    BY <2>1, FS_Subset
  <2> HIDE DEF tasks
  <2>3. /\ Cardinality(tasks) \in Nat /\ parents \in [1..Cardinality(tasks) -> tasks]
        /\ \A p, q \in 1..Cardinality(tasks) : p < q => parents[p] < parents[q]
    BY <2>1, <2>2, AscendingIsIncreasing
  <2> HIDE DEF parents
  <2>4. parents \in Seq(tasks) /\ Len(parents) = Cardinality(tasks)
    BY <2>3, FunctionIsSequence
  <2>5. QED
    BY <2>3, <2>4, LenProperties
<1> HIDE DEF parents
<1>6. /\ C \in Seq(Arms)
      /\ \A c \in 1..Len(C) :
           /\ C[c].source = "split" /\ C[c].parent \in tasks /\ C[c].bin # 0
           /\ C[c].goal = arms[C[c].parent].goal
           /\ \A d \in 1..Len(C) : C[d].parent = C[c].parent /\ C[d].bin = C[c].bin => d = c
  <2>1. ASSUME NEW i \in 1..Len(parents)
        PROVE  parents[i] \in tasks /\ parents[i] \in Nat /\ arms[parents[i]].goal \in Goals
    <3>1. parents[i] \in tasks
      BY <1>5, ElementOfSeq
    <3> HIDE DEF tasks
    <3>2. QED
      BY <1>4, <3>1
  <2>2. \A p, q \in 1..Len(parents) : p < q => parents[p] < parents[q]
    BY <1>1, <1>5
  <2>3. parents \in Seq(Nat)
    <3>1. \A i \in DOMAIN parents : parents[i] \in Nat
      BY <1>5, <2>1
    <3>2. Len(parents) \in Nat /\ parents = [i \in 1..Len(parents) |-> parents[i]]
      BY <1>5, LenProperties
    <3>3. parents \in [1..Len(parents) -> Nat]
      BY <1>5, <3>1, <3>2
    <3>4. QED
      BY <3>2, <3>3, FunctionIsSequence
  <2>4. /\ C \in Seq(Arms)
        /\ \A c \in 1..Len(C) :
             /\ C[c].source = "split" /\ C[c].bin # 0
             /\ \E i \in 1..Len(parents) : C[c].parent = parents[i]
             /\ C[c].goal = arms[C[c].parent].goal
             /\ \A d \in 1..Len(C) : C[d].parent = C[c].parent /\ C[d].bin = C[c].bin => d = c
    BY <2>1, <2>2, <2>3, ChildrenAreSplits
  <2> HIDE DEF tasks, C
  <2>5. QED
    BY <2>1, <2>4
<1>7. Len(C) \in Nat /\ DOMAIN C = 1..Len(C)
  BY <1>6, LenProperties
<1> DEFINE P == [c \in DOMAIN C |-> Unseen]
           S == [c \in DOMAIN C |-> TRUE]
<1>8. P \in Seq(Posts) /\ S \in Seq(BOOLEAN) /\ Len(P) = Len(C) /\ Len(S) = Len(C)
  <2>1. P \in [1..Len(C) -> Posts] /\ S \in [1..Len(C) -> BOOLEAN]
    BY <1>7 DEF Posts, Unseen
  <2> HIDE DEF P, S
  <2>2. QED
    BY <1>7, <2>1, FunctionIsSequence
<1>9. arms' = arms \o C /\ nTasks' = nTasks + Len(C) /\ posts' = posts \o P /\ samplable' = samplable \o S
  BY <1>1
<1> HIDE DEF C, P, S
<1>10. /\ arms' \in Seq(Arms) /\ Len(arms') = Len(arms) + Len(C)
       /\ \A i \in 1..Len(arms) : arms'[i] = arms[i]
       /\ \A i \in 1..Len(arms') : i > Len(arms) => i - Len(arms) \in 1..Len(C) /\ arms'[i] = C[i - Len(arms)]
  BY <1>3, <1>6, <1>9, ConcatKeeps
<1>11. MaskedInv(posts', samplable')
  <2>1. /\ posts \in Seq(Posts) /\ samplable \in Seq(BOOLEAN) /\ Len(posts) = Len(samplable) /\ n <= Len(posts)
        /\ \A i \in 1..n : PoolArms[i].source = "subgoal" => samplable[i] = FALSE /\ posts[i].rolls = 0
    BY DEF MasteryInv, MaskedInv
  <2>2. /\ posts' \in Seq(Posts) /\ Len(posts') = Len(posts) + Len(C) /\ Len(posts) \in Nat
        /\ \A i \in 1..Len(posts) : posts'[i] = posts[i]
    <3>1. posts \in Seq(Posts) /\ P \in Seq(Posts)
      BY <1>8, <2>1
    <3>2. /\ posts \o P \in Seq(Posts) /\ Len(posts \o P) = Len(posts) + Len(P) /\ Len(posts) \in Nat
          /\ \A i \in 1..Len(posts) : (posts \o P)[i] = posts[i]
      BY <3>1, ConcatKeeps
    <3>3. QED
      BY <1>8, <1>9, <3>2
  <2>3. /\ samplable' \in Seq(BOOLEAN) /\ Len(samplable') = Len(samplable) + Len(C)
        /\ \A i \in 1..Len(samplable) : samplable'[i] = samplable[i]
    <3>1. samplable \in Seq(BOOLEAN) /\ S \in Seq(BOOLEAN)
      BY <1>8, <2>1
    <3>2. /\ samplable \o S \in Seq(BOOLEAN) /\ Len(samplable \o S) = Len(samplable) + Len(S)
          /\ \A i \in 1..Len(samplable) : (samplable \o S)[i] = samplable[i]
      BY <3>1, ConcatKeeps
    <3>3. QED
      BY <1>8, <1>9, <3>2
  <2>4. ASSUME NEW i \in 1..n, PoolArms[i].source = "subgoal"
        PROVE  samplable'[i] = FALSE /\ posts'[i].rolls = 0
    <3>1. i \in 1..Len(posts) /\ i \in 1..Len(samplable)
      BY <1>3, <2>1, <2>2
    <3>2. samplable'[i] = samplable[i] /\ posts'[i] = posts[i]
      BY <2>2, <2>3, <3>1
    <3>3. samplable[i] = FALSE /\ posts[i].rolls = 0
      BY <2>1, <2>4
    <3>4. QED
      BY <3>2, <3>3
  <2>5. Len(posts') = Len(samplable') /\ n <= Len(posts')
    BY <1>3, <1>7, <2>1, <2>2, <2>3
  <2>6. QED
    BY <2>2, <2>3, <2>4, <2>5 DEF MaskedInv
<1>12. PoolArmsInv'
  <2>1. /\ arms' \in Seq(Arms) /\ nTasks' = Len(arms') /\ n <= Len(arms')
        /\ \A i \in 1..n : arms'[i] = PoolArms[i]
    BY <1>3, <1>7, <1>9, <1>10 DEF MasteryInv, PoolArmsInv
  <2>2. ASSUME NEW i \in 1..Len(arms'), i > n
        PROVE  /\ arms'[i].source = "split" /\ arms'[i].parent \in 1..n /\ arms'[i].bin # 0
               /\ arms'[i].goal = PoolArms[arms'[i].parent].goal
    <3>1. CASE i <= Len(arms)
      <4>1. i \in 1..Len(arms) /\ arms'[i] = arms[i]
        BY <1>3, <1>10, <3>1
      <4>2. QED
        BY <2>2, <4>1 DEF MasteryInv, PoolArmsInv
    <3>2. CASE i > Len(arms)
      <4>1. PICK c \in 1..Len(C) : arms'[i] = C[c]
        BY <1>10, <3>2
      <4>2. C[c].parent \in tasks
        BY <1>6
      <4>3. C[c].parent \in 1..n /\ arms[C[c].parent] = PoolArms[C[c].parent]
        BY <1>4, <4>2
      <4> HIDE DEF tasks
      <4>4. QED
        BY <1>6, <4>1, <4>3
    <3>3. QED
      BY <1>3, <3>1, <3>2, <1>10, <1>7
  <2>3. ASSUME NEW i \in 1..Len(arms'), NEW j \in 1..Len(arms'), i > n, j > n,
               arms'[j].parent = arms'[i].parent, arms'[j].bin = arms'[i].bin
        PROVE  j = i
    <3>0. /\ i <= Len(arms) => i \in 1..Len(arms) /\ arms'[i] = arms[i]
          /\ j <= Len(arms) => j \in 1..Len(arms) /\ arms'[j] = arms[j]
          /\ i > Len(arms) => i - Len(arms) \in 1..Len(C) /\ arms'[i] = C[i - Len(arms)]
          /\ j > Len(arms) => j - Len(arms) \in 1..Len(C) /\ arms'[j] = C[j - Len(arms)]
          /\ (i <= Len(arms) \/ i > Len(arms)) /\ (j <= Len(arms) \/ j > Len(arms))
      BY <1>3, <1>7, <1>10
    <3>1. ASSUME NEW k \in 1..Len(C), NEW l \in 1..Len(arms) PROVE C[k].parent # arms[l].parent
      <4>1. C[k].parent \in tasks
        BY <1>6
      <4> HIDE DEF tasks
      <4>2. QED
        BY <1>4, <4>1
    <3>2. CASE i <= Len(arms) /\ j <= Len(arms)
      BY <2>3, <3>0, <3>2 DEF MasteryInv, PoolArmsInv
    <3>3. CASE i > Len(arms) /\ j > Len(arms)
      <4>1. i - Len(arms) = j - Len(arms)
        BY <1>6, <2>3, <3>0, <3>3
      <4>2. i \in Int /\ j \in Int
        OBVIOUS
      <4>3. QED
        BY <1>3, <4>1, <4>2
    <3>4. CASE i <= Len(arms) /\ j > Len(arms)
      BY <2>3, <3>0, <3>1, <3>4
    <3>5. CASE i > Len(arms) /\ j <= Len(arms)
      BY <2>3, <3>0, <3>1, <3>5
    <3>6. QED
      BY <3>0, <3>2, <3>3, <3>4, <3>5
  <2>4. QED
    BY <2>1, <2>2, <2>3 DEF PoolArmsInv
<1>13. arm \in 0..Len(arms) /\ arm \in 0..Len(arms') /\ (arm # 0 => arms'[arm] = arms[arm])
  BY <1>3, <1>7, <1>10 DEF MasteryInv, ArmInHandInv
<1>14. ArmInHandInv'
  BY <1>2, <1>13 DEF MasteryInv, ArmInHandInv
<1>15. RelabelIsAnotherGoal'
  <2>1. achieved # <<>> => arms'[arm] = arms[arm]
    BY <1>13 DEF MasteryInv, ArmInHandInv
  <2>2. QED
    BY <1>2, <2>1 DEF MasteryInv, RelabelIsAnotherGoal
<1>16. MaskedInv(posts, samplable)' /\ (kept # Nobody => MaskedInv(kept.posts, kept.samplable))'
  BY <1>2, <1>11 DEF MasteryInv, MaskedInv
<1>17. QED
  BY <1>12, <1>14, <1>15, <1>16 DEF MasteryInv

(* Every step of pool, teacher and file keeps the inductive invariant. *)
LEMMA MasteryStep == MasteryInv /\ [PoolNext]_poolVars => MasteryInv'
<1>1. MasteryInv /\ (SampleRefused \/ UNCHANGED poolVars) => MasteryInv'
  <2> SUFFICES ASSUME MasteryInv, SampleRefused \/ UNCHANGED poolVars PROVE MasteryInv'
    OBVIOUS
  <2>1. /\ UNCHANGED <<arms, nTasks, posts, samplable, arm, achieved, target, kept>>
        /\ poolPc' = "dead" => poolPc = "dead"
    BY DEF SampleRefused, poolVars
  <2>2. PoolArmsInv' /\ ArmInHandInv'
    BY <2>1 DEF MasteryInv, PoolArmsInv, ArmInHandInv
  <2>3. RelabelIsAnotherGoal'
    BY <2>1 DEF MasteryInv, RelabelIsAnotherGoal
  <2>4. QED
    BY <2>1, <2>2, <2>3 DEF MasteryInv, MaskedInv
<1>2. QED
  BY <1>1, SampleAndRollKeeps, RelabelDeadKeeps, SplitMasteredKeeps, SavePoolKeeps, ReloadPoolKeeps DEF PoolNext

(* Arms that follow the pool's tasks are sound. *)
LEMMA ArmsFollow == MasteryInv => ArmsAreSound
<1> SUFFICES ASSUME MasteryInv PROVE ArmsAreSound
  OBVIOUS
<1> DEFINE n == Len(PoolArms)
<1>1. /\ Len(arms) \in Nat /\ n \in Nat /\ DOMAIN arms = 1..Len(arms) /\ n <= Len(arms)
      /\ DOMAIN posts = 1..Len(posts) /\ \A i \in 1..n : PoolArms[i].source # "split"
  BY LenProperties, PoolIsKnown DEF MasteryInv, PoolArmsInv, MaskedInv
<1>2. RolledArmsAreReal
  BY <1>1 DEF RolledArmsAreReal, MasteryInv, ArmInHandInv, MaskedInv
<1>3. ASSUME NEW c \in 1..Len(arms), arms[c].source = "split"
      PROVE  /\ c > n /\ arms[c].parent \in 1..n /\ arms[arms[c].parent].source # "split"
             /\ arms[c].goal = arms[arms[c].parent].goal
  <2>1. c > n
    BY <1>1, <1>3 DEF MasteryInv, PoolArmsInv
  <2>2. QED
    BY <1>1, <2>1 DEF MasteryInv, PoolArmsInv
<1>4. ASSUME NEW c \in 1..Len(arms), arms[c].source = "split", NEW d \in 1..Len(arms),
             arms[d].parent = arms[c].parent, arms[d].bin = arms[c].bin
      PROVE  d = c
  <2>1. c > n /\ arms[c].parent \in 1..n
    BY <1>3, <1>4
  <2>2. d > n
    <3>1. \A i \in 1..n : arms[i].parent = 0
      BY PoolIsKnown DEF MasteryInv, PoolArmsInv
    <3>2. QED
      BY <1>1, <1>4, <2>1, <3>1
  <2>3. QED
    BY <1>4, <2>1, <2>2 DEF MasteryInv, PoolArmsInv
<1>5. TasksSplitOnce
  BY <1>1, <1>3, <1>4 DEF TasksSplitOnce
<1>6. QED
  BY <1>2, <1>5 DEF ArmsAreSound

(* Groups are rolled on arms the environment knows and may roll, no arm    *)
(* that exists for relabelling has evidence, and a mastered task is split  *)
(* once (cosmos_libero.py).                                                *)
THEOREM ArmsAreSoundHolds == PoolSpec => []ArmsAreSound
BY MasteryInitial, MasteryStep, ArmsFollow, PTL DEF PoolSpec

(* A dead group is relabelled to another goal that a rollout achieved, the *)
(* deepest of its own sub-goals if any was.                                *)
THEOREM RelabelIsAnotherGoalHolds == PoolSpec => []RelabelIsAnotherGoal
<1>1. MasteryInv => RelabelIsAnotherGoal
  BY DEF MasteryInv
<1>2. QED
  BY <1>1, MasteryInitial, MasteryStep, PTL DEF PoolSpec
===============================================================================
