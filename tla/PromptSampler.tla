---------------------------- MODULE PromptSampler ----------------------------
(***************************************************************************)
(* verl_integration/curriculum.py and the patches that call it from the    *)
(* PPO trainer: CurriculumSampler draws the indices of a whole epoch from  *)
(* one distribution, the trainer rolls a batch of prompt groups, hindsight *)
(* rewrites the rewards of dead groups in place, and the teacher observes  *)
(* the batch.  Checkpoints save the teacher with the step.                 *)
(*                                                                         *)
(* A group is its number of successes; the posterior is the successes and  *)
(* the groups of each prompt, without decay.  The trainer, its dataloader  *)
(* and its checkpoints are known only by the patches.                      *)
(***************************************************************************)
EXTENDS Integers, Sequences, FiniteSets, Functions

CONSTANTS
  Prompts,     \* rows of the dataset; an epoch is as long
  BatchSize,   \* prompt groups of a training batch
  GroupSize,   \* rollouts of a group
  MaxBatches,  \* bound on the batches of the line of training
  MaxRestarts  \* bound on the restarts from a checkpoint

ASSUME SamplerAssumption ==
  /\ IsFiniteSet(Prompts) /\ Prompts # {}
  /\ {BatchSize, GroupSize, MaxBatches} \subseteq Nat \ {0}
  /\ MaxRestarts \in Nat
  /\ BatchSize <= Cardinality(Prompts)  \* the loader drops a short batch

VARIABLES
  phase,     \* "fetch", "scored", "relabelled" or "observed"
  ahead,     \* indices of the epoch not served yet
  sinceDraw, \* groups the posterior has moved by since the epoch was drawn
  hand,      \* the batch: prompt, uid, the rewards and those before hindsight
  belief,    \* the teacher's successes and visits by prompt
  scored,    \* successes and groups of each prompt as the reward function saw them
  batches,   \* batches of the line of training
  stored,    \* the last checkpoint
  resumed    \* restarts so far

samplerVars == <<phase, ahead, sinceDraw, hand, belief, scored, batches, stored, resumed>>

Epoch == Cardinality(Prompts)
Blank == [q \in Prompts |-> [hits |-> 0, groups |-> 0]]

SamplerInit ==
  /\ phase = "fetch"
  /\ ahead = <<>>
  /\ sinceDraw = 0
  /\ hand = <<>>
  /\ belief = Blank /\ scored = Blank
  /\ batches = 0
  /\ stored = [belief |-> Blank, scored |-> Blank, batches |-> 0]
  /\ resumed = 0

-------------------------------------------------------------------------------
(* CurriculumSampler.__iter__: the floor leaves every index possible, and  *)
(* the draws are with replacement.  The dataloader drops a short last      *)
(* batch.                                                                  *)
DrawEpoch ==
  /\ phase = "fetch"
  /\ Len(ahead) < BatchSize
  /\ ahead' \in [1..Epoch -> Prompts]
  /\ sinceDraw' = 0
  /\ UNCHANGED <<phase, hand, belief, scored, batches, stored, resumed>>

(* The groups of a batch, by uid; the same prompt may have several. *)
Credit(counts, groups) ==
  [q \in Prompts |->
    LET mine == {u \in DOMAIN groups : groups[u].prompt = q}
    IN  [hits   |-> counts[q].hits + SumFunction([u \in mine |-> groups[u].hits]),
         groups |-> counts[q].groups + Cardinality(mine)]]

(* One group per index: uids are given to the rows, not to the prompts. *)
RollBatch ==
  /\ phase = "fetch"
  /\ Len(ahead) >= BatchSize
  /\ batches < MaxBatches
  /\ \E k \in [1..BatchSize -> 0..GroupSize] :
       hand' = [u \in 1..BatchSize |->
                 [prompt |-> ahead[u], hits |-> k[u], rewarded |-> k[u]]]
  /\ ahead' = SubSeq(ahead, BatchSize + 1, Len(ahead))
  /\ scored' = Credit(scored, hand')
  /\ batches' = batches + 1
  /\ phase' = "scored"
  /\ UNCHANGED <<sinceDraw, belief, stored, resumed>>

(* relabel_batch writes rewards of dead groups into the reward tensor; the *)
(* clone taken before it keeps what was scored.  Mutant: no clone.         *)
RelabelBatchShared ==
  /\ phase = "scored"
  /\ \E gain \in [DOMAIN hand -> 0..GroupSize] :
       hand' = [u \in DOMAIN hand |->
                 IF hand[u].hits = 0
                 THEN [hand[u] EXCEPT !.rewarded = gain[u], !.hits = gain[u]] ELSE hand[u]]
  /\ phase' = "relabelled"
  /\ UNCHANGED <<ahead, sinceDraw, belief, scored, batches, stored, resumed>>

RelabelBatch ==
  /\ phase = "scored"
  /\ \E gain \in [DOMAIN hand -> 0..GroupSize] :
       hand' = [u \in DOMAIN hand |->
                 IF hand[u].hits = 0 THEN [hand[u] EXCEPT !.rewarded = gain[u]] ELSE hand[u]]
  /\ phase' = "relabelled"
  /\ UNCHANGED <<ahead, sinceDraw, belief, scored, batches, stored, resumed>>

(* observe_batch: one update of the posterior per uid. *)
ObserveBatch ==
  /\ phase = "relabelled"
  /\ belief' = Credit(belief, hand)
  /\ sinceDraw' = sinceDraw + Len(hand)
  /\ hand' = <<>>
  /\ phase' = "observed"
  /\ UNCHANGED <<ahead, scored, batches, stored, resumed>>

(* The step ends, with or without a checkpoint.  state_dict hands out the  *)
(* live arrays, which torch.save writes before anything else runs.         *)
EndBatch ==
  /\ phase = "observed"
  /\ phase' = "fetch"
  /\ stored' \in {stored, [belief |-> belief, scored |-> scored, batches |-> batches]}
  /\ UNCHANGED <<ahead, sinceDraw, hand, belief, scored, batches, resumed>>

(* A killed run is resumed from the checkpoint.  The sampler keeps no      *)
(* state: the loader iterates it anew and skips the batches of the epoch   *)
(* already served.                                                         *)
Resume ==
  /\ resumed < MaxRestarts
  /\ resumed' = resumed + 1
  /\ belief' = stored.belief
  /\ scored' = stored.scored
  /\ batches' = stored.batches
  /\ LET served == BatchSize * (stored.batches % (Epoch \div BatchSize))
     IN  ahead' \in [1..(Epoch - served) -> Prompts]
  /\ sinceDraw' = 0
  /\ hand' = <<>>
  /\ phase' = "fetch"
  /\ UNCHANGED stored

SamplerNext ==
  \/ DrawEpoch \/ RollBatch \/ RelabelBatch \/ ObserveBatch \/ EndBatch \/ Resume

SamplerSpec == SamplerInit /\ [][SamplerNext]_samplerVars

-------------------------------------------------------------------------------
(* Properties. *)

(* Between batches the posterior holds every group of the line of training *)
(* once, a prompt drawn twice in a batch twice, with the successes that    *)
(* were scored and not those hindsight wrote over them, also across a      *)
(* restart.                                                                *)
PosteriorIsWhatWasScored ==
  phase \in {"fetch", "observed"} => belief = scored

(* The posterior an index was drawn from is behind by the groups served    *)
(* from the same draw and by no more: a draw never serves a second epoch.  *)
DrawIsAnEpochOldAtMost ==
  sinceDraw + Len(ahead) + (IF phase \in {"scored", "relabelled"} THEN Len(hand) ELSE 0) <= Epoch

(* What the sampler is for: prompts are drawn from the scores of the line  *)
(* of training, unchanged by hindsight, by repeats within a batch and by   *)
(* restarts, and from scores no older than an epoch.                       *)
DrawsFollowScores == PosteriorIsWhatWasScored /\ DrawIsAnEpochOldAtMost
=============================================================================
