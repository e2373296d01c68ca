------------------------------ MODULE MCLearners ------------------------------
(* Model-checking instance of the learners: the trainer under a teacher    *)
(* that locks tasks away, the adapters that keep a posterior of their own, *)
(* and the replay arms of the Countdown experiment.  They share no state;  *)
(* a behaviour is one of them, chosen at the start.                        *)
EXTENDS FrontierTrainer, BinCurriculum, PromptSampler, MasteryPool, LiveReplay

VARIABLE learner

Learners == {"trainer", "bins", "prompts", "pool", "replay"}

HardestFirst == [i \in 1..3 |-> 4 - i]
Goals        == <<{"lift", "place"}, {"place"}>>
RelabelOnly  == <<{"lift"}>>

(* Two prompts a step, whose groups have two or three tokens; B2 accepted  *)
(* none, one or both, and at one row stated no total; two frozen groups.   *)
B2Rows == {[tokens |-> <<3, 2>>, accepted |-> {}, stated |-> FALSE],
           [tokens |-> <<2, 2>>, accepted |-> {}, stated |-> TRUE],
           [tokens |-> <<2, 3>>, accepted |-> {1}, stated |-> TRUE],
           [tokens |-> <<3, 3>>, accepted |-> {2}, stated |-> TRUE],
           [tokens |-> <<3, 2>>, accepted |-> {1, 2}, stated |-> TRUE]}
FrozenGroups == {[index |-> 2, born |-> 0, tokens |-> 2, informative |-> TRUE],
                 [index |-> 3, born |-> 0, tokens |-> 3, informative |-> TRUE]}

(* The learners that are not chosen start in one state. *)
LearnersInit ==
  /\ learner \in Learners
  /\ Init /\ BinInit /\ SamplerInit /\ PoolInit /\ ReplayInit
  /\ learner # "trainer" => ~floored
  /\ learner # "bins" => given /\ floor = 0 /\ level = [e \in Envs |-> 0]
  /\ learner # "replay" => mode = "live"

LearnersNext ==
  \/ /\ learner = "trainer" /\ Next
     /\ UNCHANGED <<learner, binVars, samplerVars, poolVars, replayVars>>
  \/ /\ learner = "bins" /\ BinNext
     /\ UNCHANGED <<learner, vars, samplerVars, poolVars, replayVars>>
  \/ /\ learner = "prompts" /\ SamplerNext
     /\ UNCHANGED <<learner, vars, binVars, poolVars, replayVars>>
  \/ /\ learner = "pool" /\ PoolNext
     /\ UNCHANGED <<learner, vars, binVars, samplerVars, replayVars>>
  \/ /\ learner = "replay" /\ ReplayNext
     /\ UNCHANGED <<learner, vars, binVars, samplerVars, poolVars>>

LearnersSpec ==
  LearnersInit /\ [][LearnersNext]_<<vars, binVars, samplerVars, poolVars,
                                     replayVars, learner>>
=============================================================================
