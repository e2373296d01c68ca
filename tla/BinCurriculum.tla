---------------------------- MODULE BinCurriculum ----------------------------
(***************************************************************************)
(* frontier_rl/adapters/isaaclab_curriculum.py: the curriculum term that   *)
(* Isaac Lab calls with the environments that reset, and its teacher.  A   *)
(* call credits the episodes that ended, draws new terrain levels for the  *)
(* same environments, and the scene is reset after it.                     *)
(*                                                                         *)
(* Evidence is counted without its decay, which weighs all bins alike; a   *)
(* draw is remembered by what its probabilities were computed from.        *)
(***************************************************************************)
EXTENDS Integers, FiniteSets

CONSTANTS
  Envs,     \* the vectorised environments
  Bins,     \* terrain levels
  Floors,   \* values uniform_floor may take
  MaxEnded, \* bound on the episodes of a bin
  Unset     \* no teacher, no checkpoint, no draw

ASSUME BinAssumption ==
  /\ IsFiniteSet(Envs) /\ MaxEnded \in Nat
  /\ Unset \notin Bins \cup [Bins -> [succ : Nat, fail : Nat]]

VARIABLES
  given,    \* the term was given n_bins; never changes
  level,    \* terrain.terrain_levels
  running,  \* level of the episode an environment is in, Unset before its first
  first,    \* level its first reset was credited to
  credited, \* the teacher's succ and fail by bin, or Unset before it is built
  floor,    \* teacher.floor
  dirty,    \* _dirty
  basis,    \* the evidence and the floor _probs was computed from
  drawn,    \* the basis of the levels drawn last, and what held then
  binFile,  \* the checkpoint file
  ended     \* outcomes by level in the line of training this process continues

terrain == <<level, running, first>>
binVars == <<given, terrain, credited, floor, dirty, basis, drawn, binFile, ended>>

Nothing  == [b \in Bins |-> [succ |-> 0, fail |-> 0]]
Evidence == IF credited = Unset THEN Nothing ELSE credited

BinInit ==
  /\ given \in BOOLEAN
  /\ level \in [Envs -> Bins]
  /\ running = [e \in Envs |-> Unset] /\ first = running
  /\ credited = IF given THEN Nothing ELSE Unset
  /\ floor \in Floors
  /\ dirty = TRUE
  /\ basis = Unset /\ drawn = Unset /\ binFile = Unset
  /\ ended = Nothing

-------------------------------------------------------------------------------
(* np.add.at over the environments that reset. *)
Tally(counts, bin, envs, failed) ==
  [b \in Bins |->
    [succ |-> counts[b].succ + Cardinality({e \in envs \ failed : bin[e] = b}),
     fail |-> counts[b].fail + Cardinality({e \in envs \cap failed : bin[e] = b})]]

(* The levels a call reads, before it draws.  Mutant: after. *)
BinsReadLate == level'
BinsRead     == level

(* sample_bins recomputes when something was observed or loaded; an empty  *)
(* batch is not observed.                                                  *)
Stale(envs) == dirty \/ envs # {}

(* FrontierTerrainTeacherTerm.__call__, and the reset of the scene that    *)
(* follows: the new levels are those of the next episodes.  The first      *)
(* reset of an environment ends no episode, and time_outs makes a failure  *)
(* of it.  metrics() leaves _probs recomputed, too.                        *)
Call ==
  \E envs \in SUBSET Envs, f \in Floors :
  \E failed \in SUBSET envs, to \in [envs -> Bins] :
    /\ {e \in envs : running[e] = Unset} \subseteq failed
    /\ floor' = f
    /\ level' = [e \in Envs |-> IF e \in envs THEN to[e] ELSE level[e]]
    /\ credited' = Tally(Evidence, BinsRead, envs, failed)
    /\ ended' = Tally(ended, running, envs, failed)
    /\ \A b \in Bins : ended'[b].succ + ended'[b].fail <= MaxEnded
    /\ basis' = IF Stale(envs) THEN <<credited', f>> ELSE basis
    /\ drawn' = IF envs = {} THEN drawn
                ELSE [by |-> basis', now |-> <<credited', f>>]
    /\ running' = [e \in Envs |-> IF e \in envs THEN level'[e] ELSE running[e]]
    /\ first' = [e \in Envs |-> IF e \in envs /\ first[e] = Unset THEN level[e] ELSE first[e]]
    /\ dirty' = FALSE
    /\ UNCHANGED <<given, binFile>>

(* state_dict copies; there is none without a teacher. *)
SaveTerm ==
  /\ credited # Unset
  /\ binFile' = credited
  /\ UNCHANGED <<given, terrain, credited, floor, dirty, basis, drawn, ended>>

(* Another process loads the checkpoint before the first call.  A term     *)
(* that builds its teacher on that call has none yet and drops it: its     *)
(* line of training begins anew.                                           *)
RestartTerm ==
  /\ binFile # Unset
  /\ level' \in [Envs -> Bins]
  /\ running' = [e \in Envs |-> Unset] /\ first' = running'
  /\ credited' = IF given THEN binFile ELSE Unset
  /\ ended' = IF given THEN binFile ELSE Nothing
  /\ floor' \in Floors
  /\ dirty' = TRUE
  /\ basis' = Unset /\ drawn' = Unset
  /\ UNCHANGED <<given, binFile>>

BinNext == Call \/ SaveTerm \/ RestartTerm
BinSpec == BinInit /\ [][BinNext]_binVars

-------------------------------------------------------------------------------
(* Properties. *)

(* Every episode of the line of training is credited, once, to the level   *)
(* it ran on, although the call that credits it also moves its environment *)
(* to another level, and a term that was given its bins takes up what its  *)
(* checkpoint held.  The evidence holds nothing else but one failure for   *)
(* the first reset of each environment of the process.                     *)
EvidenceFollowsEpisodes ==
  \A b \in Bins :
    /\ Evidence[b].succ = ended[b].succ
    /\ Evidence[b].fail = ended[b].fail + Cardinality({e \in Envs : first[e] = b})

(* No level is drawn from probabilities older than the evidence and the    *)
(* floor of its draw.                                                      *)
DrawsAreCurrent == drawn # Unset => drawn.by = drawn.now

(* What the curriculum is for: the levels that are played follow from the  *)
(* episodes that were played, none lost, none credited to another level,   *)
(* none too late for the next draw, with resets and restarts in any order. *)
LevelsFollowEpisodes == EvidenceFollowsEpisodes /\ DrawsAreCurrent
=============================================================================
