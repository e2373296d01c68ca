----------------------------- MODULE LevelBuffer -----------------------------
(***************************************************************************)
(* Prioritized level replay of the UED benchmark under overlay v4          *)
(* (apply_minimax_overlay_v4.py, frontier_activity.py, tie_aware_rank.py), *)
(* with the telemetry ledger of its groups and the analyzer that validates *)
(* the ledger (frontier_calibration_telemetry.py).                         *)
(*                                                                         *)
(* One cycle evaluates n_parallel levels n_eval times each: new levels,    *)
(* or levels replayed from the buffer.  A group is the successes and the   *)
(* completed trials of its level.  Which slot a full buffer gives up, and  *)
(* which slots are replayed, is the upstream manager's choice: here any.   *)
(* The arm is "frontier" in its exact mode, with robust PLR and unique     *)
(* levels.                                                                 *)
(***************************************************************************)
EXTENDS Integers, Sequences, FiniteSetsExt, Ascending

CONSTANTS
  Mazes,         \* the levels, named by their hash
  BufferSize,    \* buffer_size
  Parallel,      \* n_parallel: groups in a cycle
  NEval,         \* frontier_n_eval = frontier_n_rollouts
  GroupOutcomes, \* successes and completed trials a group may have
  MinFilled,     \* filled slots from which a cycle may replay
  UpdateTarget,  \* target_student_ppo_updates
  MaxCycles,     \* bound on the cycles
  RankWeights    \* (1/rank)^(1/temp), scaled so that the means below are whole

ASSUME LevelBufferAssumption ==
  /\ BufferSize \in Nat \ {0} /\ Parallel \in Nat \ {0} /\ MinFilled \in 1..BufferSize
  /\ NEval \in Nat /\ NEval >= 2
  /\ GroupOutcomes \subseteq {o \in (0..NEval) \X (0..NEval) : o[1] <= o[2]}
  /\ UpdateTarget \in Nat /\ MaxCycles \in Nat
  /\ RankWeights \in [1..BufferSize -> Nat]

(* The masses are fractions: the scale makes each mean of a block whole. *)
ASSUME RankWeightsAssumption ==
  \A p, q \in 1..BufferSize :
    p <= q => SumFunctionOnSet(RankWeights, p..q) % (1 + q - p) = 0

VARIABLES
  plrBuffer,   \* filled slots: level, generation of the slot, success and trial counts
  generation,  \* how often a slot has been filled by a new level
  cycleClock,  \* n_iters and n_updates
  plrCounters, \* incomplete, suppressed and doubly drawn groups
  telemetry    \* one row per group

levelVars == <<plrBuffer, generation, cycleClock, plrCounters, telemetry>>

Slots  == 1..BufferSize
Filled == DOMAIN plrBuffer

Plus(c, d) == <<c[1] + d[1], c[2] + d[2]>>

(* x (x + 1) ... (x + n - 1) *)
Rising(x, n) ==
  LET f[k \in 0..n] == IF k = 0 THEN 1 ELSE f[k - 1] * (x + k - 1) IN f[n]

(***************************************************************************)
(* expected_coefficient_activity under the uniform prior, as a fraction:   *)
(* with a successes and b failures, the prior's included, it is            *)
(* b / (a + b)  -  b ... (b + N - 1) / (a + b) ... (a + b + N - 1).        *)
(***************************************************************************)
Activity(counts) ==
  LET a == counts[1] + 1
      b == counts[2] - counts[1] + 1
  IN [num |-> b * Rising(a + b + 1, NEval - 1) - Rising(b, NEval), den |-> Rising(a + b, NEval)]

Higher(c, d) == Activity(c).num * Activity(d).den > Activity(d).num * Activity(c).den

LevelInit ==
  /\ plrBuffer = << >>
  /\ generation = [s \in Slots |-> 0]
  /\ cycleClock = [iters |-> 0, updates |-> 0]
  /\ plrCounters = [incomplete |-> 0, duplicateNew |-> 0, drawnAgain |-> 0]
  /\ telemetry = << >>

-----------------------------------------------------------------------------
(* A batch is a sequence of groups.  slot is the buffer slot of the group's *)
(* level, 0 if it has none.                                                 *)

WholeGroup(g) == g.outcome[2] = NEval

(* A level that the same batch already brought, and the buffer has not. *)
RepeatsNew(batch, i) ==
  batch[i].slot = 0 /\ \E j \in 1..(i - 1) : batch[j].level = batch[i].level

Counts(batch, i) == WholeGroup(batch[i]) /\ ~RepeatsNew(batch, i)

(* Mutant of ExistingFirst: the batch in its own order. *)
AsGenerated(batch) == [i \in 1..Len(batch) |-> i]

(* Groups of levels in the buffer come first, each part in its order. *)
ExistingFirst(batch) ==
  Ascending({i \in DOMAIN batch : batch[i].slot # 0}) \o
  Ascending({i \in DOMAIN batch : batch[i].slot = 0})

(* The first free slot, or the one the upstream manager would give up. *)
NextInsert(filled, victim) == IF filled = Slots THEN victim ELSE Min(Slots \ filled)

(* Mutant of BaseCounts: a new level goes on counting where its slot was. *)
SlotCounts(s, g, at) == IF at \in DOMAIN s.buffer THEN s.buffer[at].counts ELSE <<0, 0>>

(* Where a group's counts start: a new level has none. *)
BaseCounts(s, g, at) == IF g.slot = 0 THEN <<0, 0>> ELSE s.buffer[at].counts

(***************************************************************************)
(* One step of the scan: the group of position i is added to the level's   *)
(* counts, in the slot it has or in one it takes, unless what the slot     *)
(* holds scores higher.                                                    *)
(***************************************************************************)
StoreGroup(s, batch, i, victim) ==
  LET g         == batch[i]
      at        == IF g.slot = 0 THEN NextInsert(DOMAIN s.buffer, victim) ELSE g.slot
      candidate == Plus(BaseCounts(s, g, at), g.outcome)
      stores    == /\ Counts(batch, i)
                   /\ \/ g.slot # 0 \/ at \notin DOMAIN s.buffer
                      \/ ~Higher(s.buffer[at].counts, candidate)
      gen       == IF g.slot = 0 THEN s.generation[at] ELSE s.buffer[at].gen
      entry     == [level |-> g.level, gen |-> gen, counts |-> candidate]
  IN IF ~stores THEN s
     ELSE [buffer     |-> [t \in DOMAIN s.buffer \cup {at} |-> IF t = at THEN entry ELSE s.buffer[t]],
           generation |-> IF g.slot = 0 THEN [s.generation EXCEPT ![at] = @ + 1] ELSE s.generation,
           placed     |-> [s.placed EXCEPT ![i] = <<at, gen>>]]

(* The carry of the scan, after each of its steps. *)
Scan(batch, victims) ==
  LET order == ExistingFirst(batch)
      carry[k \in 0..Len(batch)] ==
        IF k = 0
        THEN [buffer |-> plrBuffer, generation |-> generation, placed |-> [i \in DOMAIN batch |-> << >>]]
        ELSE StoreGroup(carry[k - 1], batch, order[k], victims[order[k]])
  IN carry

UpdateBatch(batch, victims) == Scan(batch, victims)[Len(batch)]

-----------------------------------------------------------------------------
(* The telemetry writer: what the row of a group says about it. *)

Persists(post, after) == post # << >> /\ post[1] \in DOMAIN after.buffer /\ after.buffer[post[1]].gen = post[2]

Disposition(batch, i, persists, after) ==
  IF ~WholeGroup(batch[i]) THEN "incomplete_rejected"
  ELSE IF RepeatsNew(batch, i) THEN "duplicate_new_rejected"
  ELSE IF batch[i].slot # 0 THEN "updated"
  ELSE IF after.placed[i] = << >> THEN "valid_not_persisted"
  ELSE IF persists THEN "inserted" ELSE "inserted_then_evicted"

TelemetryRow(branch, batch, i, after) ==
  LET g        == batch[i]
      pre      == IF g.slot = 0 THEN << >> ELSE <<g.slot, plrBuffer[g.slot].gen>>
      post     == IF g.slot = 0 THEN after.placed[i] ELSE pre
      persists == Persists(post, after)
      before   == IF g.slot = 0 THEN <<0, 0>> ELSE plrBuffer[g.slot].counts
      label    == Disposition(batch, i, persists, after)
  IN [level |-> g.level, source |-> branch, current |-> g.outcome, pre |-> pre, post |-> post,
      before |-> before, disposition |-> label, persisted |-> persists,
      after |-> IF persists THEN after.buffer[post[1]].counts
                ELSE IF label = "inserted_then_evicted" THEN Plus(before, g.outcome) ELSE before,
      clock |-> cycleClock, clockAfter |-> cycleClock']

(* Everything a cycle changes.  Robust PLR updates the student on replay only. *)
RunCycle(branch, batch, victims) ==
  LET after == UpdateBatch(batch, victims)
  IN /\ plrBuffer' = after.buffer /\ generation' = after.generation
     /\ cycleClock' = [iters |-> cycleClock.iters + 1,
                       updates |-> cycleClock.updates + IF branch = "replay" THEN 1 ELSE 0]
     /\ plrCounters' =
          [incomplete   |-> plrCounters.incomplete
                              + Cardinality({i \in DOMAIN batch : ~WholeGroup(batch[i])}),
           duplicateNew |-> plrCounters.duplicateNew
                              + Cardinality({i \in DOMAIN batch : RepeatsNew(batch, i)}),
           drawnAgain   |-> plrCounters.drawnAgain
                              + IF branch = "replay"
                                THEN Parallel - Cardinality({batch[i].slot : i \in DOMAIN batch}) ELSE 0]
     /\ telemetry' = telemetry \o [i \in 1..Parallel |-> TelemetryRow(branch, batch, i, after)]

MoreCycles == cycleClock.iters < MaxCycles /\ cycleClock.updates < UpdateTarget

SlotOfLevel(l) == IF \E s \in Filled : plrBuffer[s].level = l
                  THEN CHOOSE s \in Filled : plrBuffer[s].level = l ELSE 0

(* A cycle of generated levels; one that the buffer has goes to its slot. *)
NewCycle ==
  /\ MoreCycles
  /\ \E made \in [1..Parallel -> Mazes], outcomes \in [1..Parallel -> GroupOutcomes],
        victims \in [1..Parallel -> Slots] :
       RunCycle("new", [i \in 1..Parallel |-> [level |-> made[i], slot |-> SlotOfLevel(made[i]),
                                                outcome |-> outcomes[i]]], victims)

(* A cycle of replayed levels, drawn with replacement. *)
ReplayCycle ==
  /\ MoreCycles /\ Cardinality(Filled) >= MinFilled
  /\ \E drawn \in [1..Parallel -> Filled], outcomes \in [1..Parallel -> GroupOutcomes] :
       RunCycle("replay", [i \in 1..Parallel |-> [level |-> plrBuffer[drawn[i]].level, slot |-> drawn[i],
                                                   outcome |-> outcomes[i]]], drawn)

LevelNext == NewCycle \/ ReplayCycle

LevelSpec == LevelInit /\ [][LevelNext]_levelVars

-----------------------------------------------------------------------------
(* The analyzer.  A row's cycle is the n_iters it started from. *)

Rows     == DOMAIN telemetry
CycleOf(r) == telemetry[r].clock.iters
NewRow(r)  == telemetry[r].source = "new"
Stored   == {"inserted", "inserted_then_evicted"}
TookEvidence(r) == telemetry[r].disposition \in Stored \cup {"updated"}

(* Successes and completed trials of a set of rows. *)
Evidence(S) == <<SumFunctionOnSet([r \in S |-> telemetry[r].current[1]], S),
                 SumFunctionOnSet([r \in S |-> telemetry[r].current[2]], S)>>

(* Snapshot of a level in a cycle: its rows. *)
Siblings(r) == {q \in Rows : CycleOf(q) = CycleOf(r) /\ telemetry[q].level = telemetry[r].level}

(* _validate_common_event, _validate_frontier_event: what one row may say. *)
ValidEvent(r) ==
  LET e == telemetry[r]
  IN /\ (e.current[2] = NEval) <=> (e.disposition # "incomplete_rejected")
     /\ e.persisted <=> \/ e.disposition \in {"inserted", "updated"}
                        \/ e.source = "replay" /\ e.disposition = "incomplete_rejected"
     /\ IF NewRow(r)
        THEN /\ e.pre = << >> /\ e.disposition # "updated"
             /\ (e.post # << >>) <=> (e.disposition \in Stored)
        ELSE /\ e.pre # << >> /\ e.post = e.pre
             /\ e.disposition \in {"updated", "incomplete_rejected"}

(* _validate_cycle_update_ledger: one branch and one clock per cycle. *)
ValidClocks ==
  /\ telemetry # << >> => telemetry[1].clock = [iters |-> 0, updates |-> 0]
  /\ \A r \in Rows :
       LET e == telemetry[r]
       IN /\ e.clockAfter.iters = e.clock.iters + 1
          /\ e.clockAfter.updates = e.clock.updates + IF NewRow(r) THEN 0 ELSE 1
          /\ \A q \in Rows : CycleOf(q) = CycleOf(r) =>
               telemetry[q].clock = e.clock /\ telemetry[q].source = e.source
          /\ \A q \in Rows : CycleOf(q) = CycleOf(r) + 1 => telemetry[q].clock = e.clockAfter

(* _validate_snapshot_chains, first part: the rows of a snapshot agree, and *)
(* what it ends with is what it began with and the evidence they accepted.  *)
ValidSnapshot(r) ==
  LET e == telemetry[r]
      taken == {q \in Siblings(r) : TookEvidence(q)}
  IN /\ \A q \in Siblings(r) : [telemetry[q] EXCEPT !.current = e.current] = e
     /\ NewRow(r) => Siblings(r) = {r}
     /\ e.after = Plus(e.before, Evidence(taken))
     /\ e.post # << >> => \A q \in Rows : telemetry[q].post = e.post => telemetry[q].level = e.level

(* Second part: a level begins new and goes on from where it was left. *)
ValidChain(r) ==
  LET earlier == {q \in Rows : telemetry[q].level = telemetry[r].level /\ CycleOf(q) < CycleOf(r)}
      last    == telemetry[Max(earlier)]
      e       == telemetry[r]
  IN IF earlier = {} THEN NewRow(r) /\ e.before = <<0, 0>>
     ELSE /\ last.persisted /\ ~NewRow(r)
          /\ e.pre = last.post /\ e.before = last.after

(* The insertions into a slot among the rows of these cycles, and the last. *)
Insertions(s, cycles) ==
  {q \in Rows : NewRow(q) /\ telemetry[q].post # << >> /\ telemetry[q].post[1] = s /\ CycleOf(q) \in cycles}

HoldsSlot(r, cycles) ==
  LET e == telemetry[r]
      into == Insertions(e.post[1], cycles)
  IN e.post # << >> /\ into # {} /\ telemetry[Max(into)].post = e.post /\ telemetry[Max(into)].level = e.level

(* Third part: the slots' generations advance by one, a replay is of the   *)
(* level its slot holds, and a row persists if its level holds the slot.   *)
ValidLifecycle(r) ==
  LET e == telemetry[r]
  IN /\ NewRow(r) /\ e.post # << >> =>
          e.post[2] = Cardinality({q \in Insertions(e.post[1], 0..CycleOf(r)) : q < r})
     /\ ~NewRow(r) => HoldsSlot(r, 0..(CycleOf(r) - 1))
     /\ e.persisted <=> HoldsSlot(r, 0..CycleOf(r))

(* _validate_receipt: the buffer's counters are those of the rows.  That a   *)
(* package also needs the first two to be zero is a condition on its run.    *)
ValidReceipt ==
  /\ plrCounters.incomplete = Cardinality({r \in Rows : telemetry[r].current[2] # NEval})
  /\ plrCounters.duplicateNew = Cardinality({r \in Rows : telemetry[r].disposition = "duplicate_new_rejected"})
  /\ plrCounters.duplicateNew + plrCounters.drawnAgain = Cardinality({r \in Rows : Min(Siblings(r)) # r})

ValidEvents ==
  /\ ValidClocks /\ ValidReceipt
  /\ \A r \in Rows : ValidEvent(r) /\ ValidSnapshot(r) /\ ValidChain(r) /\ ValidLifecycle(r)

-----------------------------------------------------------------------------
(* tie_aware_rank_mass: the rank weights of the filled slots, shared by ties. *)

ScoreAbove(s, t) == Higher(plrBuffer[s].counts, plrBuffer[t].counts)

(* Stable order by score, the empty slots last. *)
RankBefore(s, t) ==
  \/ s \in Filled /\ t \notin Filled
  \/ s \in Filled /\ t \in Filled /\ ScoreAbove(s, t)
  \/ /\ s < t
     /\ IF s \in Filled THEN t \notin Filled \/ ~ScoreAbove(t, s) ELSE t \notin Filled

RankOrder ==
  CHOOSE order \in [Slots -> Slots] : \A p, q \in Slots : p < q => RankBefore(order[p], order[q])

SameScore(s, t) == ~ScoreAbove(s, t) /\ ~ScoreAbove(t, s)

(* Mutant of StartsBlock: a block starts where the filled slots do. *)
StartsFilled(order, p) == order[p] \in Filled /\ p = 1

(* _sorted_tie_blocks *)
StartsBlock(order, p) ==
  /\ order[p] \in Filled
  /\ p > 1 => ~(order[p - 1] \in Filled /\ SameScore(order[p - 1], order[p]))

EndsBlock(order, p) ==
  /\ order[p] \in Filled
  /\ p < BufferSize => ~(order[p + 1] \in Filled /\ SameScore(order[p], order[p + 1]))

(***************************************************************************)
(* The scans: prefix sums that restart at each block, then the sum at a    *)
(* block's end carried back through the block; and the block's bounds.     *)
(***************************************************************************)
RankMass ==
  LET order == RankOrder
      mass  == [p \in Slots |-> IF order[p] \in Filled THEN RankWeights[p] ELSE 0]
      prefix[p \in Slots] ==
        IF p = 1 \/ StartsBlock(order, p) THEN mass[p] ELSE prefix[p - 1] + mass[p]
      total[p \in Slots] ==
        IF EndsBlock(order, p) THEN prefix[p] ELSE IF p = BufferSize THEN 0 ELSE total[p + 1]
      first(p) == Max({1} \cup {q \in 1..p : StartsBlock(order, q)})
      last(p)  == Min({BufferSize} \cup {q \in p..BufferSize : EndsBlock(order, q)})
      mean(p)  == IF first(p) = last(p) THEN mass[p] ELSE total[p] \div (1 + last(p) - first(p))
      rank     == [s \in Slots |-> CHOOSE p \in Slots : order[p] = s]
  IN [s \in Slots |-> IF s \in Filled THEN mean(rank[s]) ELSE 0]

-----------------------------------------------------------------------------

(* The groups of the level in slot s since it was inserted there. *)
SeenSince(s) ==
  {r \in Rows : /\ telemetry[r].level = plrBuffer[s].level
                /\ telemetry[r].current[2] = NEval
                /\ telemetry[r].disposition # "duplicate_new_rejected"
                /\ \E q \in Rows : /\ q <= r /\ telemetry[q].pre = << >>
                                   /\ telemetry[q].post = <<s, plrBuffer[s].gen>>}

(***************************************************************************)
(* What the buffer counts for a level is what was seen of that level since *)
(* it came into the slot: the whole groups of it, once each, also where a  *)
(* batch brings a level the buffer holds together with a new one that      *)
(* takes its slot.                                                         *)
(***************************************************************************)
EvidenceStaysWithLevel == \A s \in Filled : plrBuffer[s].counts = Evidence(SeenSince(s))

(***************************************************************************)
(* The analyzer accepts the ledger of every clean run: one in which no     *)
(* level is generated twice, and the groups of a level drawn twice for a   *)
(* cycle are all whole or none is.                                         *)
(***************************************************************************)
CleanRun ==
  /\ \A r, q \in Rows : r # q /\ NewRow(r) /\ NewRow(q) => telemetry[r].level # telemetry[q].level
  /\ \A r \in Rows : \A q \in Siblings(r) :
       telemetry[q].current[2] = NEval <=> telemetry[r].current[2] = NEval

CleanRunValidates == CleanRun => ValidEvents

(***************************************************************************)
(* The masses computed by the scans are those of the documented rule: a    *)
(* filled slot has the mean of the weights of the ranks its ties occupy,   *)
(* whatever slots they are in, and an empty slot has none.                 *)
(***************************************************************************)
TiesShareTheirRanks ==
  LET mass     == RankMass
      ties(s)  == Cardinality({t \in Filled : SameScore(s, t)})
      above(s) == Cardinality({t \in Filled : ScoreAbove(t, s)})
  IN /\ \A s \in Slots \ Filled : mass[s] = 0
     /\ \A s \in Filled :
          mass[s] * ties(s) = SumFunctionOnSet(RankWeights, (above(s) + 1)..(above(s) + ties(s)))

=============================================================================
