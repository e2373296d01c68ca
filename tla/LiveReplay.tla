------------------------------ MODULE LiveReplay ------------------------------
(***************************************************************************)
(* verl_integration/vendored/hindsight.py: DoseMatchedLiveReplay, the      *)
(* control arms of the Countdown experiment.  At every step the groups     *)
(* that arm B2 relabelled are replaced by copies of informative groups, so *)
(* that the response tokens trained on follow B2's, and the run stops when *)
(* either cumulative count leaves its tolerance.  The E2c arm takes its    *)
(* copies from a frozen reservoir that preflight_e2c.py has tried against  *)
(* B2's schedule, and analyze_e2c.py validates what a finished run wrote.  *)
(*                                                                         *)
(* A group is named by its dataset index and the step that generated it; a *)
(* copy keeps the name of what it copies.  Every arm runs with strict on,  *)
(* and every group is of a supported data source and of one size, as every *)
(* batch is.  The data order is B2's when the seed and the loader are, so  *)
(* a run may or may not generate the prompts B2 accepted.  B2's audit has  *)
(* no total for a step whose batch had no dead group, where relabel_batch  *)
(* returns before it counts.                                               *)
(***************************************************************************)
EXTENDS Integers, Sequences, FiniteSetsExt, Ascending

CONSTANTS
  Rows,             \* rows of B2's schedule: tokens by index, accepted indices, and
                    \* whether the row states their total
  DataOrders,       \* the sets of indices the run may generate
  Tokens,           \* response tokens a group may have
  Reservoir,        \* the frozen groups: a set of groups born at step 0
  TolNum, TolDen,   \* max_cumulative_token_mismatch_fraction
  Capacity, MaxAge, \* buffer_capacity_groups, max_buffer_age_steps
  Steps             \* steps of a run

ASSUME ReplayAssumption ==
  /\ {Capacity, MaxAge, Steps, TolDen} \subseteq Nat \ {0} /\ TolNum \in Nat
  /\ Tokens \subseteq Nat \ {0}
  /\ Reservoir \subseteq [index : Nat, born : {0}, tokens : Tokens, informative : {TRUE}]
  /\ \A order \in DataOrders : order \subseteq Nat /\ IsFiniteSet(order)
  /\ \A r \in Rows : /\ IsFiniteSet(DOMAIN r.tokens)
                     /\ \A i \in DOMAIN r.tokens : r.tokens[i] \in Tokens
                     /\ r.accepted \subseteq DOMAIN r.tokens
                     /\ r.stated \in BOOLEAN
                     /\ ~r.stated => r.accepted = {}

VARIABLES
  mode,     \* sources: "live", "buffered" or "reservoir"
  stage,    \* "generate", "replay", "update", "done", "stopped", "valid", "rejected"
  now,      \* global_step
  row,      \* the schedule's row: B2's tokens by index, what it accepted, if stated
  produced, \* the batch as generated
  rows,     \* the batch as trained on
  buffer,   \* replay_buffer, oldest first
  ledger,   \* the four cumulative token counts
  forecast, \* the same counts as the preflight worked them out
  parity,   \* the tokens that were not replaced have been B2's at every step
  trained   \* tokens of the batches the policy was updated on, and B2's; apart
            \* from them, those of the steps at which B2's row states no total

replayVars ==
  <<mode, stage, now, row, produced, rows, buffer, ledger, forecast, parity, trained>>

NoTokens == [targetAux |-> 0, aux |-> 0, targetOpt |-> 0, opt |-> 0]
NoRow   == [tokens |-> <<>>, accepted |-> {}, stated |-> TRUE]
NothingTrained == [targetAux |-> 0, aux |-> 0, targetOpt |-> 0, opt |-> 0, own |-> 0]

ReplayInit ==
  /\ mode \in {"live", "buffered", "reservoir"}
  /\ stage = "generate"
  /\ now = 0
  /\ row = NoRow
  /\ produced = <<>> /\ rows = <<>>
  /\ buffer = <<>>
  /\ ledger = NoTokens /\ forecast = NoTokens /\ trained = NothingTrained
  /\ parity = TRUE

-------------------------------------------------------------------------------
Gap(a, b) == IF a < b THEN b - a ELSE a - b

(* Token sums: of B2's groups and of a batch, over a set of indices. *)
Planned(r, S)  == SumFunctionOnSet(r.tokens, S)
Total(b, S)    == SumFunctionOnSet([i \in S |-> b[i].tokens], S)

(* A slot replays neither itself nor, from the reservoir, its own prompt.  *)
Distinct(source, i) == source.index # i \/ source.born \in 1..(now - 1)

(* A source for each target, with repetition. *)
Assignments(targets, sources) ==
  {f \in [targets -> sources] : \A i \in targets : Distinct(f[i], i)}

(* expected_optimizer_tokens: where the row states no total, the tokens    *)
(* the run generated itself stand in for it.                               *)
Expected(r, generated) == IF r.stated THEN Planned(r, DOMAIN r.tokens) ELSE generated

(* The counts after a step that replays f and trains on rest other tokens; *)
(* at a row without a total nothing is replayed, and rest is the batch.    *)
Booked(l, r, rest, f) ==
  LET total == Total(f, DOMAIN f)
  IN  [targetAux |-> l.targetAux + Planned(r, r.accepted),
       aux       |-> l.aux + total,
       targetOpt |-> l.targetOpt + Expected(r, rest),
       opt       |-> l.opt + rest + total]

(* objective: the fractions have the same denominators for every choice. *)
Objective(l, r, rest, f) ==
  LET b == Booked(l, r, rest, f)
      x == Gap(b.aux, b.targetAux)
      y == Gap(b.opt, b.targetOpt)
      p == x * Max({b.targetOpt, 1})
      q == y * Max({b.targetAux, 1})
  IN  <<Max({p, q}), p + q, x, y, b.aux - l.aux>>

Before(a, b) ==
  \E k \in DOMAIN a : a[k] < b[k] /\ \A j \in 1..(k - 1) : a[j] = b[j]

(* _select_sources: the token total is the least by the objective, and a   *)
(* seeded order decides among the choices that attain it.                  *)
Selected(l, r, rest, choices) ==
  {f \in choices :
     \A g \in choices : ~Before(Objective(l, r, rest, g), Objective(l, r, rest, f))}

Exceeds(actual, target) == Gap(actual, target) * TolDen > TolNum * Max({target, 1})

(* Mutant of Stops: neither count is compared when nothing was replayed. *)
StopsIfReplayed(l, targets) ==
  targets # {} /\ (Exceeds(l.aux, l.targetAux)
                   \/ Exceeds(l.opt, l.targetOpt))

(* The auxiliary count is compared at the steps that replay something. *)
Stops(l, targets) ==
  \/ targets # {} /\ Exceeds(l.aux, l.targetAux)
  \/ Exceeds(l.opt, l.targetOpt)

(* Mutant of Rest: the target slots' own tokens are not taken off. *)
RestAll(tokens, targets) == SumFunctionOnSet(tokens, DOMAIN tokens)

(* Tokens a step trains on besides the replayed ones. *)
Rest(tokens, targets) == SumFunctionOnSet(tokens, DOMAIN tokens \ targets)

(* validate_schedule_support, at one step: what the replay will choose if  *)
(* the tokens it does not replace are B2's.  A row without totals is       *)
(* refused.                                                                *)
Forecasts(r) ==
  LET rest == Rest(r.tokens, r.accepted)
      fs   == Selected(forecast, r, rest, Assignments(r.accepted, Reservoir))
  IN  {l \in {Booked(forecast, r, rest, f) : f \in fs} : r.stated /\ ~Stops(l, {1})}

-------------------------------------------------------------------------------
(* B2's row and the batch of this step.  The reservoir arm starts only     *)
(* after the preflight accepted every row of its schedule.                 *)
Generate ==
  /\ stage = "generate"
  /\ now < Steps
  /\ now' = now + 1
  /\ row' \in Rows
  /\ \E order \in DataOrders :
       produced' \in [order -> [index : order, born : {now'}, tokens : Tokens,
                                informative : BOOLEAN]]
  /\ \A i \in DOMAIN produced' : produced'[i].index = i
  /\ rows' = produced'
  /\ forecast' \in IF mode = "reservoir" THEN Forecasts(row') ELSE {NoTokens}
  /\ parity' = (parity /\ row'.accepted \subseteq DOMAIN produced'
                       /\ Total(produced', DOMAIN produced' \ row'.accepted)
                            = Planned(row', DOMAIN row'.tokens \ row'.accepted))
  /\ stage' = "replay"
  /\ UNCHANGED <<mode, buffer, ledger, trained>>

Live    == {g \in Range(rows) : g.informative}
Recent  == Entries(buffer, {k \in DOMAIN buffer : now - buffer[k].born <= MaxAge})
Sources == IF mode = "reservoir" THEN Reservoir ELSE Live \cup Range(Recent)

(* replay_buffer after the step: the groups generated now, as they were    *)
(* generated, behind those that are young enough.                          *)
Rebuffered ==
  LET added == Entries(rows, {i \in DOMAIN rows : rows[i].informative})
      all   == Recent \o added
  IN  IF mode # "buffered" THEN Recent
      ELSE SubSeq(all, Max({1, Len(all) - Capacity + 1}), Len(all))

(* Mutant of Copied: a row is read when its copy is written. *)
CopiedInPlace(f) ==
  [i \in DOMAIN rows |->
     IF i \notin DOMAIN f THEN rows[i]
     ELSE LET s == f[i] IN
          IF s.born = now /\ s.index < i /\ s.index \in DOMAIN f THEN f[s.index] ELSE s]

(* Every payload was taken before the first row is written. *)
Copied(f) == [i \in DOMAIN rows |-> IF i \in DOMAIN f THEN f[i] ELSE rows[i]]

(* replay_batch. *)
Replay ==
  /\ stage = "replay"
  /\ row.accepted \subseteq DOMAIN rows
  /\ LET rest == Rest([i \in DOMAIN rows |-> rows[i].tokens], row.accepted)
     IN  \E f \in Selected(ledger, row, rest, Assignments(row.accepted, Sources)) :
           /\ rows' = Copied(f)
           /\ ledger' = [targetAux |-> ledger.targetAux + Planned(row, row.accepted),
                         aux       |-> ledger.aux + Total(rows', row.accepted),
                         targetOpt |-> ledger.targetOpt + Expected(row, Total(rows, DOMAIN rows)),
                         opt       |-> ledger.opt + Total(rows', DOMAIN rows')]
  /\ buffer' = Rebuffered
  /\ stage' = IF Stops(ledger', row.accepted) THEN "stopped" ELSE "update"
  /\ UNCHANGED <<mode, now, row, produced, forecast, parity, trained>>

(* replay_batch raises: there is no source, none but a slot's own group,   *)
(* or the batch lacks a prompt B2 accepted.                                *)
RefuseReplay ==
  /\ stage = "replay"
  /\ \/ ~(row.accepted \subseteq DOMAIN rows)
     \/ Assignments(row.accepted, Sources) = {}
  /\ stage' = "stopped"
  /\ row' = NoRow /\ produced' = <<>> /\ rows' = <<>>
  /\ UNCHANGED <<mode, now, buffer, ledger, forecast, parity, trained>>

(* The optimizer update, on the rows as replay_batch left them. *)
UpdatePolicy ==
  /\ stage = "update"
  /\ trained' = [targetAux |-> trained.targetAux + Planned(row, row.accepted),
                 aux       |-> trained.aux + Total(rows, {i \in DOMAIN rows : rows[i] # produced[i]}),
                 targetOpt |-> trained.targetOpt + Expected(row, 0),
                 opt       |-> trained.opt + (IF row.stated THEN Total(rows, DOMAIN rows) ELSE 0),
                 own       |-> trained.own + (IF row.stated THEN 0 ELSE Total(rows, DOMAIN rows))]
  /\ stage' = IF now = Steps THEN "done" ELSE "generate"
  /\ row' = NoRow /\ produced' = <<>> /\ rows' = <<>>
  /\ UNCHANGED <<mode, now, buffer, ledger, forecast, parity>>

-------------------------------------------------------------------------------
(* The mismatch fractions a row of replay_accounting.jsonl has, and those  *)
(* validate_seed of analyze_e2c.py reads; a missing one raises KeyError.   *)
AuditFields == {"replay/cumulative_token_mismatch_fraction",
                "replay/cumulative_optimizer_token_mismatch_fraction"}
FieldsRead  == {"replay/cumulative_token_mismatch_fraction",
                "replay/cumulative_optimizer_response_token_mismatch_fraction"}

Validate ==
  /\ stage = "done"
  /\ mode = "reservoir"
  /\ stage' = IF FieldsRead \subseteq AuditFields /\ ~Stops(ledger, {1})
              THEN "valid" ELSE "rejected"
  /\ UNCHANGED <<mode, now, row, produced, rows, buffer, ledger, forecast, parity, trained>>

ReplayNext == Generate \/ Replay \/ RefuseReplay \/ UpdatePolicy \/ Validate

ReplaySpec == ReplayInit /\ [][ReplayNext]_replayVars

-------------------------------------------------------------------------------
(* Properties. *)

(* What a step trains on: the slots B2 accepted hold informative groups as *)
(* they were generated, none its own, although a source may itself be a    *)
(* slot that is written; every other slot is untouched.  The buffer never  *)
(* takes a copy in, holds no more than its capacity, and offers nothing    *)
(* older than its age limit.                                               *)
ReplaysAreOriginals ==
  /\ stage = "update" =>
       /\ \A i \in DOMAIN rows \ row.accepted : rows[i] = produced[i]
       /\ \A i \in row.accepted :
            /\ rows[i] # produced[i] /\ rows[i].informative
            /\ CASE mode = "live"      -> rows[i] \in Range(produced)
                 [] mode = "buffered"  -> rows[i].born \in (now - MaxAge)..now
                 [] mode = "reservoir" -> rows[i] \in Reservoir /\ rows[i].index # i
  /\ Len(buffer) <= Capacity
  /\ \A k \in DOMAIN buffer : buffer[k].informative /\ buffer[k].born \in 1..now
  /\ \A j, k \in DOMAIN buffer :
       j < k => buffer[j].born < buffer[k].born
                \/ (buffer[j].born = buffer[k].born /\ buffer[j].index < buffer[k].index)

(* No update is ever made on counts out of tolerance, counted over the     *)
(* batches the policy was really updated on, the steps that replay nothing *)
(* included.  The replayed tokens stay within the tolerance of B2's.  All  *)
(* tokens do at the steps where B2's row states a total; what the run      *)
(* trained on at the other steps is held against nothing, and only widens  *)
(* the allowance.  A run on the reservoir has no such step, so its total   *)
(* is within the tolerance of B2's own.                                    *)
DoseStopsUpdate ==
  /\ ~Exceeds(trained.aux, trained.targetAux)
  /\ ~Exceeds(trained.opt + trained.own, trained.targetOpt + trained.own)
  /\ mode = "reservoir" => trained.own = 0

(* What the preflight promised: while the tokens that are not replaced are *)
(* B2's, a run on the reservoir chooses the totals the preflight chose,    *)
(* step by step, and so is never stopped.                                  *)
PreflightIsKept ==
  (mode = "reservoir" /\ parity) =>
    /\ stage # "stopped"
    /\ stage # "replay" => ledger = forecast

(* run_e2c_rtx5090.sh:396: "Held-out generation is deliberately last and   *)
(* cannot run unless all three delivery audits pass the validator above."  *)
(* A run that finished within its tolerances passes that validator.        *)
DeliveredRunValidates == stage # "rejected"
===============================================================================
