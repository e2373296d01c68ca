# A TLA+ model of curriculum-maxrl

The repository trains reinforcement-learning policies under a curriculum and
collects preregistered evidence about them.  Three of its parts carry logic that
is easy to get wrong and hard to test:

* the **evidence chains** (`src/hopper`, `src/icra2027`, `src/ued_benchmark`):
  shell and Python programs on several machines that share nothing but files and
  the Slurm scheduler.  They are interrupted, killed, rerun and run concurrently,
  and the evidence has to come out complete, recorded and unique;
* the **learners** (`src/frontier_rl`, `src/verl_integration`, the level buffer of
  `src/ued_benchmark`): a trainer and a teacher that feed each other.  What is
  sampled depends on what was observed, what is observed on what was sampled, and
  a restart may put the two out of step;
* the **drivers around a learner** (the BARN training run, the Countdown E2c
  driver, the AMaze gate campaign): loops over child processes and checkpoints
  with budgets, markers and locks.

This directory holds TLA+ modules for these parts, TLC runs that check them on
small instances, and TLAPS proofs of their main properties for every instance.

## Inventory

| Part | State | Operations | Talks to | Hard part |
|---|---|---|---|---|
| submitter, `hopper/submit_barn_campaign.sh` | local lock, ledger, pending marker, proposal; remote ledger, lock, stage; the held array | fresh submission, rerun, upload, remote install, release | ssh, Slurm, the ledger every later program reads | a crash or lost reply at any line; two checkouts; an install that outlives its submitter |
| seed task, `hopper/sbatch/barn_seed_cpu.sbatch` | work directory, claim file, canonical block | refuse, run, seal, claim, rename | Slurm accounting, ledger finalizer | requeue and partition run one job twice; the rename itself is not exclusive |
| ledger finalizer, `hopper/finalize_barn_ledger.sh` | what it has read so far; `finalized_ledgers/` | read the ledger, close the tree, ask the scheduler, publish | remote ledger, tree, `sacct` | three readings at three moments |
| attempt selection, `icra2027/select_barn_attempts.py` | none | choose the earliest complete attempt of a seed | finalized ledger | ties; a later ledger must not change the choice |
| campaign sealer, `hopper/finalize_barn_campaign.sh` | `.postprocess_locks/`, `sealed_campaigns/` | lock, select, merge, analyse, publish | finalized ledger, tree | two sealers; a killed sealer; late attempts |
| UED terminal chain, `hopper/sbatch/ued_*_v4_*`, `ued_benchmark/hopper_v4`, `hopper/hopper.sh`, `hopper/finalize_ued_minimax_v4_terminal_chain.py` | work and final directory of a job, receipts, fetched copies, packages | batch script, train, evaluate, publish, receipt, fetch, assemble, finalize | Slurm, ssh | a job lost and restarted over its own output; `mv` into a directory that appeared; two finalizers |
| teacher, `frontier_rl/teacher.py` | Beta posterior, visits, unlocked prefix | observe, distribution, save, load | trainer | a promotion cascade; restart |
| trainer, `frontier_rl/trainer.py` | batch, group, redraw budget, counters | step | teacher, environment, policy | a batch older than the posterior; DAPO redraws; relabelled groups |
| Isaac Lab term, `frontier_rl/adapters/isaaclab_curriculum.py` | posterior by bin, dirty flag, terrain levels | curriculum term at reset, set_floor, save, load | simulator | the level of an episode is overwritten by the call that credits it; a teacher built at the first call |
| manipulation pool, `frontier_rl/adapters/cosmos_*.py` | arms, posterior, samplable mask, teacher file | rollout, relabel, split, save, reload | teacher, verifier | arms and posterior grow together, and only one of them is saved |
| prompt sampler, `verl_integration/curriculum.py` and patches | posterior by prompt, indices of an epoch, rewards | sampler, observe_batch, save, load | verl's trainer and dataloader | an epoch drawn from one posterior; rewards rewritten in place |
| dose-matched replay, `verl_integration/vendored/hindsight.py` | replay buffer, four token ledgers | replay_batch, stop | B2's schedule, preflight, delivery audit | copies of copies; a tolerance checked at some steps only |
| E2c driver, `verl_integration/run_e2c_rtx5090.sh` | lock, output directories, markers, preflight file | audit, train, preflight, deliver | training processes, operator | an orphaned training; a preflight older than its inputs |
| BARN training run, `icra2027/barn_campaign.py`, `frontier_rl/adapters/barn_gazebo.py` | step counters, next checkpoint, curve, simulator processes | `run_one`, start and stop of a course | Gazebo | a budget checked between updates; a stop that raises half-way |
| AMaze gate campaign, `ued_benchmark/scripts/*gate_confirmatory*` | checkpoints, markers, evaluations, receipts, sidecar, verdict | launch, evaluate, verify, analyse, close | training processes | failed and killed trainings leave checkpoints that look like results |
| PLR level buffer and telemetry, `ued_benchmark/scripts/apply_minimax_overlay_v4.py`, `overlay/.../frontier_activity.py`, `tie_aware_rank.py`, `analysis/frontier_calibration_telemetry.py` | slots, group counts, telemetry ledger | one cycle of new or replayed levels; rank masses; validation | upstream level manager | a slot that changes level in the middle of a batch; tied ranks |
| streaming teacher, rollout allocation, testbeds, experiment drivers, analyses | numbers | run | nothing | numeric, sequential |
| group-law flip chain, BARN staging, v4 pair lane, `hopper/` | receipts | stage, fetch, close | cluster | see *What is not modelled* |

What makes each part correct: a submission is recorded before it may run, one
array per attempt, and whatever a crash leaves can be taken up again; a block of
evidence is published whole, once, by one job, and Slurm says COMPLETED only
after it; a finalized ledger stays true, and two sealed packages of a campaign
never pick different evidence; every rolled group is paid for once; a posterior
holds exactly the evidence of the tasks it was rolled on and a draw follows from
it; promotions are neither missed nor unearned, and a locked task stays unseen;
what is marked complete is the work of one process that completed; a verdict
rests on checkpoints that were trained to their budget.

`PROJECT.json` lists every component (also the ones without a model) and, under
`hazards`, the places where these things could go wrong.

## Modules

| Module | What it is |
|---|---|
| `SubmissionLedger` | abstract: one append-only ledger names an array before it is released |
| `EvidenceBlock` | abstract: one job's whole block, final, and before COMPLETED |
| `BarnSubmit` | the submission transaction, one action per durable effect; implements `SubmissionLedger` |
| `SeedPublish` | the publication part of the seed task, with Slurm; implements `EvidenceBlock` |
| `BarnCampaign` | the composition: submissions, tasks, ledger finalizer, selection, sealer; implements `SubmissionLedger` |
| `TerminalChain` | the UED chain from job to package; implements `EvidenceBlock` for each job |
| `FrontierTeacher` | posterior and promotion as operators over its variables |
| `FrontierTrainer` | `step()` over that teacher |
| `BinCurriculum`, `PromptSampler`, `MasteryPool` | the three adapters that keep a posterior of their own |
| `LiveReplay` | the dose-matched replay arms, their preflight and their audit |
| `ReplayDriver` | the driver of those arms, with its training processes and its operator |
| `TrainingRun` | `run_one` over the simulator of each course |
| `GateCampaign` | driver, verifier, analyzer and closer of the AMaze gate |
| `LevelBuffer` | prioritized level replay with its telemetry and the analyzer |
| `Ascending` | a set of integers in increasing order, used where the code scans in order |
| `DataTheorems` | lemmas about finite sets, sums, recursive functions and enumerations |
| `BarnSubmitProofs`, `BarnCampaignProofs`, `LiveReplayProofs`, `LevelBufferProofs` | theorems about the module in the name |
| `PublisherProofs` | theorems about `SeedPublish` and `TerminalChain` |
| `LearnerProofs` | theorems about `FrontierTrainer`, `BinCurriculum`, `PromptSampler` and `MasteryPool` |
| `BenchmarkProofs` | theorems about `TrainingRun`, `GateCampaign` and `ReplayDriver` |
| `MC*` | model-checking instances: symmetry, finite sets, orders, small tables |

A definition whose comment says *Mutant of X* is a faulty variant of `X`: the
named mistake a property is meant to catch.  No specification uses it.

`MCPublishers`, `MCLearners` and `MCBenchmarks` put several modules that share no
state into one run; a behaviour is one of them, chosen in the initial state, and
the variables of the others stand still.

### BarnSubmit

Three stores fail independently: a checkout's ledger directory (`lock`, `local`,
`marker`, `proposed`), the cluster (`remote`, `rlock`, `stage`) and Slurm
(`array`).  `pc` and `tx` are the control point and the shell variables of each
checkout's submitter.  A remote install program is a process of its own (`ipc`,
`itx`), because it goes on when the connection that started it drops; `iowner`
is the submitter that still reads its answer.  A ledger is the sequence of its
five-row blocks, so equal SHA-256 digests are equal sequences and `<< >>` is
`ABSENT`.

The marker is created empty and filled by a second action (a crash in between
leaves a torn one).  The single `rm -f` of marker and proposal at the end is two
actions, marker first, which is the order of its arguments.  The remote
compare-and-set is three actions (compare, `mv`, verify) because nothing but the
lock makes it atomic.

Faults: `abort` (a failing command, a lost ssh reply, Ctrl-C: the EXIT trap
removes the local lock), `kill` (SIGKILL or power loss: the lock stays),
`killInstaller`, and `signal`: the remote trap `release_lock` on HUP, INT or TERM
removes the lock and *returns*, so the program goes on without it.  No code
removes a stale lock; `ClearLocalLock` and `ClearRemoteLock` are the operator who
does, once nothing runs.

### SeedPublish

An *execution* of the batch script belongs to a job.  Slurm may requeue a job
under its id (`Requeue`), or believe its node dead while the first execution goes
on (`Partition`), so two executions of a job can be after one work directory, and
jobs of two arrays after one canonical path.  `claim` is the hard link to
`COMPLETE`, `final` the canonical directory and `sealed` whether what was renamed
held its `COMPLETE`.  Running and validating the experiment is one action that
may succeed or fail.

### BarnCampaign

The five programs interleave over the files they share, each at the grain of its
abstract specification: a submission is `Stamp`, `Preflight`, `Record` or
`Refuse`, `Release`, with `Interrupt` and `Resume` between record and release; a
task is queued, running, and ends with or without its block.  The finalizer's
three readings (`ReadLedger`, `CloseTree`, `Account`) are separate actions,
because submissions and tasks go on between them.  Finalized ledgers and packages
are sets: the code names both by digest.  `clock` is the submitter host's clock
in seconds, nondecreasing; two submissions may share a second.

### TerminalChain

A tree on disk is named by the run that wrote it: job, restarts before it, outer
cycles trained, parts present.  `line` is the batch script's next step, and
`train` the state of the training driver (buffer, cycles, updates) up to its
ceiling.  A job may fail at any line (the exit trap removes only the temporary
directory), be killed, or be lost and started again by Slurm.  The batch script
asks Slurm not to requeue it, but the finalizer still demands `Restarts=0`, so one
restart is modelled.

The receipt, the fetch (copy, compare, `mv` without `-T`) and the finalizer
(validate, copy, assemble, publish) run on the workstation and may be killed at
each step.  A fetch names a gate receipt that is never compared with the remote
path it copies; `PackageIsOneCompletedRun` shows that the finalizer's own checks
make up for it.  Each fetch and finalizer command runs once; a rerun is another
one with the same destination.  The arm and the receipts' fields are functions of
the job, and invocations that are refused at their first line are left out.

### FrontierTeacher, FrontierTrainer

Rewards are binary, so a group is its number of successes.  `alpha` and `beta`
are the code's arrays times `Scale`, a multiple of `DecayDen ^ MaxVisits`: with at
most `MaxVisits` groups of a task every decayed value is an exact integer.
Floating-point rounding is not modelled.  A Thompson draw can land anywhere in
(0, 1), so the utility-driven arms may sample any task; only the staged arm
without a floor has a smaller `Support`.  `Promoted` is the value on which the
`while` loop of `StagedDifficultyTeacher.observe` stops.

One `step()` is a sequence of actions because environment, policy and
posterior change between them, and because `Restart` may strike anywhere: the
process is lost and a new one loads the last saved dictionary.  `rolled` and
`requested` are history variables: what the environment has done, against which
the counters and the posterior are compared.

### BinCurriculum, PromptSampler, MasteryPool

Each keeps a posterior without its decay, which weighs all of its entries alike,
and remembers a draw by the evidence it was computed from instead of by its
probabilities.  `LevelsFollowEpisodes`, `DrawsFollowScores` and `ArmsAreSound`
compare that evidence with a history of what was played.  `PromptSampler` reads
verl's trainer off the patches that call it (its batch, its in-place hindsight,
its checkpoint with the live arrays); the trainer itself is external.
`MasteryPool` allows any group and any report of the predicate verifier, grows
arms by `split_mastered`, and reloads a teacher file into a pool that was built
anew: the draw that then has more probabilities than arms is `SampleRefused`, the error
the code raises.

### LiveReplay, ReplayDriver

A group of responses is its dataset index, the step that generated it, its tokens
and whether it is informative; a copy keeps the name of what it copies, so "a copy
of an original" is an equality.  The seeded order among equal totals is any order.
`ledger` are the four cumulative counts of the run, `forecast` the counts the
preflight worked out with B2's tokens, and `trained` the tokens the policy was
really updated on.

A row of B2's schedule may lack its total: `relabel_batch` returns before it counts
when a batch has no dead group (`hindsight.py:224`).  The run then puts its own count
in the total's place (`Expected`, `hindsight.py:705`), so the comparison of that step
is one of the run with itself.  `trained.own` keeps those tokens apart.  The
preflight refuses a schedule with such a row, so only the live and buffered modes
meet one.

`ReplayDriver` is the shell script around it: the lock is a file descriptor that
children inherit, so a killed driver's training keeps it (`alive`).  Anything may
be killed; an operator removes leftovers, but only when the lock is free.  A
directory is the set of training processes that wrote into it.  `StartRun` and
`Skip` stand for the comparator, reservoir and replay stages alike.

### TrainingRun

`run_one` with either bound.  A group costs some number of simulator steps; `due`
is `next_sim_checkpoint`.  Every training group and every held-out course starts
`gzserver` and a stepper, drives, and closes them; each of the three may raise, and
either process may exit at any time.  `close` has three parts, stepper, ROS node and
`gzserver`, and `part` is the one that comes next.  Any of them may raise: closing
the stepper's pipe sends again what a dead stepper did not take, the node, the
executor or the context does not shut down, a process outlives its signal, or the
run is interrupted.  The parts behind it are then not reached, which `cutShort`
remembers.  `__enter__` closes after an `Exception` only, so an interrupt during
`start` leaves what was started (`cutShort = "start"`).

### GateCampaign

A checkpoint, and the evaluation of one, is the number of updates it was trained
for.  A driver launches cells in the background up to `Conc`, waits, and evaluates
what is there; a training saves every `interval` ticks and may fail anywhere; a
driver may be killed, and leaves its trainings and evaluations running.
`marking` chooses the driver in the repository, which writes `DONE` markers, or
its predecessor, which took a checkpoint for a finished run: the closer refuses a
campaign with markers, so it can only close one of the predecessor (the campaign
of 2026-08-19).  `RestartsKilled = FALSE` is the operator's rule of
`RESTART_HAZARD_2026-08-19.md`.

### LevelBuffer

One cycle (`NewCycle`, `ReplayCycle`) is a batch of groups of new levels or of levels replayed from the
buffer, processed in the overlay's order:
`Scan` is the carry of its scan after each step.  The overlay's scores are ratios of
rising factorials, compared exactly; `RankMass` follows the segmented scans of
`tie_aware_rank.py`.  Which slot a full buffer gives up, and what is replayed, is
the upstream manager's choice and left open.  `telemetry` has one row per group as
the analyzer's schema prescribes (its writer is not in the repository), and
`ValidEvents` is the analyzer's cross-row validation.

That validation is stricter than the overlay: it refuses the ledger of a run in
which a level is generated a second time, or the same replayed level is drawn
twice with one whole and one cut group.  `CleanRunValidates` is therefore about
runs without either; packages with partial or duplicate groups are refused by a
later gate anyway.

## Runs

| Run | Instance | Shows |
|---|---|---|
| `Submit` | 2 checkouts, 2 attempts, 3 arrays, 2 installers, 3 faults of 3 kinds (468 thousand states) | five safety properties, the type invariant, and the refinement of `SubmissionLedger` |
| `SubmitLive` | 1 checkout, 2 attempts, 2 arrays, 3 aborts or signals, fair | a recorded pending array that is held is eventually released |
| `SubmitLostReply` | 1 checkout, 1 abort | *violated*: a pending marker whose array is no longer held |
| `SubmitSignal` | 2 checkouts, 1 signal | *violated*: an array released without a record |
| `Publishers` | seed task: 2 jobs, 3 executions, 3 faults; or chain: 2 jobs, 2 receipts, fetches, finalizers and destinations, 1 package path, 1 restart (704 thousand states) | both publish whole, once, and implement `EvidenceBlock`; packages are one completed run and final |
| `SeedPublishKilled` | 1 job, 1 kill | *violated*: a failed task with a block |
| `Campaign` | 3 attempts of 2 cells, 1 seed | true ledgers, complete and agreeing packages, the submission promise |
| `CampaignLateAttempt` | same | *violated*: an attempt recorded after the seal |
| `Learners` | one of trainer, bins, prompts, pool, replay (1.70 million states) | twelve invariants: budget, evidence, promotions, draws, arms, relabelling, replayed groups, dose, preflight |
| `ReplayDelivery` | the replay of `Learners` | *violated*: a finished run within its tolerances fails its delivery audit |
| `Benchmarks` | one of training run, E2c driver, gate campaign, level buffer (289 thousand states) | nine invariants: curve, simulators, markers, preflight, cells, verdict, counts, telemetry, ranks |
| `GateStale` | 1 cell, 1 failed training, 2 starts | *violated*: a verdict that rests on a partially trained cell |

Why the bounds are enough for what is asked.

* `Submit`: two checkouts are what a compare-and-set can lose to, two installers
  what an orphan can overlap with, three arrays leave one for a retry by either,
  and three faults allow a lost reply, a kill during the rerun and a killed
  installer in one behaviour.
* `Publishers`: three executions are two of one job and one of another.  In the
  chain, two jobs of different arms let a fetch, a receipt and a finalizer refer to
  different jobs; two finalizers meet at one path; `Ceiling = 3` lets a run end
  below, at and above the two cycles a package must have.
* `Campaign`: one cell has two attempts, so that selection has a choice and a
  second finalized ledger may see more than the first; seeds do not interact, so
  one is kept, and the four cells of the preregistration are two, of which one is
  retried.
* `Learners`: the trainer's pool of three tasks, hardest first, has an initial
  prefix, a frontier and a task beyond it; the instance chooses in its initial
  state whether the staged arm has a floor.  Two visits of a task and a threshold
  near the code's 0.7 make some groups promote and others not; two tasks per step
  make the second one older than the first's promotion.  Two environments over two
  levels can be reset in one call or in two; three prompts with batches of one
  leave two indices of an epoch behind the posterior (two groups of one prompt in a
  batch are left to the theorem); two pool goals of which one
  is part of the other, and one relabel-only goal, give a relabelling a choice; a
  row of the schedule without a total stands beside four with one; a buffer of two
  groups overflows in three steps, and two-against-three tokens with
  a tolerance of a quarter can leave it and stay in it.
* `Benchmarks`: groups of one or three steps against an interval of three cross
  none, one or two checkpoints per update, and a budget of nine is met before or
  after a cap of four updates.  Two drivers, six trainings and five runs are one
  killed driver and its successor over two comparators, a reservoir and two replay
  arms.  Two cells in two slots, two starts and one failure; four mazes for three
  slots, batches of two and three cycles let a full buffer give up a slot to a
  level of the same batch.
* `MaxVisits`, `MaxFaults`, `MaxRestores`, `MaxRestarts`, `MaxReloads`, `MaxRolls`,
  `MaxEnded`, `MaxBatches`, `MaxTrainings`, `MaxStarts`, `MaxFailures`, `MaxCycles`,
  `MaxCost`, `Steps` and the sizes of the sets bound the counters.

Deadlock is not checked: an operator may stop submitting, a retry may be
exhausted, a driver may stop, and the bounds on faults, arrays and visits end
behaviours that the code would continue.

Most type invariants are not in a run: they are proved (see below), and an
invariant of a run here is one that a test of the code would hardly reach.

### Fairness

`SubmitLive` assumes weak fairness of the pending rerun (the README of `icra2027`
tells the operator to rerun the same command), of each submitter's steps and of
each remote program's steps (a running program continues).  Faults and fresh
submissions are never required.  The property holds only for a transaction whose
array is *still held*; `SubmitLostReply` shows what happens to the others.

No other module states fairness.  The scheduler owes a job nothing, a driver that
stops waits for an operator, and the BARN stepper is read with a `readline()` that
has no timeout: what would have to be assumed for liveness there, the code does
not give.

## Where code and documents disagree

* **Rerun after a lost release** (`SubmitLostReply`).  The rerun demands
  `PENDING|JobHeldUser`.  If the release took effect and only its reply was lost, it
  fails for good; the trap even prints that the array "remains held".
* **Signals during an install** (`SubmitSignal`).  The trap removes the lock but
  does not end the program.  A second install, of another checkout, can
  interleave, replace the ledger, and an array runs unrecorded (one checkout is
  safe: `SubmitLive` allows signals).  Everything else about the transaction holds
  without signals, and the theorems say so in their hypothesis.
* **Killed after the rename** (`SeedPublishKilled`).  The task is accounted failed,
  its block is complete, and the ledger finalizer refuses that row for ever.
* **Late attempts** (`CampaignLateAttempt`).  "Permanently closed" is enforced by
  the preflight alone; an attempt past it is recorded and released after the seal.
  `PackagesAgree` shows that a later package then picks other evidence only where
  the late attempt took its submission time before the selected one did.
* **A field no run writes** (`ReplayDelivery`).  `analyze_e2c.py:81` reads the
  optimizer token mismatch under a name that no run writes, so the delivery
  audit of every finished run raises, and the driver never reaches its endpoints.
* **Stale evaluations** (`GateStale`).  A failed training leaves a checkpoint, the
  driver evaluates it, the rerun trains the cell to its budget and skips the
  evaluation that is there; the analyzer compares the budget of the new checkpoint
  with the evaluation of the old one.  `VerdictIsOfTrainedCells` says when a verdict
  is safe: when nothing failed, or through the closer.

Seen while modelling, without a run: the hindsight hook is documented for all-fail
groups (`frontier_rl/interfaces.py:47`) and reached by all-success groups too
(`trainer.py:122`); the docstring of the pool's relabelling says "strict subsets
only" and its second branch admits other goals; the assembler pins two outer
cycles although the training driver may take more
(`assemble_matched_run_v4.py:563`), so such a run cannot be packaged; the docstring
of `DoseMatchedLiveReplay` calls its cumulative ledgers "an automatic
treatment-delivery check" (`hindsight.py:411`), and at a step whose row states no
total there is nothing to check the run against; `__enter__` of a course
catches `Exception` (`barn_gazebo.py:630`), so an interrupt in `start` leaves its
processes, and so does whatever makes `close` raise before its last part.

## What is proved

All theorems hold for every value of the constants that meets the assumptions the
modules state.

*BarnSubmit* (hypothesis: no signal faults).  `TypeCorrect`,
`RecordedBeforeReleaseHolds`, `RemoteAppendOnlyHolds`.  `RecordedBeforeRelease` is
not inductive: one has to know that a submitter past its install has its job in
the remote ledger (`SubmitterInv`), that this came from an installer whose
answer was about the same transaction (`InstallerInv`: an owned installer has
its owner waiting with an equal `tx`), that an installer which compared equal
still finds the same ledger at its `mv` (the lock is exclusive, `LockInv`), and
that markers taken up again are whole (`MarkerInv`).

*BarnSubmit's ledgers*, on top of that invariant: `OneArrayPerAttempt`,
`MarkerIsResumable`, `SettledLedgerIsInstalled`, and the refinement of
`SubmissionLedger`.  `CloneInv` is the order of a checkout's writes (marker before
local ledger, proposal as long as the marker), `NewInv` that every transaction under
way, in a marker or in an installer extends its base ledger by an attempt and an
array it does not name, and `InstalledInv` that a settled local ledger is a prefix of the
remote one.

*SeedPublish*.  Type correctness, `BlockIsSealed`, `RenameIsExclusive`,
`CompletedIsPublished`, `BlockIsFinal`, and `ImplementsPromise`.  The invariant says
that the executions in a working state own their job's work directory alone
(`ExecInv`: it was created exclusively), that past the claim the claim is one's
own (`ClaimInv`), and that Slurm's view refers to live executions (`SchedInv`).

*BarnCampaign*.  Type correctness, `FinalizedStaysTrue`, `NoForeignBlock`,
`PackagesCoverCampaign`, `PackagesAgree` and the refinement of
`SubmissionLedger`, for any number of attempts, cells, seeds, readers and sealers.
The argument: what is recorded, terminal, published or finalized is never taken
back (lemma `KeptStep`); the reader's account therefore stays true until it
publishes (`ReaderInv`, `FinalInv`); a package picks an earliest candidate of the
finalized ledger it names (`PackageInv`); and of two packages the later ledger
contains the rows of the earlier, so a different pick needs an attempt whose
submission time contradicts the order of the ledger.

*TerminalChain*.  `CompletedHasItsComponents`, `PackageIsOneCompletedRun`,
`PackageIsFinal`, and `EvidenceBlock` for each job.  The invariant follows a tree
from the parts of the temporary directory through the final directory, a fetched
copy and the finalizer's private copy into a package; equal digests are equal
trees.

*FrontierTrainer*.  Type correctness, `BudgetIsCounted`, `NoMissedPromotion`,
`PromotionIsEarned`, `LockedStaysUnseen`, `EvidenceIsRequested`.  A dictionary, live or saved, is *sound*
when its promotions are earned and none is missing; `ObserveKeepsSound` shows that
the loop keeps it so, `RestoreIsSound` that a restart cannot break it, and the
trainer adds that what waits in a batch was drawn from a prefix that can only
have grown.  `EvidenceIsRequested` compares the posterior with a history of the
groups rolled (`ExactInv`): after `n` visits every entry is a multiple of
`Scale \div Power[n]`, so each decay divides exactly, and a decayed sum of a longer
history is the decayed sum of the shorter one and the new group.

*BinCurriculum*.  `LevelsFollowEpisodes`.  `EpisodesInv`: an episode runs on the
level its environment is at, and an environment that never reset runs none.  One
vectorised call credits all its environments by their old levels, in any order,
which is a lemma about sums over sets.

*PromptSampler*.  `DrawsFollowScores`.  `CreditInv`: while a batch is in hand the
scores are the posterior and that batch as it was before hindsight, and a
checkpoint is taken only when none is.

*MasteryPool*.  `ArmsAreSound` and `RelabelIsAnotherGoal`.  `MaskedInv` is that the
teacher's arrays are as long as the arms, or longer after a reload, and that an
arm that exists for relabelling is neither sampled nor rolled; `PoolArmsInv` that
every later arm is a split of an arm of the pool, one per bin; `ArmInHandInv` that
an arm in hand is one of these.

*LiveReplay*.  `ReplaysAreOriginals`, `DoseStopsUpdate` and `PreflightIsKept`.
`OriginalsInv`: the buffer holds informative groups as they were generated, oldest
first, and what a batch accepted comes from there.  `DoseInv`: between a replay and
its update the ledger is one step ahead of what was trained on, and within its
tolerances; both totals of the ledger hold the tokens of the steps whose row states
none, and on the reservoir there is no such step.  `PreflightInv`: when the other tokens are those of B2, ledger and
forecast move together, whatever slots are chosen, because the selection depends
on the ledger and the totals only.

*ReplayDriver*.  Type correctness, `CompleteRunIsWhole` and
`TreatmentIsPreflighted`.  `LockInv`: one driver holds the lock, one training lives,
and under a driver it is the child that driver waits for.  `PlanInv`: what a driver
has passed is complete, and past the preflight it has passed.

*LevelBuffer*.  `EvidenceStaysWithLevel`, `CleanRunValidates` and
`TiesShareTheirRanks`, for any buffer, batch size, number of trials and choice of
slots.  `LevelInv` adds that no level is
in two slots and that the slot of every level has a row that says when it came in.
A batch is a scan, so the proof carries `FoldInv` from one of its steps to the
next: a slot holds its level's old counts and the whole groups of it so far, and
groups of levels in the buffer come before any that can take a slot from them
(`ExistingFirstOrders`; without that order the property fails, as its mutant
shows).  The ranks need that the order by score exists and is total, that ties are
consecutive in it right after the better slots, and what the segmented scans
return within a block.

`CleanRunValidates` follows each rule of the analyzer through a cycle (`LedgerInv`).
For every run: the clocks of the rows are consecutive (`ClockInv`), the generation
of a slot is the number of rows that brought a level into it (`GenerationsCount`),
and no place, a slot with its generation, ever had two levels (`PlacesKnown`).  For a
clean run: the last row of a level in the buffer says what the buffer has of it
(`ChainKnown`), and the rows so far are valid (`RowsValid`).  A later cycle adds no
row to an old snapshot, so an old row stays valid (`OldRowsStay`); in a clean run a
cycle of new levels has no level twice or known (`CleanCyclesAreNew`), and the rows of
a replayed level agree, whatever part of it was drawn again (`ReplaySnapshot`).  The
receipt adds that a cycle has as many rows that are not the first of their snapshot as
draws beyond the slots it drew (`RepeatsCounted`).

*TrainingRun*.  Type correctness, `SimulatorEndsWithCourse` and `CurveIsComplete`,
for every budget, interval, cap and cost.  The code finds its next checkpoint by
integer division; the lemmas `DivBounds`, `DivUnique`, `DivReaches` and
`DivMonotone` say what it returns, `FlowInv` ties the counters to the control
point, `RowsInv` the rows of the curve to the intervals crossed, and `EndInv` how
a run ended.  `CloseInv` says that the parts of `close` already behind have stopped
their processes, and that a run that failed with none of them cut short left none.

*GateCampaign*.  Type correctness, `CellsAreQuiet` and `VerdictIsOfTrainedCells`,
for any number of cells, slots, starts and failures.  `ScriptInv`: without restarts
over a killed driver's processes, drivers follow one after the other.
`EvidenceInv`: while nothing failed a checkpoint only grows, a cell that is
saved is not trained again, and an evaluation is of the checkpoint that is
there.  `CloserInv`: while the closer works nothing else can.

*Sums and recursion.*  The library's induction theorems take an operator as a
parameter, which the provers cannot instantiate.  `DataTheorems` therefore states
induction over sets: `SetInduction` (a set of numbers with 0 and every successor is
`Nat`) and `SubsetInduction`, both from the well-foundedness of `<`.  A property
becomes the set of the sizes for which it holds, and a recursive function is shown
to exist before its defining equation is used.

*Assumptions on constants* that are not mere ranges, and why the code meets them:
`ScaleAssumption` and `RankWeightsAssumption` choose a scale on which fractions are
whole numbers; a reservoir's groups are informative and older than the run, since
the preflight admits no others; data orders, token schedules and prompts are
finite; the pool's goals are distinct, as their names are the keys of its
dictionaries; the runs of a driver are distinct, as they are the directories of
its script; the loader drops a batch it cannot fill.

*Only model-checked.*  Liveness (`PendingIsReleased`), which is beyond this prover:
every other property of a passing run is a theorem.

## What is not modelled

Digests, schemas and receipts (a check over them is one step that may fail); what
the simulator, the policy and the statistics compute; rounding; environment
variables and command-line parsing; the components marked `not_modelled` in
`PROJECT.json`, each with its reason.  Most of the repository's lines are of these
kinds: validators of frozen files, numeric experiments, statistics and reports.
They have no state another step could find changed, and the modules do not
translate them; the lines they cover are a fraction of the whole.

Parts of modelled programs that are left out:

* in `BarnSubmit`, the preflight's refusal of a sealed campaign
  (`submit_barn_campaign.sh:356`), so `PendingIsReleased` is for a campaign that is not
  sealed meanwhile; `BarnCampaign` has the refusal;
* in `GateCampaign`, what happens when a driver is started where one was killed: both
  its properties suppose that the operator keeps the rule against it;
* decay in `BinCurriculum`, `PromptSampler` and `MasteryPool`; the poison-rate meter,
  the weighted SFT manifest (which `Phase1Round` appends to across rounds) and the
  policy server of the manipulation pool;
* `run_campaign` and the files of the BARN run; a run that is killed outright, which
  closes nothing and whose simulator is left to Slurm because it has a session of its
  own;
* the reservoir collector, the arms E2 and E2b with their validators, and the E2b
  driver, which writes into the comparators' directories without the E2c lock; an
  orphaned preflight process; a lock file left stale;
* the gate campaign's configuration checks and its statistics, which are one
  acceptance;
* in the level buffer the upstream manager, the mean mode, state_dict, MaxMC rows,
  and the documents around the ledger; snapshot ids and sequence numbers; scores
  that are not finite, which the exact mode cannot produce;
* the first generation of the UED chain (same shape, other schema), and the v4 pair
  lane: `autoresearch/iterate-260814-v4-remote-hardening/RESULTS.md` declares it a
  held snapshot that is not to be launched, and as it stands its `job-<id>`
  directory is compared with the bare job id, so that no pair plan can be made;
* the group-law flip chain, whose fetch and closer have the shape of `TerminalChain`
  and `BarnCampaign` over a job that has ended; staging, which shares no state with
  the protocols; the streaming teacher and greedy rollout allocation, which are
  sequential numeric functions.

## Plan

The order in which the modules were written is the order of the table above:
abstract promises and the submission first, then publication and the campaign,
the trainer, the chain, the adapters, the drivers.  What would come next:

1. `AttemptSelection`: the selector's closure rules over rows, refined by
   `BarnCampaign`'s `Selection`;
2. the watcher of the group-law flip chain, and the v4 pair lane once it is no
   longer held.
