---------------------------- MODULE TerminalChain ----------------------------
(***************************************************************************)
(* The UED terminal chain: a Slurm job trains, evaluates and publishes a   *)
(* components directory (the sbatch script and the drivers of              *)
(* ued_benchmark/hopper_v4); on the workstation, receipts are captured and *)
(* the directory is fetched (hopper/hopper.sh); the finalizer and its      *)
(* assembler turn them into one package.                                   *)
(*                                                                         *)
(* A tree is identified by the run that wrote it: the job, the number of   *)
(* restarts before that run, the outer cycles it trained and the parts its *)
(* manifest lists.  Equal trees have equal digests.  The arm is a function *)
(* of the job, so the checks that compare arms are the job comparisons.    *)
(***************************************************************************)
EXTENDS Naturals

CONSTANTS
  ChainJobs, Arm,       \* Slurm jobs, and the arm each was submitted for
  Receipts,        \* files that may hold a terminal receipt
  Dests,           \* local directories a fetch may write
  Fetchers,        \* `hopper.sh fetch` commands that may be run
  Finalizers,      \* finalizer commands that may be run
  Outs,            \* package directories
  Target,          \* n_total_updates
  Ceiling,         \* driver.max_outer_cycles
  PackagedCycles,  \* the outer cycles the assembler accepts
  MaxRestarts,     \* bound on the restarts of a job
  None

ASSUME ChainAssumption ==
  /\ Arm \in [ChainJobs -> {"frontier", "maxmc"}]
  /\ Target \in Nat /\ Ceiling \in Nat /\ PackagedCycles \in Nat /\ MaxRestarts \in Nat
  /\ None \notin ChainJobs \cup Receipts

VARIABLES
  jobState, restarts,  \* Slurm's state of each job, and its Restarts field
  line,              \* the next step of the batch script
  train,           \* the training run: its cycles and updates, the buffer full
  parts,           \* parts of the temporary components directory
  workDir,            \* WORK_DIR exists
  finalDir,           \* FINAL_DIR: the published tree, or None
  receipts,        \* terminal receipts
  fetch,           \* state of each fetch command
  local,           \* what each local directory holds
  fetched,         \* fetch receipts
  fin,             \* state of each finalizer
  out              \* packages

jobVars == <<jobState, restarts, line, train, parts, workDir, finalDir>>
fetchVars == <<fetch, local, fetched>>
finVars == <<fin, out>>
chainVars    == <<jobVars, receipts, fetchVars, finVars>>

Labels   == {"off", "mkdir", "input", "open", "context", "begin", "train", "seal", "sidecar",
             "postcheck", "evaluate", "write", "integrity", "manifest", "publish", "exit"}
AllParts == {"inputs", "training", "sidecar", "evaluation", "integrity", "manifest"}
Trees    == [job : ChainJobs, run : 0..MaxRestarts, cycles : 0..Ceiling, parts : SUBSET AllParts]
Fresh    == [cycles |-> 0, updates |-> 0, full |-> FALSE]
Idle     == [at |-> "idle"]
Done     == [at |-> "done"]

ChainInit ==
  /\ jobState = [j \in ChainJobs |-> "pending"]
  /\ restarts = [j \in ChainJobs |-> 0]
  /\ line = [j \in ChainJobs |-> "off"]
  /\ train = [j \in ChainJobs |-> Fresh]
  /\ parts = [j \in ChainJobs |-> {}]
  /\ workDir = [j \in ChainJobs |-> FALSE]
  /\ finalDir = [j \in ChainJobs |-> None]
  /\ receipts = [r \in Receipts |-> None]
  /\ fetch = [f \in Fetchers |-> Idle]
  /\ local = [d \in Dests |-> None]
  /\ fetched = {}
  /\ fin = [z \in Finalizers |-> Idle]
  /\ out = [o \in Outs |-> None]

-------------------------------------------------------------------------------
(* The Slurm job.  A step that raises ends the job: JobFail. *)

JobOnly == UNCHANGED <<receipts, fetchVars, finVars>>

Continue(j, from, to) ==
  /\ line[j] = from
  /\ line' = [line EXCEPT ![j] = to]
  /\ UNCHANGED <<jobState, restarts>>
  /\ JobOnly

(* A step of phase A that adds to the temporary components directory. *)
Adds(j, from, to, new) ==
  /\ Continue(j, from, to)
  /\ parts' = [parts EXCEPT ![j] = @ \cup new]
  /\ UNCHANGED <<train, workDir, finalDir>>

JobStart(j) ==
  /\ jobState[j] = "pending"
  /\ jobState' = [jobState EXCEPT ![j] = "running"]
  /\ line' = [line EXCEPT ![j] = "mkdir"]
  /\ UNCHANGED <<restarts, train, parts, workDir, finalDir>>
  /\ JobOnly

(* A work directory of an earlier run of the job is a refusal. *)
CreateWorkDir(j) ==
  /\ ~workDir[j]
  /\ Continue(j, "mkdir", "input")
  /\ workDir' = [workDir EXCEPT ![j] = TRUE]
  /\ UNCHANGED <<train, parts, finalDir>>

(* The result must not exist; the closure of the inputs is written. *)
CloseInputs(j) == finalDir[j] = None /\ Adds(j, "input", "open", {})

(* Phase A verifies every input, then opens its temporary directory. *)
OpenPhaseA(j) == Adds(j, "open", "context", {})

WriteContext(j) == Adds(j, "context", "begin", {"inputs"})

(* The driver verifies them again and resets the runner: all counters are 0. *)
BeginTraining(j) == train[j] = Fresh /\ Adds(j, "begin", "train", {})

(***************************************************************************)
(* One outer cycle.  Until the level buffer is full a cycle only adds      *)
(* levels; afterwards it replays and updates the student.  A duplicate     *)
(* among the new levels leaves the buffer short, which ends a frontier run *)
(* and costs a maxmc run another cycle.                                    *)
(***************************************************************************)
TrainCycle(j) ==
  /\ train[j].updates < Target
  /\ train[j].cycles < Ceiling
  /\ \E full \in {TRUE} \cup (IF Arm[j] = "maxmc" THEN {FALSE} ELSE {}) :
       train' = [train EXCEPT ![j] = [cycles  |-> @.cycles + 1,
                                      updates |-> @.updates + (IF @.full THEN 1 ELSE 0),
                                      full    |-> @.full \/ full]]
  /\ Continue(j, "train", "train")
  /\ UNCHANGED <<parts, workDir, finalDir>>

EndTraining(j) ==
  /\ train[j].updates >= Target
  /\ Continue(j, "train", "seal")
  /\ UNCHANGED <<train, parts, workDir, finalDir>>

(* Checkpoint, its round trip, the replay snapshot, endpoint.json. *)
SealTraining(j) == Adds(j, "seal", "sidecar", {"training"})

(* The sidecar appears by rename, and phase A checks it before it evaluates. *)
WriteSidecar(j) == Adds(j, "sidecar", "postcheck", {"sidecar"})

Postcheck(j) == "sidecar" \in parts[j] /\ Adds(j, "postcheck", "evaluate", {})

(* Mutant of Evaluate: the evaluator's package is not written. *)
SkipEvaluation(j) == Adds(j, "evaluate", "integrity", {})

Evaluate(j)        == Adds(j, "evaluate", "write", {})
WriteEvaluation(j) == Adds(j, "write", "integrity", {"evaluation"})
CheckEvaluation(j) == Adds(j, "integrity", "manifest", {"integrity"})
SealComponents(j)  == Adds(j, "manifest", "publish", {"manifest"})

(* mv -T of the components into FINAL_DIR, which an empty directory only allows. *)
PublishComponents(j) ==
  /\ finalDir[j] = None
  /\ Continue(j, "publish", "exit")
  /\ finalDir' = [finalDir EXCEPT ![j] = [job |-> j, run |-> restarts[j],
                                   cycles |-> train[j].cycles, parts |-> parts[j]]]
  /\ UNCHANGED <<train, parts, workDir>>

(* The process is over; its exit trap removes WORK_DIR unless it was killed. *)
Leaves(j, state) ==
  /\ jobState[j] = "running"
  /\ jobState' = [jobState EXCEPT ![j] = state]
  /\ line' = [line EXCEPT ![j] = "off"]
  /\ train' = [train EXCEPT ![j] = Fresh]
  /\ parts' = [parts EXCEPT ![j] = {}]
  /\ UNCHANGED finalDir
  /\ JobOnly

(* Mutant of JobExit: the script does not stop when mv fails. *)
JobExitUnpublished(j) ==
  /\ line[j] \in {"publish", "exit"}
  /\ Leaves(j, "completed")
  /\ workDir' = [workDir EXCEPT ![j] = FALSE]
  /\ UNCHANGED restarts

JobExit(j) ==
  /\ line[j] = "exit"
  /\ Leaves(j, "completed")
  /\ workDir' = [workDir EXCEPT ![j] = FALSE]
  /\ UNCHANGED restarts

(* A refusal, an error, a signal or the time limit, at any step.  A work *)
(* directory left behind is not kept: no run of this job will see it.    *)
JobFail(j) ==
  /\ Leaves(j, "failed")
  /\ workDir' = [workDir EXCEPT ![j] = FALSE]
  /\ UNCHANGED restarts

(* The script forbids requeueing; the finalizer does not rely on it. *)
JobLost(j) ==
  /\ restarts[j] < MaxRestarts
  /\ Leaves(j, "pending")
  /\ restarts' = [restarts EXCEPT ![j] = @ + 1]
  /\ workDir' \in {workDir, [workDir EXCEPT ![j] = @ /\ line[j] = "mkdir"]}

-------------------------------------------------------------------------------
(* hopper.sh terminal-receipt and hopper.sh fetch. *)

(* Only a terminal state is accepted, and the file must be new (ln). *)
TerminalReceipt(r, j) ==
  /\ receipts[r] = None
  /\ jobState[j] \in {"completed", "failed"}
  /\ receipts' = [receipts EXCEPT ![r] = [job |-> j, state |-> jobState[j], restarts |-> restarts[j]]]
  /\ UNCHANGED <<jobVars, fetchVars, finVars>>

(***************************************************************************)
(* The destination is looked at, the gate read, and the remote directory   *)
(* probed and copied to a private path.  Nothing compares the gate's job   *)
(* with the remote path.                                                   *)
(***************************************************************************)
FetchCopy(f, j, g, d) ==
  /\ fetch[f] = Idle
  /\ local[d] = None
  /\ g # None => receipts[g] # None /\ receipts[g].state = "completed"
  /\ finalDir[j] # None
  /\ fetch' = [fetch EXCEPT ![f] = [at |-> "copied", gate |-> g, dest |-> d, tree |-> finalDir[j]]]
  /\ UNCHANGED <<jobVars, receipts, local, fetched, finVars>>

(* mv without -T: a directory that has appeared meanwhile takes it inside. *)
FetchMove(f) ==
  /\ fetch[f].at = "copied"
  /\ LET d == fetch[f].dest IN
       local' = [local EXCEPT ![d] =
                   IF @ = None THEN [tree |-> fetch[f].tree, nested |-> FALSE]
                               ELSE [@ EXCEPT !.nested = TRUE]]
  /\ fetch' = [fetch EXCEPT ![f].at = "moved"]
  /\ UNCHANGED <<jobVars, receipts, fetched, finVars>>

(* The receipt names the destination and the digest of the private copy. *)
FetchReceipt(f) ==
  /\ fetch[f].at = "moved"
  /\ fetched' = fetched \cup {[gate |-> fetch[f].gate, dest |-> fetch[f].dest,
                               tree |-> fetch[f].tree]}
  /\ fetch' = [fetch EXCEPT ![f] = Done]
  /\ UNCHANGED <<jobVars, receipts, local, finVars>>

(* Killed: a copy is left unseen, or a destination without a receipt. *)
FetchDies(f) ==
  /\ fetch[f] \notin {Idle, Done}
  /\ fetch' = [fetch EXCEPT ![f] = Done]
  /\ UNCHANGED <<jobVars, receipts, local, fetched, finVars>>

-------------------------------------------------------------------------------
(* The finalizer and the assembler it runs. *)

Fins(z, state) ==
  /\ fin' = [fin EXCEPT ![z] = state]
  /\ UNCHANGED <<jobVars, receipts, fetchVars>>

Package(m) == [job |-> receipts[m.gate].job, gate |-> m.gate, tree |-> local[m.dest].tree]

(* One clean completion of the job, which was never restarted. *)
CleanCompletion(g) ==
  /\ receipts[g] # None
  /\ receipts[g].state = "completed"
  /\ receipts[g].restarts = 0

(* Mutant of FetchBinds: the fetch receipt is not bound to the terminal one. *)
FetchBindsAny(m, g) ==
  /\ m.gate # None
  /\ m.tree.job = receipts[g].job
  /\ local[m.dest] = [tree |-> m.tree, nested |-> FALSE]

(* A fetch gated by this very receipt, of this job's directory, to this one, *)
(* whose digest is still the fetched one.                                    *)
FetchBinds(m, g) ==
  /\ m.gate = g
  /\ m.tree.job = receipts[g].job
  /\ local[m.dest] = [tree |-> m.tree, nested |-> FALSE]

(* The components, the receipts and the submission are of one job, and the *)
(* package path is free.                                                    *)
FinCheck(z, m, g, o) ==
  /\ fin[z] = Idle
  /\ out[o] = None
  /\ CleanCompletion(g)
  /\ FetchBinds(m, g)
  /\ Fins(z, [at |-> "checked", gate |-> g, dest |-> m.dest, out |-> o])
  /\ UNCHANGED out

(* The assembler verifies the whole tree again, and pins its cycles. *)
AssemblerCheck(z) ==
  /\ fin[z].at = "checked"
  /\ ~local[fin[z].dest].nested
  /\ local[fin[z].dest].tree.parts = AllParts
  /\ local[fin[z].dest].tree.cycles = PackagedCycles
  /\ out[fin[z].out] = None
  /\ Fins(z, [fin[z] EXCEPT !.at = "verified"])
  /\ UNCHANGED out

(* The parts are copied by name: what was moved inside since is left out. *)
AssemblerCopy(z) ==
  /\ fin[z].at = "verified"
  /\ Fins(z, [at |-> "copied", package |-> Package(fin[z]), out |-> fin[z].out])
  /\ UNCHANGED out

(* Mutant of FinPublish: a package that appeared meanwhile is replaced. *)
FinReplace(z) ==
  /\ fin[z].at = "copied"
  /\ out' = [out EXCEPT ![fin[z].out] = fin[z].package]
  /\ Fins(z, [at |-> "published", package |-> fin[z].package, out |-> fin[z].out])

(* os.replace fails on a directory that is not empty. *)
FinPublish(z) ==
  /\ fin[z].at = "copied"
  /\ out[fin[z].out] = None
  /\ out' = [out EXCEPT ![fin[z].out] = fin[z].package]
  /\ Fins(z, [at |-> "published", package |-> fin[z].package, out |-> fin[z].out])

(* The finalizer validates the package it finds at the path. *)
FinConfirm(z) ==
  /\ fin[z].at = "published"
  /\ out[fin[z].out] = fin[z].package
  /\ Fins(z, Done)
  /\ UNCHANGED out

(* A refusal, an error or a kill: a package already renamed stays. *)
FinFails(z) ==
  /\ fin[z] \notin {Idle, Done}
  /\ Fins(z, Done)
  /\ UNCHANGED out

-------------------------------------------------------------------------------
JobStep(j) ==
  \/ JobStart(j) \/ CreateWorkDir(j) \/ CloseInputs(j) \/ OpenPhaseA(j)
  \/ WriteContext(j) \/ BeginTraining(j) \/ TrainCycle(j) \/ EndTraining(j)
  \/ SealTraining(j) \/ WriteSidecar(j) \/ Postcheck(j) \/ Evaluate(j)
  \/ WriteEvaluation(j) \/ CheckEvaluation(j) \/ SealComponents(j)
  \/ PublishComponents(j) \/ JobExit(j) \/ JobFail(j) \/ JobLost(j)

FetchStep(f) ==
  \/ \E j \in ChainJobs, g \in Receipts \cup {None}, d \in Dests : FetchCopy(f, j, g, d)
  \/ FetchMove(f) \/ FetchReceipt(f) \/ FetchDies(f)

FinStep(z) ==
  \/ \E m \in fetched, g \in Receipts, o \in Outs : FinCheck(z, m, g, o)
  \/ AssemblerCheck(z) \/ AssemblerCopy(z) \/ FinPublish(z) \/ FinConfirm(z)
  \/ FinFails(z)

ChainNext ==
  \/ \E j \in ChainJobs : JobStep(j)
  \/ \E r \in Receipts, j \in ChainJobs : TerminalReceipt(r, j)
  \/ \E f \in Fetchers : FetchStep(f)
  \/ \E z \in Finalizers : FinStep(z)

ChainSpec == ChainInit /\ [][ChainNext]_chainVars

-------------------------------------------------------------------------------
(* Properties. *)

TrainStates == [cycles : 0..Ceiling, updates : 0..Target, full : BOOLEAN]
ReceiptRows == [job : ChainJobs, state : {"completed", "failed"}, restarts : 0..MaxRestarts]
Copies      == [gate : Receipts \cup {None}, dest : Dests, tree : Trees]
Holdings    == [tree : Trees, nested : BOOLEAN]
Copying     == [at : {"copied", "moved"}, gate : Receipts \cup {None}, dest : Dests, tree : Trees]
Packages    == [job : ChainJobs, gate : Receipts, tree : Trees]
FinStates   == {Idle, Done} \cup [at : {"checked", "verified"}, gate : Receipts, dest : Dests, out : Outs]
                            \cup [at : {"copied", "published"}, package : Packages, out : Outs]

(* None is no row of any file. *)
ASSUME NoneAssumption ==
  None \notin Trees \cup ReceiptRows \cup Holdings \cup Packages

(* The values of the variables: in particular no run of the training driver *)
(* goes past its outer-cycle ceiling or its update target. *)
ChainTypeOK ==
  /\ jobState \in [ChainJobs -> {"pending", "running", "completed", "failed"}]
  /\ restarts \in [ChainJobs -> 0..MaxRestarts]
  /\ line \in [ChainJobs -> Labels]
  /\ train \in [ChainJobs -> TrainStates]
  /\ parts \in [ChainJobs -> SUBSET AllParts]
  /\ workDir \in [ChainJobs -> BOOLEAN]
  /\ finalDir \in [ChainJobs -> Trees \cup {None}]
  /\ receipts \in [Receipts -> ReceiptRows \cup {None}]
  /\ fetch \in [Fetchers -> {Idle, Done} \cup Copying]
  /\ local \in [Dests -> Holdings \cup {None}]
  /\ fetched \in SUBSET Copies
  /\ fin \in [Finalizers -> FinStates]
  /\ out \in [Outs -> Packages \cup {None}]

(* A job Slurm accounts COMPLETED has published the components of the very *)
(* run that completed, trained, evaluated and sealed, whatever was lost and *)
(* restarted before (`set -e`, mv -T, exit trap of the batch script). *)
CompletedHasItsComponents ==
  \A j \in ChainJobs : jobState[j] = "completed" =>
    /\ finalDir[j] # None
    /\ finalDir[j].run = restarts[j]
    /\ finalDir[j].parts = AllParts

(* A package is the components of one job that completed in its first run, *)
(* with the cycles the assembler pins and every part, fetched after the *)
(* terminal receipt it archives was captured from that job; so it stays, *)
(* however fetches, finalizers and jobs interleave and die. *)
PackageIsOneCompletedRun ==
  \A o \in Outs : out[o] # None =>
    LET p == out[o] IN
      /\ jobState[p.job] = "completed" /\ restarts[p.job] = 0
      /\ p.tree = finalDir[p.job]
      /\ p.tree.run = 0 /\ p.tree.cycles = PackagedCycles /\ p.tree.parts = AllParts
      /\ receipts[p.gate].job = p.job
      /\ \E m \in fetched : m.gate = p.gate /\ m.tree = p.tree

(* A package is never replaced, by a second finalizer for the same path or *)
(* by the rerun of one that died after its rename. *)
PackageIsFinal == [][\A o \in Outs : out[o] # None => out'[o] = out[o]]_chainVars

(* The components directory of a job as EvidenceBlock promises it. *)
Published(j) == INSTANCE EvidenceBlock WITH
  Jobs  <- {j},
  NoJob <- None,
  block <- IF finalDir[j] = None THEN None ELSE j,
  acct  <- [k \in {j} |-> jobState[k]]

(* Each job publishes its components once, as a whole, and completes only *)
(* with them: the promise the BARN seed blocks keep, kept by this chain. *)
ComponentsKeepPromise ==
  /\ \A j \in ChainJobs : Published(j)!Init
  /\ [][\A j \in ChainJobs : [Published(j)!Next]_(Published(j)!vars)]_chainVars
=============================================================================
