----------------------------- MODULE SeedPublish -----------------------------
(***************************************************************************)
(* hopper/sbatch/barn_seed_cpu.sbatch: how one seed of one attempt becomes *)
(* a directory at its canonical path, from the refusal to overwrite to the *)
(* claim-fenced rename.                                                    *)
(*                                                                         *)
(* Several executions may be after the same path: Slurm queues a job again *)
(* when it loses the node (the batch script does not forbid it), the lost  *)
(* node may still be running the first execution, and a second array of    *)
(* the same attempt has jobs of its own.  The work directory carries the   *)
(* job id, so executions of one job share it.                              *)
(***************************************************************************)
EXTENDS Naturals

CONSTANTS
  Jobs,       \* Slurm element jobs of this attempt and seed
  Execs,      \* executions of the batch script
  Faults,     \* kinds of faults that may happen
  MaxFaults,  \* bound on the number of faults in a behaviour
  NoJob, NoExec

ASSUME FaultsAssumption ==
  /\ Faults \subseteq {"kill", "requeue", "partition"}
  /\ MaxFaults \in Nat

ASSUME NullAssumption ==
  /\ NoJob \notin Jobs
  /\ NoExec \notin Execs

VARIABLES
  acct,    \* Slurm's state of each job
  runs,    \* the execution Slurm believes each job to be, or NoExec
  pc,      \* control state of each execution
  job,     \* SLURM_JOB_ID of each execution
  work,    \* WORK_BLOCK of each job: how much of the block is written
  final,   \* FINAL_BLOCK: NoJob, or whose work directory was renamed to it
  sealed,  \* FINAL_BLOCK holds a COMPLETE marker
  claim,   \* the job whose COMPLETE the claim file links, or NoJob
  faults

execVars == <<pc, job>>
fileVars == <<work, final, sealed, claim>>
vars     == <<acct, runs, execVars, fileVars, faults>>

Stages == {"absent", "open", "artifact", "summed", "complete"}
States == {"idle", "check", "mkdir", "run", "manifest", "complete", "destination",
           "claim", "recheck", "rename", "exit"}

Init ==
  /\ acct = [j \in Jobs |-> "pending"]
  /\ runs = [j \in Jobs |-> NoExec]
  /\ pc = [e \in Execs |-> "idle"]
  /\ job = [e \in Execs |-> NoJob]
  /\ work = [j \in Jobs |-> "absent"]
  /\ final = NoJob
  /\ sealed = FALSE
  /\ claim = NoJob
  /\ faults = 0

-------------------------------------------------------------------------------
Goto(e, from, to) ==
  /\ pc[e] = from
  /\ pc' = [pc EXCEPT ![e] = to]

(* Mutant of Ends: an execution Slurm gave up is accounted nevertheless. *)
EndsAnyway(e, state) ==
  /\ pc' = [pc EXCEPT ![e] = "idle"]
  /\ job' = [job EXCEPT ![e] = NoJob]
  /\ acct' = [acct EXCEPT ![job[e]] = state]
  /\ runs' = [runs EXCEPT ![job[e]] = NoExec]

(* The process ends; Slurm accounts the job if this is the execution it knows. *)
Ends(e, state) ==
  /\ pc' = [pc EXCEPT ![e] = "idle"]
  /\ job' = [job EXCEPT ![e] = NoJob]
  /\ IF runs[job[e]] = e
       THEN /\ acct' = [acct EXCEPT ![job[e]] = state]
            /\ runs' = [runs EXCEPT ![job[e]] = NoExec]
       ELSE UNCHANGED <<acct, runs>>

(* A refusal: the script exits with a nonzero status and keeps its files. *)
Refuses(e) ==
  /\ Ends(e, "failed")
  /\ UNCHANGED <<fileVars, faults>>

Start(e, j) ==
  /\ Goto(e, "idle", "check")
  /\ acct[j] = "pending"
  /\ acct' = [acct EXCEPT ![j] = "running"]
  /\ runs' = [runs EXCEPT ![j] = e]
  /\ job' = [job EXCEPT ![e] = j]
  /\ UNCHANGED <<fileVars, faults>>

(* refuse_existing_destination, and the same test before the work begins. *)
SeesNoBlock(e, from, to) ==
  /\ Goto(e, from, to)
  /\ final = NoJob
  /\ UNCHANGED <<acct, runs, job, fileVars, faults>>

CheckFinal(e)  == SeesNoBlock(e, "check", "mkdir")
CheckDest(e)   == SeesNoBlock(e, "destination", "claim")
RecheckDest(e) == SeesNoBlock(e, "recheck", "rename")

RefuseBlock(e) ==
  /\ pc[e] \in {"check", "destination", "recheck"}
  /\ final # NoJob
  /\ Refuses(e)

(* An execution that finds the work directory of its job leaves it alone. *)
MakeWork(e) ==
  /\ Goto(e, "mkdir", "run")
  /\ work[job[e]] = "absent"
  /\ work' = [work EXCEPT ![job[e]] = "open"]
  /\ UNCHANGED <<acct, runs, job, final, sealed, claim, faults>>

RefuseWork(e) ==
  /\ pc[e] = "mkdir"
  /\ work[job[e]] # "absent"
  /\ Refuses(e)

(* The run, its validation, and the artifact moved out of tmp; or a failure. *)
Extends(e, from, to, stage) ==
  /\ Goto(e, from, to)
  /\ work' = [work EXCEPT ![job[e]] = stage]
  /\ UNCHANGED <<acct, runs, job, final, sealed, claim, faults>>

Run(e) == Extends(e, "run", "manifest", "artifact")

(* Mutant of Manifest: the block is published without its COMPLETE marker. *)
ManifestOnly(e) == Extends(e, "manifest", "destination", "summed")

Manifest(e) == Extends(e, "manifest", "complete", "summed")

MarkComplete(e) == Extends(e, "complete", "destination", "complete")

(* set -e: the run, its validation, the checksums or the rename itself fails. *)
Fails(e) ==
  /\ pc[e] \in {"run", "manifest", "complete", "rename"}
  /\ Refuses(e)

(* Mutant of TakeClaim: the claim is written over, not linked. *)
TakeClaimOver(e) ==
  /\ Goto(e, "claim", "recheck")
  /\ claim' = job[e]
  /\ UNCHANGED <<acct, runs, job, work, final, sealed, faults>>

(* os.link of COMPLETE is exclusive; its inode is compared with COMPLETE's. *)
TakeClaim(e) ==
  /\ Goto(e, "claim", "recheck")
  /\ claim = NoJob
  /\ claim' = job[e]
  /\ UNCHANGED <<acct, runs, job, work, final, sealed, faults>>

RefuseClaim(e) ==
  /\ pc[e] = "claim"
  /\ claim # NoJob
  /\ Refuses(e)

(* os.rename: plain, so nothing but the claim protects the destination. *)
Rename(e) ==
  /\ Goto(e, "rename", "exit")
  /\ final' = job[e]
  /\ sealed' = (work[job[e]] = "complete")
  /\ work' = [work EXCEPT ![job[e]] = "absent"]
  /\ UNCHANGED <<acct, runs, job, claim, faults>>

Exit(e) ==
  /\ pc[e] = "exit"
  /\ Ends(e, "completed")
  /\ UNCHANGED <<fileVars, faults>>

-------------------------------------------------------------------------------
Fault(kind) ==
  /\ kind \in Faults
  /\ faults < MaxFaults
  /\ faults' = faults + 1

(* Time limit, memory limit or cancellation: the process is killed. *)
Kill(e) ==
  /\ Fault("kill")
  /\ pc[e] # "idle"
  /\ Ends(e, "failed")
  /\ UNCHANGED fileVars

(* The node dies and Slurm queues the job again under the same id. *)
Requeue(j) ==
  /\ Fault("requeue")
  /\ runs[j] # NoExec
  /\ acct' = [acct EXCEPT ![j] = "pending"]
  /\ runs' = [runs EXCEPT ![j] = NoExec]
  /\ pc' = [pc EXCEPT ![runs[j]] = "idle"]
  /\ job' = [job EXCEPT ![runs[j]] = NoJob]
  /\ UNCHANGED fileVars

(* Slurm only believes the node dead: the execution goes on unaccounted. *)
Partition(j) ==
  /\ Fault("partition")
  /\ runs[j] # NoExec
  /\ acct' = [acct EXCEPT ![j] = "pending"]
  /\ runs' = [runs EXCEPT ![j] = NoExec]
  /\ UNCHANGED <<execVars, fileVars>>

-------------------------------------------------------------------------------
Step(e) ==
  \/ CheckFinal(e) \/ MakeWork(e) \/ Run(e) \/ Manifest(e) \/ MarkComplete(e)
  \/ CheckDest(e) \/ TakeClaim(e) \/ RecheckDest(e) \/ Rename(e) \/ Exit(e)
  \/ RefuseBlock(e) \/ RefuseWork(e) \/ Fails(e) \/ RefuseClaim(e)

Next ==
  \/ \E e \in Execs : (\E j \in Jobs : Start(e, j)) \/ Step(e) \/ Kill(e)
  \/ \E j \in Jobs : Requeue(j) \/ Partition(j)

Spec == Init /\ [][Next]_vars

-------------------------------------------------------------------------------
(* Accounting, executions and files are in states the script and Slurm know. *)
TypeOK ==
  /\ acct \in [Jobs -> {"pending", "running", "completed", "failed"}]
  /\ runs \in [Jobs -> Execs \cup {NoExec}]
  /\ pc \in [Execs -> States]
  /\ job \in [Execs -> Jobs \cup {NoJob}]
  /\ work \in [Jobs -> Stages]
  /\ final \in Jobs \cup {NoJob}
  /\ sealed \in BOOLEAN
  /\ claim \in Jobs \cup {NoJob}
  /\ faults \in Nat

(***************************************************************************)
(* The canonical directory never shows a partial block, and it is the      *)
(* block of the job that owns the claim, however many executions raced.    *)
(***************************************************************************)
BlockIsSealed == final # NoJob => sealed /\ claim = final

(***************************************************************************)
(* The rename replaces nothing: an execution about to rename finds the     *)
(* destination absent and its own work directory sealed, and no other      *)
(* execution is at that point.  This is what stands in for RENAME_NOREPLACE. *)
(***************************************************************************)
RenameIsExclusive ==
  \A e \in Execs : pc[e] = "rename" =>
    /\ final = NoJob
    /\ work[job[e]] = "complete"
    /\ \A o \in Execs : pc[o] = "rename" => o = e

(* A task Slurm accounts COMPLETED has published its own block. *)
CompletedIsPublished ==
  \A j \in Jobs : acct[j] = "completed" => final = j /\ sealed

(* A published block is never replaced or withdrawn, by any execution. *)
BlockIsFinal == [][final = NoJob]_final

Promise == INSTANCE EvidenceBlock
  WITH block <- IF sealed THEN final ELSE NoJob

(* The script and Slurm together keep the promise of EvidenceBlock: one     *)
(* job's whole block, never replaced, and there before COMPLETED.           *)
ImplementsPromise == Promise!Spec

(***************************************************************************)
(* icra2027/README.md has the ledger finalized "after every recorded array *)
(* task is terminal, and after any scheduler-visible failure has been      *)
(* retried"; finalize_barn_ledger.sh then refuses a failed task that       *)
(* "exposes a canonical partial/final seed block".  Finalization can only  *)
(* follow the README if a failed task never leaves a block behind.         *)
(***************************************************************************)
FailedExposesNoBlock ==
  \A j \in Jobs : acct[j] = "failed" => final # j
=============================================================================
