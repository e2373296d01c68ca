---------------------------- MODULE EvidenceBlock ----------------------------
(***************************************************************************)
(* What the publication of one seed block promises to whoever finalizes    *)
(* the ledger (icra2027/prereg_icra.md, "crash after rename exposes only   *)
(* the complete directory"): the canonical directory is written once, by   *)
(* one Slurm job, as a whole, and a job is accounted COMPLETED only after  *)
(* its own block is there.                                                 *)
(***************************************************************************)
CONSTANTS
  Jobs,   \* Slurm element jobs that write the block
  NoJob

VARIABLES
  block,  \* the job whose complete block is at the canonical path, or NoJob
  acct    \* Slurm's state of each job

vars == <<block, acct>>

Init ==
  /\ block = NoJob
  /\ acct = [j \in Jobs |-> "pending"]

(* A job starts, fails or, after the loss of its node, is queued again. *)
Schedule(j) ==
  /\ acct[j] \in {"pending", "running"}
  /\ acct' \in {[acct EXCEPT ![j] = s] : s \in {"pending", "running", "failed"}}
  /\ UNCHANGED block

Publish(j) ==
  /\ block = NoJob
  /\ block' = j
  /\ UNCHANGED acct

Complete(j) ==
  /\ acct[j] = "running"
  /\ block = j
  /\ acct' = [acct EXCEPT ![j] = "completed"]
  /\ UNCHANGED block

Next == \E j \in Jobs : Schedule(j) \/ Publish(j) \/ Complete(j)

Spec == Init /\ [][Next]_vars
=============================================================================
