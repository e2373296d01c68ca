---------------------------- MODULE SubmissionLedger ----------------------------
(***************************************************************************)
(* What a BARN evidence campaign promises about its submissions, whatever  *)
(* the transaction that keeps the promise: one append-only ledger on the   *)
(* cluster names every Slurm array that ever becomes eligible to run, and  *)
(* names it before that array is released.                                 *)
(*                                                                         *)
(* A ledger row of this module stands for the five rows (seeds 1..5) the   *)
(* code appends together for one attempt and one array job.                *)
(***************************************************************************)
EXTENDS Naturals, Sequences

CONSTANTS
  Attempts,  \* campaign cell / attempt identities
  Jobs       \* Slurm array job identities sbatch may hand out

VARIABLES
  ledger,    \* the authoritative SUBMISSION_LEDGER.json of the campaign
  array      \* scheduler state of each array job

Row    == [attempt : Attempts, job : Jobs]
Ledger == Seq(Row)

Recorded(l)         == {l[i] : i \in DOMAIN l}
RecordedJobs(l)     == {r.job : r \in Recorded(l)}
RecordedAttempts(l) == {r.attempt : r \in Recorded(l)}

ArrayState == {"none", "held", "released"}

vars == <<ledger, array>>

Init ==
  /\ ledger = << >>
  /\ array = [j \in Jobs |-> "none"]

(***************************************************************************)
(* A held array costs nothing and may be abandoned; it is allocated        *)
(* without any promise.                                                    *)
(***************************************************************************)
Allocate(j) ==
  /\ array[j] = "none"
  /\ array' = [array EXCEPT ![j] = "held"]
  /\ UNCHANGED ledger

(* An attempt is recorded once, while its array is still held. *)
Record(a, j) ==
  /\ array[j] = "held"
  /\ a \notin RecordedAttempts(ledger)
  /\ j \notin RecordedJobs(ledger)
  /\ ledger' = Append(ledger, [attempt |-> a, job |-> j])
  /\ UNCHANGED array

(* Only a recorded array is released, and only once. *)
Release(j) ==
  /\ array[j] = "held"
  /\ j \in RecordedJobs(ledger)
  /\ array' = [array EXCEPT ![j] = "released"]
  /\ UNCHANGED ledger

Next ==
  \E j \in Jobs :
    \/ Allocate(j)
    \/ \E a \in Attempts : Record(a, j)
    \/ Release(j)

Spec == Init /\ [][Next]_vars

=============================================================================
