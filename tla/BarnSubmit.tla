------------------------------ MODULE BarnSubmit ------------------------------
(***************************************************************************)
(* hopper/submit_barn_campaign.sh: one evidence submission as a            *)
(* transaction over three stores that fail independently.                  *)
(*                                                                         *)
(*   - the local ledger directory of a checkout (LEDGER_DIR): the ledger,  *)
(*     the pending-transaction marker, the proposed ledger and the lock;   *)
(*   - the campaign root on the cluster: the authoritative ledger, its     *)
(*     lock and the per-transaction staging file;                          *)
(*   - Slurm: the array, held by sbatch --hold, freed by scontrol release. *)
(*                                                                         *)
(* A clone is a checkout with a ledger directory of its own.  A ledger is  *)
(* the sequence of its five-row blocks, so two ledgers have the same       *)
(* SHA-256 exactly when they are equal, and << >> is the ABSENT ledger.    *)
(***************************************************************************)
EXTENDS Naturals, Sequences

CONSTANTS
  Clones,      \* checkouts submitting to the one campaign modelled here
  Attempts,    \* cell / attempt identities an operator may submit
  Jobs,        \* array identities Slurm may allocate: bounds sbatch calls
  Installers,  \* remote install processes that may be alive at once
  Faults,      \* kinds of faults that may happen
  MaxFaults,   \* bound on the number of faults in a behaviour
  NoJob, NoTx, TornTx, NoClone

ASSUME FaultsAssumption ==
  /\ Faults \subseteq {"abort", "kill", "killInstaller", "signal"}
  /\ MaxFaults \in Nat

ASSUME NullAssumption ==
  /\ NoJob \notin Jobs
  /\ NoClone \notin Clones

VARIABLES
  \* the local ledger directory of each clone
  lock,      \* .CAMPAIGN.submit.lock exists
  local,     \* CAMPAIGN.json
  marker,    \* .CAMPAIGN.pending-submission.json
  proposed,  \* .CAMPAIGN.pending-ledger-SHA.json files
  \* the submitter process of each clone
  pc,
  tx,        \* ATTEMPT_ID, ARRAY_JOB_ID, PREVIOUS_LEDGER_SHA, LEDGER_SHA
  \* the cluster
  remote,    \* SUBMISSION_LEDGER.json
  rlock,     \* SUBMISSION_LEDGER.json.lock exists
  stage,     \* .SUBMISSION_LEDGER.stage-JOB-SHA of each job
  array,     \* Slurm's state of each array
  \* remote install processes
  ipc,
  itx,
  iowner,    \* the clone whose submitter reads the answer, or NoClone
  faults

localVars  == <<lock, local, marker, proposed>>
subVars    == <<pc, tx>>
remoteVars == <<remote, rlock, stage>>
instVars   == <<ipc, itx, iowner>>
vars       == <<localVars, subVars, remoteVars, array, instVars, faults>>

-------------------------------------------------------------------------------
Row    == [attempt : Attempts, job : Jobs]
Ledger == Seq(Row)

Recorded(l)         == {l[i] : i \in DOMAIN l}
RecordedJobs(l)     == {r.job : r \in Recorded(l)}
RecordedAttempts(l) == {r.attempt : r \in Recorded(l)}

(* A durable transaction, and the shell variables of one being built. *)
Tx      == [attempt : Attempts, job : Jobs, prev : Ledger, next : Ledger]
DraftTx == [attempt : Attempts, job : Jobs \cup {NoJob},
            prev : Ledger, next : Ledger]

ASSUME TxAssumption == NoTx \notin Tx /\ TornTx \notin Tx /\ NoTx # TornTx

RowOf(t) == [attempt |-> t.attempt, job |-> t.job]

SubmitterStates ==
  {"idle", "preflight", "hold", "verify", "propose", "mark", "fill", "replace",
   "upload", "uploading", "install", "await", "localcheck", "release", "clean",
   "finish", "failed"}
InstallerStates == {"idle", "check", "lock", "compare", "move", "verify"}

Init ==
  /\ lock = [c \in Clones |-> FALSE]
  /\ local = [c \in Clones |-> << >>]
  /\ marker = [c \in Clones |-> NoTx]
  /\ proposed = [c \in Clones |-> {}]
  /\ pc = [c \in Clones |-> "idle"]
  /\ tx = [c \in Clones |-> NoTx]
  /\ remote = << >>
  /\ rlock = FALSE
  /\ stage = [j \in Jobs |-> "absent"]
  /\ array = [j \in Jobs |-> "none"]
  /\ ipc = [i \in Installers |-> "idle"]
  /\ itx = [i \in Installers |-> NoTx]
  /\ iowner = [i \in Installers |-> NoClone]
  /\ faults = 0

Goto(c, from, to) ==
  /\ pc[c] = from
  /\ pc' = [pc EXCEPT ![c] = to]

-------------------------------------------------------------------------------
(* The local half of the submitter. *)

(* Mutant of Begin: the recorded attempts are not looked up. *)
BeginAgain(c, a) ==
  /\ Goto(c, "idle", "preflight")
  /\ ~lock[c]
  /\ marker[c] = NoTx
  /\ lock' = [lock EXCEPT ![c] = TRUE]
  /\ tx' = [tx EXCEPT ![c] = [attempt |-> a, job |-> NoJob,
                              prev |-> local[c], next |-> << >>]]
  /\ UNCHANGED <<local, marker, proposed, remoteVars, array, instVars, faults>>

(***************************************************************************)
(* A fresh submission: the lock directory is created, no transaction is    *)
(* pending, and the local ledger does not hold this attempt yet.  Any      *)
(* other call for a fresh attempt exits without having changed anything.   *)
(***************************************************************************)
Begin(c, a) ==
  /\ Goto(c, "idle", "preflight")
  /\ ~lock[c]
  /\ marker[c] = NoTx
  /\ a \notin RecordedAttempts(local[c])
  /\ lock' = [lock EXCEPT ![c] = TRUE]
  /\ tx' = [tx EXCEPT ![c] = [attempt |-> a, job |-> NoJob,
                              prev |-> local[c], next |-> << >>]]
  /\ UNCHANGED <<local, marker, proposed, remoteVars, array, instVars, faults>>

(* Mutant of Resume: only a ledger replaced already is accepted. *)
ResumeReplaced(c) ==
  /\ Goto(c, "idle", "preflight")
  /\ ~lock[c]
  /\ marker[c] \notin {NoTx, TornTx}
  /\ marker[c].next \in proposed[c]
  /\ local[c] = marker[c].next
  /\ lock' = [lock EXCEPT ![c] = TRUE]
  /\ tx' = [tx EXCEPT ![c] = marker[c]]
  /\ UNCHANGED <<local, marker, proposed, remoteVars, array, instVars, faults>>

(***************************************************************************)
(* The same command again after a failure: the marker must be whole, its   *)
(* proposed ledger present, and the local ledger either still the previous *)
(* one (then it is replaced) or already the proposed one.                  *)
(***************************************************************************)
Resume(c) ==
  /\ Goto(c, "idle", "preflight")
  /\ ~lock[c]
  /\ marker[c] \notin {NoTx, TornTx}
  /\ marker[c].next \in proposed[c]
  /\ local[c] \in {marker[c].prev, marker[c].next}
  /\ lock' = [lock EXCEPT ![c] = TRUE]
  /\ local' = [local EXCEPT ![c] = marker[c].next]
  /\ tx' = [tx EXCEPT ![c] = marker[c]]
  /\ UNCHANGED <<marker, proposed, remoteVars, array, instVars, faults>>

(* Mutant of Preflight: a resumed transaction is taken to be installed. *)
PreflightTrusting(c) ==
  /\ Goto(c, "preflight", IF tx[c].job = NoJob THEN "hold" ELSE "release")
  /\ UNCHANGED <<localVars, tx, remoteVars, array, instVars, faults>>

(* The remote closure verifies; a resumed transaction already has its array. *)
Preflight(c) ==
  /\ Goto(c, "preflight", IF tx[c].job = NoJob THEN "hold" ELSE "verify")
  /\ UNCHANGED <<localVars, tx, remoteVars, array, instVars, faults>>

(* Mutant of HoldArray: sbatch's answer is not captured. *)
HoldUnnamedArray(c) ==
  /\ Goto(c, "hold", "propose")
  /\ \E j \in Jobs :
       /\ array[j] = "none"
       /\ array' = [array EXCEPT ![j] = "held"]
  /\ UNCHANGED <<localVars, tx, remoteVars, instVars, faults>>

(* sbatch --hold: the array exists from here on, whoever remembers its id. *)
HoldArray(c) ==
  /\ Goto(c, "hold", "propose")
  /\ \E j \in Jobs :
       /\ array[j] = "none"
       /\ array' = [array EXCEPT ![j] = "held"]
       /\ tx' = [tx EXCEPT ![c].job = j]
  /\ UNCHANGED <<localVars, remoteVars, instVars, faults>>

(* squeue must report exactly JOB|PENDING|JobHeldUser before a resume goes on. *)
VerifyHeld(c) ==
  /\ Goto(c, "verify", IF array[tx[c].job] = "held" THEN "upload" ELSE "failed")
  /\ UNCHANGED <<localVars, tx, remoteVars, array, instVars, faults>>

(* The three durable local writes, each of which may be the last. *)
WriteProposal(c) ==
  LET next == Append(local[c], RowOf(tx[c])) IN
  /\ Goto(c, "propose", "mark")
  /\ proposed' = [proposed EXCEPT ![c] = @ \cup {next}]
  /\ tx' = [tx EXCEPT ![c].next = next]
  /\ UNCHANGED <<lock, local, marker, remoteVars, array, instVars, faults>>

CreateMarker(c) ==
  /\ Goto(c, "mark", "fill")
  /\ marker[c] = NoTx
  /\ marker' = [marker EXCEPT ![c] = TornTx]
  /\ UNCHANGED <<lock, local, proposed, tx, remoteVars, array, instVars, faults>>

FillMarker(c) ==
  /\ Goto(c, "fill", "replace")
  /\ marker' = [marker EXCEPT ![c] = tx[c]]
  /\ UNCHANGED <<lock, local, proposed, tx, remoteVars, array, instVars, faults>>

ReplaceLocal(c) ==
  /\ Goto(c, "replace", "upload")
  /\ local' = [local EXCEPT ![c] = tx[c].next]
  /\ UNCHANGED <<lock, marker, proposed, tx, remoteVars, array, instVars, faults>>

(***************************************************************************)
(* The staging file is reused when it is already whole; a partial upload   *)
(* is discarded and started again.                                         *)
(***************************************************************************)
ReuseStage(c) ==
  /\ Goto(c, "upload", "install")
  /\ stage[tx[c].job] = "full"
  /\ UNCHANGED <<localVars, tx, remoteVars, array, instVars, faults>>

StartUpload(c) ==
  /\ Goto(c, "upload", "uploading")
  /\ stage[tx[c].job] # "full"
  /\ stage' = [stage EXCEPT ![tx[c].job] = "partial"]
  /\ UNCHANGED <<localVars, tx, remote, rlock, array, instVars, faults>>

FinishUpload(c) ==
  /\ Goto(c, "uploading", "install")
  /\ stage' = [stage EXCEPT ![tx[c].job] = "full"]
  /\ UNCHANGED <<localVars, tx, remote, rlock, array, instVars, faults>>

(* ssh starts the install program on the cluster and waits for its answer. *)
StartInstall(c) ==
  /\ Goto(c, "install", "await")
  /\ \E i \in Installers :
       /\ ipc[i] = "idle"
       /\ ipc' = [ipc EXCEPT ![i] = "check"]
       /\ itx' = [itx EXCEPT ![i] = tx[c]]
       /\ iowner' = [iowner EXCEPT ![i] = c]
  /\ UNCHANGED <<localVars, tx, remoteVars, array, faults>>

LocalCheck(c) ==
  /\ Goto(c, "localcheck", IF local[c] = tx[c].next THEN "release" ELSE "failed")
  /\ UNCHANGED <<localVars, tx, remoteVars, array, instVars, faults>>

ReleaseArray(c) ==
  /\ Goto(c, "release", "clean")
  /\ array' = [array EXCEPT ![tx[c].job] = "released"]
  /\ UNCHANGED <<localVars, tx, remoteVars, instVars, faults>>

RemoveMarker(c) ==
  /\ Goto(c, "clean", "finish")
  /\ marker' = [marker EXCEPT ![c] = NoTx]
  /\ UNCHANGED <<lock, local, proposed, tx, remoteVars, array, instVars, faults>>

Finish(c) ==
  /\ Goto(c, "finish", "idle")
  /\ proposed' = [proposed EXCEPT ![c] = @ \ {tx[c].next}]
  /\ lock' = [lock EXCEPT ![c] = FALSE]
  /\ tx' = [tx EXCEPT ![c] = NoTx]
  /\ UNCHANGED <<local, marker, remoteVars, array, instVars, faults>>

(* Mutants of Exit: the trap also removes the proposal, or the marker. *)
ExitDroppingProposal(c) ==
  /\ Goto(c, "failed", "idle")
  /\ lock' = [lock EXCEPT ![c] = FALSE]
  /\ tx' = [tx EXCEPT ![c] = NoTx]
  /\ proposed' = [proposed EXCEPT ![c] = @ \ {tx[c].next}]
  /\ UNCHANGED <<local, marker, remoteVars, array, instVars, faults>>

ExitDroppingMarker(c) ==
  /\ Goto(c, "failed", "idle")
  /\ lock' = [lock EXCEPT ![c] = FALSE]
  /\ tx' = [tx EXCEPT ![c] = NoTx]
  /\ marker' = [marker EXCEPT ![c] = NoTx]
  /\ UNCHANGED <<local, proposed, remoteVars, array, instVars, faults>>

(* cleanup_submission: every exit but SIGKILL removes the lock directory. *)
Exit(c) ==
  /\ Goto(c, "failed", "idle")
  /\ lock' = [lock EXCEPT ![c] = FALSE]
  /\ tx' = [tx EXCEPT ![c] = NoTx]
  /\ UNCHANGED <<local, marker, proposed, remoteVars, array, instVars, faults>>

-------------------------------------------------------------------------------
(* The remote install program. *)

(* Mutant of Answer: the status of the remote program is not looked at. *)
AnswerUnchecked(i, ok) ==
  /\ ipc' = [ipc EXCEPT ![i] = "idle"]
  /\ itx' = [itx EXCEPT ![i] = NoTx]
  /\ iowner' = [iowner EXCEPT ![i] = NoClone]
  /\ pc' = [c \in Clones |-> IF iowner[i] = c THEN "localcheck" ELSE pc[c]]
  /\ UNCHANGED <<localVars, tx, remote, array, faults>>

(***************************************************************************)
(* Process i ends; its trap removes the lock directory if the process had  *)
(* set the trap, and a failing rmdir turns the status into a failure.  The *)
(* submitter, if it still listens, goes on or fails with the answer.       *)
(***************************************************************************)
Answer(i, ok) ==
  /\ ipc' = [ipc EXCEPT ![i] = "idle"]
  /\ itx' = [itx EXCEPT ![i] = NoTx]
  /\ iowner' = [iowner EXCEPT ![i] = NoClone]
  /\ pc' = [c \in Clones |->
              IF iowner[i] = c THEN (IF ok THEN "localcheck" ELSE "failed")
                               ELSE pc[c]]
  /\ UNCHANGED <<localVars, tx, remote, array, faults>>

Locked(i) == ipc[i] \in {"compare", "move", "verify"}

ExitTrapped(i, ok) ==
  /\ rlock' = FALSE
  /\ Answer(i, ok /\ rlock)

InstallCheck(i) ==
  /\ ipc[i] = "check"
  /\ IF stage[itx[i].job] = "full"
       THEN /\ ipc' = [ipc EXCEPT ![i] = "lock"]
            /\ UNCHANGED <<localVars, subVars, remoteVars, array, itx, iowner, faults>>
       ELSE Answer(i, FALSE) /\ UNCHANGED <<rlock, stage>>

InstallLock(i) ==
  /\ ipc[i] = "lock"
  /\ IF ~rlock
       THEN /\ rlock' = TRUE
            /\ ipc' = [ipc EXCEPT ![i] = "compare"]
            /\ UNCHANGED <<localVars, subVars, remote, stage, array, itx, iowner, faults>>
       ELSE Answer(i, FALSE) /\ UNCHANGED <<rlock, stage>>

(* Idempotent if the ledger is already the proposed one, else compare-and-set. *)
InstallAlready(i) ==
  /\ ipc[i] = "compare"
  /\ remote = itx[i].next
  /\ stage' = [stage EXCEPT ![itx[i].job] = "absent"]
  /\ ipc' = [ipc EXCEPT ![i] = "verify"]
  /\ UNCHANGED <<localVars, subVars, remote, rlock, array, itx, iowner, faults>>

InstallMatches(i) ==
  /\ ipc[i] = "compare"
  /\ remote # itx[i].next
  /\ remote = itx[i].prev
  /\ ipc' = [ipc EXCEPT ![i] = "move"]
  /\ UNCHANGED <<localVars, subVars, remoteVars, array, itx, iowner, faults>>

InstallConflict(i) ==
  /\ ipc[i] = "compare"
  /\ remote \notin {itx[i].next, itx[i].prev}
  /\ ExitTrapped(i, FALSE)
  /\ UNCHANGED stage

InstallMove(i) ==
  /\ ipc[i] = "move"
  /\ IF stage[itx[i].job] = "full"
       THEN /\ remote' = itx[i].next
            /\ stage' = [stage EXCEPT ![itx[i].job] = "absent"]
            /\ ipc' = [ipc EXCEPT ![i] = "verify"]
            /\ UNCHANGED <<localVars, subVars, rlock, array, itx, iowner, faults>>
       ELSE ExitTrapped(i, FALSE) /\ UNCHANGED stage

InstallVerify(i) ==
  /\ ipc[i] = "verify"
  /\ ExitTrapped(i, remote = itx[i].next)
  /\ UNCHANGED stage

-------------------------------------------------------------------------------
(* Faults, and the operator who cleans up after them. *)

Fault(kind) ==
  /\ kind \in Faults
  /\ faults < MaxFaults
  /\ faults' = faults + 1

(* The submitter's process is gone: nobody reads its installer's answer. *)
Abandon(c) ==
  /\ pc[c] # "idle"
  /\ pc' = [pc EXCEPT ![c] = "idle"]
  /\ tx' = [tx EXCEPT ![c] = NoTx]
  /\ iowner' = [i \in Installers |->
                  IF iowner[i] = c THEN NoClone ELSE iowner[i]]
  /\ UNCHANGED <<local, marker, proposed, remoteVars, array, ipc, itx>>

(***************************************************************************)
(* A failed or interrupted command, or a lost ssh reply: the EXIT trap     *)
(* runs, so the lock goes; what the remote side did, it did.               *)
(***************************************************************************)
Abort(c) ==
  /\ Fault("abort")
  /\ Abandon(c)
  /\ lock' = [lock EXCEPT ![c] = FALSE]

(* SIGKILL or power loss: the lock directory stays. *)
Kill(c) ==
  /\ Fault("kill")
  /\ Abandon(c)
  /\ UNCHANGED lock

KillInstaller(i) ==
  /\ Fault("killInstaller")
  /\ ipc[i] # "idle"
  /\ ipc' = [ipc EXCEPT ![i] = "idle"]
  /\ itx' = [itx EXCEPT ![i] = NoTx]
  /\ iowner' = [iowner EXCEPT ![i] = NoClone]
  /\ pc' = [c \in Clones |-> IF iowner[i] = c THEN "failed" ELSE pc[c]]
  /\ UNCHANGED <<localVars, tx, remoteVars, array>>

(***************************************************************************)
(* HUP, INT or TERM: the trap handler removes the lock and returns, and    *)
(* the program goes on where it was.  Without a lock to remove the handler *)
(* fails and set -e ends the program.                                      *)
(***************************************************************************)
SignalInstaller(i) ==
  /\ Fault("signal")
  /\ Locked(i)
  /\ rlock' = FALSE
  /\ ipc' = [ipc EXCEPT ![i] = IF rlock THEN @ ELSE "idle"]
  /\ itx' = [itx EXCEPT ![i] = IF rlock THEN @ ELSE NoTx]
  /\ iowner' = [iowner EXCEPT ![i] = IF rlock THEN @ ELSE NoClone]
  /\ pc' = [c \in Clones |->
              IF iowner[i] = c /\ ~rlock THEN "failed" ELSE pc[c]]
  /\ UNCHANGED <<localVars, tx, remote, stage, array>>

(* No code removes a stale lock: an operator does, once nothing runs. *)
ClearLocalLock(c) ==
  /\ pc[c] = "idle"
  /\ lock[c]
  /\ lock' = [lock EXCEPT ![c] = FALSE]
  /\ UNCHANGED <<local, marker, proposed, subVars, remoteVars, array, instVars, faults>>

ClearRemoteLock ==
  /\ rlock
  /\ \A i \in Installers : ~Locked(i)
  /\ rlock' = FALSE
  /\ UNCHANGED <<localVars, subVars, remote, stage, array, instVars, faults>>

-------------------------------------------------------------------------------
(* Steps the submitter of clone c takes once it runs. *)
Submitter(c) ==
  \/ Preflight(c) \/ HoldArray(c) \/ VerifyHeld(c)
  \/ WriteProposal(c) \/ CreateMarker(c) \/ FillMarker(c) \/ ReplaceLocal(c)
  \/ ReuseStage(c) \/ StartUpload(c) \/ FinishUpload(c) \/ StartInstall(c)
  \/ LocalCheck(c) \/ ReleaseArray(c) \/ RemoveMarker(c) \/ Finish(c) \/ Exit(c)

Installer(i) ==
  \/ InstallCheck(i) \/ InstallLock(i) \/ InstallAlready(i)
  \/ InstallMatches(i) \/ InstallConflict(i) \/ InstallMove(i) \/ InstallVerify(i)

Next ==
  \/ \E c \in Clones :
       \/ \E a \in Attempts : Begin(c, a)
       \/ Resume(c) \/ Submitter(c)
       \/ Abort(c) \/ Kill(c) \/ ClearLocalLock(c)
  \/ \E i \in Installers : Installer(i) \/ KillInstaller(i) \/ SignalInstaller(i)
  \/ ClearRemoteLock

Spec == Init /\ [][Next]_vars

-------------------------------------------------------------------------------
(* Properties. *)

(* Every store and every process is in a state its program knows. *)
TypeOK ==
  /\ lock \in [Clones -> BOOLEAN]
  /\ local \in [Clones -> Ledger]
  /\ marker \in [Clones -> Tx \cup {NoTx, TornTx}]
  /\ proposed \in [Clones -> SUBSET Ledger]
  /\ pc \in [Clones -> SubmitterStates]
  /\ tx \in [Clones -> DraftTx \cup {NoTx}]
  /\ remote \in Ledger
  /\ rlock \in BOOLEAN
  /\ stage \in [Jobs -> {"absent", "partial", "full"}]
  /\ array \in [Jobs -> {"none", "held", "released"}]
  /\ ipc \in [Installers -> InstallerStates]
  /\ itx \in [Installers -> Tx \cup {NoTx}]
  /\ iowner \in [Installers -> Clones \cup {NoClone}]
  /\ faults \in Nat

(***************************************************************************)
(* "Every submission is recorded before execution": an array that may run  *)
(* has its rows in the authoritative remote ledger.  It is the order       *)
(* install, verify, release that keeps it, across lost replies, resumed    *)
(* transactions, orphaned installers and a second checkout.                *)
(***************************************************************************)
RecordedBeforeRelease ==
  \A j \in Jobs : array[j] = "released" => j \in RecordedJobs(remote)

(***************************************************************************)
(* The remote ledger names an attempt once and an array once, so that one  *)
(* attempt never runs as two arrays, however often its command was rerun.  *)
(***************************************************************************)
OneArrayPerAttempt ==
  \A m, n \in DOMAIN remote :
    (remote[m].attempt = remote[n].attempt \/ remote[m].job = remote[n].job) => m = n

(***************************************************************************)
(* A whole pending marker always describes a transaction the same command  *)
(* can take up again: its proposed ledger is on disk, extends the previous *)
(* one by the attempt's rows, and the local ledger is one of the two.      *)
(***************************************************************************)
MarkerIsResumable ==
  \A c \in Clones : marker[c] \notin {NoTx, TornTx} =>
    /\ marker[c].next = Append(marker[c].prev, RowOf(marker[c]))
    /\ marker[c].next \in proposed[c]
    /\ local[c] \in {marker[c].prev, marker[c].next}

(***************************************************************************)
(* A checkout without a pending transaction never holds rows the cluster   *)
(* lacks: its ledger is a prefix of the remote one, so a finalizer that    *)
(* compares the two digests is never misled by a lost submission.          *)
(***************************************************************************)
SettledLedgerIsInstalled ==
  \A c \in Clones : marker[c] = NoTx =>
    /\ Len(local[c]) <= Len(remote)
    /\ \A n \in DOMAIN local[c] : local[c][n] = remote[n]

(* A step of any process keeps every row of the remote ledger in its place. *)
RemoteAppendOnly ==
  [][/\ Len(remote') = Len(remote) + 1
     /\ \A n \in DOMAIN remote : remote'[n] = remote[n]]_remote

Promise == INSTANCE SubmissionLedger WITH ledger <- remote

(* The transaction implements the promise of SubmissionLedger. *)
ImplementsPromise == Promise!Spec

(***************************************************************************)
(* icra2027/README.md: "If a submission reports that its array remains     *)
(* held, rerun the exact same command.  The durable pending record resumes *)
(* that specific transaction."  A pending record nobody is working on      *)
(* would have to name an array that is still held.                         *)
(***************************************************************************)
PendingArrayIsHeld ==
  \A c \in Clones :
    (pc[c] = "idle" /\ marker[c] \notin {NoTx, TornTx})
      => array[marker[c].job] = "held"

(***************************************************************************)
(* Fairness: the operator reruns the pending command, the submitter and    *)
(* the remote program run until they end.  Faults are never required.      *)
(***************************************************************************)
Fairness ==
  /\ \A c \in Clones : WF_vars(Resume(c)) /\ WF_vars(Submitter(c))
  /\ \A i \in Installers : WF_vars(Installer(i))

FairSpec == Spec /\ Fairness

(***************************************************************************)
(* A recorded pending transaction whose array is still held is not lost:   *)
(* its array is eventually released.                                       *)
(***************************************************************************)
PendingIsReleased ==
  \A c \in Clones, j \in Jobs :
    (/\ marker[c] \notin {NoTx, TornTx}
     /\ marker[c].job = j
     /\ array[j] = "held") ~> array[j] = "released"

=============================================================================
