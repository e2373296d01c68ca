----------------------------- MODULE BarnCampaign -----------------------------
(***************************************************************************)
(* A whole evidence campaign: submissions (hopper/submit_barn_campaign.sh, *)
(* whose transaction is SubmissionLedger here), the array tasks (sbatch,   *)
(* whose publication is EvidenceBlock here), the ledger finalizer          *)
(* (hopper/finalize_barn_ledger.sh), the attempt selection                 *)
(* (icra2027/select_barn_attempts.py) and the sealer                       *)
(* (hopper/finalize_barn_campaign.sh), which share nothing but files and   *)
(* the scheduler's accounting.                                             *)
(***************************************************************************)
EXTENDS Naturals, Sequences

CONSTANTS
  Attempts,  \* attempt identities
  Cells,     \* campaign cells, all of which a campaign must cover
  CellOf,    \* the cell of each attempt
  Seeds      \* array tasks of every attempt

ASSUME CellAssumption == CellOf \in [Attempts -> Cells]

VARIABLES
  clock,      \* wall-clock seconds the submitter's host has shown
  sub,        \* progress of each attempt's submission
  utc,        \* SUBMITTED_UTC of each attempt, 0 before it is taken
  base,       \* rows of the ledger a submission proposes to extend
  ledger,     \* SUBMISSION_LEDGER.json: the attempts in recorded order
  task,       \* Slurm's state of each task
  block,      \* the canonical seed block of each task exists
  reader,     \* the ledger finalizer: its step, and the rows it has read
  finalized,  \* finalized_ledgers/: number of rows, and the complete tasks
  locks,      \* .postprocess_locks/
  sealing,    \* finalized ledgers a running sealer works on
  packages    \* sealed_campaigns/: the finalized ledger and its selection

submitVars == <<clock, sub, utc, base, ledger>>
taskVars   == <<task, block>>
sealVars   == <<locks, sealing, packages>>
vars       == <<submitVars, taskVars, reader, finalized, sealVars>>

Tasks    == Attempts \X Seeds
Slots    == Cells \X Seeds
Recorded == {ledger[i] : i \in DOMAIN ledger}
Row(i)   == {ledger[i]} \X Seeds
Rows(n)  == UNION {Row(i) : i \in 1..n}

SubStates  == {"none", "stamped", "ready", "recorded", "pending", "released", "refused"}
TaskStates == {"none", "queued", "running", "completed", "failed", "cancelled"}
Terminal   == {"completed", "failed", "cancelled"}
Idle       == [step |-> "idle", n |-> 0]

Init ==
  /\ clock = 0
  /\ sub = [a \in Attempts |-> "none"]
  /\ utc = [a \in Attempts |-> 0]
  /\ base = [a \in Attempts |-> 0]
  /\ ledger = << >>
  /\ task = [t \in Tasks |-> "none"]
  /\ block = [t \in Tasks |-> FALSE]
  /\ reader = Idle
  /\ finalized = {}
  /\ locks = {}
  /\ sealing = {}
  /\ packages = {}

-------------------------------------------------------------------------------
(* Submissions. *)

Moves(a, from, to) ==
  /\ sub[a] = from
  /\ sub' = [sub EXCEPT ![a] = to]
  /\ UNCHANGED <<taskVars, reader, finalized, sealVars>>

(* The submission time, to the second, is taken before the lock. *)
Stamp(a) ==
  /\ Moves(a, "none", "stamped")
  /\ clock' \in {clock, clock + 1} \ {0}
  /\ utc' = [utc EXCEPT ![a] = clock']
  /\ UNCHANGED <<base, ledger>>

(* The remote preflight, the only place that looks for a sealed package. *)
Preflight(a) ==
  /\ packages = {}
  /\ Moves(a, "stamped", "ready")
  /\ base' = [base EXCEPT ![a] = Len(ledger)]
  /\ UNCHANGED <<clock, utc, ledger>>

(* Mutant of Record: the array is released together with its record. *)
RecordReleased(a) ==
  /\ base[a] = Len(ledger)
  /\ Moves(a, "ready", "released")
  /\ ledger' = Append(ledger, a)
  /\ UNCHANGED <<clock, utc, base>>

(* The remote compare-and-set of the ledger; its failure is permanent. *)
Record(a) ==
  /\ base[a] = Len(ledger)
  /\ Moves(a, "ready", "recorded")
  /\ ledger' = Append(ledger, a)
  /\ UNCHANGED <<clock, utc, base>>

Refuse(a) ==
  /\ base[a] # Len(ledger)
  /\ Moves(a, "ready", "refused")
  /\ UNCHANGED <<clock, utc, base, ledger>>

(* A failure after the install; the rerun of the command starts over. *)
Interrupt(a) ==
  /\ Moves(a, "recorded", "pending")
  /\ UNCHANGED <<clock, utc, base, ledger>>

Resume(a) ==
  /\ packages = {}
  /\ Moves(a, "pending", "recorded")
  /\ UNCHANGED <<clock, utc, base, ledger>>

(* Mutant of Release: the array does not wait for its record. *)
ReleaseEarly(a) ==
  /\ sub[a] \in {"ready", "recorded"}
  /\ sub' = [sub EXCEPT ![a] = "released"]
  /\ task' = [t \in Tasks |-> IF t[1] = a THEN "queued" ELSE task[t]]
  /\ UNCHANGED <<clock, utc, base, ledger, block, reader, finalized, sealVars>>

Release(a) ==
  /\ sub[a] = "recorded"
  /\ sub' = [sub EXCEPT ![a] = "released"]
  /\ task' = [t \in Tasks |-> IF t[1] = a THEN "queued" ELSE task[t]]
  /\ UNCHANGED <<clock, utc, base, ledger, block, reader, finalized, sealVars>>

-------------------------------------------------------------------------------
(***************************************************************************)
(* Array tasks, at the grain of EvidenceBlock.  A task is queued until it  *)
(* creates its attempt directory; one that ends before that leaves no      *)
(* trace in the tree.                                                      *)
(***************************************************************************)

Becomes(t, from, to) ==
  /\ task[t] \in from
  /\ task' = [task EXCEPT ![t] = to]
  /\ UNCHANGED <<submitVars, block, reader, finalized, sealVars>>

Start(t)    == Becomes(t, {"queued"}, "running")
Complete(t) == block[t] /\ Becomes(t, {"running"}, "completed")
Fail(t)     == Becomes(t, {"running"}, "failed")
Cancel(t)   == Becomes(t, {"queued"}, "cancelled")

Publish(t) ==
  /\ task[t] = "running"
  /\ ~block[t]
  /\ block' = [block EXCEPT ![t] = TRUE]
  /\ UNCHANGED <<submitVars, task, reader, finalized, sealVars>>

-------------------------------------------------------------------------------
(* The ledger finalizer. *)

Reads(step, n) ==
  /\ reader' = [step |-> step, n |-> n]
  /\ UNCHANGED <<submitVars, taskVars, sealVars>>

(* The ledger as it is now, which must cover every cell. *)
ReadLedger ==
  /\ reader.step = "idle"
  /\ {CellOf[a] : a \in Recorded} = Cells
  /\ Reads("ledger", Len(ledger))
  /\ UNCHANGED finalized

(* Every attempt directory on disk belongs to a row that was read. *)
CloseTree ==
  /\ reader.step = "ledger"
  /\ {t \in Tasks : task[t] \in {"running", "completed", "failed"}}
       \subseteq Rows(reader.n)
  /\ Reads("tree", reader.n)
  /\ UNCHANGED finalized

(* Mutant of Account: tasks still queued or running are let through. *)
AccountEarly ==
  /\ reader.step = "tree"
  /\ Reads("account", reader.n)
  /\ UNCHANGED finalized

(* sacct of every array: all of its tasks are there and terminal. *)
Account ==
  /\ reader.step = "tree"
  /\ \A t \in Rows(reader.n) : task[t] \in Terminal
  /\ Reads("account", reader.n)
  /\ UNCHANGED finalized

(* A completed task shows its block and a failed one none; then publication. *)
Finalize ==
  /\ reader.step = "account"
  /\ \A t \in Rows(reader.n) : task[t] = "completed" <=> block[t]
  /\ finalized' = finalized \cup
       {[n |-> reader.n, done |-> {t \in Rows(reader.n) : task[t] = "completed"}]}
  /\ Reads("idle", 0)

(* Any of these checks refuses: the program ends and may be run again. *)
GiveUp ==
  /\ reader.step # "idle"
  /\ Reads("idle", 0)
  /\ UNCHANGED finalized

-------------------------------------------------------------------------------
(* Selection and sealing. *)

(* Mutant of Candidates: rows that are not complete are candidates too. *)
AllCandidates(f, slot) ==
  {a \in Attempts : CellOf[a] = slot[1] /\ <<a, slot[2]>> \in Rows(f.n)}

(* The complete attempts of a finalized ledger for a cell and seed. *)
Candidates(f, slot) ==
  {a \in Attempts : CellOf[a] = slot[1] /\ <<a, slot[2]>> \in f.done}

(* Mutant of Earliest: the latest attempt is selected. *)
Latest(f, slot) ==
  {a \in Candidates(f, slot) :
     \A b \in Candidates(f, slot) \ {a} : utc[b] < utc[a]}

(* The earliest submitted of them, unless two share the earliest time. *)
Earliest(f, slot) ==
  {a \in Candidates(f, slot) :
     \A b \in Candidates(f, slot) \ {a} : utc[a] < utc[b]}

Selectable(f) == \A slot \in Slots : Earliest(f, slot) # {}

Selection(f) == [slot \in Slots |-> CHOOSE a \in Earliest(f, slot) : TRUE]

(* A finalized ledger is sealed once, under a lock directory of its own. *)
StartSeal(f) ==
  /\ f \in finalized
  /\ \A p \in packages : p.ledger # f
  /\ f \notin locks
  /\ locks' = locks \cup {f}
  /\ sealing' = sealing \cup {f}
  /\ UNCHANGED <<submitVars, taskVars, reader, finalized, packages>>

PublishPackage(f) ==
  /\ f \in sealing
  /\ Selectable(f)
  /\ \A t \in Rows(f.n) : t \in f.done <=> block[t]
  /\ packages' = packages \cup {[ledger |-> f, pick |-> Selection(f)]}
  /\ sealing' = sealing \ {f}
  /\ locks' = locks \ {f}
  /\ UNCHANGED <<submitVars, taskVars, reader, finalized>>

(* The sealer fails and cleans up, or is killed and leaves its lock. *)
EndSeal(f) ==
  /\ f \in sealing
  /\ sealing' = sealing \ {f}
  /\ locks' \in {locks, locks \ {f}}
  /\ UNCHANGED <<submitVars, taskVars, reader, finalized, packages>>

-------------------------------------------------------------------------------
Next ==
  \/ \E a \in Attempts :
       \/ Stamp(a) \/ Preflight(a) \/ Record(a) \/ Refuse(a)
       \/ Interrupt(a) \/ Resume(a) \/ Release(a)
  \/ \E t \in Tasks : Start(t) \/ Publish(t) \/ Complete(t) \/ Fail(t) \/ Cancel(t)
  \/ ReadLedger \/ CloseTree \/ Account \/ Finalize \/ GiveUp
  \/ \E f \in finalized : StartSeal(f) \/ PublishPackage(f) \/ EndSeal(f)

Spec == Init /\ [][Next]_vars

-------------------------------------------------------------------------------
(* The shared files, the scheduler and each program have their types; a     *)
(* sealer that works holds its lock, and works on a finalized ledger.       *)
TypeOK ==
  /\ clock \in Nat
  /\ sub \in [Attempts -> SubStates]
  /\ utc \in [Attempts -> 0..clock]
  /\ base \in [Attempts -> 0..Len(ledger)]
  /\ ledger \in Seq(Attempts)
  /\ task \in [Tasks -> TaskStates]
  /\ block \in [Tasks -> BOOLEAN]
  /\ reader \in [step : {"idle", "ledger", "tree", "account"}, n : 0..Len(ledger)]
  /\ finalized \subseteq [n : 0..Len(ledger), done : SUBSET Tasks]
  /\ sealing \subseteq locks /\ locks \subseteq finalized
  /\ packages \subseteq [ledger : finalized, pick : [Slots -> Attempts]]

(***************************************************************************)
(* A finalized ledger stays true: long after the finalizer read it, the    *)
(* rows it marks complete are exactly the ones Slurm accounts COMPLETED    *)
(* and the tree shows, and every other row still shows no block.           *)
(***************************************************************************)
FinalizedStaysTrue ==
  \A f \in finalized : \A t \in Rows(f.n) :
    /\ task[t] \in Terminal
    /\ t \in f.done <=> task[t] = "completed"
    /\ t \in f.done <=> block[t]

(* Every block in the tree belongs to an attempt the ledger records. *)
NoForeignBlock == \A t \in Tasks : block[t] => t[1] \in Recorded

(* Attempt a is recorded before attempt b. *)
Before(a, b) ==
  \E i, j \in DOMAIN ledger : i < j /\ ledger[i] = a /\ ledger[j] = b

(***************************************************************************)
(* Two sealed packages of one campaign never pick different attempts for a *)
(* cell and seed, although each is built from its own finalized ledger,    *)
(* unless the submission times contradict the ledger's order.              *)
(***************************************************************************)
PackagesAgree ==
  \A p, q \in packages : \A slot \in Slots :
    LET a == p.pick[slot]
        b == q.pick[slot]
    IN  Before(a, b) => utc[b] < utc[a]

(* A sealed package covers every cell and seed with published evidence. *)
PackagesCoverCampaign ==
  \A p \in packages : \A slot \in Slots :
    /\ CellOf[p.pick[slot]] = slot[1]
    /\ task[<<p.pick[slot], slot[2]>>] = "completed"
    /\ block[<<p.pick[slot], slot[2]>>]

(* A finalized ledger or a sealed package is never withdrawn or rewritten. *)
EvidenceIsKept ==
  [][finalized \subseteq finalized' /\ packages \subseteq packages']_<<finalized, packages>>

Submissions == INSTANCE SubmissionLedger WITH
  Jobs   <- Attempts,
  ledger <- [i \in DOMAIN ledger |-> [attempt |-> ledger[i], job |-> ledger[i]]],
  array  <- [a \in Attempts |->
               CASE sub[a] \in {"none", "stamped"} -> "none"
                 [] sub[a] = "released" -> "released"
                 [] OTHER -> "held"]

(* The submissions of the campaign keep the promise of SubmissionLedger. *)
KeepsSubmissionPromise == Submissions!Spec

(***************************************************************************)
(* icra2027/prereg_icra.md: "Once that package exists, the campaign ID is  *)
(* permanently closed to further attempts."                                *)
(***************************************************************************)
ClosedOnceSealed == [][packages = {}]_ledger
=============================================================================
