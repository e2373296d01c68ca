----------------------------- MODULE ReplayDriver -----------------------------
(***************************************************************************)
(* verl_integration/run_e2c_rtx5090.sh: the driver of the Countdown replay *)
(* experiment, with the files it shares with its training processes, its   *)
(* preflight and its readiness audit.  A driver audits, takes the lock,    *)
(* trains what is missing of the comparator arms, collects the reservoir,  *)
(* has the preflight try it against B2's schedules, and trains the replay  *)
(* arms.  Anything may be killed; an operator removes what was left.       *)
(*                                                                         *)
(* A directory is known by the training processes that wrote into it, and  *)
(* its contents are final once it has its marker, so that set also stands  *)
(* for the digest of the reservoir.  Frozen assets and the shared GPU can  *)
(* stop a driver at any point.                                             *)
(***************************************************************************)
EXTENDS Integers, Sequences, SequencesExt, FiniteSets

CONSTANTS
  Drivers,      \* invocations of the script
  Comparators,  \* runs of B1 and B2, in order
  Treatments,   \* runs of the replay arm, in order
  Collection,   \* the run that collects the reservoir
  MaxTrainings  \* bound on the training processes

Runs == Range(Comparators) \cup Range(Treatments) \cup {Collection}

ASSUME DriverAssumption ==
  /\ IsFiniteSet(Drivers) /\ MaxTrainings \in Nat
  /\ Comparators \in Seq(Range(Comparators)) /\ Treatments \in Seq(Range(Treatments))
  /\ Range(Comparators) \cap Range(Treatments) = {}
  /\ Collection \notin Range(Comparators) \cup Range(Treatments)
  /\ {"none", "audit", "preflight", "deliver"} \cap Runs = {}

(* The body of the script after its lock. *)
Plan == Comparators \o <<"audit", Collection, "preflight", "audit">> \o Treatments \o <<"deliver">>

VARIABLES
  at,       \* position of each driver in Plan; 0 when it does not hold the lock
  audited,  \* drivers that passed the first audit and have not tried the lock
  clear,    \* drivers that found nothing of the run they are about to start
  child,    \* the training process a driver waits for; 0 if none
  alive,    \* training processes
  finished,    \* training processes that reached their last step
  launched, \* training processes so far
  dir,      \* output directory and log of each run
  preflight \* E2C_PREFLIGHT.json, with the inputs it passed

driverVars == <<at, audited, clear, child, alive, finished, launched, dir, preflight>>

Empty == [status |-> "none", by |-> {}]
Absent == [status |-> "none", inputs |-> {}]
Torn == [status |-> "torn", inputs |-> {}]

DriverInit ==
  /\ at = [d \in Drivers |-> 0]
  /\ audited = {} /\ clear = {}
  /\ child = [d \in Drivers |-> 0]
  /\ alive = {} /\ finished = {} /\ launched = 0
  /\ dir = [r \in Runs |-> Empty]
  /\ preflight = Absent

-------------------------------------------------------------------------------
Complete(r) == dir[r].status = "complete"

(* What a preflight that passes on the files as they are now writes. *)
Passed == [status |-> "pass",
           inputs |-> {<<r, dir[r].by>> : r \in Range(Comparators) \cup {Collection}}]

(* audit_readiness: no run is left partial, a preflight names the reservoir *)
(* and comes after its inputs, and no replay run is complete: the delivery  *)
(* check of a complete one always raises (see LiveReplay).                  *)
AuditPasses ==
  /\ \A r \in Runs : dir[r].status # "partial"
  /\ preflight # Torn
  /\ preflight # Absent =>
       /\ <<Collection, dir[Collection].by>> \in preflight.inputs
       /\ \A r \in Range(Comparators) \cup {Collection} : Complete(r)
  /\ \A r \in Range(Treatments) : ~Complete(r)

(* Mutant of LockFree: training processes do not inherit the descriptor. *)
LockFreeOfChildren == \A d \in Drivers : at[d] = 0

(* flock on a descriptor that every child of a driver inherits. *)
LockFree == alive = {} /\ \A d \in Drivers : at[d] = 0

(* require_gpu_clear: a process that has only started uses no GPU memory. *)
GpuClear == \A p \in alive : p.stage = "starting"

Launch(d) ==
  /\ at[d] = 0 /\ d \notin audited
  /\ AuditPasses
  /\ audited' = audited \cup {d}
  /\ UNCHANGED <<at, clear, child, alive, finished, launched, dir, preflight>>

TakeLock(d) ==
  /\ d \in audited
  /\ audited' = audited \ {d}
  /\ at' = IF LockFree THEN [at EXCEPT ![d] = 1] ELSE at
  /\ UNCHANGED <<clear, child, alive, finished, launched, dir, preflight>>

Item(d) == IF at[d] = 0 THEN "none" ELSE Plan[at[d]]
Move(d) == at' = [at EXCEPT ![d] = @ + 1]

(* A run with its marker is skipped; one that left anything is refused. *)
Skip(d) ==
  /\ Item(d) \in Runs /\ child[d] = 0 /\ d \notin clear
  /\ Complete(Item(d))
  /\ Move(d)
  /\ UNCHANGED <<audited, clear, child, alive, finished, launched, dir, preflight>>

FindClear(d) ==
  /\ Item(d) \in Runs /\ child[d] = 0 /\ d \notin clear
  /\ dir[Item(d)].status = "none"
  /\ GpuClear
  /\ clear' = clear \cup {d}
  /\ UNCHANGED <<at, audited, child, alive, finished, launched, dir, preflight>>

(* The pipeline: the log and the directory appear before any training. *)
StartRun(d) ==
  /\ d \in clear
  /\ launched < MaxTrainings
  /\ launched' = launched + 1
  /\ child' = [child EXCEPT ![d] = launched']
  /\ alive' = alive \cup {[id |-> launched', run |-> Item(d), stage |-> "starting"]}
  /\ dir' = [dir EXCEPT ![Item(d)] = [status |-> "partial", by |-> @.by \cup {launched'}]]
  /\ clear' = clear \ {d}
  /\ UNCHANGED <<at, audited, finished, preflight>>

(* What a process writes; the directory comes back if it was removed. *)
Wrote(p) ==
  [dir EXCEPT ![p.run] = [status |-> IF @.status = "none" THEN "partial" ELSE @.status,
                          by     |-> @.by \cup {p.id}]]

(* The model is loaded; a collector refuses to find an artifact there.     *)
Train(p) ==
  /\ p.stage = "starting"
  /\ p.run = Collection => dir[p.run].by \subseteq {p.id}
  /\ alive' = (alive \ {p}) \cup {[p EXCEPT !.stage = "training"]}
  /\ dir' = Wrote(p)
  /\ UNCHANGED <<at, audited, clear, child, finished, launched, preflight>>

(* The last step: its log line, its checkpoint or its last artifact. *)
EndTraining(p) ==
  /\ p.stage = "training"
  /\ alive' = alive \ {p}
  /\ finished' = finished \cup {p.id}
  /\ dir' = Wrote(p)
  /\ UNCHANGED <<at, audited, clear, child, launched, preflight>>

FailTraining(p) ==
  /\ alive' = alive \ {p}
  /\ UNCHANGED <<at, audited, clear, child, finished, launched, dir, preflight>>

(* The driver verifies what its child left and touches the marker. *)
MarkComplete(d) ==
  /\ child[d] \in finished
  /\ dir[Item(d)].status # "none"
  /\ dir' = [dir EXCEPT ![Item(d)].status = "complete"]
  /\ child' = [child EXCEPT ![d] = 0]
  /\ Move(d)
  /\ UNCHANGED <<audited, clear, alive, finished, launched, preflight>>

Audit(d) ==
  /\ Item(d) = "audit"
  /\ AuditPasses
  /\ Move(d)
  /\ UNCHANGED <<audited, clear, child, alive, finished, launched, dir, preflight>>

(* The preflight has read its inputs and opens its report, which is not    *)
(* written under another name.                                             *)
OpenPreflight(d) ==
  /\ Item(d) = "preflight"
  /\ preflight # Torn
  /\ preflight' = Torn
  /\ UNCHANGED <<at, audited, clear, child, alive, finished, launched, dir>>

(* Mutant of WritePreflight: a report that is there is taken as it is. *)
KeepPreflight(d) ==
  /\ Item(d) = "preflight"
  /\ \/ preflight = Torn /\ preflight' = Passed
     \/ preflight.status = "pass" /\ UNCHANGED preflight
  /\ Move(d)
  /\ UNCHANGED <<audited, clear, child, alive, finished, launched, dir>>

WritePreflight(d) ==
  /\ Item(d) = "preflight"
  /\ preflight = Torn
  /\ preflight' = Passed
  /\ Move(d)
  /\ UNCHANGED <<audited, clear, child, alive, finished, launched, dir>>

(* The driver ends: it refuses, a check or a child of its fails, it is     *)
(* killed and leaves its child behind, or the terminal interrupts both.    *)
(* validate_delivery always ends it.                                       *)
EndDriver(d) ==
  /\ at[d] # 0
  /\ at' = [at EXCEPT ![d] = 0]
  /\ child' = [child EXCEPT ![d] = 0]
  /\ clear' = clear \ {d}
  /\ alive' \in {alive, {p \in alive : p.id # child[d]}}
  /\ UNCHANGED <<audited, finished, launched, dir, preflight>>

(* The operator removes a run, or the preflight, when the lock is free. *)
RemoveRun(r) ==
  /\ LockFree
  /\ dir[r] # Empty
  /\ dir' = [dir EXCEPT ![r] = Empty]
  /\ UNCHANGED <<at, audited, clear, child, alive, finished, launched, preflight>>

RemovePreflight ==
  /\ LockFree
  /\ preflight # Absent
  /\ preflight' = Absent
  /\ UNCHANGED <<at, audited, clear, child, alive, finished, launched, dir>>

DriverNext ==
  \/ \E d \in Drivers :
       \/ Launch(d) \/ TakeLock(d) \/ Skip(d) \/ FindClear(d) \/ StartRun(d)
       \/ MarkComplete(d) \/ Audit(d) \/ OpenPreflight(d) \/ WritePreflight(d)
       \/ EndDriver(d)
  \/ \E p \in alive : Train(p) \/ EndTraining(p) \/ FailTraining(p)
  \/ \E r \in Runs : RemoveRun(r)
  \/ RemovePreflight

DriverSpec == DriverInit /\ [][DriverNext]_driverVars

-------------------------------------------------------------------------------
(* Properties. *)

(* A run with a marker is the work of one process that reached its last    *)
(* step, never of two, of one that was resumed, or of one whose driver was *)
(* killed; and no two processes ever train at once, orphans included.      *)
CompleteRunIsWhole ==
  /\ \A r \in Runs : Complete(r) => \E i \in finished : dir[r].by = {i}
  /\ Cardinality(alive) <= 1

(* While a replay arm trains, the comparators are complete and the         *)
(* preflight names the reservoir and the schedules as they are, whatever   *)
(* was removed and trained again since an earlier preflight.               *)
TreatmentIsPreflighted ==
  \A p \in alive :
    p.run \in Range(Treatments) =>
      /\ \A r \in Range(Comparators) \cup {Collection} : Complete(r)
      /\ preflight = Passed
===============================================================================
