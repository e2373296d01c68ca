-------------------------- MODULE BarnCampaignProofs --------------------------
(***************************************************************************)
(* Proofs about BarnCampaign, for every set of attempts, cells and seeds:  *)
(* any number of retries of a cell, finalizations and sealers.             *)
(***************************************************************************)
EXTENDS BarnCampaign, SequenceTheorems, TLAPS

(* An attempt is in the ledger, once, from its record on. *)
LedgerInv ==
  /\ \A i, j \in DOMAIN ledger : ledger[i] = ledger[j] => i = j
  /\ \A a \in Attempts : sub[a] \in {"recorded", "pending", "released"} <=> a \in Recorded

(* Slurm knows the tasks of released arrays; a block comes from one that   *)
(* has run, and COMPLETED only after it.                                   *)
TaskInv ==
  \A t \in Tasks :
    /\ task[t] # "none" => sub[t[1]] = "released"
    /\ block[t] => task[t] \in {"running", "completed", "failed"}
    /\ task[t] = "completed" => block[t]

(* What the finalizer has learnt from the scheduler is still so. *)
ReaderInv == reader.step = "account" => \A t \in Rows(reader.n) : task[t] \in Terminal

FinalInv ==
  /\ FinalizedStaysTrue
  /\ \A f \in finalized : f.done \subseteq Rows(f.n)

(* A package still picks the earliest candidates of its finalized ledger. *)
PackageInv ==
  \A p \in packages : \A slot \in Slots : p.pick[slot] \in Earliest(p.ledger, slot)

IInv == TypeOK /\ LedgerInv /\ TaskInv /\ ReaderInv /\ FinalInv /\ PackageInv

-------------------------------------------------------------------------------
(* An empty ledger, no array, nothing finalized or sealed. *)
LEMMA CampaignInit ==
  ASSUME Init
  PROVE  IInv
<1>1. TypeOK
  BY DEF Init, TypeOK, SubStates, TaskStates, Idle
<1>2. LedgerInv /\ TaskInv
  BY <1>1 DEF Init, LedgerInv, TaskInv, Recorded, Tasks
<1>3. ReaderInv /\ FinalInv /\ PackageInv
  BY DEF Init, ReaderInv, FinalInv, FinalizedStaysTrue, PackageInv, Idle
<1>4. QED
  BY <1>1, <1>2, <1>3 DEF IInv

(* The rows of a ledger, and what a longer ledger keeps of them. *)
LEMMA RowMembers ==
  ASSUME NEW n, NEW t
  PROVE  t \in Rows(n) <=> \E i \in 1..n : t \in {ledger[i]} \X Seeds
BY DEF Rows, Row

(* The rows of a ledger's first n submissions are tasks. *)
LEMMA RowsAreTasks ==
  ASSUME TypeOK, NEW n \in 0..Len(ledger)
  PROVE  Rows(n) \subseteq Tasks
<1> SUFFICES ASSUME NEW t \in Rows(n) PROVE t \in Tasks
  OBVIOUS
<1>1. PICK i \in 1..n : t \in {ledger[i]} \X Seeds
  BY RowMembers
<1>2. ledger[i] \in Attempts
  BY DEF TypeOK
<1>3. QED
  BY <1>1, <1>2 DEF Tasks

(***************************************************************************)
(* What no step of the campaign takes back: a recorded row, a terminal     *)
(* account and the block beside it, the time of a recorded submission, a   *)
(* finalized ledger and a package.                                         *)
(***************************************************************************)
Kept ==
  /\ Len(ledger) <= Len(ledger')
  /\ \A i \in 1..Len(ledger) : ledger'[i] = ledger[i]
  /\ \A t \in Tasks : task[t] \in Terminal => task'[t] = task[t] /\ block'[t] = block[t]
  /\ \A a \in Recorded : utc'[a] = utc[a]
  /\ finalized \subseteq finalized'
  /\ packages \subseteq packages'

(* The actions that touch neither the ledger nor a submission. *)
Elsewhere ==
  \/ \E t \in Tasks : Start(t) \/ Publish(t) \/ Complete(t) \/ Fail(t) \/ Cancel(t)
  \/ ReadLedger \/ CloseTree \/ Account \/ Finalize \/ GiveUp
  \/ \E f \in finalized : StartSeal(f) \/ PublishPackage(f) \/ EndSeal(f)
  \/ UNCHANGED vars

(* A step of the tasks, a reader or a sealer leaves the submitters alone. *)
LEMMA ElsewhereLeaves ==
  ASSUME Elsewhere
  PROVE  UNCHANGED submitVars
BY DEF Elsewhere, Start, Publish, Complete, Fail, Cancel, Becomes, ReadLedger, CloseTree,
   Account, Finalize, GiveUp, Reads, StartSeal, PublishPackage, EndSeal, vars

(* What is recorded, accounted, published, finalized or sealed stays so. *)
LEMMA KeptStep ==
  ASSUME IInv, [Next]_vars
  PROVE  Kept
<1> USE DEF IInv, TypeOK, Kept
<1>1. ASSUME NEW a \in Attempts,
             Preflight(a) \/ Refuse(a) \/ Interrupt(a) \/ Resume(a)
      PROVE  Kept
  BY <1>1 DEF Preflight, Refuse, Interrupt, Resume, Moves, taskVars, sealVars
<1>2. ASSUME NEW a \in Attempts, Stamp(a)
      PROVE  Kept
  <2>1. a \notin Recorded
    BY <1>2 DEF Stamp, Moves, LedgerInv
  <2>2. Recorded \subseteq Attempts
    BY DEF Recorded
  <2>3. QED
    BY <1>2, <2>1, <2>2 DEF Stamp, Moves, taskVars, sealVars
<1>3. ASSUME NEW a \in Attempts, Record(a)
      PROVE  Kept
  BY <1>3 DEF Record, Moves, taskVars, sealVars
<1>4. ASSUME NEW a \in Attempts, Release(a)
      PROVE  Kept
  <2>1. \A t \in Tasks : t[1] = a => task[t] = "none"
    BY <1>4 DEF Release, TaskInv
  <2>2. QED
    BY <1>4, <2>1 DEF Release, Terminal, sealVars
<1>5. ASSUME Elsewhere
      PROVE  Kept
  <2>1. UNCHANGED <<ledger, utc>>
    BY <1>5, ElsewhereLeaves DEF submitVars
  <2>2. ASSUME NEW t \in Tasks, Start(t) \/ Publish(t) \/ Complete(t) \/ Fail(t) \/ Cancel(t)
        PROVE  Kept
    BY <2>1, <2>2 DEF Start, Publish, Complete, Fail, Cancel, Becomes, Terminal, sealVars
  <2>3. ASSUME ReadLedger \/ CloseTree \/ Account \/ Finalize \/ GiveUp
        PROVE  Kept
    BY <2>1, <2>3 DEF ReadLedger, CloseTree, Account, Finalize, GiveUp, Reads, taskVars, sealVars
  <2>4. ASSUME NEW f \in finalized, StartSeal(f) \/ PublishPackage(f) \/ EndSeal(f)
        PROVE  Kept
    BY <2>1, <2>4 DEF StartSeal, PublishPackage, EndSeal, taskVars
  <2>5. CASE UNCHANGED vars
    BY <2>5 DEF vars, submitVars, taskVars, sealVars
  <2>6. QED
    BY <1>5, <2>2, <2>3, <2>4, <2>5 DEF Elsewhere
<1>6. QED
  BY <1>1, <1>2, <1>3, <1>4, <1>5 DEF Next, Elsewhere

(* Rows that were read stay the rows they were. *)
LEMMA RowsStay ==
  ASSUME Kept, ledger \in Seq(Attempts), NEW n \in 0..Len(ledger)
  PROVE  Rows(n)' = Rows(n)
BY DEF Kept, Rows, Row

(* An attempt of a row that was read is recorded, and its row is known by  *)
(* its place.                                                              *)
LEMMA RowRecorded ==
  ASSUME TypeOK, NEW n \in 0..Len(ledger), NEW a \in Attempts, NEW s \in Seeds
  PROVE  <<a, s>> \in Rows(n) <=> \E i \in 1..n : ledger[i] = a
BY RowMembers

-------------------------------------------------------------------------------
(* Every step keeps the types. *)
LEMMA TypeStep ==
  ASSUME IInv, [Next]_vars
  PROVE  TypeOK'
<1> USE DEF TypeOK
<1>0. TypeOK
  BY DEF IInv
<1>1. ASSUME NEW a \in Attempts, Stamp(a)
      PROVE  TypeOK'
  BY <1>0, <1>1 DEF Stamp, Moves, taskVars, sealVars, SubStates
<1>2. ASSUME NEW a \in Attempts, Preflight(a) \/ Refuse(a) \/ Interrupt(a) \/ Resume(a)
      PROVE  TypeOK'
  <2>1. sub' \in [Attempts -> SubStates]
    BY <1>0, <1>2 DEF Preflight, Refuse, Interrupt, Resume, Moves, SubStates
  <2>2. base' \in [Attempts -> 0..Len(ledger)]
    BY <1>0, <1>2 DEF Preflight, Refuse, Interrupt, Resume, Moves
  <2>3. UNCHANGED <<clock, utc, ledger, taskVars, reader, finalized, sealVars>>
    BY <1>2 DEF Preflight, Refuse, Interrupt, Resume, Moves
  <2>4. QED
    BY <1>0, <2>1, <2>2, <2>3 DEF taskVars, sealVars
<1>3. ASSUME NEW a \in Attempts, Record(a)
      PROVE  TypeOK'
  <2>1. ledger' \in Seq(Attempts) /\ Len(ledger') = Len(ledger) + 1
    BY <1>0, <1>3 DEF Record
  <2>2. base' \in [Attempts -> 0..Len(ledger')]
    BY <1>0, <1>3, <2>1 DEF Record
  <2>3. reader' \in [step : {"idle", "ledger", "tree", "account"}, n : 0..Len(ledger')]
    BY <1>0, <1>3, <2>1 DEF Record, Moves
  <2>4. finalized' \subseteq [n : 0..Len(ledger'), done : SUBSET Tasks]
    BY <1>0, <1>3, <2>1 DEF Record, Moves
  <2>5. QED
    BY <1>0, <1>3, <2>1, <2>2, <2>3, <2>4 DEF Record, Moves, taskVars, sealVars, SubStates
<1>4. ASSUME NEW a \in Attempts, Release(a)
      PROVE  TypeOK'
  BY <1>0, <1>4 DEF Release, sealVars, SubStates, TaskStates
<1>5. ASSUME NEW t \in Tasks, Start(t) \/ Publish(t) \/ Complete(t) \/ Fail(t) \/ Cancel(t)
      PROVE  TypeOK'
  BY <1>0, <1>5 DEF Start, Publish, Complete, Fail, Cancel, Becomes, submitVars, sealVars, TaskStates
<1>6. ASSUME ReadLedger \/ CloseTree \/ Account \/ GiveUp
      PROVE  TypeOK'
  <2>1. reader' \in [step : {"idle", "ledger", "tree", "account"}, n : 0..Len(ledger)]
    BY <1>0, <1>6 DEF ReadLedger, CloseTree, Account, GiveUp, Reads
  <2>2. UNCHANGED <<submitVars, taskVars, finalized, sealVars>>
    BY <1>6 DEF ReadLedger, CloseTree, Account, GiveUp, Reads
  <2>3. QED
    BY <1>0, <2>1, <2>2 DEF submitVars, taskVars, sealVars
<1>7. ASSUME Finalize
      PROVE  TypeOK'
  <2>1. Rows(reader.n) \subseteq Tasks
    BY <1>0, RowsAreTasks
  <2>2. QED
    BY <1>0, <1>7, <2>1 DEF Finalize, Reads, submitVars, taskVars, sealVars
<1>8. ASSUME NEW f \in finalized, StartSeal(f) \/ EndSeal(f)
      PROVE  TypeOK'
  BY <1>0, <1>8 DEF StartSeal, EndSeal, submitVars, taskVars
<1>9. ASSUME NEW f \in finalized, PublishPackage(f)
      PROVE  TypeOK'
  <2>1. \A slot \in Slots : Selection(f)[slot] \in Attempts
    BY <1>9 DEF PublishPackage, Selectable, Selection, Earliest, Candidates
  <2>2. Selection(f) \in [Slots -> Attempts]
    BY <2>1 DEF Selection
  <2>3. packages' \subseteq [ledger : finalized, pick : [Slots -> Attempts]]
    BY <1>0, <1>9, <2>2 DEF PublishPackage
  <2>4. QED
    BY <1>0, <1>9, <2>3 DEF PublishPackage, submitVars, taskVars
<1>10. CASE UNCHANGED vars
  BY <1>0, <1>10 DEF vars, submitVars, taskVars, sealVars
<1>11. QED
  BY <1>1, <1>2, <1>3, <1>4, <1>5, <1>6, <1>7, <1>8, <1>9, <1>10 DEF Next

(* Only Record extends the ledger, by an attempt that is not in it. *)
LEMMA LedgerStep ==
  ASSUME IInv, [Next]_vars
  PROVE  LedgerInv'
<1> USE DEF LedgerInv, Recorded
<1>0. TypeOK /\ LedgerInv
  BY DEF IInv
<1>1. ASSUME NEW a \in Attempts, Stamp(a) \/ Preflight(a) \/ Refuse(a) \/ Interrupt(a) \/ Resume(a)
      PROVE  LedgerInv'
  <2>1. PICK to \in SubStates :
          /\ sub' = [sub EXCEPT ![a] = to]
          /\ to \in {"recorded", "pending", "released"}
               <=> sub[a] \in {"recorded", "pending", "released"}
    BY <1>1 DEF Stamp, Preflight, Refuse, Interrupt, Resume, Moves, SubStates
  <2>2. ledger' = ledger
    BY <1>1 DEF Stamp, Preflight, Refuse, Interrupt, Resume
  <2>3. QED
    BY <1>0, <2>1, <2>2 DEF TypeOK
<1>2. ASSUME NEW a \in Attempts, Record(a)
      PROVE  LedgerInv'
  <2>1. a \notin Recorded
    BY <1>0, <1>2 DEF Record, Moves
  <2>2. /\ DOMAIN ledger = 1..Len(ledger) /\ DOMAIN ledger' = 1..(Len(ledger) + 1)
        /\ \A i \in 1..Len(ledger) : ledger'[i] = ledger[i]
        /\ ledger'[Len(ledger) + 1] = a
        /\ Len(ledger) \in Nat
    BY <1>0, <1>2 DEF Record, TypeOK
  <2>3. Recorded' = Recorded \cup {a}
    <3>1. \A i \in 1..(Len(ledger) + 1) : i \in 1..Len(ledger) \/ i = Len(ledger) + 1
      BY <2>2
    <3>2. \A i \in 1..Len(ledger) : i \in 1..(Len(ledger) + 1)
      BY <2>2
    <3>3. QED
      BY <2>2, <3>1, <3>2
  <2>4. \A i, j \in DOMAIN ledger' : ledger'[i] = ledger'[j] => i = j
    <3> SUFFICES ASSUME NEW i \in DOMAIN ledger', NEW j \in DOMAIN ledger', ledger'[i] = ledger'[j]
                 PROVE  i = j
      OBVIOUS
    <3>1. CASE i \in 1..Len(ledger) /\ j \in 1..Len(ledger)
      BY <1>0, <2>2, <3>1
    <3>2. CASE i = Len(ledger) + 1 \/ j = Len(ledger) + 1
      BY <2>1, <2>2, <3>2
    <3>3. QED
      BY <2>2, <3>1, <3>2
  <2>5. \A b \in Attempts : sub'[b] \in {"recorded", "pending", "released"} <=> b \in Recorded'
    BY <1>0, <1>2, <2>1, <2>3 DEF Record, Moves, TypeOK
  <2>6. QED
    BY <2>4, <2>5
<1>3. ASSUME NEW a \in Attempts, Release(a)
      PROVE  LedgerInv'
  BY <1>0, <1>3 DEF Release, TypeOK
<1>4. CASE Elsewhere
  BY <1>0, <1>4, ElsewhereLeaves DEF submitVars
<1>5. QED
  BY <1>1, <1>2, <1>3, <1>4 DEF Next, Elsewhere

(* A task is known to Slurm after its release, and its block comes first. *)
LEMMA TaskStep ==
  ASSUME IInv, [Next]_vars
  PROVE  TaskInv'
<1> USE DEF TaskInv
<1>0. TypeOK /\ TaskInv
  BY DEF IInv
<1>1. \A t \in Tasks : t[1] \in Attempts
  BY DEF Tasks
<1>2. ASSUME NEW a \in Attempts,
             Stamp(a) \/ Preflight(a) \/ Record(a) \/ Refuse(a) \/ Interrupt(a) \/ Resume(a)
      PROVE  TaskInv'
  BY <1>0, <1>1, <1>2 DEF TypeOK, Stamp, Preflight, Record, Refuse, Interrupt, Resume, Moves, taskVars
<1>3. ASSUME NEW a \in Attempts, Release(a)
      PROVE  TaskInv'
  BY <1>0, <1>1, <1>3 DEF TypeOK, Release
<1>4. ASSUME NEW t \in Tasks, Start(t) \/ Publish(t) \/ Complete(t) \/ Fail(t) \/ Cancel(t)
      PROVE  TaskInv'
  BY <1>0, <1>1, <1>4 DEF TypeOK, Start, Publish, Complete, Fail, Cancel, Becomes, submitVars
<1>5. ASSUME ReadLedger \/ CloseTree \/ Account \/ Finalize \/ GiveUp
      PROVE  TaskInv'
  BY <1>0, <1>5 DEF ReadLedger, CloseTree, Account, Finalize, GiveUp, Reads, submitVars, taskVars
<1>6. ASSUME NEW f \in finalized, StartSeal(f) \/ PublishPackage(f) \/ EndSeal(f)
      PROVE  TaskInv'
  BY <1>0, <1>6 DEF StartSeal, PublishPackage, EndSeal, submitVars, taskVars
<1>7. CASE UNCHANGED vars
  BY <1>0, <1>7 DEF vars, submitVars, taskVars
<1>8. QED
  BY <1>2, <1>3, <1>4, <1>5, <1>6, <1>7 DEF Next

(* Scheduler answers about terminal tasks stay true. *)
LEMMA ReaderStep ==
  ASSUME IInv, [Next]_vars
  PROVE  ReaderInv'
<1>0. TypeOK /\ ReaderInv /\ Kept
  BY KeptStep DEF IInv
<1>1. PICK n \in 0..Len(ledger) : n = reader.n
  BY <1>0 DEF TypeOK
<1>10. Rows(n)' = Rows(n) /\ Rows(n) \subseteq Tasks
  BY <1>0, RowsStay, RowsAreTasks DEF TypeOK
<1>2. ASSUME reader' = reader
      PROVE  ReaderInv'
  BY <1>0, <1>1, <1>2, <1>10 DEF ReaderInv, Kept
<1>3. CASE Account
  <2>1. task' = task /\ reader'.n = n /\ \A t \in Rows(n) : task[t] \in Terminal
    BY <1>1, <1>3 DEF Account, Reads, taskVars
  <2>2. QED
    BY <1>10, <2>1 DEF ReaderInv
<1>4. CASE ReadLedger \/ CloseTree \/ Finalize \/ GiveUp
  BY <1>4 DEF ReadLedger, CloseTree, Finalize, GiveUp, Reads, ReaderInv
<1>5. CASE \E a \in Attempts : Stamp(a) \/ Preflight(a) \/ Record(a) \/ Refuse(a)
                               \/ Interrupt(a) \/ Resume(a) \/ Release(a)
  BY <1>2, <1>5 DEF Stamp, Preflight, Record, Refuse, Interrupt, Resume, Moves, Release
<1>6. CASE \E t \in Tasks : Start(t) \/ Publish(t) \/ Complete(t) \/ Fail(t) \/ Cancel(t)
  BY <1>2, <1>6 DEF Start, Publish, Complete, Fail, Cancel, Becomes
<1>7. CASE \E f \in finalized : StartSeal(f) \/ PublishPackage(f) \/ EndSeal(f)
  BY <1>2, <1>7 DEF StartSeal, PublishPackage, EndSeal
<1>8. CASE UNCHANGED vars
  BY <1>2, <1>8 DEF vars
<1>9. QED
  BY <1>3, <1>4, <1>5, <1>6, <1>7, <1>8 DEF Next

(* A finalized ledger lists terminal rows, and the completed ones. *)
LEMMA FinalStep ==
  ASSUME IInv, [Next]_vars
  PROVE  FinalInv'
<1>0. TypeOK /\ FinalInv /\ TaskInv /\ Kept
  BY KeptStep DEF IInv
<1>1. ASSUME NEW f \in finalized
      PROVE  /\ f.done \subseteq Rows(f.n)'
             /\ \A t \in Rows(f.n)' :
                  /\ task'[t] \in Terminal
                  /\ t \in f.done <=> task'[t] = "completed"
                  /\ t \in f.done <=> block'[t]
  <2>1. Rows(f.n)' = Rows(f.n) /\ Rows(f.n) \subseteq Tasks
    BY <1>0, <1>1, RowsStay, RowsAreTasks DEF TypeOK
  <2>2. ASSUME NEW t \in Rows(f.n)
        PROVE  /\ task'[t] \in Terminal
               /\ t \in f.done <=> task'[t] = "completed"
               /\ t \in f.done <=> block'[t]
    <3>1. t \in Tasks /\ task[t] \in Terminal
      BY <1>0, <2>1 DEF FinalInv, FinalizedStaysTrue
    <3>2. task'[t] = task[t] /\ block'[t] = block[t]
      BY <1>0, <3>1 DEF Kept
    <3>3. QED
      BY <1>0, <3>1, <3>2 DEF FinalInv, FinalizedStaysTrue
  <2>3. f.done \subseteq Rows(f.n)
    BY <1>0 DEF FinalInv
  <2>4. QED
    BY <2>1, <2>2, <2>3
<1>2. ASSUME finalized' = finalized
      PROVE  FinalInv'
  BY <1>1, <1>2 DEF FinalInv, FinalizedStaysTrue
<1>3. CASE Finalize
  <2>1. PICK g : g = [n |-> reader.n, done |-> {t \in Rows(reader.n) : task[t] = "completed"}]
    OBVIOUS
  <2>2. finalized' = finalized \cup {g} /\ UNCHANGED <<ledger, task, block>>
    BY <1>3, <2>1 DEF Finalize, Reads, submitVars, taskVars
  <2>3. Rows(g.n)' = Rows(g.n)
    BY <2>2 DEF Rows, Row
  <2>4. /\ g.done \subseteq Rows(g.n)
        /\ \A t \in Rows(g.n) :
             /\ task[t] \in Terminal
             /\ t \in g.done <=> task[t] = "completed"
             /\ t \in g.done <=> block[t]
    BY <1>3, <2>1 DEF IInv, ReaderInv, Finalize
  <2>5. QED
    BY <1>1, <2>2, <2>3, <2>4 DEF FinalInv, FinalizedStaysTrue
<1>4. CASE ReadLedger \/ CloseTree \/ Account \/ GiveUp
  BY <1>2, <1>4 DEF ReadLedger, CloseTree, Account, GiveUp
<1>5. CASE \E a \in Attempts : Stamp(a) \/ Preflight(a) \/ Record(a) \/ Refuse(a)
                               \/ Interrupt(a) \/ Resume(a) \/ Release(a)
  BY <1>2, <1>5 DEF Stamp, Preflight, Record, Refuse, Interrupt, Resume, Moves, Release
<1>6. CASE \E t \in Tasks : Start(t) \/ Publish(t) \/ Complete(t) \/ Fail(t) \/ Cancel(t)
  BY <1>2, <1>6 DEF Start, Publish, Complete, Fail, Cancel, Becomes
<1>7. CASE \E f \in finalized : StartSeal(f) \/ PublishPackage(f) \/ EndSeal(f)
  BY <1>2, <1>7 DEF StartSeal, PublishPackage, EndSeal
<1>8. CASE UNCHANGED vars
  BY <1>2, <1>8 DEF vars
<1>9. QED
  BY <1>3, <1>4, <1>5, <1>6, <1>7, <1>8 DEF Next

(* A candidate was recorded, so its submission time no longer changes: the *)
(* earliest candidate of a finalized ledger stays it.                      *)
LEMMA EarliestStays ==
  ASSUME IInv, [Next]_vars, NEW f \in finalized, NEW slot \in Slots
  PROVE  Earliest(f, slot)' = Earliest(f, slot)
<1>0. TypeOK /\ FinalInv /\ Kept
  BY KeptStep DEF IInv
<1>1. Candidates(f, slot)' = Candidates(f, slot)
  BY DEF Candidates
<1>2. Candidates(f, slot) \subseteq Recorded
  <2> SUFFICES ASSUME NEW a \in Candidates(f, slot) PROVE a \in Recorded
    OBVIOUS
  <2>1. a \in Attempts /\ <<a, slot[2]>> \in Rows(f.n) /\ slot[2] \in Seeds
    BY <1>0 DEF Candidates, FinalInv, Slots
  <2>2. PICK i \in 1..f.n : ledger[i] = a
    BY <1>0, <2>1, RowRecorded DEF TypeOK
  <2>3. QED
    BY <1>0, <2>2 DEF TypeOK, Recorded
<1>3. \A a \in Candidates(f, slot) : utc'[a] = utc[a]
  BY <1>0, <1>2 DEF Kept
<1>4. QED
  BY <1>1, <1>3 DEF Earliest

(* A package is sealed from a finalized ledger and rests on its rows. *)
LEMMA PackageStep ==
  ASSUME IInv, [Next]_vars
  PROVE  PackageInv'
<1>0. TypeOK /\ PackageInv
  BY DEF IInv
<1>1. ASSUME NEW p \in packages, NEW slot \in Slots
      PROVE  p.pick[slot] \in Earliest(p.ledger, slot)'
  BY <1>0, <1>1, EarliestStays DEF PackageInv, TypeOK
<1>2. ASSUME NEW f \in finalized, PublishPackage(f)
      PROVE  PackageInv'
  <2>1. \A slot \in Slots : Selection(f)[slot] \in Earliest(f, slot)'
    BY <1>2, EarliestStays DEF PublishPackage, Selectable, Selection
  <2>2. QED
    BY <1>1, <1>2, <2>1 DEF PublishPackage, PackageInv
<1>3. ASSUME packages' = packages
      PROVE  PackageInv'
  BY <1>1, <1>3 DEF PackageInv
<1>4. CASE \E a \in Attempts : Stamp(a) \/ Preflight(a) \/ Record(a) \/ Refuse(a)
                               \/ Interrupt(a) \/ Resume(a) \/ Release(a)
  BY <1>3, <1>4 DEF Stamp, Preflight, Record, Refuse, Interrupt, Resume, Moves, Release, sealVars
<1>5. CASE \E t \in Tasks : Start(t) \/ Publish(t) \/ Complete(t) \/ Fail(t) \/ Cancel(t)
  BY <1>3, <1>5 DEF Start, Publish, Complete, Fail, Cancel, Becomes, sealVars
<1>6. CASE ReadLedger \/ CloseTree \/ Account \/ Finalize \/ GiveUp
  BY <1>3, <1>6 DEF ReadLedger, CloseTree, Account, Finalize, GiveUp, Reads, sealVars
<1>7. CASE \E f \in finalized : StartSeal(f) \/ EndSeal(f)
  BY <1>3, <1>7 DEF StartSeal, EndSeal
<1>8. CASE UNCHANGED vars
  BY <1>3, <1>8 DEF vars, sealVars
<1>9. QED
  BY <1>2, <1>4, <1>5, <1>6, <1>7, <1>8 DEF Next

-------------------------------------------------------------------------------
(* The ledger and the arrays of the promise: an array is its attempt. *)
Named(l) == [i \in DOMAIN l |-> [attempt |-> l[i], job |-> l[i]]]

Shown(s) == CASE s \in {"none", "stamped"} -> "none"
              [] s = "released" -> "released"
              [] OTHER -> "held"

(* The rows the promise sees name exactly the recorded attempts. *)
LEMMA NamedRecorded ==
  ASSUME NEW a
  PROVE  /\ a \in Submissions!RecordedAttempts(Named(ledger)) <=> a \in Recorded
         /\ a \in Submissions!RecordedJobs(Named(ledger)) <=> a \in Recorded
<1>1. Submissions!Recorded(Named(ledger)) = {[attempt |-> b, job |-> b] : b \in Recorded}
  BY DEF Named, Recorded, Submissions!Recorded
<1>2. QED
  <2>1. ASSUME a \in Recorded
        PROVE  \E r \in Submissions!Recorded(Named(ledger)) : r.attempt = a /\ r.job = a
    <3>1. [attempt |-> a, job |-> a] \in Submissions!Recorded(Named(ledger))
      BY <1>1, <2>1
    <3>2. QED
      BY <3>1
  <2>2. \A r \in Submissions!Recorded(Named(ledger)) : r.attempt \in Recorded /\ r.job \in Recorded
    BY <1>1
  <2>3. QED
    BY <2>1, <2>2 DEF Submissions!RecordedAttempts, Submissions!RecordedJobs

(* Appending a submission appends the row that names it. *)
LEMMA NamedAppend ==
  ASSUME ledger \in Seq(Attempts), NEW a \in Attempts
  PROVE  Named(Append(ledger, a)) = Append(Named(ledger), [attempt |-> a, job |-> a])
<1> DEFINE row(b) == [attempt |-> b, job |-> b]
           n == Len(ledger)
<1>1. Named(ledger) \in Seq([attempt : Attempts, job : Attempts]) /\ Len(Named(ledger)) = n
  <2>1. n \in Nat /\ DOMAIN ledger = 1..n /\ \A i \in 1..n : ledger[i] \in Attempts
    OBVIOUS
  <2>2. Named(ledger) \in [1..n -> [attempt : Attempts, job : Attempts]]
    BY <2>1 DEF Named
  <2>3. Named(ledger) \in Seq([attempt : Attempts, job : Attempts])
    <3>1. Named(ledger) \in UNION {[1..m -> [attempt : Attempts, job : Attempts]] : m \in Nat}
      BY <2>1, <2>2
    <3>2. QED
      BY <3>1, SeqDef
  <2>4. DOMAIN Named(ledger) = 1..n
    BY <2>1 DEF Named
  <2>5. Len(Named(ledger)) = n
    BY <2>1, <2>3, <2>4
  <2>6. QED
    BY <2>3, <2>5
<1>2. DOMAIN Named(Append(ledger, a)) = 1..(n + 1)
  BY DEF Named
<1>3. \A i \in 1..n : Append(ledger, a)[i] = ledger[i] /\ Append(Named(ledger), row(a))[i] = row(ledger[i])
  BY <1>1 DEF Named
<1>4. Append(ledger, a)[n + 1] = a /\ Append(Named(ledger), row(a))[n + 1] = row(a)
  BY <1>1
<1>5. \A i \in 1..(n + 1) : Named(Append(ledger, a))[i] = Append(Named(ledger), row(a))[i]
  BY <1>2, <1>3, <1>4 DEF Named
<1>6. /\ Append(Named(ledger), row(a)) \in Seq([attempt : Attempts, job : Attempts])
      /\ Len(Append(Named(ledger), row(a))) = n + 1
  BY <1>1
<1>7. Named(Append(ledger, a)) \in Seq([attempt : Attempts, job : Attempts])
  BY DEF Named
<1>8. QED
  BY <1>2, <1>5, <1>6, <1>7

-------------------------------------------------------------------------------
(* Theorems. *)

(* The inductive invariant of the campaign. *)
LEMMA Inductive == Spec => []IInv
<1>1. IInv /\ [Next]_vars => IInv'
  BY TypeStep, LedgerStep, TaskStep, ReaderStep, FinalStep, PackageStep DEF IInv
<1>2. QED
  BY <1>1, CampaignInit, PTL DEF Spec

(* The shared files, the scheduler and the programs keep their types. *)
THEOREM TypeCorrect == Spec => []TypeOK
BY Inductive, PTL DEF IInv

(* A finalized ledger stays true: its rows are terminal, and complete,     *)
(* accounted COMPLETED and published are the same for each.                *)
THEOREM FinalizedStaysTrueHolds == Spec => []FinalizedStaysTrue
<1>1. IInv => FinalizedStaysTrue
  BY DEF IInv, FinalInv
<1>2. QED
  BY <1>1, Inductive, PTL

(* Every block in the tree is of an attempt the ledger records. *)
THEOREM NoForeignBlockHolds == Spec => []NoForeignBlock
<1>1. IInv => NoForeignBlock
  BY DEF IInv, TypeOK, TaskInv, LedgerInv, NoForeignBlock, Tasks
<1>2. QED
  BY <1>1, Inductive, PTL

(* A selected attempt completed, with its block, in the cell asked for. *)
THEOREM PackagesCoverCampaignHolds == Spec => []PackagesCoverCampaign
<1>1. IInv => PackagesCoverCampaign
  <2> SUFFICES ASSUME IInv, NEW p \in packages, NEW slot \in Slots
               PROVE  /\ CellOf[p.pick[slot]] = slot[1]
                      /\ task[<<p.pick[slot], slot[2]>>] = "completed"
                      /\ block[<<p.pick[slot], slot[2]>>]
    BY DEF PackagesCoverCampaign
  <2>1. p.pick[slot] \in Candidates(p.ledger, slot)
    BY DEF IInv, PackageInv, Earliest
  <2>2. p.ledger \in finalized
    BY DEF IInv, TypeOK
  <2>3. QED
    BY <2>1, <2>2 DEF IInv, FinalInv, FinalizedStaysTrue, Candidates
<1>2. QED
  BY <1>1, Inductive, PTL

(* Two packages pick different attempts only where the times of their      *)
(* submissions contradict the ledger.  The attempt the one picks completed *)
(* for good; the other's finalized ledger has its row, because it has a    *)
(* later one; so it was a candidate there, too, and lost by its time.      *)
THEOREM PackagesAgreeHolds == Spec => []PackagesAgree
<1>1. IInv => PackagesAgree
  <2> SUFFICES ASSUME IInv, NEW p \in packages, NEW q \in packages, NEW slot \in Slots,
                      Before(p.pick[slot], q.pick[slot])
               PROVE  utc[q.pick[slot]] < utc[p.pick[slot]]
    BY DEF PackagesAgree
  <2> DEFINE a == p.pick[slot]
             b == q.pick[slot]
             f == p.ledger
             g == q.ledger
  <2>1. /\ f \in finalized /\ g \in finalized /\ slot[2] \in Seeds
        /\ f.n \in 0..Len(ledger) /\ g.n \in 0..Len(ledger)
        /\ DOMAIN ledger = 1..Len(ledger) /\ Len(ledger) \in Nat
    BY DEF IInv, TypeOK, Slots
  <2>2. a \in Earliest(f, slot) /\ b \in Earliest(g, slot)
    BY DEF IInv, PackageInv
  <2>3. /\ a \in Attempts /\ CellOf[a] = slot[1] /\ <<a, slot[2]>> \in f.done
        /\ b \in Attempts /\ <<b, slot[2]>> \in g.done
    BY <2>2 DEF Earliest, Candidates
  <2>4. PICK i, j \in DOMAIN ledger : i < j /\ ledger[i] = a /\ ledger[j] = b
    BY DEF Before
  <2>5. j \in 1..g.n
    <3>1. PICK k \in 1..g.n : ledger[k] = b
      BY <2>1, <2>3, RowRecorded DEF IInv, FinalInv
    <3>2. k \in DOMAIN ledger
      BY <2>1, <3>1
    <3>3. k = j
      BY <2>4, <3>1, <3>2 DEF IInv, LedgerInv
    <3>4. QED
      BY <3>1, <3>3
  <2>6. <<a, slot[2]>> \in Rows(g.n)
    <3>1. i \in 1..g.n
      BY <2>1, <2>4, <2>5
    <3>2. QED
      BY <2>1, <2>3, <2>4, <3>1, RowRecorded DEF IInv
  <2>7. task[<<a, slot[2]>>] = "completed"
    BY <2>1, <2>3 DEF IInv, FinalInv, FinalizedStaysTrue
  <2>8. a \in Candidates(g, slot)
    BY <2>1, <2>3, <2>6, <2>7 DEF IInv, FinalInv, FinalizedStaysTrue, Candidates
  <2>9. a # b
    BY <2>4 DEF IInv, LedgerInv, TypeOK
  <2>10. QED
    BY <2>2, <2>8, <2>9 DEF Earliest
<1>2. QED
  BY <1>1, Inductive, PTL

(* Finalized ledgers and packages are never withdrawn. *)
THEOREM EvidenceIsKeptHolds == Spec => EvidenceIsKept
<1>1. IInv /\ [Next]_vars => finalized \subseteq finalized' /\ packages \subseteq packages'
  BY KeptStep DEF Kept
<1>2. QED
  BY <1>1, Inductive, PTL DEF Spec, EvidenceIsKept

(* The submissions of a campaign implement SubmissionLedger: an array      *)
(* exists from its preflight on and is named before it is released.        *)
THEOREM KeepsSubmissionPromiseHolds == Spec => KeepsSubmissionPromise
<1> USE DEF Named, Shown
<1>1. Init => Submissions!Init
  BY DEF Init, Submissions!Init
<1>2. ASSUME IInv, [Next]_vars
      PROVE  [Submissions!Next]_(Submissions!vars)
  <2>0. TypeOK /\ LedgerInv
    BY <1>2 DEF IInv
  <2>1. ASSUME ledger' = ledger,
               \A a \in Attempts : Shown(sub'[a]) = Shown(sub[a])
        PROVE  UNCHANGED Submissions!vars
    BY <2>1 DEF Submissions!vars
  <2>2. ASSUME NEW a \in Attempts, Stamp(a) \/ Refuse(a) \/ Interrupt(a) \/ Resume(a)
        PROVE  UNCHANGED Submissions!vars
    BY <2>0, <2>1, <2>2 DEF Stamp, Refuse, Interrupt, Resume, Moves, TypeOK
  <2>3. ASSUME NEW a \in Attempts, Preflight(a)
        PROVE  Submissions!Allocate(a)
    BY <2>0, <2>3 DEF Preflight, Moves, TypeOK, Submissions!Allocate
  <2>4. ASSUME NEW a \in Attempts, Record(a)
        PROVE  Submissions!Record(a, a)
    <3>1. a \notin Recorded
      BY <2>0, <2>4 DEF Record, Moves, LedgerInv
    <3>2. Named(ledger') = Append(Named(ledger), [attempt |-> a, job |-> a])
      BY <2>0, <2>4, NamedAppend DEF Record, TypeOK
    <3>3. \A b \in Attempts : Shown(sub'[b]) = Shown(sub[b])
      BY <2>0, <2>4 DEF Record, Moves, TypeOK
    <3>4. Shown(sub[a]) = "held"
      BY <2>4 DEF Record, Moves
    <3>5. QED
      BY <3>1, <3>2, <3>3, <3>4, NamedRecorded DEF Submissions!Record
  <2>5. ASSUME NEW a \in Attempts, Release(a)
        PROVE  Submissions!Release(a)
    <3>1. a \in Recorded
      BY <2>0, <2>5 DEF Release, LedgerInv
    <3>2. QED
      BY <2>0, <2>5, <3>1, NamedRecorded DEF Release, TypeOK, Submissions!Release
  <2>6. CASE Elsewhere
    BY <2>1, <2>6, ElsewhereLeaves DEF submitVars
  <2>7. QED
    BY <1>2, <2>2, <2>3, <2>4, <2>5, <2>6 DEF Next, Elsewhere, Submissions!Next
<1>3. QED
  BY <1>1, <1>2, Inductive, PTL DEF Spec, KeepsSubmissionPromise, Submissions!Spec
=============================================================================
