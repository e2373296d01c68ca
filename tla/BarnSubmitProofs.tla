--------------------------- MODULE BarnSubmitProofs ---------------------------
(***************************************************************************)
(* Proofs about BarnSubmit, for every set of clones, attempts, jobs and    *)
(* installers and every bound on the faults.  The remote program is not    *)
(* protected against signals (see MCBarnSubmitSignal.cfg), so the safety   *)
(* theorems assume that no fault is a signal.                              *)
(***************************************************************************)
EXTENDS BarnSubmit, TLAPS

(* The control states in which the shell variables form a whole transaction. *)
HasTx == {"verify", "mark", "fill", "replace", "upload", "uploading", "install",
          "await", "localcheck", "release", "clean", "finish"}

Whole(t) == t \in Tx /\ t.next = Append(t.prev, RowOf(t))

(* What each submitter knows about its transaction. *)
SubmitterInv ==
  \A c \in Clones :
    /\ pc[c] # "idle" => tx[c] \in DraftTx
    /\ pc[c] \in HasTx => Whole(tx[c])
    /\ pc[c] = "preflight" /\ tx[c].job # NoJob => Whole(tx[c])
    /\ pc[c] = "preflight" /\ tx[c].job = NoJob => tx[c].prev = local[c]
    /\ pc[c] = "hold" => tx[c].prev = local[c]
    /\ pc[c] = "propose" => tx[c].prev = local[c] /\ tx[c].job \in Jobs
    /\ pc[c] \in {"localcheck", "release"} => tx[c].job \in RecordedJobs(remote)

MarkerInv ==
  \A c \in Clones : marker[c] \notin {NoTx, TornTx} => Whole(marker[c])

(* The remote lock is exclusive, and what it protects stays as it was read. *)
LockInv ==
  /\ \A i \in Installers : Locked(i) => rlock
  /\ \A i, k \in Installers : Locked(i) /\ Locked(k) => i = k

InstallerInv ==
  \A i \in Installers :
    /\ ipc[i] # "idle" => Whole(itx[i])
    /\ ipc[i] = "move" => remote = itx[i].prev
    /\ ipc[i] = "verify" => remote = itx[i].next
    /\ \A c \in Clones : iowner[i] = c =>
         ipc[i] # "idle" /\ pc[c] = "await" /\ tx[c] = itx[i]
    /\ \A k \in Installers : iowner[i] \in Clones /\ iowner[k] = iowner[i] => k = i

IInv ==
  /\ TypeOK
  /\ SubmitterInv
  /\ MarkerInv
  /\ LockInv
  /\ InstallerInv
  /\ RecordedBeforeRelease

-------------------------------------------------------------------------------
(* The absent ledger is a ledger. *)
LEMMA EmptyLedger == << >> \in Ledger
  BY DEF Ledger

(* A ledger extended by one row is a ledger that records one more job. *)
LEMMA AppendRow ==
  ASSUME NEW l \in Ledger, NEW r \in Row
  PROVE  /\ Append(l, r) \in Ledger
         /\ RecordedJobs(Append(l, r)) = RecordedJobs(l) \cup {r.job}
         /\ Len(Append(l, r)) = Len(l) + 1
         /\ \A n \in DOMAIN l : Append(l, r)[n] = l[n]
<1>1. Append(l, r) \in Ledger /\ Len(Append(l, r)) = Len(l) + 1
  BY DEF Ledger
<1>2. \A n \in DOMAIN l : Append(l, r)[n] = l[n]
  BY DEF Ledger
<1>3. DOMAIN Append(l, r) = DOMAIN l \cup {Len(l) + 1}
  BY DEF Ledger
<1>4. Append(l, r)[Len(l) + 1] = r
  BY DEF Ledger
<1>5. Recorded(Append(l, r)) = Recorded(l) \cup {r}
  BY <1>2, <1>3, <1>4 DEF Recorded
<1>6. QED
  BY <1>1, <1>2, <1>5 DEF RecordedJobs

(* A whole transaction, installed, extends the ledger by the job it names. *)
LEMMA WholeExtends ==
  ASSUME NEW t, Whole(t)
  PROVE  /\ t.attempt \in Attempts /\ t.job \in Jobs
         /\ t.prev \in Ledger /\ t.next \in Ledger
         /\ RecordedJobs(t.next) = RecordedJobs(t.prev) \cup {t.job}
         /\ Len(t.next) = Len(t.prev) + 1
         /\ \A n \in DOMAIN t.prev : t.next[n] = t.prev[n]
<1>1. t.attempt \in Attempts /\ t.job \in Jobs /\ t.prev \in Ledger /\ t.next \in Ledger
  BY DEF Whole, Tx
<1>2. RowOf(t) \in Row /\ RowOf(t).job = t.job
  BY <1>1 DEF RowOf, Row
<1>3. QED
  BY <1>1, <1>2, AppendRow DEF Whole

(***************************************************************************)
(* An installer that ends keeps the invariant, if it reports success only  *)
(* when the ledger records its array and drops only a lock it holds.       *)
(***************************************************************************)
LEMMA InstallerEnds ==
  ASSUME IInv, NEW i \in Installers, NEW ok \in BOOLEAN,
         ipc' = [ipc EXCEPT ![i] = "idle"],
         itx' = [itx EXCEPT ![i] = NoTx],
         iowner' = [iowner EXCEPT ![i] = NoClone],
         pc' = [c \in Clones |->
                  IF iowner[i] = c THEN (IF ok THEN "localcheck" ELSE "failed")
                                   ELSE pc[c]],
         UNCHANGED <<localVars, tx, remote, stage, array>>, faults' \in Nat,
         rlock' = rlock \/ (rlock' = FALSE /\ Locked(i)),
         ok => itx[i].job \in RecordedJobs(remote)
  PROVE  IInv'
<1> USE NullAssumption DEF localVars
<1>1. TypeOK'
  BY DEF IInv, TypeOK, SubmitterStates, InstallerStates
<1>2. \A c \in Clones : pc'[c] # pc[c] =>
        /\ iowner[i] = c /\ pc[c] = "await" /\ tx[c] = itx[i] /\ tx' = tx
        /\ pc'[c] \in {"localcheck", "failed"}
        /\ pc'[c] = "localcheck" => ok
  BY DEF IInv, TypeOK, InstallerInv
<1>3. SubmitterInv'
  BY <1>2 DEF IInv, TypeOK, SubmitterInv, HasTx
<1>4. LockInv'
  BY DEF IInv, TypeOK, LockInv, Locked
<1>5. InstallerInv'
  BY DEF IInv, TypeOK, InstallerInv
<1>6. (MarkerInv /\ RecordedBeforeRelease)'
  BY DEF IInv, MarkerInv, RecordedBeforeRelease
<1>7. QED
  BY <1>1, <1>3, <1>4, <1>5, <1>6 DEF IInv

(* Every step keeps the invariant. *)
LEMMA InductiveStep ==
  ASSUME "signal" \notin Faults, IInv, [Next]_vars
  PROVE  IInv'
<1> USE NullAssumption DEF Goto, localVars, subVars, remoteVars, instVars
<1>1. ASSUME NEW c \in Clones, NEW a \in Attempts, Begin(c, a) PROVE IInv'
  <2>1. TypeOK'
    BY <1>1, EmptyLedger DEF Begin, IInv, TypeOK, SubmitterStates, DraftTx
  <2>2. SubmitterInv'
    BY <1>1, EmptyLedger DEF Begin, IInv, SubmitterInv, TypeOK, HasTx, DraftTx
  <2>3. InstallerInv'
    BY <1>1 DEF Begin, IInv, InstallerInv, TypeOK
  <2>4. (MarkerInv /\ LockInv /\ RecordedBeforeRelease)'
    BY <1>1 DEF Begin, IInv, MarkerInv, LockInv, RecordedBeforeRelease, Locked
  <2>5. QED
    BY <2>1, <2>2, <2>3, <2>4 DEF IInv
<1>2. ASSUME NEW c \in Clones, Resume(c) PROVE IInv'
  <2>0. Whole(marker[c]) /\ marker[c] \in DraftTx /\ marker[c].next \in Ledger
    BY <1>2 DEF Resume, IInv, MarkerInv, Whole, Tx, DraftTx
  <2>1. TypeOK'
    BY <1>2, <2>0 DEF Resume, IInv, TypeOK, SubmitterStates, Tx, DraftTx
  <2>2. SubmitterInv'
    BY <1>2, <2>0 DEF Resume, IInv, SubmitterInv, TypeOK, HasTx, Whole, Tx
  <2>3. InstallerInv'
    BY <1>2 DEF Resume, IInv, InstallerInv, TypeOK
  <2>4. (MarkerInv /\ LockInv /\ RecordedBeforeRelease)'
    BY <1>2 DEF Resume, IInv, MarkerInv, LockInv, RecordedBeforeRelease, Locked
  <2>5. QED
    BY <2>1, <2>2, <2>3, <2>4 DEF IInv
<1>3. ASSUME NEW c \in Clones, Preflight(c) PROVE IInv'
  <2>1. TypeOK'
    BY <1>3 DEF Preflight, IInv, TypeOK, SubmitterStates
  <2>2. SubmitterInv'
    BY <1>3 DEF Preflight, IInv, SubmitterInv, TypeOK, HasTx
  <2>3. InstallerInv'
    BY <1>3 DEF Preflight, IInv, InstallerInv, TypeOK
  <2>4. (MarkerInv /\ LockInv /\ RecordedBeforeRelease)'
    BY <1>3 DEF Preflight, IInv, MarkerInv, LockInv, RecordedBeforeRelease,
       Locked
  <2>5. QED
    BY <2>1, <2>2, <2>3, <2>4 DEF IInv
<1>4. ASSUME NEW c \in Clones, HoldArray(c) PROVE IInv'
  <2>1. TypeOK'
    <3>1. tx[c] \in DraftTx
      BY <1>4 DEF HoldArray, IInv, SubmitterInv
    <3>2. QED
      BY <1>4, <3>1 DEF HoldArray, IInv, TypeOK, SubmitterStates, DraftTx
  <2>2. SubmitterInv'
    <3>1. tx[c] \in DraftTx /\ tx[c].prev = local[c]
      BY <1>4 DEF HoldArray, IInv, SubmitterInv
    <3>2. \E j \in Jobs : tx' = [tx EXCEPT ![c].job = j] /\ tx[c].prev = tx'[c].prev
                         /\ tx'[c] \in DraftTx /\ tx'[c].job \in Jobs
      <4>1. PICK j \in Jobs : tx' = [tx EXCEPT ![c].job = j]
        BY <1>4 DEF HoldArray
      <4>2. QED
        BY <3>1, <4>1 DEF IInv, TypeOK, DraftTx
    <3>3. QED
      BY <1>4, <3>1, <3>2 DEF HoldArray, IInv, TypeOK, SubmitterInv, HasTx
  <2>3. InstallerInv'
    BY <1>4 DEF HoldArray, IInv, InstallerInv, TypeOK
  <2>4. RecordedBeforeRelease'
    BY <1>4 DEF HoldArray, IInv, RecordedBeforeRelease, TypeOK
  <2>5. (MarkerInv /\ LockInv)'
    BY <1>4 DEF HoldArray, IInv, MarkerInv, LockInv, Locked
  <2>6. QED
    BY <2>1, <2>2, <2>3, <2>4, <2>5 DEF IInv
<1>5. ASSUME NEW c \in Clones, VerifyHeld(c) PROVE IInv'
  <2>1. TypeOK'
    BY <1>5 DEF VerifyHeld, IInv, TypeOK, SubmitterStates
  <2>2. SubmitterInv'
    BY <1>5 DEF VerifyHeld, IInv, SubmitterInv, TypeOK, HasTx, DraftTx
  <2>3. InstallerInv'
    BY <1>5 DEF VerifyHeld, IInv, InstallerInv, TypeOK
  <2>4. (MarkerInv /\ LockInv /\ RecordedBeforeRelease)'
    BY <1>5 DEF VerifyHeld, IInv, MarkerInv, LockInv, RecordedBeforeRelease,
       Locked
  <2>5. QED
    BY <2>1, <2>2, <2>3, <2>4 DEF IInv
<1>6. ASSUME NEW c \in Clones, WriteProposal(c) PROVE IInv'
  <2>0. /\ tx'[c] \in DraftTx /\ Whole(tx'[c])
        /\ tx' = [tx EXCEPT ![c] = tx'[c]]
        /\ proposed' = [proposed EXCEPT ![c] = @ \cup {tx'[c].next}]
        /\ tx'[c].next \in Ledger
    <3>1. tx[c] \in DraftTx /\ tx[c].prev = local[c] /\ tx[c].job \in Jobs
      BY <1>6 DEF WriteProposal, IInv, SubmitterInv
    <3>2. RowOf(tx[c]) \in Row /\ local[c] \in Ledger
      BY <3>1 DEF RowOf, Row, DraftTx, IInv, TypeOK
    <3>3. Append(local[c], RowOf(tx[c])) \in Ledger
      BY <3>2, AppendRow
    <3>4. tx' = [tx EXCEPT ![c].next = Append(local[c], RowOf(tx[c]))]
      BY <1>6 DEF WriteProposal
    <3>5. /\ tx'[c].attempt = tx[c].attempt /\ tx'[c].job = tx[c].job
          /\ tx'[c].prev = tx[c].prev
          /\ tx'[c].next = Append(local[c], RowOf(tx[c]))
          /\ tx'[c] \in DraftTx /\ tx'[c] \in Tx
          /\ tx' = [tx EXCEPT ![c] = tx'[c]]
      BY <3>1, <3>3, <3>4 DEF DraftTx, Tx, IInv, TypeOK
    <3>6. QED
      BY <1>6, <3>1, <3>3, <3>5 DEF WriteProposal, Whole, RowOf
  <2>1. TypeOK'
    <3>1. proposed' \in [Clones -> SUBSET Ledger]
      BY <2>0 DEF IInv, TypeOK
    <3>2. tx' \in [Clones -> DraftTx \cup {NoTx}]
      BY <2>0 DEF IInv, TypeOK
    <3>3. pc' \in [Clones -> SubmitterStates]
      BY <1>6 DEF WriteProposal, IInv, TypeOK, SubmitterStates
    <3>4. QED
      BY <1>6, <3>1, <3>2, <3>3 DEF WriteProposal, IInv, TypeOK
  <2>2. SubmitterInv'
    BY <1>6, <2>0 DEF WriteProposal, IInv, TypeOK, SubmitterInv, HasTx
  <2>3. InstallerInv'
    BY <1>6 DEF WriteProposal, RowOf, IInv, InstallerInv, TypeOK
  <2>4. (MarkerInv /\ LockInv /\ RecordedBeforeRelease)'
    BY <1>6 DEF WriteProposal, RowOf, IInv, MarkerInv, LockInv,
       RecordedBeforeRelease, Locked
  <2>5. QED
    BY <2>1, <2>2, <2>3, <2>4 DEF IInv
<1>7. ASSUME NEW c \in Clones, CreateMarker(c) PROVE IInv'
  <2>1. TypeOK'
    BY <1>7 DEF CreateMarker, IInv, TypeOK, SubmitterStates
  <2>2. SubmitterInv'
    BY <1>7 DEF CreateMarker, IInv, SubmitterInv, TypeOK, HasTx
  <2>3. MarkerInv'
    BY <1>7 DEF CreateMarker, IInv, MarkerInv
  <2>4. InstallerInv'
    BY <1>7 DEF CreateMarker, IInv, InstallerInv, TypeOK
  <2>5. (LockInv /\ RecordedBeforeRelease)'
    BY <1>7 DEF CreateMarker, IInv, LockInv, RecordedBeforeRelease, Locked
  <2>6. QED
    BY <2>1, <2>2, <2>3, <2>4, <2>5 DEF IInv
<1>8. ASSUME NEW c \in Clones, FillMarker(c) PROVE IInv'
  <2>0. Whole(tx[c]) /\ tx[c] \in Tx
    BY <1>8 DEF FillMarker, IInv, SubmitterInv, HasTx, Whole
  <2>1. TypeOK'
    BY <1>8, <2>0 DEF FillMarker, IInv, TypeOK, SubmitterStates
  <2>2. SubmitterInv'
    BY <1>8 DEF FillMarker, IInv, SubmitterInv, TypeOK, HasTx
  <2>3. MarkerInv'
    BY <1>8, <2>0 DEF FillMarker, IInv, MarkerInv
  <2>4. InstallerInv'
    BY <1>8 DEF FillMarker, IInv, InstallerInv, TypeOK
  <2>5. (LockInv /\ RecordedBeforeRelease)'
    BY <1>8 DEF FillMarker, IInv, LockInv, RecordedBeforeRelease, Locked
  <2>6. QED
    BY <2>1, <2>2, <2>3, <2>4, <2>5 DEF IInv
<1>9. ASSUME NEW c \in Clones, ReplaceLocal(c) PROVE IInv'
  <2>0. tx[c].next \in Ledger
    BY <1>9, WholeExtends DEF ReplaceLocal, IInv, SubmitterInv, HasTx
  <2>1. TypeOK'
    BY <1>9, <2>0 DEF ReplaceLocal, IInv, TypeOK, SubmitterStates
  <2>2. SubmitterInv'
    BY <1>9 DEF ReplaceLocal, IInv, SubmitterInv, TypeOK, HasTx
  <2>3. InstallerInv'
    BY <1>9 DEF ReplaceLocal, IInv, InstallerInv, TypeOK
  <2>4. (MarkerInv /\ LockInv /\ RecordedBeforeRelease)'
    BY <1>9 DEF ReplaceLocal, IInv, MarkerInv, LockInv, RecordedBeforeRelease,
       Locked
  <2>5. QED
    BY <2>1, <2>2, <2>3, <2>4 DEF IInv
<1>10. ASSUME NEW c \in Clones, ReuseStage(c) PROVE IInv'
  <2>1. TypeOK'
    BY <1>10 DEF ReuseStage, IInv, TypeOK, SubmitterStates
  <2>2. SubmitterInv'
    BY <1>10 DEF ReuseStage, IInv, SubmitterInv, TypeOK, HasTx
  <2>3. InstallerInv'
    BY <1>10 DEF ReuseStage, IInv, InstallerInv, TypeOK
  <2>4. (MarkerInv /\ LockInv /\ RecordedBeforeRelease)'
    BY <1>10 DEF ReuseStage, IInv, MarkerInv, LockInv, RecordedBeforeRelease,
       Locked
  <2>5. QED
    BY <2>1, <2>2, <2>3, <2>4 DEF IInv
<1>11. ASSUME NEW c \in Clones, StartUpload(c) PROVE IInv'
  <2>0. tx[c].job \in Jobs
    BY <1>11, WholeExtends DEF StartUpload, IInv, SubmitterInv, HasTx
  <2>1. TypeOK'
    BY <1>11, <2>0 DEF StartUpload, IInv, TypeOK, SubmitterStates
  <2>2. SubmitterInv'
    BY <1>11 DEF StartUpload, IInv, SubmitterInv, TypeOK, HasTx
  <2>3. InstallerInv'
    BY <1>11 DEF StartUpload, IInv, InstallerInv, TypeOK
  <2>4. (MarkerInv /\ LockInv /\ RecordedBeforeRelease)'
    BY <1>11 DEF StartUpload, IInv, MarkerInv, LockInv, RecordedBeforeRelease,
       Locked
  <2>5. QED
    BY <2>1, <2>2, <2>3, <2>4 DEF IInv
<1>12. ASSUME NEW c \in Clones, FinishUpload(c) PROVE IInv'
  <2>0. tx[c].job \in Jobs
    BY <1>12, WholeExtends DEF FinishUpload, IInv, SubmitterInv, HasTx
  <2>1. TypeOK'
    BY <1>12, <2>0 DEF FinishUpload, IInv, TypeOK, SubmitterStates
  <2>2. SubmitterInv'
    BY <1>12 DEF FinishUpload, IInv, SubmitterInv, TypeOK, HasTx
  <2>3. InstallerInv'
    BY <1>12 DEF FinishUpload, IInv, InstallerInv, TypeOK
  <2>4. (MarkerInv /\ LockInv /\ RecordedBeforeRelease)'
    BY <1>12 DEF FinishUpload, IInv, MarkerInv, LockInv, RecordedBeforeRelease,
       Locked
  <2>5. QED
    BY <2>1, <2>2, <2>3, <2>4 DEF IInv
<1>13. ASSUME NEW c \in Clones, StartInstall(c) PROVE IInv'
  <2>0. Whole(tx[c]) /\ tx[c] \in Tx
    BY <1>13 DEF StartInstall, IInv, SubmitterInv, HasTx, Whole
  <2>1. TypeOK'
    BY <1>13, <2>0 DEF StartInstall, IInv, TypeOK, SubmitterStates,
       InstallerStates, Tx, DraftTx
  <2>2. SubmitterInv'
    BY <1>13 DEF StartInstall, IInv, SubmitterInv, TypeOK, HasTx
  <2>3. LockInv'
    BY <1>13 DEF StartInstall, IInv, LockInv, Locked, TypeOK
  <2>4. InstallerInv'
    BY <1>13, <2>0 DEF StartInstall, IInv, InstallerInv, TypeOK
  <2>5. (MarkerInv /\ RecordedBeforeRelease)'
    BY <1>13 DEF StartInstall, IInv, MarkerInv, RecordedBeforeRelease
  <2>6. QED
    BY <2>1, <2>2, <2>3, <2>4, <2>5 DEF IInv
<1>14. ASSUME NEW c \in Clones, LocalCheck(c) PROVE IInv'
  <2>1. TypeOK'
    BY <1>14 DEF LocalCheck, IInv, TypeOK, SubmitterStates
  <2>2. SubmitterInv'
    BY <1>14 DEF LocalCheck, IInv, SubmitterInv, TypeOK, HasTx
  <2>3. InstallerInv'
    BY <1>14 DEF LocalCheck, IInv, InstallerInv, TypeOK
  <2>4. (MarkerInv /\ LockInv /\ RecordedBeforeRelease)'
    BY <1>14 DEF LocalCheck, IInv, MarkerInv, LockInv, RecordedBeforeRelease,
       Locked
  <2>5. QED
    BY <2>1, <2>2, <2>3, <2>4 DEF IInv
<1>15. ASSUME NEW c \in Clones, ReleaseArray(c) PROVE IInv'
  <2>1. TypeOK'
    BY <1>15 DEF ReleaseArray, IInv, TypeOK, SubmitterStates
  <2>2. SubmitterInv'
    BY <1>15 DEF ReleaseArray, IInv, SubmitterInv, TypeOK, HasTx
  <2>3. InstallerInv'
    BY <1>15 DEF ReleaseArray, IInv, InstallerInv, TypeOK
  <2>4. RecordedBeforeRelease'
    BY <1>15 DEF ReleaseArray, IInv, RecordedBeforeRelease, TypeOK, SubmitterInv
  <2>5. (MarkerInv /\ LockInv)'
    BY <1>15 DEF ReleaseArray, IInv, MarkerInv, LockInv, Locked
  <2>6. QED
    BY <2>1, <2>2, <2>3, <2>4, <2>5 DEF IInv
<1>16. ASSUME NEW c \in Clones, RemoveMarker(c) PROVE IInv'
  <2>1. TypeOK'
    BY <1>16 DEF RemoveMarker, IInv, TypeOK, SubmitterStates
  <2>2. SubmitterInv'
    BY <1>16 DEF RemoveMarker, IInv, SubmitterInv, TypeOK, HasTx
  <2>3. MarkerInv'
    BY <1>16 DEF RemoveMarker, IInv, MarkerInv
  <2>4. InstallerInv'
    BY <1>16 DEF RemoveMarker, IInv, InstallerInv, TypeOK
  <2>5. (LockInv /\ RecordedBeforeRelease)'
    BY <1>16 DEF RemoveMarker, IInv, LockInv, RecordedBeforeRelease, Locked
  <2>6. QED
    BY <2>1, <2>2, <2>3, <2>4, <2>5 DEF IInv
<1>17. ASSUME NEW c \in Clones, Finish(c) PROVE IInv'
  <2>1. TypeOK'
    BY <1>17 DEF Finish, IInv, TypeOK, SubmitterStates
  <2>2. SubmitterInv'
    BY <1>17 DEF Finish, IInv, SubmitterInv, TypeOK, HasTx
  <2>3. InstallerInv'
    BY <1>17 DEF Finish, IInv, InstallerInv, TypeOK
  <2>4. (MarkerInv /\ LockInv /\ RecordedBeforeRelease)'
    BY <1>17 DEF Finish, IInv, MarkerInv, LockInv, RecordedBeforeRelease, Locked
  <2>5. QED
    BY <2>1, <2>2, <2>3, <2>4 DEF IInv
<1>18. ASSUME NEW c \in Clones, Exit(c) PROVE IInv'
  <2>1. TypeOK'
    BY <1>18 DEF Exit, IInv, TypeOK, SubmitterStates
  <2>2. SubmitterInv'
    BY <1>18 DEF Exit, IInv, SubmitterInv, TypeOK, HasTx
  <2>3. InstallerInv'
    BY <1>18 DEF Exit, IInv, InstallerInv, TypeOK
  <2>4. (MarkerInv /\ LockInv /\ RecordedBeforeRelease)'
    BY <1>18 DEF Exit, IInv, MarkerInv, LockInv, RecordedBeforeRelease, Locked
  <2>5. QED
    BY <2>1, <2>2, <2>3, <2>4 DEF IInv
<1>19. ASSUME NEW c \in Clones, Abort(c) PROVE IInv'
  <2>1. TypeOK'
    BY <1>19 DEF Abort, Abandon, Fault, IInv, TypeOK, SubmitterStates
  <2>2. SubmitterInv'
    BY <1>19 DEF Abort, Abandon, Fault, IInv, SubmitterInv, TypeOK, HasTx
  <2>3. InstallerInv'
    BY <1>19 DEF Abort, Abandon, Fault, IInv, InstallerInv, TypeOK
  <2>4. (MarkerInv /\ LockInv /\ RecordedBeforeRelease)'
    BY <1>19 DEF Abort, Abandon, Fault, IInv, MarkerInv, LockInv,
       RecordedBeforeRelease, Locked
  <2>5. QED
    BY <2>1, <2>2, <2>3, <2>4 DEF IInv
<1>20. ASSUME NEW c \in Clones, Kill(c) PROVE IInv'
  <2>1. TypeOK'
    BY <1>20 DEF Kill, Abandon, Fault, IInv, TypeOK, SubmitterStates
  <2>2. SubmitterInv'
    BY <1>20 DEF Kill, Abandon, Fault, IInv, SubmitterInv, TypeOK, HasTx
  <2>3. InstallerInv'
    BY <1>20 DEF Kill, Abandon, Fault, IInv, InstallerInv, TypeOK
  <2>4. (MarkerInv /\ LockInv /\ RecordedBeforeRelease)'
    BY <1>20 DEF Kill, Abandon, Fault, IInv, MarkerInv, LockInv,
       RecordedBeforeRelease, Locked
  <2>5. QED
    BY <2>1, <2>2, <2>3, <2>4 DEF IInv
<1>21. ASSUME NEW c \in Clones, ClearLocalLock(c) PROVE IInv'
  <2>1. TypeOK'
    BY <1>21 DEF ClearLocalLock, IInv, TypeOK
  <2>2. (SubmitterInv /\ MarkerInv /\ LockInv /\ InstallerInv /\ RecordedBeforeRelease)'
    BY <1>21 DEF ClearLocalLock, IInv, SubmitterInv, MarkerInv, LockInv,
       InstallerInv, RecordedBeforeRelease, Locked
  <2>3. QED
    BY <2>1, <2>2 DEF IInv
<1>22. ASSUME NEW i \in Installers, InstallCheck(i) PROVE IInv'
  <2>1. CASE stage[itx[i].job] = "full"
    <3>1. TypeOK' /\ LockInv'
      BY <1>22, <2>1 DEF InstallCheck, IInv, TypeOK, InstallerStates, LockInv,
         Locked
    <3>2. SubmitterInv' /\ InstallerInv'
      BY <1>22, <2>1 DEF InstallCheck, IInv, TypeOK, SubmitterInv, InstallerInv
    <3>3. (MarkerInv /\ RecordedBeforeRelease)'
      BY <1>22, <2>1 DEF InstallCheck, IInv, MarkerInv, RecordedBeforeRelease
    <3>4. QED
      BY <3>1, <3>2, <3>3 DEF IInv
  <2>2. CASE stage[itx[i].job] # "full"
    BY <1>22, <2>2, InstallerEnds DEF InstallCheck, Answer, IInv, TypeOK
  <2>3. QED
    BY <2>1, <2>2
<1>23. ASSUME NEW i \in Installers, InstallLock(i) PROVE IInv'
  <2>1. CASE ~rlock
    <3>1. TypeOK'
      BY <1>23, <2>1 DEF InstallLock, IInv, TypeOK, InstallerStates
    <3>2. LockInv'
      BY <1>23, <2>1 DEF InstallLock, IInv, TypeOK, LockInv, Locked
    <3>3. SubmitterInv' /\ InstallerInv'
      BY <1>23, <2>1 DEF InstallLock, IInv, TypeOK, SubmitterInv, InstallerInv
    <3>4. (MarkerInv /\ RecordedBeforeRelease)'
      BY <1>23, <2>1 DEF InstallLock, IInv, MarkerInv, RecordedBeforeRelease
    <3>5. QED
      BY <3>1, <3>2, <3>3, <3>4 DEF IInv
  <2>2. CASE rlock
    BY <1>23, <2>2, InstallerEnds DEF InstallLock, Answer, IInv, TypeOK
  <2>3. QED
    BY <2>1, <2>2
<1>24. ASSUME NEW i \in Installers, InstallAlready(i) PROVE IInv'
  <2>1. TypeOK'
    BY <1>24 DEF InstallAlready, IInv, TypeOK, SubmitterStates, InstallerStates
  <2>2. LockInv'
    BY <1>24 DEF InstallAlready, IInv, LockInv, Locked, TypeOK
  <2>3. InstallerInv'
    BY <1>24 DEF InstallAlready, IInv, InstallerInv, TypeOK
  <2>4. (SubmitterInv /\ MarkerInv /\ RecordedBeforeRelease)'
    BY <1>24 DEF InstallAlready, IInv, SubmitterInv, MarkerInv,
       RecordedBeforeRelease
  <2>5. QED
    BY <2>1, <2>2, <2>3, <2>4 DEF IInv
<1>25. ASSUME NEW i \in Installers, InstallMatches(i) PROVE IInv'
  <2>1. TypeOK'
    BY <1>25 DEF InstallMatches, IInv, TypeOK, SubmitterStates, InstallerStates
  <2>2. LockInv'
    BY <1>25 DEF InstallMatches, IInv, LockInv, Locked, TypeOK
  <2>3. InstallerInv'
    BY <1>25 DEF InstallMatches, IInv, InstallerInv, TypeOK
  <2>4. (SubmitterInv /\ MarkerInv /\ RecordedBeforeRelease)'
    BY <1>25 DEF InstallMatches, IInv, SubmitterInv, MarkerInv,
       RecordedBeforeRelease
  <2>5. QED
    BY <2>1, <2>2, <2>3, <2>4 DEF IInv
<1>26. ASSUME NEW i \in Installers, InstallConflict(i) PROVE IInv'
  BY <1>26, InstallerEnds DEF InstallConflict, ExitTrapped, Answer, Locked,
     IInv, TypeOK
<1>27. ASSUME NEW i \in Installers, InstallMove(i) PROVE IInv'
  <2>1. CASE stage[itx[i].job] = "full"
    <3>1. /\ remote = itx[i].prev /\ itx[i].next \in Ledger
          /\ remote' = itx[i].next /\ Locked(i)
          /\ RecordedJobs(remote') = RecordedJobs(remote) \cup {itx[i].job}
      BY <1>27, <2>1, WholeExtends DEF InstallMove, IInv, InstallerInv, Locked
    <3>2. TypeOK'
      BY <1>27, <2>1, <3>1 DEF InstallMove, IInv, TypeOK, InstallerStates
    <3>3. SubmitterInv'
      BY <1>27, <2>1, <3>1 DEF InstallMove, IInv, SubmitterInv
    <3>4. LockInv'
      BY <1>27, <2>1 DEF InstallMove, IInv, TypeOK, LockInv, Locked
    <3>5. \A k \in Installers : Locked(k) => k = i
      BY <3>1 DEF IInv, LockInv
    <3>6. InstallerInv'
      BY <1>27, <2>1, <3>1, <3>5 DEF InstallMove, IInv, TypeOK, InstallerInv,
         Locked
    <3>7. (MarkerInv /\ RecordedBeforeRelease)'
      BY <1>27, <2>1, <3>1 DEF InstallMove, IInv, MarkerInv,
         RecordedBeforeRelease
    <3>8. QED
      BY <3>2, <3>3, <3>4, <3>6, <3>7 DEF IInv
  <2>2. CASE stage[itx[i].job] # "full"
    <3>1. ipc[i] = "move" /\ ExitTrapped(i, FALSE) /\ UNCHANGED stage
      BY <1>27, <2>2 DEF InstallMove
    <3>2. QED
      BY <3>1, InstallerEnds DEF ExitTrapped, Answer, Locked, IInv, TypeOK
  <2>3. QED
    BY <2>1, <2>2
<1>28. ASSUME NEW i \in Installers, InstallVerify(i) PROVE IInv'
  <2>1. Whole(itx[i]) /\ remote = itx[i].next
    BY <1>28 DEF InstallVerify, IInv, InstallerInv
  <2>2. itx[i].job \in RecordedJobs(remote)
    BY <2>1, WholeExtends
  <2>3. QED
    BY <1>28, <2>2, InstallerEnds
    DEF InstallVerify, ExitTrapped, Answer, Locked, IInv, TypeOK
<1>29. ASSUME NEW i \in Installers, KillInstaller(i) PROVE IInv'
  <2>1. pc' = [c \in Clones |->
                  IF iowner[i] = c THEN (IF FALSE THEN "localcheck" ELSE "failed")
                                   ELSE pc[c]]
    BY <1>29 DEF KillInstaller
  <2>2. faults' \in Nat
    BY <1>29 DEF KillInstaller, Fault, IInv, TypeOK
  <2>3. /\ ipc' = [ipc EXCEPT ![i] = "idle"] /\ itx' = [itx EXCEPT ![i] = NoTx]
        /\ iowner' = [iowner EXCEPT ![i] = NoClone]
        /\ UNCHANGED <<localVars, tx, remote, stage, array>> /\ rlock' = rlock
    BY <1>29 DEF KillInstaller
  <2>4. QED
    BY <2>1, <2>2, <2>3, InstallerEnds
<1>30. ASSUME NEW i \in Installers, SignalInstaller(i) PROVE IInv'
  BY <1>30 DEF SignalInstaller, Fault
<1>31. ASSUME ClearRemoteLock PROVE IInv'
  <2>1. TypeOK'
    BY <1>31 DEF ClearRemoteLock, IInv, TypeOK
  <2>2. LockInv'
    BY <1>31 DEF ClearRemoteLock, IInv, LockInv, Locked, TypeOK
  <2>3. (SubmitterInv /\ MarkerInv /\ InstallerInv /\ RecordedBeforeRelease)'
    BY <1>31 DEF ClearRemoteLock, IInv, SubmitterInv, MarkerInv, InstallerInv,
       RecordedBeforeRelease
  <2>4. QED
    BY <2>1, <2>2, <2>3 DEF IInv
<1>32. CASE UNCHANGED vars
  BY <1>32 DEF vars, IInv, TypeOK, SubmitterInv, MarkerInv, LockInv,
     InstallerInv,
                  RecordedBeforeRelease, Locked
<1> QED
  BY <1>1, <1>2, <1>3, <1>4, <1>5, <1>6, <1>7, <1>8, <1>9, <1>10, <1>11,
     <1>12, <1>13, <1>14, <1>15, <1>16, <1>17, <1>18, <1>19, <1>20, <1>21,
     <1>22, <1>23, <1>24, <1>25, <1>26, <1>27, <1>28, <1>29, <1>30, <1>31,
     <1>32 DEF Next, Submitter, Installer

-------------------------------------------------------------------------------
(* The state before any submission satisfies the invariant. *)
LEMMA InitStep ==
  ASSUME Init
  PROVE  IInv
<1> USE NullAssumption DEF Init
<1>1. TypeOK
  BY EmptyLedger DEF TypeOK, SubmitterStates, InstallerStates
<1>2. SubmitterInv /\ LockInv /\ InstallerInv
  BY DEF SubmitterInv, HasTx, LockInv, Locked, InstallerInv
<1>3. MarkerInv /\ RecordedBeforeRelease
  BY DEF MarkerInv, RecordedBeforeRelease
<1>4. QED
  BY <1>1, <1>2, <1>3 DEF IInv

(* The invariant holds of every behaviour without signals. *)
LEMMA Invariance ==
  ASSUME "signal" \notin Faults
  PROVE  Spec => []IInv
<1>1. Init => IInv
  BY InitStep
<1>2. IInv /\ [Next]_vars => IInv'
  BY InductiveStep
<1>3. QED
  BY <1>1, <1>2, PTL DEF Spec

(***************************************************************************)
(* Every store and process of the submission transaction keeps its type,   *)
(* whatever is killed or aborted on the way.                               *)
(***************************************************************************)
THEOREM TypeCorrect ==
  ASSUME "signal" \notin Faults
  PROVE  Spec => []TypeOK
<1>1. IInv => TypeOK
  BY DEF IInv
<1>2. QED
  BY <1>1, Invariance, PTL

(***************************************************************************)
(* No array is released before the authoritative ledger on the cluster     *)
(* records it, for every number of clones, attempts, installers, aborts    *)
(* and kills: the order install, verify, release of the submitter.         *)
(***************************************************************************)
THEOREM RecordedBeforeReleaseHolds ==
  ASSUME "signal" \notin Faults
  PROVE  Spec => []RecordedBeforeRelease
<1>1. IInv => RecordedBeforeRelease
  BY DEF IInv
<1>2. QED
  BY <1>1, Invariance, PTL

(* Only the mv of an install program that compared equal changes the       *)
(* authoritative ledger.                                                   *)
LEMMA RemoteStep ==
  ASSUME "signal" \notin Faults, IInv, [Next]_vars
  PROVE  \/ remote' = remote
         \/ \E i \in Installers :
              /\ InstallMove(i) /\ ipc[i] = "move" /\ Whole(itx[i])
              /\ remote = itx[i].prev /\ remote' = itx[i].next
<1> USE DEF remoteVars
<1>1. ASSUME NEW i \in Installers, InstallMove(i)
      PROVE  \/ remote' = remote
             \/ /\ ipc[i] = "move" /\ Whole(itx[i])
                /\ remote = itx[i].prev /\ remote' = itx[i].next
  BY <1>1 DEF InstallMove, ExitTrapped, Answer, IInv, InstallerInv
<1>2. ASSUME NEW i \in Installers, Installer(i), ~InstallMove(i)
      PROVE  remote' = remote
  BY <1>2 DEF Installer, InstallCheck, InstallLock, InstallAlready, InstallMatches,
     InstallConflict, InstallVerify, ExitTrapped, Answer
<1>3. ASSUME NEW c \in Clones, Submitter(c) PROVE remote' = remote
  BY <1>3 DEF Submitter, Preflight, HoldArray, VerifyHeld, WriteProposal,
     CreateMarker, FillMarker, ReplaceLocal, ReuseStage, StartUpload, FinishUpload,
     StartInstall, LocalCheck, ReleaseArray, RemoveMarker, Finish, Exit
<1>4. ASSUME NEW c \in Clones, NEW a \in Attempts, Begin(c, a) PROVE remote' = remote
  BY <1>4 DEF Begin
<1>5. ASSUME NEW c \in Clones, Resume(c) \/ Abort(c) \/ Kill(c) \/ ClearLocalLock(c)
      PROVE  remote' = remote
  BY <1>5 DEF Resume, Abort, Kill, Abandon, ClearLocalLock
<1>6. ASSUME NEW i \in Installers, KillInstaller(i) \/ SignalInstaller(i)
      PROVE  remote' = remote
  BY <1>6 DEF KillInstaller, SignalInstaller
<1>7. CASE ClearRemoteLock \/ UNCHANGED vars
  BY <1>7 DEF ClearRemoteLock, vars
<1>8. QED
  BY <1>1, <1>2, <1>3, <1>4, <1>5, <1>6, <1>7 DEF Next, Installer

(***************************************************************************)
(* The compare-and-set of the install program only ever appends a row to   *)
(* the authoritative ledger.                                               *)
(***************************************************************************)
THEOREM RemoteAppendOnlyHolds ==
  ASSUME "signal" \notin Faults
  PROVE  Spec => RemoteAppendOnly
<1> DEFINE Appends == /\ Len(remote') = Len(remote) + 1
                      /\ \A n \in DOMAIN remote : remote'[n] = remote[n]
<1>1. ASSUME IInv, [Next]_vars PROVE [Appends]_remote
  BY <1>1, RemoteStep, WholeExtends
<1>2. QED
  BY <1>1, Invariance, PTL DEF Spec, RemoteAppendOnly

-------------------------------------------------------------------------------
(* What the two ledgers hold, that a pending marker can be taken up again, *)
(* and that the transaction implements SubmissionLedger.                   *)

Prefix(l, m) == Len(l) <= Len(m) /\ \A n \in DOMAIN l : l[n] = m[n]

(* A submission that has no array, or no ledger to propose, yet. *)
Building(c) == pc[c] \in {"hold", "propose", "mark"} \/ (pc[c] = "preflight" /\ tx[c].job = NoJob)

(* One whose marker is whole, and whose local ledger is the proposed one. *)
Replaced(c) ==
  \/ pc[c] \in {"verify", "upload", "uploading", "install", "await", "localcheck",
                "release", "clean"}
  \/ pc[c] = "preflight" /\ tx[c].job # NoJob

(* The files of a checkout and its submitter: the order of the writes. *)
CloneInv(c) ==
  /\ marker[c] \notin {NoTx, TornTx} =>
       marker[c].next \in proposed[c] /\ local[c] \in {marker[c].prev, marker[c].next}
  /\ Building(c) \/ pc[c] = "finish" => marker[c] = NoTx
  /\ pc[c] = "fill" => marker[c] = TornTx
  /\ pc[c] \in {"mark", "fill", "replace"} =>
       tx[c].prev = local[c] /\ tx[c].next \in proposed[c]
  /\ Replaced(c) \/ pc[c] = "replace" => marker[c] = tx[c]
  /\ Replaced(c) => local[c] = tx[c].next

(* A ledger that names no attempt and no array twice, and only arrays that *)
(* Slurm has allocated.                                                    *)
Clean(l) ==
  /\ \A m, n \in DOMAIN l : l[m].attempt = l[n].attempt \/ l[m].job = l[n].job => m = n
  /\ \A j \in RecordedJobs(l) : array[j] # "none"

(* A transaction whose rows are new to the ledger it extends. *)
New(t) ==
  /\ Clean(t.prev)
  /\ t.attempt \notin RecordedAttempts(t.prev)
  /\ t.job \notin RecordedJobs(t.prev)
  /\ array[t.job] # "none"

CloneNew(c) ==
  /\ Clean(local[c])
  /\ marker[c] \notin {NoTx, TornTx} => New(marker[c])
  /\ pc[c] \in {"preflight", "hold", "propose"} =>
       tx[c].attempt \notin RecordedAttempts(tx[c].prev)
  /\ pc[c] = "propose" \/ pc[c] \in HasTx => New(tx[c])

NewInv ==
  /\ Clean(remote)
  /\ \A c \in Clones : CloneNew(c)
  /\ \A i \in Installers : ipc[i] # "idle" => New(itx[i])

(* What was installed, and what nothing is pending for, is in the remote   *)
(* ledger.                                                                 *)
InstalledInv ==
  \A c \in Clones :
    /\ marker[c] = NoTx => Prefix(local[c], remote)
    /\ pc[c] \in {"localcheck", "release", "clean"} => Prefix(tx[c].next, remote)

LInv == IInv /\ (\A c \in Clones : CloneInv(c)) /\ NewInv /\ InstalledInv

-------------------------------------------------------------------------------
(* Nothing is recorded and no array is allocated at first. *)
LEMMA LedgerInit ==
  ASSUME Init
  PROVE  LInv
<1>1. IInv
  BY InitStep
<1>2. \A c \in Clones : CloneInv(c)
  BY NullAssumption DEF Init, CloneInv, Building, Replaced
<1>3. Clean(<< >>)
  BY DEF Clean, RecordedJobs, Recorded
<1>4. NewInv
  BY <1>3 DEF Init, NewInv, CloneNew, HasTx
<1>5. InstalledInv
  <2>1. Prefix(<< >>, << >>)
    BY EmptyLedger DEF Prefix, Ledger
  <2>2. QED
    BY <2>1 DEF Init, InstalledInv
<1>6. QED
  BY <1>1, <1>2, <1>4, <1>5 DEF LInv

(* The submitter writes its files in an order that any crash leaves whole. *)
LEMMA CloneStep ==
  ASSUME LInv, "signal" \notin Faults, [Next]_vars, NEW d \in Clones
  PROVE  CloneInv(d)'
<1> USE DEF Goto, CloneInv, Building, Replaced
<1>0. TypeOK /\ CloneInv(d)
  BY DEF LInv, IInv
<1>1. ASSUME NEW c \in Clones, NEW a \in Attempts, Begin(c, a)
      PROVE  CloneInv(d)'
  BY <1>0, <1>1, NullAssumption DEF TypeOK, Begin
<1>2. ASSUME NEW c \in Clones, Resume(c)
      PROVE  CloneInv(d)'
  <2>1. marker[c] \in Tx /\ marker[c].job # NoJob
    BY <1>0, <1>2, NullAssumption DEF TypeOK, Resume, Tx
  <2>2. CASE c = d
    BY <1>0, <1>2, <2>1, <2>2 DEF TypeOK, Resume
  <2>3. CASE c # d
    BY <1>0, <1>2, <2>3 DEF TypeOK, Resume
  <2>4. QED
    BY <2>2, <2>3
<1>3. ASSUME NEW c \in Clones, Preflight(c) \/ VerifyHeld(c) \/ ReuseStage(c) \/ StartUpload(c)
                               \/ FinishUpload(c) \/ StartInstall(c) \/ LocalCheck(c) \/ ReleaseArray(c)
      PROVE  CloneInv(d)'
  BY <1>0, <1>3 DEF TypeOK, Preflight, VerifyHeld, ReuseStage, StartUpload, FinishUpload,
     StartInstall, LocalCheck, ReleaseArray, localVars
<1>4. ASSUME NEW c \in Clones, HoldArray(c)
      PROVE  CloneInv(d)'
  BY <1>0, <1>4 DEF TypeOK, HoldArray, localVars
<1>5. ASSUME NEW c \in Clones, WriteProposal(c)
      PROVE  CloneInv(d)'
  BY <1>0, <1>5 DEF TypeOK, WriteProposal, LInv, IInv, SubmitterInv
<1>6. ASSUME NEW c \in Clones, CreateMarker(c) \/ FillMarker(c) \/ ReplaceLocal(c)
      PROVE  CloneInv(d)'
  BY <1>0, <1>6 DEF TypeOK, CreateMarker, FillMarker, ReplaceLocal
<1>7. ASSUME NEW c \in Clones, RemoveMarker(c) \/ Finish(c) \/ Exit(c)
      PROVE  CloneInv(d)'
  BY <1>0, <1>7 DEF TypeOK, RemoveMarker, Finish, Exit
<1>8. ASSUME NEW c \in Clones, Abort(c) \/ Kill(c) \/ ClearLocalLock(c)
      PROVE  CloneInv(d)'
  BY <1>0, <1>8 DEF TypeOK, Abort, Kill, Abandon, ClearLocalLock, subVars
<1>9. ASSUME NEW i \in Installers, Installer(i) \/ KillInstaller(i)
      PROVE  CloneInv(d)'
  <2>1. UNCHANGED localVars /\ tx' = tx
    BY <1>9 DEF Installer, InstallCheck, InstallLock, InstallAlready, InstallMatches,
       InstallConflict, InstallMove, InstallVerify, ExitTrapped, Answer, KillInstaller, subVars
  <2>2. pc'[d] = pc[d] \/ pc'[d] = "failed" \/ (pc'[d] = "localcheck" /\ iowner[i] = d)
    BY <1>9 DEF Installer, InstallCheck, InstallLock, InstallAlready, InstallMatches,
       InstallConflict, InstallMove, InstallVerify, ExitTrapped, Answer, KillInstaller, subVars
  <2>3. iowner[i] = d => pc[d] = "await"
    BY DEF LInv, IInv, InstallerInv
  <2>4. QED
    BY <1>0, <2>1, <2>2, <2>3 DEF localVars
<1>10. ASSUME NEW i \in Installers, SignalInstaller(i)
       PROVE  CloneInv(d)'
  BY <1>10 DEF SignalInstaller, Fault
<1>11. CASE ClearRemoteLock \/ UNCHANGED vars
  BY <1>0, <1>11 DEF ClearRemoteLock, vars, localVars, subVars
<1>12. QED
  BY <1>1, <1>2, <1>3, <1>4, <1>5, <1>6, <1>7, <1>8, <1>9, <1>10, <1>11 DEF Next, Submitter

-------------------------------------------------------------------------------
(* The rows of a whole transaction. *)
LEMMA NextRows ==
  ASSUME NEW t, Whole(t)
  PROVE  /\ t.next \in Ledger /\ t.prev \in Ledger
         /\ DOMAIN t.prev = 1..Len(t.prev) /\ Len(t.prev) \in Nat
         /\ DOMAIN t.next = 1..(Len(t.prev) + 1)
         /\ \A n \in 1..Len(t.prev) : t.next[n] = t.prev[n]
         /\ t.next[Len(t.prev) + 1] = [attempt |-> t.attempt, job |-> t.job]
BY DEF Whole, Tx, RowOf, Row, Ledger

(* The ledger a new transaction proposes is clean. *)
LEMMA NextIsClean ==
  ASSUME NEW t, Whole(t), New(t)
  PROVE  Clean(t.next)
<1> PICK k : k = Len(t.prev) + 1
  OBVIOUS
<1>0. /\ k \notin DOMAIN t.prev /\ DOMAIN t.next = DOMAIN t.prev \cup {k}
      /\ \A n \in DOMAIN t.prev : t.next[n] = t.prev[n]
      /\ t.next[k].attempt = t.attempt /\ t.next[k].job = t.job
  <2>1. 1..k = 1..Len(t.prev) \cup {k} /\ k \notin 1..Len(t.prev)
    BY NextRows
  <2>2. /\ DOMAIN t.prev = 1..Len(t.prev) /\ DOMAIN t.next = 1..k
        /\ \A n \in 1..Len(t.prev) : t.next[n] = t.prev[n]
        /\ t.next[k] = [attempt |-> t.attempt, job |-> t.job]
    BY NextRows
  <2>3. QED
    BY <2>1, <2>2
<1>1. \A n \in DOMAIN t.prev : t.prev[n].attempt # t.attempt /\ t.prev[n].job # t.job
  BY DEF New, RecordedAttempts, RecordedJobs, Recorded
<1>2. ASSUME NEW m \in DOMAIN t.next, NEW n \in DOMAIN t.next,
             t.next[m].attempt = t.next[n].attempt \/ t.next[m].job = t.next[n].job
      PROVE  m = n
  <2>1. CASE m \in DOMAIN t.prev /\ n \in DOMAIN t.prev
    BY <1>0, <1>2, <2>1 DEF New, Clean
  <2>2. CASE m = k \/ n = k
    BY <1>0, <1>1, <1>2, <2>2
  <2>3. QED
    BY <1>0, <2>1, <2>2
<1>3. \A j \in RecordedJobs(t.next) : array[j] # "none"
  BY WholeExtends DEF New, Clean
<1>4. QED
  BY <1>2, <1>3 DEF Clean

(* An array, once allocated, is never forgotten by Slurm. *)
LEMMA KnownStays ==
  ASSUME LInv, [Next]_vars, NEW j \in Jobs, array[j] # "none"
  PROVE  array'[j] # "none"
<1> USE DEF LInv, IInv, TypeOK
<1>1. ASSUME NEW c \in Clones, Submitter(c)
      PROVE  array'[j] # "none"
  BY <1>1 DEF Submitter, Preflight, HoldArray, VerifyHeld, WriteProposal,
     CreateMarker, FillMarker, ReplaceLocal, ReuseStage, StartUpload, FinishUpload,
     StartInstall, LocalCheck, ReleaseArray, RemoveMarker, Finish, Exit
<1>2. ASSUME NEW c \in Clones,
             (\E a \in Attempts : Begin(c, a)) \/ Resume(c) \/ Abort(c) \/ Kill(c) \/ ClearLocalLock(c)
      PROVE  array'[j] # "none"
  BY <1>2 DEF Begin, Resume, Abort, Kill, Abandon, ClearLocalLock
<1>3. ASSUME NEW i \in Installers, Installer(i) \/ KillInstaller(i) \/ SignalInstaller(i)
      PROVE  array'[j] # "none"
  BY <1>3 DEF Installer, InstallCheck, InstallLock, InstallAlready, InstallMatches, InstallMove,
     InstallConflict, InstallVerify, ExitTrapped, Answer, KillInstaller, SignalInstaller
<1>4. CASE ClearRemoteLock \/ UNCHANGED vars
  BY <1>4 DEF ClearRemoteLock, vars
<1>5. QED
  BY <1>1, <1>2, <1>3, <1>4 DEF Next

(* A ledger without duplicates stays one when more jobs are known. *)
LEMMA CleanStays ==
  ASSUME LInv, [Next]_vars, NEW l \in Ledger, Clean(l)
  PROVE  Clean(l)'
<1>1. RecordedJobs(l) \subseteq Jobs
  <2>1. \A n \in DOMAIN l : l[n] \in Row
    BY DEF Ledger
  <2>2. QED
    BY <2>1 DEF RecordedJobs, Recorded, Row
<1>2. QED
  BY <1>1, KnownStays DEF Clean

(* A transaction whose rows are new stays new while its ledger is there. *)
LEMMA NewStays ==
  ASSUME LInv, [Next]_vars, NEW t, t.prev \in Ledger, t.job \in Jobs, New(t)
  PROVE  New(t)'
BY CleanStays, KnownStays DEF New

-------------------------------------------------------------------------------
(* A step that leaves the ledger and the transaction of a checkout alone,  *)
(* or ends its submitter.                                                  *)
Calm(c) ==
  /\ local'[c] = local[c]
  /\ marker'[c] \in {marker[c], TornTx} \/ RemoveMarker(c)
  /\ \/ pc'[c] \in {"idle", "failed"}
     \/ tx'[c] = tx[c] /\ pc'[c] = pc[c]
     \/ tx'[c] = tx[c] /\ pc[c] \in HasTx /\ pc'[c] \in HasTx

(* A step leaves a clone that is not in its transaction as it found it. *)
LEMMA CalmStep ==
  ASSUME LInv, [Next]_vars, NEW c \in Clones, Calm(c)
  PROVE  CloneNew(c)'
<1>0. TypeOK /\ CloneNew(c) /\ SubmitterInv /\ MarkerInv
  BY DEF LInv, IInv, NewInv
<1>1. Clean(local[c])'
  BY <1>0, CleanStays DEF Calm, TypeOK, CloneNew
<1>2. marker'[c] \notin {NoTx, TornTx} => New(marker[c])'
  BY <1>0, NewStays, WholeExtends DEF Calm, CloneNew, MarkerInv, RemoveMarker, TypeOK
<1>3. pc'[c] \in {"preflight", "hold", "propose"} =>
        tx'[c].attempt \notin RecordedAttempts(tx'[c].prev)
  BY <1>0 DEF Calm, CloneNew, HasTx
<1>4. pc'[c] = "propose" \/ pc'[c] \in HasTx => New(tx[c])'
  <2> SUFFICES ASSUME pc'[c] = "propose" \/ pc'[c] \in HasTx PROVE New(tx[c])'
    OBVIOUS
  <2>1. tx'[c] = tx[c] /\ (pc[c] = "propose" \/ pc[c] \in HasTx)
    BY DEF Calm, HasTx
  <2>2. New(tx[c]) /\ tx[c].prev \in Ledger /\ tx[c].job \in Jobs
    BY <1>0, <2>1, WholeExtends DEF CloneNew, SubmitterInv, DraftTx
  <2>3. QED
    BY <2>1, <2>2, NewStays
<1>5. QED
  BY <1>1, <1>2, <1>3, <1>4 DEF CloneNew

(* Most steps are calm for a checkout. *)
LEMMA MostAreCalm ==
  ASSUME LInv, "signal" \notin Faults, [Next]_vars, NEW d \in Clones
  PROVE  \/ Calm(d)
         \/ \E a \in Attempts : Begin(d, a)
         \/ Resume(d) \/ Preflight(d) \/ HoldArray(d) \/ WriteProposal(d)
         \/ FillMarker(d) \/ ReplaceLocal(d)
<1> USE DEF Goto, Calm, HasTx
<1>0. TypeOK
  BY DEF LInv, IInv
<1>1. ASSUME NEW c \in Clones \ {d}, \E a \in Attempts : Begin(c, a)
      PROVE  Calm(d)
  BY <1>0, <1>1 DEF TypeOK, Begin
<1>2. ASSUME NEW c \in Clones \ {d},
             Resume(c) \/ Preflight(c) \/ HoldArray(c) \/ WriteProposal(c) \/ FillMarker(c) \/ ReplaceLocal(c)
      PROVE  Calm(d)
  BY <1>0, <1>2 DEF TypeOK, Resume, Preflight, HoldArray, WriteProposal, FillMarker, ReplaceLocal, localVars
<1>3. ASSUME NEW c \in Clones,
             VerifyHeld(c) \/ ReuseStage(c) \/ StartUpload(c) \/ FinishUpload(c) \/ StartInstall(c)
               \/ LocalCheck(c) \/ ReleaseArray(c)
      PROVE  Calm(d)
  BY <1>0, <1>3 DEF TypeOK, VerifyHeld, ReuseStage, StartUpload, FinishUpload, StartInstall,
     LocalCheck, ReleaseArray, localVars
<1>4. ASSUME NEW c \in Clones,
             CreateMarker(c) \/ RemoveMarker(c) \/ Finish(c) \/ Exit(c) \/ Abort(c) \/ Kill(c)
               \/ ClearLocalLock(c)
      PROVE  Calm(d)
  BY <1>0, <1>4 DEF TypeOK, CreateMarker, RemoveMarker, Finish, Exit, Abort, Kill, Abandon,
     ClearLocalLock, subVars
<1>5. ASSUME NEW i \in Installers, Installer(i) \/ KillInstaller(i)
      PROVE  Calm(d)
  <2>1. UNCHANGED localVars /\ tx' = tx
    BY <1>5 DEF Installer, InstallCheck, InstallLock, InstallAlready, InstallMatches,
       InstallConflict, InstallMove, InstallVerify, ExitTrapped, Answer, KillInstaller, subVars
  <2>2. pc'[d] = pc[d] \/ pc'[d] = "failed" \/ (pc'[d] = "localcheck" /\ iowner[i] = d)
    BY <1>5 DEF Installer, InstallCheck, InstallLock, InstallAlready, InstallMatches,
       InstallConflict, InstallMove, InstallVerify, ExitTrapped, Answer, KillInstaller, subVars
  <2>3. iowner[i] = d => pc[d] = "await"
    BY DEF LInv, IInv, InstallerInv
  <2>4. QED
    BY <2>1, <2>2, <2>3 DEF localVars
<1>6. ASSUME NEW i \in Installers, SignalInstaller(i)
      PROVE  FALSE
  BY <1>6 DEF SignalInstaller, Fault
<1>7. CASE ClearRemoteLock \/ UNCHANGED vars
  BY <1>7 DEF ClearRemoteLock, vars, subVars, localVars
<1>8. QED
  BY <1>1, <1>2, <1>3, <1>4, <1>5, <1>6, <1>7 DEF Next, Submitter

(* Ledgers and transactions stay free of repetitions. *)
LEMMA NewStep ==
  ASSUME LInv, "signal" \notin Faults, [Next]_vars
  PROVE  NewInv'
<1>0. TypeOK /\ NewInv /\ SubmitterInv /\ MarkerInv /\ InstallerInv /\ \A c \in Clones : CloneInv(c)
  BY DEF LInv, IInv
<1>1. \A l \in Ledger : Clean(l) => Clean(l)'
  BY CleanStays
<1>2. ASSUME NEW t, Whole(t), New(t)
      PROVE  New(t)' /\ Clean(t.next)'
  BY <1>2, NewStays, NextIsClean, CleanStays, WholeExtends
<1>3. Clean(remote)'
  <2>1. CASE remote' = remote
    BY <1>0, <1>1, <2>1 DEF NewInv, TypeOK
  <2>2. ASSUME NEW i \in Installers, ipc[i] = "move", Whole(itx[i]), remote' = itx[i].next
        PROVE  Clean(remote)'
    BY <1>0, <1>2, <2>2 DEF NewInv
  <2>3. QED
    BY <2>1, <2>2, RemoteStep DEF LInv
<1>4. ASSUME NEW d \in Clones
      PROVE  CloneNew(d)'
  <2> USE DEF Goto
  <2>0. CloneNew(d) /\ CloneInv(d)
    BY <1>0 DEF NewInv
  <2>1. ASSUME NEW a \in Attempts, Begin(d, a)
        PROVE  CloneNew(d)'
    <3>1. Clean(local[d])'
      BY <1>0, <1>1, <2>0, <2>1 DEF CloneNew, Begin, TypeOK
    <3>2. pc'[d] = "preflight" /\ tx'[d].attempt = a /\ tx'[d].prev = local[d]
          /\ marker'[d] = NoTx
      BY <1>0, <2>1 DEF Begin, TypeOK
    <3>3. a \notin RecordedAttempts(local[d])
      BY <2>1 DEF Begin
    <3>4. QED
      BY <3>1, <3>2, <3>3 DEF CloneNew, HasTx
  <2>2. ASSUME Resume(d)
        PROVE  CloneNew(d)'
    <3>1. Whole(marker[d]) /\ New(marker[d])
      BY <1>0, <2>0, <2>2 DEF Resume, CloneNew, MarkerInv
    <3>2. pc'[d] = "preflight" /\ tx'[d] = marker[d] /\ local'[d] = marker[d].next /\ marker' = marker
      BY <1>0, <2>2 DEF Resume, TypeOK
    <3>3. New(marker[d])' /\ Clean(local[d])'
      BY <1>2, <3>1, <3>2
    <3>4. QED
      BY <3>1, <3>2, <3>3 DEF CloneNew, New, HasTx
  <2>3. ASSUME Preflight(d)
        PROVE  CloneNew(d)'
    <3>1. local' = local /\ marker' = marker /\ tx' = tx
          /\ pc'[d] = IF tx[d].job = NoJob THEN "hold" ELSE "verify"
      BY <1>0, <2>3 DEF Preflight, TypeOK, localVars
    <3>2. CASE tx[d].job = NoJob
      <4>1. marker[d] = NoTx
        BY <2>0, <2>3, <3>2 DEF Preflight, CloneInv, Building
      <4>2. QED
        BY <1>0, <1>1, <2>0, <2>3, <3>1, <3>2, <4>1 DEF Preflight, CloneNew, TypeOK, HasTx
    <3>3. CASE tx[d].job # NoJob
      <4>1. marker[d] = tx[d] /\ Whole(tx[d])
        BY <1>0, <2>0, <2>3, <3>3 DEF Preflight, CloneInv, Replaced, SubmitterInv
      <4>2. New(tx[d])
        BY <2>0, <4>1, TxAssumption DEF CloneNew, Whole
      <4>3. New(tx[d])'
        BY <1>2, <3>1, <4>1, <4>2
      <4>4. QED
        BY <1>0, <1>1, <2>0, <3>1, <3>3, <4>1, <4>3 DEF CloneNew, TypeOK, HasTx
    <3>4. QED
      BY <3>2, <3>3
  <2>4. ASSUME HoldArray(d)
        PROVE  CloneNew(d)'
    <3>1. PICK j \in Jobs : array[j] = "none" /\ array' = [array EXCEPT ![j] = "held"]
                          /\ tx' = [tx EXCEPT ![d].job = j]
      BY <2>4 DEF HoldArray
    <3>2. tx[d] \in DraftTx /\ tx[d].prev = local[d]
      BY <1>0, <2>4 DEF HoldArray, SubmitterInv
    <3>3. /\ tx'[d].attempt = tx[d].attempt /\ tx'[d].prev = local[d] /\ tx'[d].job = j
          /\ local' = local /\ pc'[d] = "propose" /\ marker'[d] = NoTx
      BY <1>0, <2>0, <2>4, <3>1, <3>2 DEF HoldArray, TypeOK, DraftTx, localVars, CloneInv, Building
    <3>4. j \notin RecordedJobs(local[d]) /\ tx[d].attempt \notin RecordedAttempts(local[d])
      BY <2>0, <2>4, <3>1, <3>2 DEF HoldArray, CloneNew, Clean
    <3>5. Clean(local[d])' /\ array'[j] # "none"
      BY <1>0, <1>1, <2>0, <3>1, <3>3 DEF CloneNew, TypeOK
    <3>6. QED
      BY <3>3, <3>4, <3>5 DEF CloneNew, New, HasTx
  <2>5. ASSUME WriteProposal(d)
        PROVE  CloneNew(d)'
    <3>1. New(tx[d]) /\ tx[d] \in DraftTx /\ tx[d].job \in Jobs
      BY <1>0, <2>0, <2>5 DEF WriteProposal, CloneNew, SubmitterInv
    <3>2. New(tx[d])'
      <4>1. \A t : New(t) /\ t.prev \in Ledger /\ t.job \in Jobs => New(t)'
        BY NewStays
      <4>2. PICK t : t = tx[d]
        OBVIOUS
      <4>3. New(t)'
        BY <3>1, <4>1, <4>2 DEF DraftTx
      <4>4. /\ tx'[d].attempt = t.attempt /\ tx'[d].prev = t.prev /\ tx'[d].job = t.job
        BY <1>0, <2>5, <3>1, <4>2 DEF WriteProposal, TypeOK, DraftTx
      <4>5. QED
        BY <4>3, <4>4 DEF New
    <3>3. /\ local' = local /\ pc'[d] = "mark" /\ marker'[d] = NoTx
      BY <1>0, <2>0, <2>5 DEF WriteProposal, TypeOK, CloneInv, Building
    <3>4. Clean(local[d])'
      BY <1>0, <1>1, <2>0, <3>3 DEF CloneNew, TypeOK
    <3>5. QED
      BY <3>2, <3>3, <3>4 DEF CloneNew
  <2>6. ASSUME FillMarker(d)
        PROVE  CloneNew(d)'
    <3>1. Whole(tx[d]) /\ New(tx[d])
      BY <1>0, <2>0, <2>6 DEF FillMarker, CloneNew, SubmitterInv, HasTx
    <3>2. New(tx[d])' /\ tx' = tx /\ marker'[d] = tx[d] /\ local' = local /\ pc'[d] = "replace"
      BY <1>0, <1>2, <2>6, <3>1 DEF FillMarker, TypeOK
    <3>3. Clean(local[d])'
      BY <1>0, <1>1, <2>0, <3>2 DEF CloneNew, TypeOK
    <3>4. QED
      BY <3>2, <3>3 DEF CloneNew
  <2>7. ASSUME ReplaceLocal(d)
        PROVE  CloneNew(d)'
    <3>1. Whole(tx[d]) /\ New(tx[d]) /\ marker[d] = tx[d]
      BY <1>0, <2>0, <2>7 DEF ReplaceLocal, CloneNew, SubmitterInv, HasTx, CloneInv
    <3>2. /\ tx' = tx /\ marker' = marker /\ local'[d] = tx[d].next /\ pc'[d] = "upload"
      BY <1>0, <2>7 DEF ReplaceLocal, TypeOK
    <3>3. New(tx[d])' /\ Clean(local[d])'
      BY <1>2, <3>1, <3>2
    <3>4. QED
      BY <3>1, <3>2, <3>3 DEF CloneNew
  <2>8. QED
    BY <2>1, <2>2, <2>3, <2>4, <2>5, <2>6, <2>7, CalmStep, MostAreCalm
<1>5. ASSUME NEW i \in Installers, ipc'[i] # "idle"
      PROVE  New(itx[i])'
  <2>1. \/ itx'[i] = itx[i] /\ ipc[i] # "idle"
        \/ \E c \in Clones : StartInstall(c) /\ itx'[i] = tx[c]
    <3>1. ASSUME NEW c \in Clones, Submitter(c), ~StartInstall(c)
          PROVE  UNCHANGED instVars
      BY <3>1 DEF Submitter, Preflight, HoldArray, VerifyHeld, WriteProposal,
         CreateMarker, FillMarker, ReplaceLocal, ReuseStage, StartUpload, FinishUpload,
         LocalCheck, ReleaseArray, RemoveMarker, Finish, Exit
    <3>2. ASSUME NEW c \in Clones, StartInstall(c)
          PROVE  (itx'[i] = itx[i] /\ ipc[i] # "idle") \/ itx'[i] = tx[c]
      BY <1>0, <1>5, <3>2 DEF StartInstall, TypeOK
    <3>3. ASSUME NEW c \in Clones,
                 (\E a \in Attempts : Begin(c, a)) \/ Resume(c) \/ Abort(c) \/ Kill(c) \/ ClearLocalLock(c)
          PROVE  UNCHANGED <<ipc, itx>>
      BY <3>3 DEF Begin, Resume, Abort, Kill, Abandon, ClearLocalLock, instVars
    <3>4. ASSUME NEW k \in Installers, Installer(k) \/ KillInstaller(k)
          PROVE  itx'[i] = itx[i] /\ ipc[i] # "idle"
      BY <1>0, <1>5, <3>4 DEF TypeOK, Installer, InstallCheck, InstallLock, InstallAlready,
         InstallMatches, InstallMove, InstallConflict, InstallVerify, ExitTrapped, Answer,
         KillInstaller
    <3>5. ASSUME NEW k \in Installers, SignalInstaller(k)
          PROVE  FALSE
      BY <3>5 DEF SignalInstaller, Fault
    <3>6. CASE ClearRemoteLock \/ UNCHANGED vars
      BY <1>5, <3>6 DEF ClearRemoteLock, vars, instVars
    <3>7. QED
      BY <1>5, <3>1, <3>2, <3>3, <3>4, <3>5, <3>6 DEF Next, instVars, Submitter
  <2>2. CASE itx'[i] = itx[i] /\ ipc[i] # "idle"
    BY <1>0, <1>2, <2>2 DEF NewInv, InstallerInv
  <2>3. ASSUME NEW c \in Clones, StartInstall(c), itx'[i] = tx[c]
        PROVE  New(itx[i])'
    BY <1>0, <1>2, <2>3 DEF StartInstall, Goto, NewInv, CloneNew, SubmitterInv, HasTx
  <2>4. QED
    BY <2>1, <2>2, <2>3
<1>6. QED
  BY <1>3, <1>4, <1>5 DEF NewInv

-------------------------------------------------------------------------------

(* Prefix is reflexive and transitive, and a whole proposal extends its base. *)
LEMMA PrefixProperties ==
  /\ \A l \in Ledger : Prefix(l, l)
  /\ \A l, m, n \in Ledger : Prefix(l, m) /\ Prefix(m, n) => Prefix(l, n)
  /\ \A t : Whole(t) => Prefix(t.prev, t.next)
<1>1. \A l \in Ledger : Prefix(l, l)
  BY DEF Prefix, Ledger
<1>2. \A l, m, n \in Ledger : Prefix(l, m) /\ Prefix(m, n) => Prefix(l, n)
  BY DEF Prefix, Ledger
<1>3. \A t : Whole(t) => Prefix(t.prev, t.next)
  BY NextRows, WholeExtends DEF Prefix
<1>4. QED
  BY <1>1, <1>2, <1>3

(* What is installed stays installed, and a marker goes only after that. *)
LEMMA InstalledStep ==
  ASSUME LInv, "signal" \notin Faults, [Next]_vars
  PROVE  InstalledInv'
<1>0. TypeOK /\ InstalledInv /\ SubmitterInv /\ InstallerInv /\ \A c \in Clones : CloneInv(c)
  BY DEF LInv, IInv
<1>t. TypeOK'
  BY InductiveStep DEF LInv, IInv
<1>1. Prefix(remote, remote')
  BY <1>0, RemoteStep, PrefixProperties DEF LInv, TypeOK
<1>2. \A l \in Ledger : Prefix(l, remote) => Prefix(l, remote')
  BY <1>0, <1>t, <1>1, PrefixProperties DEF TypeOK
<1>3. ASSUME NEW d \in Clones, marker'[d] = NoTx
      PROVE  Prefix(local'[d], remote')
  <2>1. CASE marker[d] = NoTx /\ local'[d] = local[d]
    BY <1>0, <1>2, <2>1 DEF InstalledInv, TypeOK
  <2>2. CASE RemoveMarker(d)
    <3>1. local'[d] = tx[d].next /\ Prefix(tx[d].next, remote)
      BY <1>0, <2>2 DEF RemoveMarker, Goto, InstalledInv, CloneInv, Replaced
    <3>2. tx[d].next \in Ledger
      BY <1>0, <2>2, WholeExtends DEF RemoveMarker, Goto, SubmitterInv, HasTx
    <3>3. QED
      BY <1>2, <3>1, <3>2
  <2>3. CASE Calm(d) /\ ~RemoveMarker(d)
    BY <1>3, <2>1, <2>3, TxAssumption DEF Calm
  <2>4. CASE (\E a \in Attempts : Begin(d, a)) \/ Preflight(d) \/ HoldArray(d) \/ WriteProposal(d)
    BY <1>3, <2>1, <2>4 DEF Begin, Preflight, HoldArray, WriteProposal, localVars
  <2>5. CASE Resume(d)
    BY <1>3, <2>5 DEF Resume
  <2>6. CASE FillMarker(d) \/ ReplaceLocal(d)
    <3>1. Whole(tx[d])
      BY <1>0, <2>6 DEF FillMarker, ReplaceLocal, Goto, SubmitterInv, HasTx
    <3>2. marker'[d] = tx[d]
      BY <1>0, <2>6 DEF FillMarker, ReplaceLocal, Goto, CloneInv, TypeOK
    <3>3. QED
      BY <1>3, <3>1, <3>2, TxAssumption DEF Whole
  <2>7. QED
    BY <2>2, <2>3, <2>4, <2>5, <2>6, MostAreCalm
<1>4. ASSUME NEW d \in Clones, pc'[d] \in {"localcheck", "release", "clean"}
      PROVE  Prefix(tx'[d].next, remote')
  <2>1. \/ pc[d] \in {"localcheck", "release", "clean"} /\ tx'[d] = tx[d]
        \/ \E i \in Installers : iowner[i] = d /\ remote = itx[i].next /\ tx' = tx
    <3> USE DEF Goto
    <3>1. ASSUME NEW c \in Clones, Submitter(c)
          PROVE  pc[d] \in {"localcheck", "release", "clean"} /\ tx'[d] = tx[d]
      BY <1>0, <1>4, <3>1 DEF TypeOK, Submitter, Preflight, HoldArray, VerifyHeld, WriteProposal,
         CreateMarker, FillMarker, ReplaceLocal, ReuseStage, StartUpload, FinishUpload,
         StartInstall, LocalCheck, ReleaseArray, RemoveMarker, Finish, Exit
    <3>2. ASSUME NEW c \in Clones,
                 (\E a \in Attempts : Begin(c, a)) \/ Resume(c) \/ Abort(c) \/ Kill(c) \/ ClearLocalLock(c)
          PROVE  pc[d] \in {"localcheck", "release", "clean"} /\ tx'[d] = tx[d]
      BY <1>0, <1>4, <3>2 DEF TypeOK, Begin, Resume, Abort, Kill, Abandon, ClearLocalLock, subVars
    <3>3. ASSUME NEW i \in Installers, InstallVerify(i)
          PROVE  \/ pc[d] \in {"localcheck", "release", "clean"} /\ tx'[d] = tx[d]
                 \/ iowner[i] = d /\ remote = itx[i].next /\ tx' = tx
      BY <1>0, <1>4, <3>3 DEF TypeOK, InstallVerify, ExitTrapped, Answer
    <3>4. ASSUME NEW i \in Installers,
                 InstallCheck(i) \/ InstallLock(i) \/ InstallAlready(i) \/ InstallMatches(i)
                   \/ InstallConflict(i) \/ InstallMove(i) \/ KillInstaller(i)
          PROVE  pc[d] \in {"localcheck", "release", "clean"} /\ tx'[d] = tx[d]
      BY <1>0, <1>4, <3>4 DEF TypeOK, InstallCheck, InstallLock, InstallAlready, InstallMatches,
         InstallConflict, InstallMove, ExitTrapped, Answer, KillInstaller, subVars
    <3>5. ASSUME NEW i \in Installers, SignalInstaller(i)
          PROVE  FALSE
      BY <3>5 DEF SignalInstaller, Fault
    <3>6. CASE ClearRemoteLock \/ UNCHANGED vars
      BY <1>4, <3>6 DEF ClearRemoteLock, vars, subVars
    <3>7. QED
      BY <3>1, <3>2, <3>3, <3>4, <3>5, <3>6 DEF Next, Installer
  <2>2. CASE pc[d] \in {"localcheck", "release", "clean"} /\ tx'[d] = tx[d]
    <3>1. tx[d].next \in Ledger
      BY <1>0, <2>2, WholeExtends DEF SubmitterInv, HasTx
    <3>2. QED
      BY <1>0, <1>2, <2>2, <3>1 DEF InstalledInv
  <2>3. ASSUME NEW i \in Installers, iowner[i] = d, remote = itx[i].next, tx' = tx
        PROVE  Prefix(tx'[d].next, remote')
    BY <1>0, <1>1, <2>3 DEF InstallerInv
  <2>4. QED
    BY <2>1, <2>2, <2>3
<1>5. QED
  BY <1>3, <1>4 DEF InstalledInv, Prefix

-------------------------------------------------------------------------------
(* Theorems. *)

(* Without signals the ledgers keep their inductive invariant. *)
LEMMA LedgerInvariance ==
  ASSUME "signal" \notin Faults
  PROVE  Spec => []LInv
<1>1. Init => LInv
  BY LedgerInit
<1>2. LInv /\ [Next]_vars => LInv'
  BY InductiveStep, CloneStep, NewStep, InstalledStep DEF LInv
<1>3. QED
  BY <1>1, <1>2, PTL DEF Spec

(* The remote ledger names an attempt once and an array once. *)
THEOREM OneArrayPerAttemptHolds ==
  ASSUME "signal" \notin Faults
  PROVE  Spec => []OneArrayPerAttempt
<1>1. LInv => OneArrayPerAttempt
  BY DEF LInv, NewInv, Clean, OneArrayPerAttempt
<1>2. QED
  BY <1>1, LedgerInvariance, PTL

(* A whole pending marker can be taken up again by the same command. *)
THEOREM MarkerIsResumableHolds ==
  ASSUME "signal" \notin Faults
  PROVE  Spec => []MarkerIsResumable
<1>1. LInv => MarkerIsResumable
  BY DEF LInv, IInv, MarkerInv, Whole, CloneInv, MarkerIsResumable
<1>2. QED
  BY <1>1, LedgerInvariance, PTL

(* Without a pending marker, the local ledger is installed. *)
THEOREM SettledLedgerIsInstalledHolds ==
  ASSUME "signal" \notin Faults
  PROVE  Spec => []SettledLedgerIsInstalled
<1>1. LInv => SettledLedgerIsInstalled
  BY DEF LInv, InstalledInv, Prefix, SettledLedgerIsInstalled
<1>2. QED
  BY <1>1, LedgerInvariance, PTL

(* The submission transaction implements SubmissionLedger. *)
THEOREM ImplementsPromiseHolds ==
  ASSUME "signal" \notin Faults
  PROVE  Spec => ImplementsPromise
<1>1. Init => Promise!Init
  BY DEF Init, Promise!Init
<1>2. ASSUME LInv, [Next]_vars
      PROVE  [Promise!Next]_(Promise!vars)
  <2>0. TypeOK /\ NewInv /\ SubmitterInv /\ MarkerInv /\ InstallerInv /\ RecordedBeforeRelease
    BY <1>2 DEF LInv, IInv
  <2>1. ASSUME NEW c \in Clones, HoldArray(c)
        PROVE  Promise!Next
    BY <2>1 DEF HoldArray, remoteVars, Promise!Next, Promise!Allocate
  <2>2. ASSUME NEW c \in Clones, ReleaseArray(c)
        PROVE  [Promise!Next]_(Promise!vars)
    <3>1. /\ New(tx[c]) /\ Whole(tx[c]) /\ tx[c].job \in RecordedJobs(remote)
          /\ array' = [array EXCEPT ![tx[c].job] = "released"] /\ remote' = remote
      BY <2>0, <2>2 DEF ReleaseArray, Goto, NewInv, CloneNew, SubmitterInv, HasTx, remoteVars
    <3>2. PICK j \in Jobs : j = tx[c].job
      BY <3>1, WholeExtends
    <3>3. CASE array[j] = "released"
      BY <2>0, <3>1, <3>2, <3>3 DEF TypeOK, Promise!vars
    <3>4. CASE array[j] = "held"
      BY <3>1, <3>2, <3>4 DEF Promise!Next, Promise!Release, Promise!RecordedJobs,
         Promise!Recorded, RecordedJobs, Recorded
    <3>5. QED
      BY <2>0, <3>1, <3>2, <3>3, <3>4 DEF TypeOK, New
  <2>3. ASSUME NEW i \in Installers, ipc[i] = "move", InstallMove(i), Whole(itx[i]),
               remote = itx[i].prev, remote' = itx[i].next
        PROVE  Promise!Next
    <3>1. New(itx[i]) /\ array' = array
      BY <2>0, <2>3 DEF InstallMove, NewInv, ExitTrapped, Answer
    <3>2. PICK a \in Attempts, j \in Jobs : a = itx[i].attempt /\ j = itx[i].job
      BY <2>3, WholeExtends
    <3>3. j \notin RecordedJobs(remote) /\ a \notin RecordedAttempts(remote)
      BY <2>3, <3>1, <3>2 DEF New
    <3>4. array[j] = "held"
      BY <2>0, <3>1, <3>2, <3>3 DEF New, TypeOK, RecordedBeforeRelease
    <3>5. remote' = Append(remote, [attempt |-> a, job |-> j])
      BY <2>3, <3>2 DEF Whole, RowOf
    <3>6. Promise!Record(a, j)
      BY <3>1, <3>3, <3>4, <3>5 DEF Promise!Record, Promise!RecordedJobs,
         Promise!RecordedAttempts, Promise!Recorded, RecordedJobs, RecordedAttempts, Recorded
    <3>7. QED
      BY <3>6 DEF Promise!Next
  <2>4. ASSUME array' = array
        PROVE  [Promise!Next]_(Promise!vars)
    <3>1. CASE remote' = remote
      BY <2>4, <3>1 DEF Promise!vars
    <3>2. QED
      BY <1>2, <2>3, <3>1, RemoteStep DEF LInv
  <2>5. ASSUME NEW c \in Clones, Submitter(c), ~HoldArray(c), ~ReleaseArray(c)
        PROVE  array' = array
    BY <2>5 DEF Submitter, Preflight, VerifyHeld, WriteProposal, CreateMarker, FillMarker,
       ReplaceLocal, ReuseStage, StartUpload, FinishUpload, StartInstall, LocalCheck,
       RemoveMarker, Finish, Exit
  <2>6. ASSUME NEW c \in Clones,
               (\E a \in Attempts : Begin(c, a)) \/ Resume(c) \/ Abort(c) \/ Kill(c) \/ ClearLocalLock(c)
        PROVE  array' = array
    BY <2>6 DEF Begin, Resume, Abort, Kill, Abandon, ClearLocalLock
  <2>7. ASSUME NEW i \in Installers, Installer(i) \/ KillInstaller(i) \/ SignalInstaller(i)
        PROVE  array' = array
    BY <2>7 DEF Installer, InstallCheck, InstallLock, InstallAlready, InstallMatches, InstallMove,
       InstallConflict, InstallVerify, ExitTrapped, Answer, KillInstaller, SignalInstaller
  <2>8. ASSUME ClearRemoteLock \/ UNCHANGED vars
        PROVE  array' = array
    BY <2>8 DEF ClearRemoteLock, vars
  <2>9. QED
    BY <1>2, <2>1, <2>2, <2>4, <2>5, <2>6, <2>7, <2>8 DEF Next
<1>3. QED
  BY <1>1, <1>2, LedgerInvariance, PTL DEF Spec, ImplementsPromise, Promise!Spec
===============================================================================
